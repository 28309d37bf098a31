------------------------ MODULE PostgresRecorderProofs ------------------------
(***************************************************************************)
(* PostgresRecorder, for any nodes, boards, limits and faults: the events  *)
(* of a node pass queue, batch and table in order and never twice, and     *)
(* what a clear has wiped stays wiped.  On one node without faults it      *)
(* implements Recorder.  The inductive invariant Logged relates what waits *)
(* to the table, to the clears executed and to the Record calls so far.    *)
(***************************************************************************)
EXTENDS PostgresRecorder, FiniteSetTheorems, TLAPS

Ids(s) == {s[i].id : i \in DOMAIN s}

QueuesOK == queue \in [Nodes -> Seq(Event)] /\ batch \in [Nodes -> Seq(Event)] /\ held \in [Nodes -> Seq(Event)]

\* Where the writer is with its batch and its clear.
WriterShape ==
  \A n \in Nodes :
    /\ writer[n] = "select" => held[n] = <<>> /\ Len(batch[n]) < BatchLimit
    /\ writer[n] = "delete" => batch[n] = <<>> /\ held[n] # <<>>
    /\ \A i \in DOMAIN batch[n] : ~batch[n][i].clear
    /\ \A i \in DOMAIN held[n] : held[n][i].clear

\* What waits at a node was recorded there, in this order, and nowhere else.
WaitInOrder ==
  \A n \in Nodes : \A i, j \in DOMAIN Waiting(n) : i < j => Waiting(n)[i].id < Waiting(n)[j].id

WaitOwn ==
  \A n \in Nodes : \A i \in DOMAIN Waiting(n) : Waiting(n)[i].node = n /\ Waiting(n)[i].id <= recorded

WaitApart ==
  \A m, n \in Nodes : m # n => Ids(Waiting(m)) \intersect Ids(Waiting(n)) = {}

\* It comes after all the table has of the node, and after the clears executed.
AfterRows ==
  \A n \in Nodes : \A r \in rows : r.ev.node = n =>
    \A i \in DOMAIN Waiting(n) : r.ev.id < Waiting(n)[i].id

AfterWipes ==
  \A n \in Nodes : \A b \in Boards :
    /\ wiped[n][b] <= recorded
    /\ \A i \in DOMAIN Waiting(n) : wiped[n][b] < Waiting(n)[i].id

RowsInOrder ==
  /\ \A r \in rows : r.ev.id <= recorded /\ r.seq < nextSeq
  /\ \A r, s \in rows : /\ r.ev.node = s.ev.node /\ r.seq < s.seq => r.ev.id < s.ev.id
                        /\ r.seq = s.seq => r = s

\* Every seq was drawn for an event that waits no more.
Gone == (1 .. recorded) \ UNION {Ids(Waiting(n)) : n \in Nodes}
Counted == nextSeq <= Cardinality(Gone) + 1

Logged ==
  /\ TypeOK /\ WriterShape
  /\ WaitInOrder /\ WaitOwn /\ WaitApart
  /\ AfterRows /\ AfterWipes /\ RowsInOrder /\ Counted
  /\ ClearedStaysCleared

-----------------------------------------------------------------------------
(* What waits, by parts. *)

LEMMA Parts ==
  ASSUME NEW S, NEW b \in Seq(S), NEW h \in Seq(S), NEW q \in Seq(S)
  PROVE  /\ b \o h \o q \in Seq(S)
         /\ Len(b) \in Nat /\ Len(h) \in Nat /\ Len(q) \in Nat
         /\ DOMAIN b = 1 .. Len(b) /\ DOMAIN h = 1 .. Len(h) /\ DOMAIN q = 1 .. Len(q)
         /\ Len(b \o h \o q) = Len(b) + Len(h) + Len(q)
         /\ DOMAIN (b \o h \o q) = 1 .. Len(b) + Len(h) + Len(q)
         /\ \A i \in 1 .. Len(b) : (b \o h \o q)[i] = b[i]
         /\ \A i \in 1 .. Len(h) : (b \o h \o q)[Len(b) + i] = h[i]
         /\ \A i \in 1 .. Len(q) : (b \o h \o q)[Len(b) + Len(h) + i] = q[i]
  OBVIOUS

LEMMA AppendedLast ==
  ASSUME NEW S, NEW b \in Seq(S), NEW h \in Seq(S), NEW q \in Seq(S), NEW e \in S
  PROVE  b \o h \o Append(q, e) = Append(b \o h \o q, e)
  OBVIOUS

LEMMA HeadHeld ==
  ASSUME NEW S, NEW b \in Seq(S), NEW q \in Seq(S), q # <<>>
  PROVE  b \o <<Head(q)>> \o Tail(q) = b \o <<>> \o q
  OBVIOUS

LEMMA HeadBatched ==
  ASSUME NEW S, NEW b \in Seq(S), NEW q \in Seq(S), q # <<>>
  PROVE  Append(b, Head(q)) \o <<>> \o Tail(q) = b \o <<>> \o q
  OBVIOUS

LEMMA Regrouped ==
  ASSUME NEW S, NEW b \in Seq(S), NEW h \in Seq(S), NEW q \in Seq(S)
  PROVE  b \o h \o q = b \o (h \o q)
  OBVIOUS

LEMMA NothingBatched ==
  ASSUME NEW S, NEW h \in Seq(S), NEW q \in Seq(S)
  PROVE  <<>> \o h \o q = h \o q
  OBVIOUS

LEMMA NothingHeld ==
  ASSUME NEW S, NEW q \in Seq(S)
  PROVE  <<>> \o <<>> \o q = q
  OBVIOUS

LEMMA Follows ==
  ASSUME NEW S, NEW b \in Seq(S), NEW t \in Seq(S)
  PROVE  /\ Len(b \o t) = Len(b) + Len(t) /\ Len(t) \in Nat /\ Len(b) \in Nat
         /\ DOMAIN t = 1 .. Len(t)
         /\ \A i \in 1 .. Len(t) : t[i] = (b \o t)[Len(b) + i]
         /\ \A i \in 1 .. Len(b) : (b \o t)[i] = b[i]
  OBVIOUS

LEMMA WaitingSeq ==
  ASSUME TypeOK, NEW n \in Nodes
  PROVE  /\ Waiting(n) \in Seq(Event) /\ Len(Waiting(n)) \in Nat
         /\ DOMAIN Waiting(n) = 1 .. Len(Waiting(n))
         /\ \A i \in DOMAIN Waiting(n) : Waiting(n)[i] \in Event
         /\ queue[n] \in Seq(Event) /\ batch[n] \in Seq(Event) /\ held[n] \in Seq(Event)
<1>1. queue[n] \in Seq(Event) /\ batch[n] \in Seq(Event) /\ held[n] \in Seq(Event)
  BY DEF TypeOK
<1>2. Waiting(n) \in Seq(Event)
  BY <1>1, Parts DEF Waiting
<1> HIDE DEF Waiting
<1>3. Len(Waiting(n)) \in Nat /\ DOMAIN Waiting(n) = 1 .. Len(Waiting(n))
      /\ \A i \in DOMAIN Waiting(n) : Waiting(n)[i] \in Event
  BY <1>2
<1> QED BY <1>1, <1>2, <1>3

LEMMA WaitingSeqPrimed ==
  ASSUME QueuesOK', NEW n \in Nodes
  PROVE  /\ Len(Waiting(n)') \in Nat
         /\ DOMAIN (Waiting(n)') = 1 .. Len(Waiting(n)')
         /\ \A i \in DOMAIN (Waiting(n)') : Waiting(n)'[i] \in Event
<1>1. queue'[n] \in Seq(Event) /\ batch'[n] \in Seq(Event) /\ held'[n] \in Seq(Event)
  BY DEF QueuesOK
<1>2. Waiting(n)' \in Seq(Event)
  BY <1>1, Parts DEF Waiting
<1> HIDE DEF Waiting
<1> QED BY <1>2

LEMMA EventParts ==
  ASSUME NEW e \in Event
  PROVE  e.id \in 1 .. MaxRecords /\ e.id \in Nat /\ e.node \in Nodes /\ e.board \in Boards /\ e.clear \in BOOLEAN
BY MaxRecordsNat DEF Event

\* What waits at m is what was waiting there, less some at the front.
Remains(m) ==
  \E k \in Nat : /\ Len(Waiting(m)) = k + Len(Waiting(m)')
                 /\ \A i \in 1 .. Len(Waiting(m)') : Waiting(m)'[i] = Waiting(m)[k + i]

LEMMA RemainsAll ==
  ASSUME TypeOK, NEW m \in Nodes, Waiting(m)' = Waiting(m)
  PROVE  Remains(m)
<1>1. Len(Waiting(m)) \in Nat
  BY WaitingSeq
<1> QED BY <1>1 DEF Remains

-----------------------------------------------------------------------------
(* What each action does to what waits. *)

LEMMA WaitingRecord ==
  ASSUME TypeOK, NEW n \in Nodes, NEW b \in Boards, NEW clear \in BOOLEAN, Record(n, b, clear)
  PROVE  LET ev == [id |-> recorded + 1, node |-> n, board |-> b, clear |-> clear]
         IN  /\ \A m \in Nodes \ {n} : Waiting(m)' = Waiting(m)
             /\ ev \in Event /\ ev.id = recorded + 1 /\ ev.node = n /\ recorded' = recorded + 1
             /\ Waiting(n)' = Append(Waiting(n), ev) \/ Waiting(n)' = Waiting(n)
<1> DEFINE ev == [id |-> recorded + 1, node |-> n, board |-> b, clear |-> clear]
<1>1. ev \in Event
  BY MaxRecordsNat DEF TypeOK, Record, Event
<1>2. \A m \in Nodes : queue'[m] = IF m = n /\ Len(queue[n]) < QueueLimit THEN Append(queue[n], ev) ELSE queue[m]
  BY DEF TypeOK, Record
<1>3. batch' = batch /\ held' = held /\ recorded' = recorded + 1
  BY DEF Record
<1>4. Waiting(n)' = Append(Waiting(n), ev) \/ Waiting(n)' = Waiting(n)
  <2> HIDE DEF ev
  <2>1. CASE Len(queue[n]) < QueueLimit
    <3>1. queue'[n] = Append(queue[n], ev)
      BY <1>2, <2>1
    <3>2. batch[n] \o held[n] \o Append(queue[n], ev) = Append(batch[n] \o held[n] \o queue[n], ev)
      <4> DEFINE b0 == batch[n]
                 h0 == held[n]
                 q0 == queue[n]
      <4>1. b0 \in Seq(Event) /\ h0 \in Seq(Event) /\ q0 \in Seq(Event)
        BY WaitingSeq
      <4> HIDE DEF b0, h0, q0
      <4>2. b0 \o h0 \o Append(q0, ev) = Append(b0 \o h0 \o q0, ev)
        BY <1>1, <4>1, AppendedLast
      <4> QED BY <4>2 DEF b0, h0, q0
    <3> QED BY <1>3, <3>1, <3>2 DEF Waiting
  <2>2. CASE ~ (Len(queue[n]) < QueueLimit)
    BY <1>2, <1>3, <2>2 DEF Waiting
  <2> QED BY <2>1, <2>2
<1>5. \A m \in Nodes \ {n} : Waiting(m)' = Waiting(m)
  BY <1>2, <1>3 DEF Waiting
<1> QED BY <1>1, <1>3, <1>4, <1>5

LEMMA WaitingTakeClear ==
  ASSUME TypeOK, WriterShape, NEW n \in Nodes, TakeClear(n)
  PROVE  \A m \in Nodes : Waiting(m)' = Waiting(m)
<1>1. /\ held[n] = <<>> /\ queue[n] # <<>> /\ batch' = batch
      /\ held'[n] = <<Head(queue[n])>> /\ queue'[n] = Tail(queue[n])
      /\ \A m \in Nodes \ {n} : held'[m] = held[m] /\ queue'[m] = queue[m]
  BY DEF TypeOK, WriterShape, TakeClear
<1>2. batch[n] \o <<>> \o queue[n] = batch[n] \o <<Head(queue[n])>> \o Tail(queue[n])
  BY <1>1, WaitingSeq, HeadHeld
<1> QED BY <1>1, <1>2 DEF Waiting

LEMMA WaitingTakeOp ==
  ASSUME TypeOK, WriterShape, NEW n \in Nodes, TakeOp(n)
  PROVE  \A m \in Nodes : Waiting(m)' = Waiting(m)
<1>1. /\ held[n] = <<>> /\ queue[n] # <<>> /\ held' = held
      /\ batch'[n] = Append(batch[n], Head(queue[n])) /\ queue'[n] = Tail(queue[n])
      /\ \A m \in Nodes \ {n} : batch'[m] = batch[m] /\ queue'[m] = queue[m]
  BY DEF TypeOK, WriterShape, TakeOp
<1>2. batch[n] \o <<>> \o queue[n] = Append(batch[n], Head(queue[n])) \o <<>> \o Tail(queue[n])
  BY <1>1, WaitingSeq, HeadBatched
<1> QED BY <1>1, <1>2 DEF Waiting

LEMMA WaitingInsert ==
  ASSUME TypeOK, NEW n \in Nodes, Insert(n)
  PROVE  /\ \A m \in Nodes \ {n} : Waiting(m)' = Waiting(m)
         /\ Len(Waiting(n)) = Len(batch[n]) + Len(Waiting(n)')
         /\ Len(Waiting(n)') \in Nat /\ DOMAIN (Waiting(n)') = 1 .. Len(Waiting(n)')
         /\ \A i \in 1 .. Len(Waiting(n)') : Waiting(n)'[i] = Waiting(n)[Len(batch[n]) + i]
         /\ \A i \in 1 .. Len(batch[n]) : Waiting(n)[i] = batch[n][i]
<1>1. /\ batch'[n] = <<>> /\ held' = held /\ queue' = queue
      /\ \A m \in Nodes \ {n} : batch'[m] = batch[m]
  BY DEF TypeOK, Insert
<1>2. batch[n] \in Seq(Event) /\ held[n] \in Seq(Event) /\ queue[n] \in Seq(Event)
  BY WaitingSeq
<1> DEFINE t == held[n] \o queue[n]
<1>3. Waiting(n)' = t /\ Waiting(n) = batch[n] \o t /\ t \in Seq(Event)
  <2>1. t \in Seq(Event)
    BY <1>2
  <2>2. batch[n] \o held[n] \o queue[n] = batch[n] \o t
    <3> DEFINE b0 == batch[n]
               h0 == held[n]
               q0 == queue[n]
    <3>1. b0 \in Seq(Event) /\ h0 \in Seq(Event) /\ q0 \in Seq(Event)
      BY <1>2
    <3> HIDE DEF b0, h0, q0
    <3>2. b0 \o h0 \o q0 = b0 \o (h0 \o q0)
      BY <3>1, Regrouped
    <3> QED BY <3>2 DEF b0, h0, q0
  <2>3. <<>> \o held[n] \o queue[n] = t
    BY <1>2, NothingBatched
  <2> QED BY <1>1, <2>1, <2>2, <2>3 DEF Waiting
<1>4. \A m \in Nodes \ {n} : Waiting(m)' = Waiting(m)
  BY <1>1 DEF Waiting
<1> HIDE DEF t
<1>5. /\ Len(batch[n] \o t) = Len(batch[n]) + Len(t) /\ Len(t) \in Nat /\ DOMAIN t = 1 .. Len(t)
      /\ \A i \in 1 .. Len(t) : t[i] = (batch[n] \o t)[Len(batch[n]) + i]
      /\ \A i \in 1 .. Len(batch[n]) : (batch[n] \o t)[i] = batch[n][i]
  BY <1>2, <1>3, Follows
<1> QED BY <1>3, <1>4, <1>5

LEMMA WaitingDelete ==
  ASSUME TypeOK, WriterShape, NEW n \in Nodes, Delete(n)
  PROVE  /\ \A m \in Nodes \ {n} : Waiting(m)' = Waiting(m)
         /\ Len(Waiting(n)) = 1 + Len(Waiting(n)')
         /\ Len(Waiting(n)') \in Nat /\ DOMAIN (Waiting(n)') = 1 .. Len(Waiting(n)')
         /\ \A i \in 1 .. Len(Waiting(n)') : Waiting(n)'[i] = Waiting(n)[1 + i]
         /\ Waiting(n)[1] = held[n][1] /\ held[n][1] \in Event /\ held[n][1].clear
<1>1. /\ batch[n] = <<>> /\ held'[n] = <<>> /\ batch' = batch /\ queue' = queue
      /\ \A m \in Nodes \ {n} : held'[m] = held[m]
      /\ held[n] # <<>> /\ Len(held[n]) <= 1 /\ \A i \in DOMAIN held[n] : held[n][i].clear
  BY DEF TypeOK, WriterShape, Delete
<1>2. held[n] \in Seq(Event) /\ queue[n] \in Seq(Event)
  BY WaitingSeq
<1> DEFINE h == held[n]
           q == queue[n]
<1>3. Waiting(n) = h \o q /\ Waiting(n)' = q
  <2>1. <<>> \o h \o q = h \o q
    BY <1>2, NothingBatched
  <2>2. <<>> \o <<>> \o q = q
    BY <1>2, NothingHeld
  <2> QED BY <1>1, <2>1, <2>2 DEF Waiting
<1>4. \A m \in Nodes \ {n} : Waiting(m)' = Waiting(m)
  BY <1>1 DEF Waiting
<1>5. h \in Seq(Event) /\ q \in Seq(Event) /\ h # <<>> /\ Len(h) <= 1 /\ \A i \in DOMAIN h : h[i].clear
  BY <1>1, <1>2
<1> HIDE DEF h, q
<1>6. Len(h) = 1 /\ 1 \in DOMAIN h /\ h[1] \in Event
  <2>1. Len(h) \in Nat /\ Len(h) # 0 /\ DOMAIN h = 1 .. Len(h)
    BY <1>5
  <2>2. Len(h) = 1 /\ 1 \in DOMAIN h
    BY <1>5, <2>1
  <2> QED BY <1>5, <2>2
<1>7. /\ Len(h \o q) = Len(h) + Len(q) /\ Len(q) \in Nat /\ DOMAIN q = 1 .. Len(q)
      /\ \A i \in 1 .. Len(q) : q[i] = (h \o q)[Len(h) + i]
      /\ \A i \in 1 .. Len(h) : (h \o q)[i] = h[i]
  BY <1>5, Follows
<1>8. (h \o q)[1] = h[1]
  BY <1>6, <1>7
<1>9. /\ Len(Waiting(n)) = 1 + Len(q) /\ Waiting(n)[1] = h[1]
      /\ \A i \in 1 .. Len(q) : q[i] = Waiting(n)[1 + i]
  BY <1>3, <1>6, <1>7, <1>8
<1>10. h[1].clear
  BY <1>5, <1>6
<1>11. h = held[n]
  BY DEF h
<1> QED BY <1>3, <1>4, <1>6, <1>7, <1>9, <1>10, <1>11

LEMMA WaitingCrash ==
  ASSUME TypeOK, NEW n \in Nodes, Crash(n)
  PROVE  Waiting(n)' = <<>> /\ \A m \in Nodes \ {n} : Waiting(m)' = Waiting(m)
<1>1. /\ batch'[n] = <<>> /\ held'[n] = <<>> /\ queue'[n] = <<>>
      /\ \A m \in Nodes \ {n} : batch'[m] = batch[m] /\ held'[m] = held[m] /\ queue'[m] = queue[m]
  BY DEF TypeOK, Crash
<1>2. <<>> \o <<>> \o <<>> = <<>>
  OBVIOUS
<1> QED BY <1>1, <1>2 DEF Waiting

\* All actions but Record: what waits afterwards was waiting before.
LEMMA WaitingRemains ==
  ASSUME TypeOK, WriterShape, NEW n \in Nodes, Writer(n) \/ Crash(n), NEW m \in Nodes
  PROVE  Remains(m)
<1>1. CASE TakeClear(n) \/ TakeOp(n)
  BY <1>1, WaitingTakeClear, WaitingTakeOp, RemainsAll
<1>2. CASE Tick(n)
  BY <1>2, RemainsAll DEF Tick, Waiting
<1>3. CASE Insert(n)
  <2>1. Len(batch[n]) \in Nat
    BY WaitingSeq
  <2>2. CASE m = n
    BY <1>3, <2>1, <2>2, WaitingInsert DEF Remains
  <2>3. CASE m # n
    BY <1>3, <2>3, WaitingInsert, RemainsAll
  <2> QED BY <2>2, <2>3
<1>4. CASE Delete(n)
  <2>2. CASE m = n
    BY <1>4, <2>2, WaitingDelete DEF Remains
  <2>3. CASE m # n
    BY <1>4, <2>3, WaitingDelete, RemainsAll
  <2> QED BY <2>2, <2>3
<1>5. CASE Crash(n)
  <2>1. CASE m = n
    <3>1. Len(Waiting(n)) \in Nat /\ Waiting(n)' = <<>> /\ Len(Waiting(n)') = 0
      BY <1>5, WaitingCrash, WaitingSeq
    <3>2. 1 .. Len(Waiting(n)') = {} /\ Len(Waiting(n)) = Len(Waiting(n)) + Len(Waiting(n)')
      BY <3>1
    <3> QED BY <2>1, <3>1, <3>2 DEF Remains
  <2>2. CASE m # n
    BY <1>5, <2>2, WaitingCrash, RemainsAll
  <2> QED BY <2>1, <2>2
<1> QED BY <1>1, <1>2, <1>3, <1>4, <1>5 DEF Writer

-----------------------------------------------------------------------------
(* Counting: a seq is drawn for an event only when it stops waiting. *)

\* A list without repetitions is as long as the set of its elements is large.
LEMMA Enumerated ==
  ASSUME NEW n \in Nat, NEW S, NEW f \in [1 .. n -> S],
         \A x \in S : \E i \in 1 .. n : f[i] = x,
         \A i, j \in 1 .. n : f[i] = f[j] => i = j
  PROVE  IsFiniteSet(S) /\ Cardinality(S) = n
<1>1. f \in Bijection(1 .. n, S)
  BY DEF Bijection, Injection, Surjection, IsInjective
<1>2. ExistsBijection(1 .. n, S)
  BY <1>1 DEF ExistsBijection
<1> QED BY <1>2, FS_NatBijection, FS_CountingElements

LEMMA GoneFinite ==
  ASSUME TypeOK
  PROVE  IsFiniteSet(Gone) /\ Cardinality(Gone) \in Nat /\ Cardinality(Gone) <= recorded
<1>1. recorded \in Nat /\ Gone \in SUBSET (1 .. recorded)
  BY MaxRecordsNat DEF TypeOK, Gone
<1>2. IsFiniteSet(1 .. recorded) /\ Cardinality(1 .. recorded) = recorded
  BY <1>1, FS_Interval
<1> QED BY <1>1, <1>2, FS_Subset, FS_CardinalityType

LEMMA IdsOfWaiting ==
  ASSUME TypeOK, NEW n \in Nodes
  PROVE  \A x : x \in Ids(Waiting(n)) <=> \E i \in 1 .. Len(Waiting(n)) : x = Waiting(n)[i].id
BY WaitingSeq DEF Ids

LEMMA RemainingIds ==
  ASSUME TypeOK, QueuesOK', NEW m \in Nodes, Remains(m)
  PROVE  Ids(Waiting(m)') \subseteq Ids(Waiting(m))
<1>1. PICK k \in Nat : /\ Len(Waiting(m)) = k + Len(Waiting(m)')
                      /\ \A i \in 1 .. Len(Waiting(m)') : Waiting(m)'[i] = Waiting(m)[k + i]
  BY DEF Remains
<1>2. /\ DOMAIN Waiting(m) = 1 .. Len(Waiting(m)) /\ Len(Waiting(m)) \in Nat
      /\ DOMAIN (Waiting(m)') = 1 .. Len(Waiting(m)') /\ Len(Waiting(m)') \in Nat
  <2>1. DOMAIN (Waiting(m)') = 1 .. Len(Waiting(m)') /\ Len(Waiting(m)') \in Nat
    BY WaitingSeqPrimed
  <2> QED BY <2>1, WaitingSeq
<1>3. ASSUME NEW i \in 1 .. Len(Waiting(m)')
      PROVE  k + i \in 1 .. Len(Waiting(m)) /\ Waiting(m)'[i].id = Waiting(m)[k + i].id
  BY <1>1, <1>2
<1> QED BY <1>2, <1>3 DEF Ids

LEMMA GoneGrows ==
  ASSUME TypeOK, QueuesOK', recorded' = recorded, \A m \in Nodes : Remains(m)
  PROVE  Gone \subseteq Gone' /\ Cardinality(Gone) <= Cardinality(Gone')
<1>1. \A m \in Nodes : Ids(Waiting(m)') \subseteq Ids(Waiting(m))
  BY RemainingIds
<1>2. Gone \subseteq Gone'
  <2>1. Gone' = (1 .. recorded) \ UNION {Ids(Waiting(n)') : n \in Nodes}
    BY DEF Gone, Ids
  <2> QED BY <1>1, <2>1 DEF Gone
<1>3. IsFiniteSet(Gone')
  <2>1. recorded \in Nat /\ Gone' \subseteq 1 .. recorded
    BY MaxRecordsNat DEF TypeOK, Gone
  <2>2. IsFiniteSet(1 .. recorded)
    BY <2>1, FS_Interval
  <2> QED BY <2>1, <2>2, FS_Subset
<1> QED BY <1>2, <1>3, FS_Subset

\* The events of a batch that is inserted are gone, and were not before.
LEMMA GoneByBatch ==
  ASSUME TypeOK, QueuesOK', WaitInOrder, WaitOwn, WaitApart, NEW n \in Nodes, Insert(n)
  PROVE  Cardinality(Gone) + Len(batch[n]) <= Cardinality(Gone')
<1> DEFINE B == Ids(batch[n])
           L == Len(batch[n])
<1>1. /\ \A m \in Nodes \ {n} : Waiting(m)' = Waiting(m)
      /\ Len(Waiting(n)) = L + Len(Waiting(n)') /\ Len(Waiting(n)') \in Nat
      /\ DOMAIN (Waiting(n)') = 1 .. Len(Waiting(n)')
      /\ \A i \in 1 .. Len(Waiting(n)') : Waiting(n)'[i] = Waiting(n)[L + i]
      /\ \A i \in 1 .. L : Waiting(n)[i] = batch[n][i]
  BY WaitingInsert
<1>2. /\ batch[n] \in Seq(Event) /\ L \in Nat /\ DOMAIN batch[n] = 1 .. L
      /\ DOMAIN Waiting(n) = 1 .. Len(Waiting(n)) /\ Len(Waiting(n)) \in Nat
  BY WaitingSeq
<1> HIDE DEF L
<1>3. \A i \in 1 .. L : batch[n][i].id \in Ids(Waiting(n)) /\ batch[n][i].id \in 1 .. recorded
  <2> SUFFICES ASSUME NEW i \in 1 .. L
               PROVE  batch[n][i].id \in Ids(Waiting(n)) /\ batch[n][i].id \in 1 .. recorded
    OBVIOUS
  <2>1. i \in DOMAIN Waiting(n) /\ Waiting(n)[i] = batch[n][i]
    BY <1>1, <1>2
  <2>2. Waiting(n)[i].id <= recorded /\ Waiting(n)[i].id \in 1 .. MaxRecords
    BY <2>1, WaitingSeq, EventParts DEF WaitOwn
  <2> QED BY <2>1, <2>2, MaxRecordsNat DEF Ids, TypeOK
<1>4. \A i, j \in 1 .. L : i < j => batch[n][i].id < batch[n][j].id
  <2> SUFFICES ASSUME NEW i \in 1 .. L, NEW j \in 1 .. L, i < j
               PROVE  batch[n][i].id < batch[n][j].id
    OBVIOUS
  <2>1. i \in DOMAIN Waiting(n) /\ j \in DOMAIN Waiting(n)
    BY <1>1, <1>2
  <2>2. Waiting(n)[i].id < Waiting(n)[j].id
    BY <2>1 DEF WaitInOrder
  <2> QED BY <2>2, <1>1
<1>5. IsFiniteSet(B) /\ Cardinality(B) = L
  <2> DEFINE f == [i \in 1 .. L |-> batch[n][i].id]
  <2>1. f \in [1 .. L -> B] /\ \A x \in B : \E i \in 1 .. L : f[i] = x
    BY <1>2 DEF Ids
  <2>2. ASSUME NEW i \in 1 .. L, NEW j \in 1 .. L, f[i] = f[j]
        PROVE  i = j
    <3>1. batch[n][i].id = batch[n][j].id /\ batch[n][i].id \in Nat
      BY <2>2, <1>2, EventParts
    <3>2. ~ (i < j) /\ ~ (j < i)
      BY <3>1, <1>4
    <3> QED BY <3>2, <1>2
  <2> HIDE DEF f, B
  <2> QED BY <2>1, <2>2, <1>2, Enumerated
<1>6. B \subseteq Gone'
  <2> SUFFICES ASSUME NEW i \in 1 .. L, NEW m \in Nodes, batch[n][i].id \in Ids(Waiting(m)')
               PROVE  FALSE
    <3>1. Gone' = (1 .. recorded) \ UNION {Ids(Waiting(m)') : m \in Nodes}
      BY DEF Gone, Ids, Insert
    <3> QED BY <1>2, <1>3, <3>1 DEF Ids
  <2>1. CASE m = n
    <3>1. PICK j \in 1 .. Len(Waiting(n)') : Waiting(n)'[j].id = batch[n][i].id
      BY <2>1, <1>1 DEF Ids
    <3>2. L + j \in DOMAIN Waiting(n) /\ i \in DOMAIN Waiting(n) /\ i < L + j
      BY <1>1, <1>2
    <3>3. Waiting(n)[i].id < Waiting(n)[L + j].id
      BY <3>2 DEF WaitInOrder
    <3>4. Waiting(n)[i].id = Waiting(n)[L + j].id
      BY <3>1, <1>1
    <3>5. Waiting(n)[i].id \in Nat
      BY <3>2, WaitingSeq, EventParts
    <3> QED BY <3>3, <3>4, <3>5
  <2>2. CASE m # n
    <3>1. Ids(Waiting(m)') = Ids(Waiting(m))
      BY <2>2, <1>1
    <3> QED BY <2>2, <3>1, <1>3 DEF WaitApart
  <2> QED BY <2>1, <2>2
<1>7. B \intersect Gone = {}
  BY <1>2, <1>3 DEF Gone, Ids
<1>8. Gone \subseteq Gone' /\ IsFiniteSet(Gone')
  <2>1. recorded' = recorded /\ \A m \in Nodes : Remains(m)
    <3>1. \A m \in Nodes : m # n => Remains(m)
      BY <1>1, RemainsAll
    <3>2. Remains(n)
      BY <1>1, <1>2 DEF Remains
    <3> QED BY <3>1, <3>2 DEF Insert
  <2>2. Gone \subseteq Gone'
    BY <2>1, GoneGrows
  <2>3. recorded \in Nat /\ Gone' \subseteq 1 .. recorded
    BY <2>1, MaxRecordsNat DEF TypeOK, Gone
  <2>4. IsFiniteSet(1 .. recorded)
    BY <2>3, FS_Interval
  <2>5. IsFiniteSet(Gone')
    BY <2>3, <2>4, FS_Subset
  <2> QED BY <2>2, <2>5
<1>9. /\ IsFiniteSet(Gone \union B)
      /\ Cardinality(Gone \union B) = Cardinality(Gone) + Cardinality(B)
  <2>1. Cardinality(Gone \intersect B) = 0
    <3>1. Gone \intersect B = {}
      BY <1>7
    <3> QED BY <3>1, FS_EmptySet
  <2>2. IsFiniteSet(Gone) /\ Cardinality(Gone) \in Nat
    BY GoneFinite
  <2> HIDE DEF B
  <2>3. /\ IsFiniteSet(Gone \union B)
        /\ Cardinality(Gone \union B) = Cardinality(Gone) + Cardinality(B) - Cardinality(Gone \intersect B)
    BY <2>2, <1>5, FS_Union
  <2> QED BY <2>1, <2>2, <2>3, <1>2, <1>5
<1>10. Cardinality(Gone \union B) <= Cardinality(Gone')
  <2>1. (Gone \union B) \in SUBSET Gone'
    BY <1>6, <1>8
  <2> QED BY <2>1, <1>8, FS_Subset
<1> QED BY <1>5, <1>9, <1>10, <1>2, GoneFinite DEF L

-----------------------------------------------------------------------------
(* Shape of the state and of the writer. *)

\* TypeOK without the table: its seq are bounded by what is counted.
Shapes ==
  /\ QueuesOK
  /\ \A n \in Nodes : /\ Len(queue[n]) <= QueueLimit
                      /\ Len(batch[n]) <= BatchLimit
                      /\ Len(held[n]) <= 1
  /\ writer \in [Nodes -> {"select", "insert", "delete"}]
  /\ recorded \in 0 .. MaxRecords
  /\ wiped \in [Nodes -> [Boards -> 0 .. MaxRecords]]

LEMMA ShapesRecord ==
  ASSUME TypeOK, NEW n \in Nodes, NEW b \in Boards, NEW clear \in BOOLEAN, Record(n, b, clear)
  PROVE  Shapes'
<1> DEFINE ev == [id |-> recorded + 1, node |-> n, board |-> b, clear |-> clear]
<1>1. ev \in Event /\ recorded' \in 0 .. MaxRecords
  BY MaxRecordsNat DEF TypeOK, Record, Event
<1>2. /\ queue' = IF Len(queue[n]) < QueueLimit THEN [queue EXCEPT ![n] = Append(@, ev)] ELSE queue
      /\ batch' = batch /\ held' = held /\ writer' = writer /\ wiped' = wiped
  BY DEF Record
<1> HIDE DEF ev
<1>3. queue' \in [Nodes -> Seq(Event)] /\ \A m \in Nodes : Len(queue'[m]) <= QueueLimit
  <2>1. CASE Len(queue[n]) < QueueLimit
    <3>1. queue[n] \in Seq(Event) /\ queue \in [Nodes -> Seq(Event)]
      BY DEF TypeOK
    <3>2. Append(queue[n], ev) \in Seq(Event) /\ Len(Append(queue[n], ev)) = Len(queue[n]) + 1 /\ Len(queue[n]) \in Nat
      BY <1>1, <3>1
    <3>3. \A m \in Nodes : queue'[m] = IF m = n THEN Append(queue[n], ev) ELSE queue[m]
      BY <1>2, <2>1, <3>1
    <3>4. queue' = [m \in Nodes |-> IF m = n THEN Append(queue[n], ev) ELSE queue[m]]
      BY <1>2, <2>1, <3>1
    <3>5. ASSUME NEW m \in Nodes
          PROVE  Len(queue'[m]) <= QueueLimit
      <4>1. CASE m = n
        <5>1. queue'[m] = Append(queue[n], ev)
          BY <4>1, <3>3
        <5>2. Len(queue'[m]) = Len(queue[n]) + 1
          BY <5>1, <3>2
        <5> QED BY <5>2, <2>1, <3>2, LimitsPositive
      <4>2. CASE m # n
        BY <4>2, <3>3 DEF TypeOK
      <4> QED BY <4>1, <4>2
    <3> QED BY <3>1, <3>2, <3>4, <3>5
  <2>2. CASE ~ (Len(queue[n]) < QueueLimit)
    BY <1>2, <2>2 DEF TypeOK
  <2> QED BY <2>1, <2>2
<1> QED BY <1>1, <1>2, <1>3 DEF Shapes, QueuesOK, TypeOK

\* A clear that was executed is remembered for its node and board alone.
LEMMA WipedAt ==
  ASSUME NEW w \in [Nodes -> [Boards -> 0 .. MaxRecords]], NEW n \in Nodes, NEW b \in Boards,
         NEW x \in 0 .. MaxRecords
  PROVE  /\ [w EXCEPT ![n][b] = x] \in [Nodes -> [Boards -> 0 .. MaxRecords]]
         /\ \A m \in Nodes, c \in Boards :
              [w EXCEPT ![n][b] = x][m][c] = IF m = n /\ c = b THEN x ELSE w[m][c]
<1>1. [w EXCEPT ![n][b] = x] = [w EXCEPT ![n] = [w[n] EXCEPT ![b] = x]]
  OBVIOUS
<1>2. w[n] \in [Boards -> 0 .. MaxRecords] /\ [w[n] EXCEPT ![b] = x] \in [Boards -> 0 .. MaxRecords]
  OBVIOUS
<1> QED BY <1>1, <1>2

LEMMA ShapesWriter ==
  ASSUME TypeOK, WriterShape, NEW n \in Nodes, Writer(n) \/ Crash(n)
  PROVE  Shapes'
<1>1. /\ QueuesOK /\ batch[n] \in Seq(Event) /\ queue[n] \in Seq(Event) /\ held[n] \in Seq(Event)
      /\ Len(batch[n]) \in Nat /\ Len(queue[n]) \in Nat
      /\ <<>> \in Seq(Event) /\ Len(<<>>) = 0
  BY DEF TypeOK, QueuesOK
<1>2. ASSUME queue[n] # <<>>
      PROVE  /\ Head(queue[n]) \in Event /\ Tail(queue[n]) \in Seq(Event) /\ Len(Tail(queue[n])) = Len(queue[n]) - 1
             /\ <<Head(queue[n])>> \in Seq(Event) /\ Len(<<Head(queue[n])>>) = 1
             /\ Append(batch[n], Head(queue[n])) \in Seq(Event)
             /\ Len(Append(batch[n], Head(queue[n]))) = Len(batch[n]) + 1
  BY <1>1, <1>2
<1>3. CASE TakeClear(n)
  BY <1>1, <1>2, <1>3, LimitsPositive DEF TypeOK, Shapes, QueuesOK, TakeClear
<1>4. CASE TakeOp(n)
  <2>1. Len(batch[n]) + 1 <= BatchLimit
    BY <1>1, <1>4, LimitsPositive DEF WriterShape, TakeOp
  <2> QED BY <1>1, <1>2, <1>4, <2>1, LimitsPositive DEF TypeOK, Shapes, QueuesOK, TakeOp
<1>5. CASE Tick(n)
  BY <1>5 DEF TypeOK, Shapes, QueuesOK, Tick
<1>6. CASE Insert(n)
  BY <1>1, <1>6, LimitsPositive DEF TypeOK, Shapes, QueuesOK, Insert
<1>7. CASE Delete(n)
  <2>1. /\ queue' = queue /\ batch' = batch /\ held' = [held EXCEPT ![n] = <<>>]
        /\ writer' = [writer EXCEPT ![n] = "select"] /\ recorded' = recorded
        /\ wiped' = [wiped EXCEPT ![n][held[n][1].board] = held[n][1].id] \/ wiped' = wiped
    BY <1>7 DEF Delete
  <2>2. held[n][1].id \in 0 .. MaxRecords /\ held[n][1].board \in Boards
    BY <1>7, WaitingDelete, EventParts, MaxRecordsNat
  <2>3. wiped' \in [Nodes -> [Boards -> 0 .. MaxRecords]]
    <3> DEFINE b == held[n][1].board
               x == held[n][1].id
    <3>1. wiped \in [Nodes -> [Boards -> 0 .. MaxRecords]] /\ b \in Boards /\ x \in 0 .. MaxRecords
      BY <2>2 DEF TypeOK
    <3>2. wiped' = [wiped EXCEPT ![n][b] = x] \/ wiped' = wiped
      BY <2>1
    <3> HIDE DEF b, x
    <3>3. [wiped EXCEPT ![n][b] = x] \in [Nodes -> [Boards -> 0 .. MaxRecords]]
      BY <3>1, WipedAt
    <3> QED BY <3>1, <3>2, <3>3
  <2>4. held' \in [Nodes -> Seq(Event)] /\ \A m \in Nodes : Len(held'[m]) <= 1
    BY <1>1, <2>1 DEF TypeOK
  <2>5. writer' \in [Nodes -> {"select", "insert", "delete"}]
    BY <2>1 DEF TypeOK
  <2> QED BY <2>1, <2>3, <2>4, <2>5 DEF TypeOK, Shapes, QueuesOK
<1>8. CASE Crash(n)
  BY <1>1, <1>8, LimitsPositive DEF TypeOK, Shapes, QueuesOK, Crash
<1> QED BY <1>3, <1>4, <1>5, <1>6, <1>7, <1>8 DEF Writer

LEMMA WriterShapeNext ==
  ASSUME TypeOK, WriterShape, Next
  PROVE  WriterShape'
<1>1. PICK n \in Nodes : (\E b \in Boards, clear \in BOOLEAN : Record(n, b, clear)) \/ Writer(n) \/ Crash(n)
  BY DEF Next
<1>2. /\ batch[n] \in Seq(Event) /\ queue[n] \in Seq(Event) /\ Len(<<>>) = 0 /\ 0 < BatchLimit
      /\ Len(batch[n]) \in Nat /\ BatchLimit \in Nat
  BY LimitsPositive DEF TypeOK
<1>3. CASE \E b \in Boards, clear \in BOOLEAN : Record(n, b, clear)
  BY <1>3 DEF Record, WriterShape
<1>4. CASE TakeClear(n)
  <2>1. \A i \in DOMAIN <<Head(queue[n])>> : <<Head(queue[n])>>[i].clear
    BY <1>4 DEF TakeClear
  <2>2. /\ batch' = batch /\ held'[n] = <<Head(queue[n])>> /\ held'[n] # <<>>
        /\ writer'[n] = IF batch[n] = <<>> THEN "delete" ELSE "insert"
        /\ \A m \in Nodes \ {n} : held'[m] = held[m] /\ writer'[m] = writer[m]
    BY <1>4 DEF TypeOK, TakeClear
  <2> QED BY <2>1, <2>2 DEF WriterShape
<1>5. CASE TakeOp(n)
  <2> DEFINE next == Append(batch[n], Head(queue[n]))
  <2>1. /\ Len(next) = Len(batch[n]) + 1 /\ DOMAIN next = 1 .. Len(batch[n]) + 1 /\ DOMAIN batch[n] = 1 .. Len(batch[n])
        /\ \A i \in 1 .. Len(batch[n]) : next[i] = batch[n][i]
        /\ next[Len(batch[n]) + 1] = Head(queue[n])
    BY <1>2
  <2>2. \A i \in DOMAIN next : ~next[i].clear
    <3> SUFFICES ASSUME NEW i \in DOMAIN next
                 PROVE  ~next[i].clear
      OBVIOUS
    <3>1. CASE i \in 1 .. Len(batch[n])
      BY <2>1, <3>1 DEF WriterShape
    <3>2. CASE i = Len(batch[n]) + 1
      BY <2>1, <3>2, <1>5 DEF TakeOp
    <3> QED BY <2>1, <3>1, <3>2, <1>2
  <2>3. /\ batch' = [batch EXCEPT ![n] = next] /\ held' = held /\ writer[n] = "select"
        /\ writer' = [writer EXCEPT ![n] = IF Len(batch[n]) + 1 >= BatchLimit THEN "insert" ELSE @]
    BY <1>5 DEF TakeOp
  <2> HIDE DEF next
  <2>4. /\ batch'[n] = next /\ \A m \in Nodes \ {n} : batch'[m] = batch[m] /\ writer'[m] = writer[m]
        /\ writer'[n] = IF Len(batch[n]) + 1 >= BatchLimit THEN "insert" ELSE "select"
    BY <2>3 DEF TypeOK
  <2>5. /\ writer'[n] = "select" => held'[n] = <<>> /\ Len(batch'[n]) < BatchLimit
        /\ writer'[n] # "delete"
    BY <2>1, <2>3, <2>4, <1>2 DEF WriterShape
  <2> QED BY <2>2, <2>3, <2>4, <2>5 DEF WriterShape
<1>6. CASE Tick(n)
  BY <1>6 DEF TypeOK, WriterShape, Tick
<1>7. CASE Insert(n)
  BY <1>2, <1>7 DEF TypeOK, WriterShape, Insert
<1>8. CASE Delete(n)
  BY <1>2, <1>8 DEF TypeOK, WriterShape, Delete
<1>9. CASE Crash(n)
  BY <1>2, <1>9 DEF TypeOK, WriterShape, Crash
<1> QED BY <1>1, <1>3, <1>4, <1>5, <1>6, <1>7, <1>8, <1>9 DEF Writer

-----------------------------------------------------------------------------
(* Order: while events only leave the front, and when Record adds one. *)

LEMMA RemainingAt ==
  ASSUME TypeOK, QueuesOK', NEW m \in Nodes, Remains(m)
  PROVE  \E k \in Nat : \A i \in DOMAIN (Waiting(m)') :
           /\ i \in Nat /\ k + i \in DOMAIN Waiting(m)
           /\ Waiting(m)'[i] = Waiting(m)[k + i]
<1>1. PICK k \in Nat : /\ Len(Waiting(m)) = k + Len(Waiting(m)')
                      /\ \A i \in 1 .. Len(Waiting(m)') : Waiting(m)'[i] = Waiting(m)[k + i]
  BY DEF Remains
<1>2. DOMAIN (Waiting(m)') = 1 .. Len(Waiting(m)') /\ Len(Waiting(m)') \in Nat
  BY WaitingSeqPrimed
<1>3. DOMAIN Waiting(m) = 1 .. Len(Waiting(m))
  BY WaitingSeq
<1>4. ASSUME NEW i \in DOMAIN (Waiting(m)')
      PROVE  i \in Nat /\ k + i \in DOMAIN Waiting(m) /\ Waiting(m)'[i] = Waiting(m)[k + i]
  BY <1>1, <1>2, <1>3
<1> QED BY <1>4

LEMMA OrderRemains ==
  ASSUME TypeOK, QueuesOK', \A m \in Nodes : Remains(m), recorded' = recorded,
         WaitInOrder, WaitOwn, WaitApart
  PROVE  WaitInOrder' /\ WaitOwn' /\ WaitApart'
<1>1. WaitInOrder'
  <2> SUFFICES ASSUME NEW n \in Nodes, NEW i \in DOMAIN (Waiting(n)'), NEW j \in DOMAIN (Waiting(n)'), i < j
               PROVE  Waiting(n)'[i].id < Waiting(n)'[j].id
    BY DEF WaitInOrder
  <2>1. PICK k \in Nat : \A l \in DOMAIN (Waiting(n)') :
          l \in Nat /\ k + l \in DOMAIN Waiting(n) /\ Waiting(n)'[l] = Waiting(n)[k + l]
    BY RemainingAt
  <2>2. k + i < k + j /\ k + i \in DOMAIN Waiting(n) /\ k + j \in DOMAIN Waiting(n)
    BY <2>1
  <2>3. Waiting(n)[k + i].id < Waiting(n)[k + j].id
    BY <2>2 DEF WaitInOrder
  <2> QED BY <2>1, <2>3
<1>2. WaitOwn'
  <2> SUFFICES ASSUME NEW n \in Nodes, NEW i \in DOMAIN (Waiting(n)')
               PROVE  Waiting(n)'[i].node = n /\ Waiting(n)'[i].id <= recorded'
    BY DEF WaitOwn
  <2>1. PICK k \in Nat : \A l \in DOMAIN (Waiting(n)') :
          l \in Nat /\ k + l \in DOMAIN Waiting(n) /\ Waiting(n)'[l] = Waiting(n)[k + l]
    BY RemainingAt
  <2> QED BY <2>1 DEF WaitOwn
<1>3. WaitApart'
  <2>1. \A m \in Nodes : Ids(Waiting(m)') \subseteq Ids(Waiting(m))
    BY RemainingIds
  <2>2. \A m \in Nodes : Ids(Waiting(m))' = Ids(Waiting(m)')
    BY DEF Ids
  <2> QED BY <2>1, <2>2 DEF WaitApart
<1> QED BY <1>1, <1>2, <1>3

\* What is still there of the table, against what still waits.
LEMMA AfterRemains ==
  ASSUME TypeOK, QueuesOK', \A m \in Nodes : Remains(m), rows' \subseteq rows, AfterRows
  PROVE  AfterRows'
<1> SUFFICES ASSUME NEW n \in Nodes, NEW r \in rows', r.ev.node = n, NEW i \in DOMAIN (Waiting(n)')
             PROVE  r.ev.id < Waiting(n)'[i].id
  BY DEF AfterRows
<1>1. PICK k \in Nat : \A l \in DOMAIN (Waiting(n)') :
        l \in Nat /\ k + l \in DOMAIN Waiting(n) /\ Waiting(n)'[l] = Waiting(n)[k + l]
  BY RemainingAt
<1> QED BY <1>1 DEF AfterRows

LEMMA WipesRemain ==
  ASSUME TypeOK, QueuesOK', \A m \in Nodes : Remains(m), wiped' = wiped, recorded' = recorded, AfterWipes
  PROVE  AfterWipes'
<1>1. ASSUME NEW n \in Nodes, NEW b \in Boards, NEW i \in DOMAIN (Waiting(n)')
      PROVE  wiped'[n][b] < Waiting(n)'[i].id
  <2>1. PICK k \in Nat : \A l \in DOMAIN (Waiting(n)') :
          l \in Nat /\ k + l \in DOMAIN Waiting(n) /\ Waiting(n)'[l] = Waiting(n)[k + l]
    BY RemainingAt
  <2> QED BY <2>1 DEF AfterWipes
<1> QED BY <1>1 DEF AfterWipes

\* A Record call: what waits is as before, or has the youngest id behind it.
LEMMA RecordAt ==
  ASSUME TypeOK, NEW n \in Nodes, NEW b \in Boards, NEW clear \in BOOLEAN, Record(n, b, clear),
         NEW m \in Nodes, NEW i \in DOMAIN (Waiting(m)')
  PROVE  \/ i \in DOMAIN Waiting(m) /\ Waiting(m)'[i] = Waiting(m)[i]
         \/ /\ m = n /\ i = Len(Waiting(n)) + 1
            /\ Waiting(m)'[i].id = recorded + 1 /\ Waiting(m)'[i].node = n
<1> DEFINE ev == [id |-> recorded + 1, node |-> n, board |-> b, clear |-> clear]
           w == Waiting(n)
<1>1. /\ \A l \in Nodes \ {n} : Waiting(l)' = Waiting(l)
      /\ ev \in Event /\ ev.id = recorded + 1 /\ ev.node = n
      /\ Waiting(n)' = Append(w, ev) \/ Waiting(n)' = w
  BY WaitingRecord
<1>2. w \in Seq(Event) /\ DOMAIN w = 1 .. Len(w) /\ Len(w) \in Nat
  BY WaitingSeq
<1> HIDE DEF ev
<1>3. CASE Waiting(m)' = Waiting(m)
  BY <1>3
<1>4. CASE m = n /\ Waiting(n)' = Append(w, ev)
  <2>1. w = Waiting(m)
    BY <1>4
  <2> HIDE DEF w
  <2>2. /\ DOMAIN Append(w, ev) = 1 .. Len(w) + 1 /\ Append(w, ev)[Len(w) + 1] = ev
        /\ \A l \in 1 .. Len(w) : Append(w, ev)[l] = w[l]
    BY <1>1, <1>2
  <2>3. i \in 1 .. Len(w) \/ i = Len(w) + 1
    BY <1>2, <1>4, <2>2
  <2>4. CASE i \in 1 .. Len(w)
    BY <1>2, <1>4, <2>1, <2>2, <2>4
  <2>5. CASE i = Len(w) + 1
    BY <1>1, <1>4, <2>1, <2>2, <2>5
  <2> QED BY <2>3, <2>4, <2>5
<1> QED BY <1>1, <1>3, <1>4

LEMMA OrderRecord ==
  ASSUME Logged, NEW n \in Nodes, NEW b \in Boards, NEW clear \in BOOLEAN, Record(n, b, clear)
  PROVE  WaitInOrder' /\ WaitOwn' /\ WaitApart' /\ AfterRows' /\ AfterWipes' /\ RowsInOrder'
<1>1. /\ TypeOK /\ recorded \in Nat /\ recorded' = recorded + 1
      /\ rows' = rows /\ wiped' = wiped /\ nextSeq' = nextSeq
  BY MaxRecordsNat DEF Logged, TypeOK, Record
<1>2. ASSUME NEW m \in Nodes, NEW i \in DOMAIN (Waiting(m)')
      PROVE  \/ i \in DOMAIN Waiting(m) /\ Waiting(m)'[i] = Waiting(m)[i]
             \/ /\ m = n /\ i = Len(Waiting(n)) + 1
                /\ Waiting(m)'[i].id = recorded + 1 /\ Waiting(m)'[i].node = n
  BY <1>1, RecordAt
<1>3. ASSUME NEW m \in Nodes, NEW i \in DOMAIN Waiting(m)
      PROVE  /\ Waiting(m)[i].id <= recorded /\ Waiting(m)[i].id \in Nat /\ Waiting(m)[i].node = m
             /\ i \in Nat /\ i <= Len(Waiting(m)) /\ Len(Waiting(m)) \in Nat
  BY <1>1, WaitingSeq, EventParts DEF Logged, WaitOwn
<1>4. \A r \in rows : r.ev.id <= recorded /\ r.ev.id \in Nat
  BY <1>1, EventParts DEF Logged, RowsInOrder, TypeOK
<1>5. \A m \in Nodes, c \in Boards : wiped[m][c] <= recorded /\ wiped[m][c] \in Nat
  BY <1>1, MaxRecordsNat DEF Logged, AfterWipes, TypeOK
<1>6. WaitInOrder'
  <2> SUFFICES ASSUME NEW m \in Nodes, NEW i \in DOMAIN (Waiting(m)'), NEW j \in DOMAIN (Waiting(m)'), i < j
               PROVE  Waiting(m)'[i].id < Waiting(m)'[j].id
    BY DEF WaitInOrder
  <2>1. CASE j \in DOMAIN Waiting(m) /\ Waiting(m)'[j] = Waiting(m)[j]
    <3>1. i \in DOMAIN Waiting(m) /\ Waiting(m)'[i] = Waiting(m)[i]
      BY <1>2, <1>3, <2>1
    <3> QED BY <2>1, <3>1 DEF Logged, WaitInOrder
  <2>2. CASE m = n /\ j = Len(Waiting(n)) + 1 /\ Waiting(m)'[j].id = recorded + 1
    <3>1. i \in DOMAIN Waiting(m) /\ Waiting(m)'[i] = Waiting(m)[i]
      <4>1. i # Len(Waiting(n)) + 1
        BY <2>2, <1>1, WaitingSeq
      <4> QED BY <4>1, <1>2
    <3> QED BY <1>1, <1>3, <2>2, <3>1
  <2> QED BY <1>2, <2>1, <2>2
<1>7. WaitOwn'
  BY <1>1, <1>2, <1>3 DEF WaitOwn
<1>8. WaitApart'
  <2>1. ASSUME NEW l \in Nodes, NEW m \in Nodes, l # m, NEW i \in DOMAIN (Waiting(l)'), NEW j \in DOMAIN (Waiting(m)'),
               Waiting(l)'[i].id = Waiting(m)'[j].id
        PROVE  FALSE
    <3>1. CASE /\ i \in DOMAIN Waiting(l) /\ Waiting(l)'[i] = Waiting(l)[i]
               /\ j \in DOMAIN Waiting(m) /\ Waiting(m)'[j] = Waiting(m)[j]
      BY <2>1, <3>1 DEF Logged, WaitApart, Ids
    <3>2. CASE l = n /\ Waiting(l)'[i].id = recorded + 1
      <4>1. j \in DOMAIN Waiting(m) /\ Waiting(m)'[j] = Waiting(m)[j]
        BY <2>1, <3>2, <1>2
      <4> QED BY <1>1, <1>3, <2>1, <3>2, <4>1
    <3>3. CASE m = n /\ Waiting(m)'[j].id = recorded + 1
      <4>1. i \in DOMAIN Waiting(l) /\ Waiting(l)'[i] = Waiting(l)[i]
        BY <2>1, <3>3, <1>2
      <4> QED BY <1>1, <1>3, <2>1, <3>3, <4>1
    <3> QED BY <1>2, <3>1, <3>2, <3>3
  <2>2. \A m \in Nodes : Ids(Waiting(m))' = {Waiting(m)'[i].id : i \in DOMAIN (Waiting(m)')}
    BY DEF Ids
  <2> QED BY <2>1, <2>2 DEF WaitApart
<1>9. AfterRows'
  <2> SUFFICES ASSUME NEW m \in Nodes, NEW r \in rows, r.ev.node = m, NEW i \in DOMAIN (Waiting(m)')
               PROVE  r.ev.id < Waiting(m)'[i].id
    BY <1>1 DEF AfterRows
  <2> QED BY <1>1, <1>2, <1>4 DEF Logged, AfterRows
<1>10. AfterWipes'
  <2>1. ASSUME NEW m \in Nodes, NEW c \in Boards, NEW i \in DOMAIN (Waiting(m)')
        PROVE  wiped[m][c] < Waiting(m)'[i].id
    BY <1>1, <1>2, <1>5 DEF Logged, AfterWipes
  <2> QED BY <1>1, <1>5, <2>1 DEF AfterWipes
<1>11. RowsInOrder'
  BY <1>1, <1>4 DEF Logged, RowsInOrder
<1> QED BY <1>6, <1>7, <1>8, <1>9, <1>10, <1>11

-----------------------------------------------------------------------------
(* The table: rows of a batch come last, and after every wiped clear. *)

\* A row of the table after an INSERT is an old one, or an event of the batch.
LEMMA InsertedRow ==
  ASSUME TypeOK, QueuesOK', WaitInOrder, WaitOwn, AfterRows, AfterWipes, RowsInOrder, NEW n \in Nodes, Insert(n),
         NEW r \in rows'
  PROVE  \/ r \in rows
         \/ /\ nextSeq' = nextSeq + Len(batch[n])
            /\ \E i \in 1 .. Len(batch[n]) :
                 /\ r = [seq |-> nextSeq + i - 1, ev |-> Waiting(n)[i]]
                 /\ i \in DOMAIN Waiting(n) /\ r.ev = Waiting(n)[i] /\ r.seq = nextSeq + i - 1
                 /\ r.ev \in Event /\ r.ev.node = n /\ r.ev.id <= recorded
                 /\ \A j \in DOMAIN (Waiting(n)') : r.ev.id < Waiting(n)'[j].id
<1>1. r \in rows \/ (/\ nextSeq' = nextSeq + Len(batch[n])
                     /\ \E i \in DOMAIN batch[n] : r = [seq |-> nextSeq + i - 1, ev |-> batch[n][i]])
  BY DEF Insert
<1>2. SUFFICES ASSUME nextSeq' = nextSeq + Len(batch[n]),
                      NEW i \in DOMAIN batch[n], r = [seq |-> nextSeq + i - 1, ev |-> batch[n][i]]
               PROVE  /\ i \in 1 .. Len(batch[n])
                      /\ r = [seq |-> nextSeq + i - 1, ev |-> Waiting(n)[i]]
                      /\ i \in DOMAIN Waiting(n) /\ r.ev = Waiting(n)[i] /\ r.seq = nextSeq + i - 1
                      /\ r.ev \in Event /\ r.ev.node = n /\ r.ev.id <= recorded
                      /\ \A j \in DOMAIN (Waiting(n)') : r.ev.id < Waiting(n)'[j].id
  BY <1>1
<1>3. /\ i \in 1 .. Len(batch[n]) /\ Len(batch[n]) \in Nat
      /\ DOMAIN Waiting(n) = 1 .. Len(Waiting(n)) /\ Len(Waiting(n)) \in Nat
  <2>1. batch[n] \in Seq(Event)
    BY WaitingSeq
  <2> QED BY <2>1, WaitingSeq
<1>4. /\ Len(Waiting(n)) = Len(batch[n]) + Len(Waiting(n)') /\ Len(Waiting(n)') \in Nat
      /\ DOMAIN (Waiting(n)') = 1 .. Len(Waiting(n)')
      /\ \A j \in 1 .. Len(Waiting(n)') : Waiting(n)'[j] = Waiting(n)[Len(batch[n]) + j]
      /\ Waiting(n)[i] = batch[n][i]
  BY <1>3, WaitingInsert
<1>5. i \in DOMAIN Waiting(n)
  BY <1>3, <1>4
<1>6. /\ r = [seq |-> nextSeq + i - 1, ev |-> Waiting(n)[i]]
      /\ r.ev = Waiting(n)[i] /\ r.seq = nextSeq + i - 1
  BY <1>2, <1>4
<1>7. r.ev \in Event /\ r.ev.node = n /\ r.ev.id <= recorded
  BY <1>5, <1>6, WaitingSeq DEF WaitOwn
<1>8. ASSUME NEW j \in DOMAIN (Waiting(n)')
      PROVE  r.ev.id < Waiting(n)'[j].id
  <2>1. Len(batch[n]) + j \in DOMAIN Waiting(n) /\ i < Len(batch[n]) + j
    BY <1>3, <1>4
  <2>2. Waiting(n)[i].id < Waiting(n)[Len(batch[n]) + j].id
    BY <1>5, <2>1 DEF WaitInOrder
  <2> QED BY <2>2, <1>4, <1>6
<1> QED BY <1>3, <1>5, <1>6, <1>7, <1>8

LEMMA TableInsert ==
  ASSUME Logged, QueuesOK', NEW n \in Nodes, Insert(n)
  PROVE  AfterRows' /\ RowsInOrder' /\ ClearedStaysCleared'
<1> USE DEF Logged
<1>1. /\ \A m \in Nodes : Remains(m)
      /\ recorded' = recorded /\ wiped' = wiped
  BY WaitingRemains DEF Insert, Writer
<1>2. /\ nextSeq \in Nat /\ nextSeq' \in Nat /\ nextSeq <= nextSeq' /\ Len(batch[n]) \in Nat
      /\ recorded \in Nat
      /\ \A r \in rows : /\ r.seq \in Nat /\ r.ev \in Event /\ r.ev.id \in Nat
                         /\ r.seq < nextSeq /\ r.ev.id <= recorded
  <2>1. batch[n] \in Seq(Event)
    BY WaitingSeq
  <2>2. Len(batch[n]) \in Nat
    BY <2>1
  <2>3. nextSeq \in Nat /\ recorded \in Nat
    BY MaxRecordsNat DEF TypeOK
  <2>4. nextSeq' = nextSeq + Len(batch[n]) \/ nextSeq' = nextSeq
    BY DEF Insert
  <2>5. ASSUME NEW r \in rows
        PROVE  r.seq \in Nat /\ r.ev \in Event /\ r.ev.id \in Nat
    <3>1. r.seq \in 1 .. MaxRecords /\ r.ev \in Event
      BY DEF TypeOK
    <3> QED BY <3>1, EventParts, MaxRecordsNat
  <2> QED BY <2>2, <2>3, <2>4, <2>5 DEF RowsInOrder
<1>3. ASSUME NEW r \in rows'
      PROVE  \/ r \in rows
             \/ /\ nextSeq' = nextSeq + Len(batch[n])
                /\ \E i \in 1 .. Len(batch[n]) :
                     /\ r = [seq |-> nextSeq + i - 1, ev |-> Waiting(n)[i]]
                     /\ i \in DOMAIN Waiting(n) /\ r.ev = Waiting(n)[i] /\ r.seq = nextSeq + i - 1
                     /\ r.ev \in Event /\ r.ev.node = n /\ r.ev.id <= recorded
                     /\ \A j \in DOMAIN (Waiting(n)') : r.ev.id < Waiting(n)'[j].id
  BY InsertedRow
<1>4. AfterRows'
  <2> SUFFICES ASSUME NEW m \in Nodes, NEW r \in rows', r.ev.node = m, NEW j \in DOMAIN (Waiting(m)')
               PROVE  r.ev.id < Waiting(m)'[j].id
    BY DEF AfterRows
  <2>1. CASE r \in rows
    <3>1. PICK k \in Nat : \A l \in DOMAIN (Waiting(m)') :
            l \in Nat /\ k + l \in DOMAIN Waiting(m) /\ Waiting(m)'[l] = Waiting(m)[k + l]
      BY <1>1, RemainingAt
    <3> QED BY <2>1, <3>1 DEF AfterRows
  <2>2. CASE r.ev.node = n /\ \A l \in DOMAIN (Waiting(n)') : r.ev.id < Waiting(n)'[l].id
    BY <2>2
  <2> QED BY <1>3, <2>1, <2>2
<1>5. \A r \in rows' : r.ev.id <= recorded' /\ r.seq < nextSeq'
  <2> SUFFICES ASSUME NEW r \in rows'
               PROVE  r.ev.id <= recorded /\ r.seq < nextSeq'
    BY <1>1
  <2>1. CASE r \in rows
    BY <1>2, <2>1
  <2>2. CASE ~ (r \in rows)
    <3>1. PICK i \in 1 .. Len(batch[n]) : r.seq = nextSeq + i - 1 /\ r.ev.id <= recorded
      BY <1>3, <2>2
    <3>2. nextSeq' = nextSeq + Len(batch[n])
      BY <1>3, <2>2
    <3> QED BY <1>2, <3>1, <3>2
  <2> QED BY <2>1, <2>2
<1>6. \A r, s \in rows' : /\ r.ev.node = s.ev.node /\ r.seq < s.seq => r.ev.id < s.ev.id
                          /\ r.seq = s.seq => r = s
  <2> SUFFICES ASSUME NEW r \in rows', NEW s \in rows'
               PROVE  /\ r.ev.node = s.ev.node /\ r.seq < s.seq => r.ev.id < s.ev.id
                      /\ r.seq = s.seq => r = s
    OBVIOUS
  <2>1. CASE r \in rows /\ s \in rows
    BY <2>1 DEF RowsInOrder
  <2>2. CASE r \in rows /\ ~ (s \in rows)
    <3>1. PICK j \in 1 .. Len(batch[n]) :
            j \in DOMAIN Waiting(n) /\ s.seq = nextSeq + j - 1 /\ s.ev.node = n /\ s.ev = Waiting(n)[j]
      BY <1>3, <2>2
    <3>2. r.seq < s.seq
      BY <1>2, <2>2, <3>1
    <3>3. r.seq # s.seq
      BY <1>2, <2>2, <3>1
    <3> QED BY <2>2, <3>1, <3>2, <3>3 DEF AfterRows
  <2>3. CASE ~ (r \in rows) /\ s \in rows
    <3>1. PICK j \in 1 .. Len(batch[n]) : r.seq = nextSeq + j - 1
      BY <1>3, <2>3
    <3>2. ~ (r.seq < s.seq) /\ r.seq # s.seq
      BY <1>2, <2>3, <3>1
    <3> QED BY <3>2
  <2>4. CASE ~ (r \in rows) /\ ~ (s \in rows)
    <3>1. PICK i \in 1 .. Len(batch[n]) :
            /\ i \in DOMAIN Waiting(n) /\ r.seq = nextSeq + i - 1 /\ r.ev = Waiting(n)[i]
            /\ r = [seq |-> nextSeq + i - 1, ev |-> Waiting(n)[i]]
      BY <1>3, <2>4
    <3>2. PICK j \in 1 .. Len(batch[n]) :
            /\ j \in DOMAIN Waiting(n) /\ s.seq = nextSeq + j - 1 /\ s.ev = Waiting(n)[j]
            /\ s = [seq |-> nextSeq + j - 1, ev |-> Waiting(n)[j]]
      BY <1>3, <2>4
    <3>3. (r.seq < s.seq <=> i < j) /\ (r.seq = s.seq <=> i = j)
      BY <1>2, <3>1, <3>2
    <3> QED BY <3>1, <3>2, <3>3 DEF WaitInOrder
  <2> QED BY <2>1, <2>2, <2>3, <2>4
<1>7. ClearedStaysCleared'
  <2> SUFFICES ASSUME NEW r \in rows'
               PROVE  r.ev.id > wiped[r.ev.node][r.ev.board]
    BY <1>1 DEF ClearedStaysCleared
  <2>1. CASE r \in rows
    BY <2>1 DEF ClearedStaysCleared
  <2>2. CASE ~ (r \in rows)
    <3>1. PICK i \in 1 .. Len(batch[n]) :
            i \in DOMAIN Waiting(n) /\ r.ev = Waiting(n)[i] /\ r.ev \in Event /\ r.ev.node = n
      BY <1>3, <2>2
    <3>2. wiped[n][r.ev.board] < Waiting(n)[i].id
      BY <3>1, EventParts DEF AfterWipes
    <3>3. wiped[n][r.ev.board] \in Nat /\ r.ev.id \in Nat
      BY <3>1, EventParts, MaxRecordsNat DEF TypeOK
    <3> QED BY <3>1, <3>2, <3>3
  <2> QED BY <2>1, <2>2
<1> QED BY <1>4, <1>5, <1>6, <1>7 DEF RowsInOrder

\* After a DELETE: of the cleared board nothing is left; the other boards stand.
LEMMA TableDelete ==
  ASSUME Logged, QueuesOK', NEW n \in Nodes, Delete(n)
  PROVE  AfterWipes' /\ ClearedStaysCleared'
<1> USE DEF Logged
<1> DEFINE ev == held[n][1]
<1>1. /\ \A m \in Nodes : Remains(m)
      /\ recorded' = recorded
      /\ \/ rows' = {r \in rows : r.ev.board # ev.board} /\ wiped' = [wiped EXCEPT ![n][ev.board] = ev.id]
         \/ rows' = rows /\ wiped' = wiped
  BY WaitingRemains DEF Delete, Writer
<1>2. /\ Len(Waiting(n)) = 1 + Len(Waiting(n)') /\ Len(Waiting(n)') \in Nat
      /\ DOMAIN (Waiting(n)') = 1 .. Len(Waiting(n)')
      /\ \A i \in 1 .. Len(Waiting(n)') : Waiting(n)'[i] = Waiting(n)[1 + i]
      /\ Waiting(n)[1] = ev /\ ev \in Event
  BY WaitingDelete
<1>3. DOMAIN Waiting(n) = 1 .. Len(Waiting(n)) /\ 1 \in DOMAIN Waiting(n)
  BY <1>2, WaitingSeq
<1>4. ev.id <= recorded /\ ev.id \in 0 .. MaxRecords /\ ev.board \in Boards
  BY <1>2, <1>3, EventParts, MaxRecordsNat DEF WaitOwn
<1> HIDE DEF ev
<1>5. CASE rows' = rows /\ wiped' = wiped
  BY <1>1, <1>5, WipesRemain DEF ClearedStaysCleared
<1>6. CASE rows' = {r \in rows : r.ev.board # ev.board} /\ wiped' = [wiped EXCEPT ![n][ev.board] = ev.id]
  <2>1. \A m \in Nodes, c \in Boards :
          wiped'[m][c] = IF m = n /\ c = ev.board THEN ev.id ELSE wiped[m][c]
    <3> DEFINE b == ev.board
               x == ev.id
    <3>1. wiped \in [Nodes -> [Boards -> 0 .. MaxRecords]] /\ b \in Boards /\ x \in 0 .. MaxRecords
      BY <1>4 DEF TypeOK
    <3>2. wiped' = [wiped EXCEPT ![n][b] = x]
      BY <1>6
    <3> HIDE DEF b, x
    <3>3. \A m \in Nodes, c \in Boards :
            [wiped EXCEPT ![n][b] = x][m][c] = IF m = n /\ c = b THEN x ELSE wiped[m][c]
      BY <3>1, WipedAt
    <3> QED BY <3>2, <3>3 DEF b, x
  <2>2. ASSUME NEW m \in Nodes, NEW c \in Boards, NEW i \in DOMAIN (Waiting(m)')
        PROVE  wiped'[m][c] < Waiting(m)'[i].id
    <3>1. CASE m = n /\ c = ev.board
      <4>1. 1 + i \in DOMAIN Waiting(n) /\ 1 < 1 + i /\ Waiting(n)'[i] = Waiting(n)[1 + i]
        BY <1>2, <1>3, <3>1
      <4>2. Waiting(n)[1].id < Waiting(n)[1 + i].id
        BY <1>3, <4>1 DEF WaitInOrder
      <4> QED BY <1>2, <2>1, <3>1, <4>1, <4>2
    <3>2. CASE ~ (m = n /\ c = ev.board)
      <4>1. PICK k \in Nat : \A l \in DOMAIN (Waiting(m)') :
              l \in Nat /\ k + l \in DOMAIN Waiting(m) /\ Waiting(m)'[l] = Waiting(m)[k + l]
        BY <1>1, RemainingAt
      <4>2. wiped[m][c] < Waiting(m)[k + i].id
        BY <4>1 DEF AfterWipes
      <4> QED BY <2>1, <3>2, <4>1, <4>2
    <3> QED BY <3>1, <3>2
  <2>3. AfterWipes'
    BY <1>1, <1>4, <2>1, <2>2 DEF AfterWipes
  <2>4. ASSUME NEW r \in rows'
        PROVE  r.ev.id > wiped'[r.ev.node][r.ev.board]
    <3>1. r \in rows /\ r.ev.board # ev.board
      BY <1>6
    <3>2. r.ev.node \in Nodes /\ r.ev.board \in Boards
      BY <3>1, EventParts DEF TypeOK
    <3> QED BY <2>1, <3>1, <3>2 DEF ClearedStaysCleared
  <2> QED BY <2>3, <2>4 DEF ClearedStaysCleared
<1> QED BY <1>1, <1>5, <1>6

-----------------------------------------------------------------------------
(* The invariant is inductive. *)

LEMMA CountedNext ==
  ASSUME Logged, Next, QueuesOK', recorded' \in 0 .. MaxRecords
  PROVE  /\ Counted'
         /\ nextSeq' \in 1 .. MaxRecords + 1
<1> USE DEF Logged
<1>1. /\ nextSeq \in 1 .. MaxRecords + 1 /\ MaxRecords \in Nat /\ recorded' \in Nat /\ recorded \in Nat
      /\ nextSeq <= Cardinality(Gone) + 1
      /\ IsFiniteSet(Gone) /\ Cardinality(Gone) \in Nat
  BY MaxRecordsNat, GoneFinite DEF TypeOK, Counted
<1>2. IsFiniteSet(Gone') /\ Cardinality(Gone') \in Nat /\ Cardinality(Gone') <= recorded'
  <2>1. Gone' \in SUBSET (1 .. recorded')
    BY DEF Gone
  <2>2. IsFiniteSet(1 .. recorded') /\ Cardinality(1 .. recorded') = recorded'
    BY <1>1, FS_Interval
  <2> QED BY <2>1, <2>2, FS_Subset, FS_CardinalityType
<1>3. PICK n \in Nodes : (\E b \in Boards, clear \in BOOLEAN : Record(n, b, clear)) \/ Writer(n) \/ Crash(n)
  BY DEF Next
<1>4. nextSeq' \in Nat /\ nextSeq <= nextSeq' /\ nextSeq' <= Cardinality(Gone') + 1
  <2>1. CASE \E b \in Boards, clear \in BOOLEAN : Record(n, b, clear)
    <3>1. PICK b \in Boards, clear \in BOOLEAN : Record(n, b, clear)
      BY <2>1
    <3>2. nextSeq' = nextSeq /\ recorded' = recorded + 1
      BY <3>1 DEF Record
    <3>3. Gone \subseteq Gone'
      <4>1. ASSUME NEW x \in Gone, NEW m \in Nodes, NEW i \in DOMAIN (Waiting(m)'), x = Waiting(m)'[i].id
            PROVE  FALSE
        <5>1. x \in 1 .. recorded /\ \A l \in DOMAIN Waiting(m) : x # Waiting(m)[l].id
          BY DEF Gone, Ids
        <5>2. x # recorded + 1
          BY <1>1, <5>1
        <5> QED BY <3>1, <4>1, <5>1, <5>2, RecordAt
      <4>2. 1 .. recorded \subseteq 1 .. recorded'
        BY <1>1, <3>2
      <4>3. Gone' = (1 .. recorded') \ UNION {{Waiting(m)'[i].id : i \in DOMAIN (Waiting(m)')} : m \in Nodes}
        BY DEF Gone, Ids
      <4>4. Gone \subseteq 1 .. recorded
        BY DEF Gone
      <4> QED BY <4>1, <4>2, <4>3, <4>4
    <3>4. Cardinality(Gone) <= Cardinality(Gone')
      BY <3>3, <1>2, FS_Subset
    <3> QED BY <1>1, <1>2, <3>2, <3>4
  <2>2. CASE nextSeq' = nextSeq /\ (Writer(n) \/ Crash(n))
    <3>1. recorded' = recorded /\ \A m \in Nodes : Remains(m)
      BY <2>2, WaitingRemains DEF Writer, TakeClear, TakeOp, Tick, Insert, Delete, Crash
    <3>2. Cardinality(Gone) <= Cardinality(Gone')
      BY <3>1, GoneGrows
    <3> QED BY <1>1, <1>2, <2>2, <3>2
  <2>3. CASE nextSeq' # nextSeq /\ (Writer(n) \/ Crash(n))
    <3>1. Insert(n) /\ nextSeq' = nextSeq + Len(batch[n])
      BY <2>3 DEF Writer, TakeClear, TakeOp, Tick, Insert, Delete, Crash
    <3>2. batch[n] \in Seq(Event)
      BY WaitingSeq
    <3>3. Len(batch[n]) \in Nat
      BY <3>2
    <3>4. Cardinality(Gone) + Len(batch[n]) <= Cardinality(Gone')
      BY <3>1, GoneByBatch
    <3> QED BY <1>1, <1>2, <3>1, <3>3, <3>4
  <2> QED BY <1>3, <2>1, <2>2, <2>3
<1> QED BY <1>1, <1>2, <1>4 DEF Counted

LEMMA LoggedInit ==
  ASSUME Init
  PROVE  Logged
<1>1. TypeOK
  BY LimitsPositive, MaxRecordsNat DEF Init, TypeOK
<1>2. \A n \in Nodes : Waiting(n) = <<>> /\ batch[n] = <<>> /\ held[n] = <<>>
  BY DEF Init, Waiting
<1>3. WriterShape /\ WaitInOrder /\ WaitOwn /\ WaitApart /\ AfterRows /\ RowsInOrder /\ ClearedStaysCleared
  BY <1>2, LimitsPositive
  DEF Init, WriterShape, WaitInOrder, WaitOwn, WaitApart, AfterRows, RowsInOrder, ClearedStaysCleared, Ids
<1>4. AfterWipes
  <2>1. recorded = 0 /\ \A n \in Nodes, b \in Boards : wiped[n][b] = 0
    BY DEF Init
  <2> QED BY <1>2, <2>1 DEF AfterWipes
<1>5. Counted
  BY <1>1, GoneFinite DEF Init, Counted
<1> QED BY <1>1, <1>3, <1>4, <1>5 DEF Logged

LEMMA LoggedNext ==
  ASSUME Logged, [Next]_recVars
  PROVE  Logged'
<1> USE DEF Logged
<1>1. CASE UNCHANGED recVars
  <2>1. /\ queue' = queue /\ batch' = batch /\ held' = held /\ writer' = writer
        /\ rows' = rows /\ nextSeq' = nextSeq /\ recorded' = recorded /\ wiped' = wiped
    BY <1>1 DEF recVars
  <2>2. TypeOK' /\ WriterShape'
    BY <2>1 DEF TypeOK, WriterShape
  <2>3. \A n \in Nodes : Waiting(n)' = Waiting(n)
    BY <2>1 DEF Waiting
  <2>4. WaitInOrder' /\ WaitOwn'
    BY <2>1, <2>3 DEF WaitInOrder, WaitOwn
  <2>5. \A n \in Nodes : Ids(Waiting(n))' = Ids(Waiting(n)')
    BY DEF Ids
  <2>6. \A n \in Nodes : Ids(Waiting(n))' = Ids(Waiting(n))
    BY <2>3, <2>5
  <2>7. WaitApart'
    BY <2>6 DEF WaitApart
  <2>8. AfterRows' /\ AfterWipes'
    BY <2>1, <2>3 DEF AfterRows, AfterWipes
  <2>9. RowsInOrder' /\ ClearedStaysCleared'
    BY <2>1 DEF RowsInOrder, ClearedStaysCleared
  <2>10. Counted'
    <3>1. UNION {Ids(Waiting(n))' : n \in Nodes} = UNION {Ids(Waiting(n)) : n \in Nodes}
      BY <2>6
    <3>2. Gone' = Gone
      BY <2>1, <3>1 DEF Gone
    <3> QED BY <2>1, <3>2 DEF Counted
  <2> QED BY <2>2, <2>4, <2>7, <2>8, <2>9, <2>10
<1>2. CASE Next
  <2>1. PICK n \in Nodes : (\E b \in Boards, clear \in BOOLEAN : Record(n, b, clear)) \/ Writer(n) \/ Crash(n)
    BY <1>2 DEF Next
  <2>2. Shapes'
    BY <2>1, ShapesRecord, ShapesWriter
  <2>3. QueuesOK' /\ recorded' \in 0 .. MaxRecords
    BY <2>2 DEF Shapes
  <2>4. WriterShape'
    BY <1>2, WriterShapeNext
  <2>5. Counted' /\ nextSeq' \in 1 .. MaxRecords + 1
    BY <1>2, <2>3, CountedNext
  <2>6. /\ WaitInOrder' /\ WaitOwn' /\ WaitApart' /\ AfterRows' /\ AfterWipes' /\ RowsInOrder'
        /\ ClearedStaysCleared'
    <3>1. CASE \E b \in Boards, clear \in BOOLEAN : Record(n, b, clear)
      BY <3>1, OrderRecord DEF Record, ClearedStaysCleared
    <3>2. CASE Writer(n) \/ Crash(n)
      <4>1. recorded' = recorded /\ \A m \in Nodes : Remains(m)
        BY <3>2, WaitingRemains DEF Writer, TakeClear, TakeOp, Tick, Insert, Delete, Crash
      <4>2. WaitInOrder' /\ WaitOwn' /\ WaitApart'
        BY <2>3, <4>1, OrderRemains
      <4>3. CASE Insert(n)
        <5>1. wiped' = wiped
          BY <4>3 DEF Insert
        <5>2. AfterWipes'
          BY <2>3, <4>1, <5>1, WipesRemain
        <5> QED BY <2>3, <4>2, <4>3, <5>2, TableInsert
      <4>4. CASE ~ Insert(n)
        <5>1. rows' \subseteq rows /\ nextSeq' = nextSeq
          BY <3>2, <4>4 DEF Writer, TakeClear, TakeOp, Tick, Delete, Crash
        <5>2. AfterRows'
          BY <2>3, <4>1, <5>1, AfterRemains
        <5>3. RowsInOrder'
          BY <4>1, <5>1 DEF RowsInOrder
        <5>4. CASE Delete(n)
          BY <2>3, <4>2, <5>2, <5>3, <5>4, TableDelete
        <5>5. CASE ~ Delete(n)
          <6>1. wiped' = wiped
            BY <3>2, <4>4, <5>5 DEF Writer, TakeClear, TakeOp, Tick, Crash
          <6>2. AfterWipes'
            BY <2>3, <4>1, <6>1, WipesRemain
          <6> QED BY <4>2, <5>1, <5>2, <5>3, <6>1, <6>2 DEF ClearedStaysCleared
        <5> QED BY <5>4, <5>5
      <4> QED BY <4>3, <4>4
    <3> QED BY <2>1, <3>1, <3>2
  <2>7. rows' \subseteq [seq : 1 .. MaxRecords, ev : Event]
    <3> SUFFICES ASSUME NEW r \in rows'
                 PROVE  r \in [seq : 1 .. MaxRecords, ev : Event]
      OBVIOUS
    <3>1. CASE r \in rows
      BY <3>1 DEF TypeOK
    <3>2. CASE ~ (r \in rows)
      <4>1. Insert(n)
        BY <2>1, <3>2 DEF Record, Writer, TakeClear, TakeOp, Tick, Delete, Crash
      <4>2. PICK i \in 1 .. Len(batch[n]) :
              r = [seq |-> nextSeq + i - 1, ev |-> Waiting(n)[i]] /\ r.ev = Waiting(n)[i] /\ r.ev \in Event
              /\ r.seq = nextSeq + i - 1
        BY <2>3, <3>2, <4>1, InsertedRow
      <4>3. r.seq < nextSeq' /\ nextSeq \in 1 .. MaxRecords + 1 /\ Len(batch[n]) \in Nat
        <5>1. batch[n] \in Seq(Event)
          BY WaitingSeq
        <5> QED BY <2>6, <5>1 DEF RowsInOrder, TypeOK
      <4>4. nextSeq + i - 1 \in 1 .. MaxRecords
        BY <2>5, <4>2, <4>3, MaxRecordsNat
      <4> QED BY <4>2, <4>4
    <3> QED BY <3>1, <3>2
  <2>8. TypeOK'
    BY <2>2, <2>5, <2>7 DEF TypeOK, Shapes, QueuesOK
  <2> QED BY <2>4, <2>5, <2>6, <2>8
<1> QED BY <1>1, <1>2

-----------------------------------------------------------------------------
(* The theorems. *)

(***************************************************************************)
(* Whatever the nodes record, in whatever order their writers' statements  *)
(* reach the database, fail or are cut short by a crash, Logged holds.     *)
(***************************************************************************)
THEOREM AlwaysLogged == Spec => []Logged
<1>1. Init => Logged
  BY LoggedInit
<1>2. Logged /\ [Next]_recVars => Logged'
  BY LoggedNext
<1> QED BY <1>1, <1>2, PTL DEF Spec

(***************************************************************************)
(* The queue never exceeds writerQueue nor the batch writerBatch, and the  *)
(* bigserial draws at most one number per Record call.                     *)
(***************************************************************************)
THEOREM TypeCorrect == Spec => []TypeOK
<1>1. Logged => TypeOK
  BY DEF Logged
<1> QED BY <1>1, AlwaysLogged, PTL

(***************************************************************************)
(* The events of a node pass queue, batch and table in the order of their  *)
(* Record calls, and none is ever in two places.                           *)
(***************************************************************************)
THEOREM AlwaysFifoPerNode == Spec => []FifoPerNode
<1>1. Logged => FifoPerNode
  BY DEF Logged, FifoPerNode, WaitInOrder, AfterRows, RowsInOrder
<1> QED BY <1>1, AlwaysLogged, PTL

(***************************************************************************)
(* Once a clear has been executed, nothing its node recorded before it is  *)
(* in the log, then or ever after.                                         *)
(***************************************************************************)
THEOREM AlwaysCleared == Spec => []ClearedStaysCleared
<1>1. Logged => ClearedStaysCleared
  BY DEF Logged
<1> QED BY <1>1, AlwaysLogged, PTL

-----------------------------------------------------------------------------
(* Ascending lists a set of numbers from the least to the greatest, and is *)
(* the only list that does.                                                *)

Rank(S, x) == Cardinality({y \in S : y <= x})

Lists(f, S) ==
  /\ \A i, j \in DOMAIN f : i < j => f[i] < f[j]
  /\ \A x : x \in S <=> \E i \in DOMAIN f : f[i] = x

LEMMA Ranked ==
  ASSUME NEW S \in SUBSET Nat, IsFiniteSet(S)
  PROVE  /\ Cardinality(S) \in Nat
         /\ \A x \in S : Rank(S, x) \in 1 .. Cardinality(S)
         /\ \A x, y \in S : x < y => Rank(S, x) < Rank(S, y)
<1>1. \A x \in S : /\ IsFiniteSet({y \in S : y <= x}) /\ Rank(S, x) \in Nat
                   /\ Rank(S, x) <= Cardinality(S)
  <2> SUFFICES ASSUME NEW x \in S
               PROVE  /\ IsFiniteSet({y \in S : y <= x}) /\ Rank(S, x) \in Nat
                      /\ Rank(S, x) <= Cardinality(S)
    OBVIOUS
  <2>1. {y \in S : y <= x} \in SUBSET S
    OBVIOUS
  <2>2. IsFiniteSet({y \in S : y <= x}) /\ Rank(S, x) <= Cardinality(S)
    BY <2>1, FS_Subset DEF Rank
  <2> QED BY <2>2, FS_CardinalityType DEF Rank
<1>2. \A x \in S : Rank(S, x) # 0
  <2> SUFFICES ASSUME NEW x \in S, Rank(S, x) = 0
               PROVE  FALSE
    OBVIOUS
  <2>1. {y \in S : y <= x} = {}
    BY <1>1, FS_EmptySet DEF Rank
  <2> QED BY <2>1
<1>3. ASSUME NEW x \in S, NEW y \in S, x < y
      PROVE  Rank(S, x) < Rank(S, y)
  <2> DEFINE X == {z \in S : z <= x}
             Y == {z \in S : z <= y}
  <2>1. X \in SUBSET Y /\ y \in Y /\ y \notin X
    <3>1. x \in Nat /\ y \in Nat /\ \A z \in S : z \in Nat
      OBVIOUS
    <3>2. ASSUME NEW z \in S, z <= x
          PROVE  z <= y
      BY <1>3, <3>1, <3>2
    <3>3. ~ (y <= x) /\ y <= y
      BY <1>3, <3>1
    <3> QED BY <3>2, <3>3
  <2>2. IsFiniteSet(Y) /\ Cardinality(X) \in Nat /\ Cardinality(Y) \in Nat
    BY <1>1 DEF Rank
  <2> HIDE DEF X, Y
  <2>3. Cardinality(X) <= Cardinality(Y) /\ Cardinality(X) # Cardinality(Y)
    <3>1. Cardinality(X) <= Cardinality(Y) /\ (Cardinality(Y) = Cardinality(X) => Y = X)
      BY <2>1, <2>2, FS_Subset
    <3> QED BY <2>1, <3>1
  <2>4. Cardinality(X) < Cardinality(Y)
    BY <2>2, <2>3
  <2> QED BY <2>4 DEF X, Y, Rank
<1>4. Cardinality(S) \in Nat
  BY FS_CardinalityType
<1>5. \A x \in S : Rank(S, x) \in 1 .. Cardinality(S)
  <2> SUFFICES ASSUME NEW x \in S
               PROVE  Rank(S, x) \in 1 .. Cardinality(S)
    OBVIOUS
  <2>1. Rank(S, x) \in Nat /\ Rank(S, x) # 0 /\ Rank(S, x) <= Cardinality(S)
    BY <1>1, <1>2
  <2> HIDE DEF Rank
  <2> QED BY <2>1, <1>4
<1> QED BY <1>3, <1>4, <1>5

LEMMA AscendingLists ==
  ASSUME NEW S \in SUBSET Nat, IsFiniteSet(S)
  PROVE  /\ Ascending(S) \in Seq(S) /\ Len(Ascending(S)) = Cardinality(S)
         /\ Cardinality(S) \in Nat
         /\ DOMAIN Ascending(S) = 1 .. Cardinality(S)
         /\ Lists(Ascending(S), S)
<1> DEFINE n == Cardinality(S)
           r == [x \in S |-> Rank(S, x)]
           A == Ascending(S)
<1>1. /\ n \in Nat /\ \A x \in S : Rank(S, x) \in 1 .. n
      /\ \A x, y \in S : x < y => Rank(S, x) < Rank(S, y)
  BY Ranked
<1>2. \A x, y \in S : Rank(S, x) = Rank(S, y) => x = y
  <2> SUFFICES ASSUME NEW x \in S, NEW y \in S, Rank(S, x) = Rank(S, y)
               PROVE  x = y
    OBVIOUS
  <2>1. ~ (x < y) /\ ~ (y < x)
    BY <1>1
  <2>2. x \in Nat /\ y \in Nat
    OBVIOUS
  <2> QED BY <2>1, <2>2
<1>3. \A i \in 1 .. n : \E x \in S : Rank(S, x) = i
  <2>1. r \in Injection(S, 1 .. n)
    BY <1>1, <1>2 DEF Injection, IsInjective
  <2>2. IsFiniteSet(1 .. n) /\ Cardinality(1 .. n) = n
    BY <1>1, FS_Interval
  <2> HIDE DEF r
  <2>3. r \in Surjection(S, 1 .. n)
    BY <2>1, <2>2, FS_Injection
  <2>4. \A i \in 1 .. n : \E x \in S : r[x] = i
    BY <2>3 DEF Surjection
  <2> QED BY <2>4 DEF r
<1>4. A = [i \in 1 .. n |-> CHOOSE x \in S : Rank(S, x) = i]
  BY DEF Ascending, Rank
<1> HIDE DEF n, A
<1>5. \A i \in 1 .. n : A[i] \in S /\ Rank(S, A[i]) = i
  BY <1>3, <1>4
<1>6. A \in Seq(S) /\ Len(A) = n /\ DOMAIN A = 1 .. n
  <2>1. A \in [1 .. n -> S]
    BY <1>4, <1>5
  <2> QED BY <1>1, <2>1
<1>7. ASSUME NEW i \in 1 .. n, NEW j \in 1 .. n, i < j
      PROVE  A[i] < A[j]
  <2>1. Rank(S, A[i]) < Rank(S, A[j])
    BY <1>5, <1>7
  <2>2. A[i] # A[j] /\ ~ (A[j] < A[i])
    <3>1. A[i] \in S /\ A[j] \in S /\ Rank(S, A[i]) \in Nat /\ Rank(S, A[j]) \in Nat
      BY <1>5
    <3>2. A[j] < A[i] => Rank(S, A[j]) < Rank(S, A[i])
      BY <1>1, <3>1
    <3> QED BY <2>1, <3>1, <3>2
  <2>3. A[i] \in Nat /\ A[j] \in Nat
    BY <1>5
  <2> QED BY <2>2, <2>3
<1>8. \A x \in S : \E i \in 1 .. n : A[i] = x
  <2> SUFFICES ASSUME NEW x \in S
               PROVE  \E i \in 1 .. n : A[i] = x
    OBVIOUS
  <2>1. Rank(S, x) \in 1 .. n /\ A[Rank(S, x)] \in S /\ Rank(S, A[Rank(S, x)]) = Rank(S, x)
    BY <1>1, <1>5
  <2> QED BY <2>1, <1>2
<1>9. Lists(A, S)
  BY <1>5, <1>6, <1>7, <1>8 DEF Lists
<1> QED BY <1>1, <1>6, <1>9 DEF n, A

LEMMA ListsOnce ==
  ASSUME NEW S \in SUBSET Nat, NEW n \in Nat, NEW f \in [1 .. n -> S], Lists(f, S)
  PROVE  /\ IsFiniteSet(S) /\ Cardinality(S) = n
         /\ Ascending(S) = f
<1>1. /\ \A i, j \in 1 .. n : i < j => f[i] < f[j]
      /\ \A x \in S : \E i \in 1 .. n : f[i] = x
      /\ \A i \in 1 .. n : f[i] \in S /\ f[i] \in Nat
  BY DEF Lists
<1>2. \A i, j \in 1 .. n : (f[i] <= f[j] <=> i <= j) /\ (f[i] = f[j] => i = j)
  <2> SUFFICES ASSUME NEW i \in 1 .. n, NEW j \in 1 .. n
               PROVE  (f[i] <= f[j] <=> i <= j) /\ (f[i] = f[j] => i = j)
    OBVIOUS
  <2>1. (i < j => f[i] < f[j]) /\ (j < i => f[j] < f[i]) /\ f[i] \in Nat /\ f[j] \in Nat /\ (i = j => f[i] = f[j])
    BY <1>1
  <2> QED BY <2>1
<1>3. IsFiniteSet(S) /\ Cardinality(S) = n
  BY <1>1, <1>2, Enumerated
<1>4. ASSUME NEW i \in 1 .. n
      PROVE  Rank(S, f[i]) = i
  <2> DEFINE T == {y \in S : y <= f[i]}
             g == [j \in 1 .. i |-> f[j]]
  <2>1. i \in Nat /\ 1 .. i \subseteq 1 .. n
    OBVIOUS
  <2>2. g \in [1 .. i -> T]
    BY <1>1, <1>2, <2>1
  <2>3. \A y \in T : \E j \in 1 .. i : g[j] = y
    <3> SUFFICES ASSUME NEW y \in T
                 PROVE  \E j \in 1 .. i : g[j] = y
      OBVIOUS
    <3>1. PICK j \in 1 .. n : f[j] = y
      BY <1>1
    <3>2. j \in 1 .. i
      BY <1>2, <3>1
    <3> QED BY <3>1, <3>2
  <2>4. \A j, k \in 1 .. i : g[j] = g[k] => j = k
    BY <1>2, <2>1
  <2> HIDE DEF T, g
  <2>5. Cardinality(T) = i
    BY <2>1, <2>2, <2>3, <2>4, Enumerated
  <2> QED BY <2>5 DEF T, Rank
<1>5. ASSUME NEW i \in 1 .. n
      PROVE  (CHOOSE x \in S : Rank(S, x) = i) = f[i]
  <2>1. f[i] \in S /\ Rank(S, f[i]) = i
    BY <1>1, <1>4
  <2>2. ASSUME NEW x \in S, Rank(S, x) = i
        PROVE  x = f[i]
    <3>1. PICK j \in 1 .. n : f[j] = x
      BY <1>1
    <3> QED BY <1>4, <2>2, <3>1
  <2> QED BY <2>1, <2>2
<1>6. Ascending(S) = [i \in 1 .. n |-> CHOOSE x \in S : Rank(S, x) = i]
  BY <1>3 DEF Ascending, Rank
<1> QED BY <1>3, <1>5, <1>6

LEMMA ListedBefore ==
  ASSUME NEW S \in SUBSET Nat, NEW n \in Nat, NEW f \in [1 .. n -> S], Lists(f, S),
         NEW T \in SUBSET Nat, IsFiniteSet(T), \A x \in S, y \in T : x < y
  PROVE  f \o Ascending(T) = Ascending(S \union T)
<1> DEFINE A == Ascending(T)
           k == Cardinality(T)
           g == f \o A
<1>1. A \in Seq(T) /\ Len(A) = k /\ k \in Nat /\ DOMAIN A = 1 .. k /\ Lists(A, T)
  BY AscendingLists
<1>2. f \in Seq(S) /\ Len(f) = n /\ DOMAIN f = 1 .. n
  OBVIOUS
<1> HIDE DEF A, k
<1>3. /\ g \in Seq(S \union T) /\ Len(g) = n + k /\ DOMAIN g = 1 .. n + k
      /\ \A i \in 1 .. n : g[i] = f[i]
      /\ \A i \in 1 .. k : g[n + i] = A[i]
  BY <1>1, <1>2
<1> HIDE DEF g
<1>4. /\ \A i \in 1 .. n : f[i] \in S /\ f[i] \in Nat
      /\ \A i \in 1 .. k : A[i] \in T /\ A[i] \in Nat
  <2>1. \A i \in 1 .. n : f[i] \in S
    OBVIOUS
  <2>2. \A i \in 1 .. k : A[i] \in T
    BY <1>1
  <2> QED BY <2>1, <2>2
<1>5. ASSUME NEW i \in 1 .. n + k
      PROVE  i \in 1 .. n \/ \E l \in 1 .. k : i = n + l
  <2>1. i \in 1 .. n \/ (i - n \in 1 .. k /\ i = n + (i - n))
    BY <1>1
  <2> QED BY <2>1
<1>6. ASSUME NEW i \in DOMAIN g, NEW j \in DOMAIN g, i < j
      PROVE  g[i] < g[j]
  <2>1. CASE i \in 1 .. n /\ j \in 1 .. n
    BY <1>2, <1>3, <1>6, <2>1 DEF Lists
  <2>2. CASE i \in 1 .. n /\ \E l \in 1 .. k : j = n + l
    <3>1. PICK l \in 1 .. k : j = n + l
      BY <2>2
    <3>2. f[i] \in S /\ A[l] \in T /\ g[i] = f[i] /\ g[j] = A[l]
      BY <1>3, <1>4, <2>2, <3>1
    <3> QED BY <3>2
  <2>3. CASE \E l \in 1 .. k : i = n + l
    <3>1. PICK l \in 1 .. k : i = n + l
      BY <2>3
    <3>2. PICK m \in 1 .. k : j = n + m
      <4>1. ~ (j \in 1 .. n)
        BY <1>1, <1>3, <1>6, <3>1
      <4> QED BY <4>1, <1>3, <1>5
    <3>3. l < m
      BY <1>1, <1>6, <3>1, <3>2
    <3>4. g[i] = A[l] /\ g[j] = A[m]
      BY <1>3, <3>1, <3>2
    <3> QED BY <1>1, <3>3, <3>4 DEF Lists
  <2> QED BY <1>3, <1>5, <2>1, <2>2, <2>3
<1>7. ASSUME NEW x
      PROVE  x \in S \union T <=> \E i \in DOMAIN g : g[i] = x
  <2>1. ASSUME x \in S
        PROVE  \E i \in DOMAIN g : g[i] = x
    <3>1. PICK i \in 1 .. n : f[i] = x
      BY <2>1, <1>2 DEF Lists
    <3>2. i \in DOMAIN g /\ g[i] = x
      BY <1>1, <1>3, <3>1
    <3> QED BY <3>2
  <2>2. ASSUME x \in T
        PROVE  \E i \in DOMAIN g : g[i] = x
    <3>1. PICK l \in 1 .. k : A[l] = x
      BY <2>2, <1>1 DEF Lists
    <3>2. n + l \in DOMAIN g /\ g[n + l] = x
      BY <1>1, <1>3, <3>1
    <3> QED BY <3>2
  <2>3. ASSUME NEW i \in DOMAIN g
        PROVE  g[i] \in S \union T
    BY <1>3, <1>4, <1>5
  <2> QED BY <2>1, <2>2, <2>3
<1>8. Lists(g, S \union T)
  BY <1>6, <1>7 DEF Lists
<1>9. n + k \in Nat /\ g \in [1 .. n + k -> S \union T] /\ (S \union T) \in SUBSET Nat
  BY <1>1, <1>3
<1>10. Ascending(S \union T) = g
  BY <1>8, <1>9, ListsOnce
<1> QED BY <1>10 DEF g, A

\* A number greater than all listed goes to the end of the list.
LEMMA AscendingLast ==
  ASSUME NEW S \in SUBSET Nat, IsFiniteSet(S), NEW x \in Nat, \A y \in S : y < x
  PROVE  Ascending(S \union {x}) = Append(Ascending(S), x)
<1> DEFINE A == Ascending(S)
           one == [i \in 1 .. 1 |-> x]
<1>1. A \in Seq(S) /\ Len(A) = Cardinality(S) /\ Cardinality(S) \in Nat /\ Lists(A, S)
  BY AscendingLists
<1>2. A \in [1 .. Cardinality(S) -> S]
  BY <1>1
<1>3. Ascending({x}) = one
  <2>1. one \in [1 .. 1 -> {x}] /\ {x} \in SUBSET Nat /\ 1 \in Nat /\ Lists(one, {x})
    BY DEF Lists
  <2> HIDE DEF one
  <2> QED BY <2>1, ListsOnce
<1>4. IsFiniteSet({x}) /\ {x} \in SUBSET Nat /\ \A y \in S, z \in {x} : y < z
  BY FS_Singleton
<1>5. A \o Ascending({x}) = Ascending(S \union {x})
  <2> HIDE DEF A
  <2> QED BY <1>1, <1>2, <1>4, ListedBefore
<1>6. one = <<x>> /\ A \o <<x>> = Append(A, x)
  <2> HIDE DEF A
  <2> QED BY <1>1
<1> QED BY <1>3, <1>5, <1>6

LEMMA AscendingNothing == Ascending({}) = <<>>
<1>1. Cardinality({}) = 0
  BY FS_EmptySet
<1>2. 1 .. 0 = {}
  OBVIOUS
<1> QED BY <1>1, <1>2 DEF Ascending

-----------------------------------------------------------------------------
(* What counts for a board, as a set: of the table's events E when no      *)
(* clear of it is on its way, and of what is on its way, W, what comes     *)
(* after the last clear.                                                   *)

KeptIn(E, W, b) ==
  {e.id : e \in {e \in E : e.board = b /\ \A c \in W : c.board = b => ~c.clear}}
  \union {e.id : e \in {e \in W : e.board = b /\ \A c \in W : c.board = b /\ c.clear => c.id < e.id}}

Table == {r.ev : r \in rows}
Way == UNION {ToSet(Waiting(n)) : n \in Nodes}
Kept(b) == KeptIn(Table, Way, b)

LEMMA WayParts ==
  ASSUME TypeOK
  PROVE  /\ Way \in SUBSET Event /\ Table \in SUBSET Event
         /\ \A e : e \in Way <=> \E n \in Nodes : \E i \in DOMAIN Waiting(n) : e = Waiting(n)[i]
<1>1. \A e : e \in Way <=> \E n \in Nodes : \E i \in DOMAIN Waiting(n) : e = Waiting(n)[i]
  BY DEF Way, ToSet
<1>2. Table \in SUBSET Event
  BY DEF Table, TypeOK
<1> QED BY <1>1, <1>2, WaitingSeq

LEMMA KeptFinite ==
  ASSUME Logged, NEW b
  PROVE  Kept(b) \in SUBSET Nat /\ IsFiniteSet(Kept(b)) /\ \A x \in Kept(b) : x <= recorded
<1>1. Way \in SUBSET Event /\ Table \in SUBSET Event /\ recorded \in Nat
  BY WayParts, MaxRecordsNat DEF Logged, TypeOK
<1>2. \A e \in Way \union Table : e.id \in Nat /\ e.id <= recorded
  BY <1>1, WayParts, EventParts DEF Logged, WaitOwn, RowsInOrder, Table
<1>3. Kept(b) \in SUBSET Nat /\ \A x \in Kept(b) : x <= recorded
  BY <1>2 DEF Kept, KeptIn
<1> QED BY <1>1, <1>3, FS_BoundedSetOfNaturals

\* On one node, the ids of what Catchup returns are those of the board's rows, in ascending order.
LEMMA StoredListed ==
  ASSUME Logged, NEW n, Nodes = {n}, NEW b
  PROVE  LET ids == [i \in DOMAIN Catchup(b) |-> Catchup(b)[i].id]
             S == {e.id : e \in {e \in Table : e.board = b}}
         IN  \E k \in Nat : ids \in [1 .. k -> S] /\ Lists(ids, S) /\ S \in SUBSET Nat
<1> DEFINE mine == {r \in rows : r.ev.board = b}
           seqs == {r.seq : r \in mine}
           order == Ascending(seqs)
           k == Cardinality(seqs)
           row(i) == CHOOSE r \in mine : r.seq = order[i]
           ids == [i \in DOMAIN Catchup(b) |-> Catchup(b)[i].id]
           S == {e.id : e \in {e \in Table : e.board = b}}
<1>1. \A r \in mine : r \in rows /\ r.seq \in 1 .. MaxRecords /\ r.ev \in Event /\ r.ev.node = n /\ r.ev.id \in Nat
  <2> SUFFICES ASSUME NEW r \in mine
               PROVE  r \in rows /\ r.seq \in 1 .. MaxRecords /\ r.ev \in Event /\ r.ev.node = n /\ r.ev.id \in Nat
    OBVIOUS
  <2>1. r \in rows /\ r.seq \in 1 .. MaxRecords /\ r.ev \in Event
    BY DEF Logged, TypeOK
  <2> QED BY <2>1, EventParts
<1>2. /\ \A r, s \in mine : r.seq < s.seq => r.ev.id < s.ev.id
      /\ \A r, s \in mine : r.seq = s.seq => r = s
  BY <1>1 DEF Logged, RowsInOrder
<1>3. /\ S = {r.ev.id : r \in mine}
      /\ S \in SUBSET Nat
  <2>1. S = {r.ev.id : r \in mine}
    BY DEF Table
  <2> QED BY <2>1, <1>1
<1>4. seqs \in SUBSET Nat /\ IsFiniteSet(seqs)
  <2>1. seqs \in SUBSET (1 .. MaxRecords)
    BY <1>1
  <2>2. IsFiniteSet(1 .. MaxRecords)
    BY MaxRecordsNat, FS_Interval
  <2>3. IsFiniteSet(seqs)
    BY <2>1, <2>2, FS_Subset
  <2> QED BY <2>1, <2>3, MaxRecordsNat
<1> HIDE DEF seqs
<1>5. k \in Nat /\ DOMAIN order = 1 .. k /\ Lists(order, seqs)
  BY <1>4, AscendingLists
<1>6. Catchup(b) = [i \in DOMAIN order |-> row(i).ev]
  BY DEF Catchup, seqs
<1> HIDE DEF k, order
<1>7. \A i \in 1 .. k : row(i) \in mine /\ row(i).seq = order[i]
  <2> SUFFICES ASSUME NEW i \in 1 .. k
               PROVE  row(i) \in mine /\ row(i).seq = order[i]
    OBVIOUS
  <2>1. order[i] \in seqs
    BY <1>5 DEF Lists
  <2>2. \E r \in mine : r.seq = order[i]
    BY <2>1 DEF seqs
  <2> QED BY <2>2
<1> HIDE DEF row
<1>8. ids = [i \in 1 .. k |-> row(i).ev.id]
  BY <1>5, <1>6
<1> HIDE DEF ids, S, mine
<1>9. ids \in [1 .. k -> S] /\ DOMAIN ids = 1 .. k
  BY <1>3, <1>7, <1>8
<1>10. ASSUME NEW i \in 1 .. k, NEW j \in 1 .. k, i < j
       PROVE  ids[i] < ids[j]
  <2>1. row(i).seq < row(j).seq
    BY <1>5, <1>7, <1>10 DEF Lists
  <2>2. row(i) \in mine /\ row(j) \in mine
    BY <1>7
  <2>3. row(i).ev.id < row(j).ev.id
    BY <1>2, <2>1, <2>2
  <2> QED BY <1>8, <2>3
<1>11. ASSUME NEW x \in S
       PROVE  \E i \in 1 .. k : ids[i] = x
  <2>1. PICK r \in mine : r.ev.id = x
    BY <1>3
  <2>2. r.seq \in seqs
    BY DEF seqs
  <2>3. PICK i \in 1 .. k : order[i] = r.seq
    BY <1>5, <2>2 DEF Lists
  <2>4. row(i) = r
    BY <1>2, <1>7, <2>3
  <2> QED BY <1>8, <2>1, <2>4
<1>12. Lists(ids, S)
  BY <1>9, <1>10, <1>11 DEF Lists
<1> QED BY <1>3, <1>5, <1>9, <1>12 DEF ids, S

LEMMA AppliedIsKept ==
  ASSUME Logged, NEW n, Nodes = {n}, NEW b
  PROVE  Applied(b) = Ascending(Kept(b))
<1> DEFINE later == {e \in OnItsWay(b) : \A c \in ClearsOnTheirWay(b) : c.id < e.id}
           L == {e.id : e \in later}
           ids == [i \in DOMAIN Catchup(b) |-> Catchup(b)[i].id]
           S == {e.id : e \in {e \in Table : e.board = b}}
<1>1. /\ OnItsWay(b) = {e \in Way : e.board = b}
      /\ ClearsOnTheirWay(b) = {e \in Way : e.board = b /\ e.clear}
  BY DEF OnItsWay, ClearsOnTheirWay, Way
<1>2. L = {e.id : e \in {e \in Way : e.board = b /\ \A c \in Way : c.board = b /\ c.clear => c.id < e.id}}
  BY <1>1
<1>3. Way \in SUBSET Event /\ Table \in SUBSET Event /\ recorded \in Nat
  BY WayParts, MaxRecordsNat DEF Logged, TypeOK
<1>4. L \in SUBSET Nat /\ IsFiniteSet(L)
  <2>1. L \subseteq Kept(b)
    BY <1>2 DEF Kept, KeptIn
  <2> HIDE DEF L
  <2> QED BY <2>1, KeptFinite, FS_Subset
<1>5. CASE ClearsOnTheirWay(b) # {}
  <2>1. PICK c \in Way : c.board = b /\ c.clear
    BY <1>1, <1>5
  <2>2. Kept(b) = L
    BY <1>2, <2>1 DEF Kept, KeptIn
  <2>3. Applied(b) = <<>> \o Ascending(L)
    <3>1. Applied(b) = [i \in DOMAIN <<>> |-> <<>>[i].id] \o Ascending(L)
      BY <1>5 DEF Applied
    <3>2. [i \in DOMAIN <<>> |-> <<>>[i].id] = <<>>
      OBVIOUS
    <3> HIDE DEF L
    <3> QED BY <3>1, <3>2
  <2>4. Ascending(L) \in Seq(L)
    <3> HIDE DEF L
    <3> QED BY <1>4, AscendingLists
  <2> HIDE DEF L
  <2>5. <<>> \o Ascending(L) = Ascending(L)
    BY <2>4
  <2> QED BY <2>2, <2>3, <2>5
<1>6. CASE ClearsOnTheirWay(b) = {}
  <2>1. \A c \in Way : c.board = b => ~c.clear
    BY <1>1, <1>6
  <2>2. Kept(b) = S \union L
    BY <1>2, <2>1 DEF Kept, KeptIn
  <2>3. Applied(b) = ids \o Ascending(L)
    BY <1>6 DEF Applied
  <2>4. PICK k \in Nat : ids \in [1 .. k -> S] /\ Lists(ids, S) /\ S \in SUBSET Nat
    BY StoredListed
  <2>5. \A x \in S, y \in L : x < y
    <3> SUFFICES ASSUME NEW r \in rows, r.ev.board = b, NEW e \in Way
                 PROVE  r.ev.id < e.id
      BY <1>2 DEF Table
    <3>1. r.ev.node = n
      BY EventParts DEF Logged, TypeOK
    <3>2. PICK i \in DOMAIN Waiting(n) : e = Waiting(n)[i]
      BY WayParts DEF Logged
    <3> QED BY <3>1, <3>2 DEF Logged, AfterRows
  <2> HIDE DEF S, L, ids
  <2>6. ids \o Ascending(L) = Ascending(S \union L)
    BY <1>4, <2>4, <2>5, ListedBefore
  <2> QED BY <2>2, <2>3, <2>6
<1> QED BY <1>5, <1>6

-----------------------------------------------------------------------------
(* One node without faults keeps the promise of Recorder: a Record call    *)
(* takes effect at once, all the writer does is invisible.                 *)

Listed == Logged /\ \A b \in Boards : Applied(b) = Ascending(Kept(b))

\* The writer's steps do not change what counts.
LEMMA WriterInvisible ==
  ASSUME Logged, Logged', NEW n, Nodes = {n}, Faults = {}, Writer(n), NEW b \in Boards
  PROVE  Kept(b)' = Kept(b)
<1>1. TypeOK /\ WriterShape /\ n \in Nodes /\ QueuesOK'
  BY DEF Logged, QueuesOK, TypeOK
<1>2. Way = ToSet(Waiting(n)) /\ Way' = ToSet(Waiting(n)')
  <2>1. Way' = UNION {ToSet(Waiting(m)') : m \in Nodes}
    BY DEF Way, ToSet
  <2> QED BY <2>1 DEF Way
<1>3. Way \in SUBSET Event /\ Table \in SUBSET Event
  BY <1>1, WayParts
<1>4. Kept(b)' = KeptIn(Table', Way', b)
  BY DEF Kept, KeptIn
<1>5. CASE TakeClear(n) \/ TakeOp(n) \/ Tick(n)
  <2>1. Waiting(n)' = Waiting(n)
    BY <1>1, <1>5, WaitingTakeClear, WaitingTakeOp DEF Tick, Waiting
  <2>2. rows' = rows
    BY <1>5 DEF TakeClear, TakeOp, Tick
  <2> QED BY <1>2, <1>4, <2>1, <2>2 DEF Table, Kept
<1>6. CASE Insert(n)
  <2> DEFINE B == ToSet(batch[n])
             L == Len(batch[n])
  <2>1. /\ Len(Waiting(n)) = L + Len(Waiting(n)') /\ Len(Waiting(n)') \in Nat
        /\ DOMAIN (Waiting(n)') = 1 .. Len(Waiting(n)')
        /\ \A i \in 1 .. Len(Waiting(n)') : Waiting(n)'[i] = Waiting(n)[L + i]
        /\ \A i \in 1 .. L : Waiting(n)[i] = batch[n][i]
    BY <1>1, <1>6, WaitingInsert
  <2>2. /\ L \in Nat /\ DOMAIN batch[n] = 1 .. L
        /\ DOMAIN Waiting(n) = 1 .. Len(Waiting(n)) /\ Len(Waiting(n)) \in Nat
    <3>1. batch[n] \in Seq(Event)
      BY <1>1, WaitingSeq
    <3> QED BY <3>1, <1>1, WaitingSeq
  <2> HIDE DEF L
  <2>3. Way = Way' \union B
    <3>1. \A i \in 1 .. L : i \in DOMAIN Waiting(n)
      BY <2>1, <2>2
    <3>2. \A i \in DOMAIN (Waiting(n)') : L + i \in DOMAIN Waiting(n) /\ Waiting(n)'[i] = Waiting(n)[L + i]
      BY <2>1, <2>2
    <3>3. ASSUME NEW i \in DOMAIN Waiting(n), ~ (i \in 1 .. L)
          PROVE  i - L \in DOMAIN (Waiting(n)') /\ L + (i - L) = i
      BY <2>1, <2>2, <3>3
    <3>4. Way' \union B \subseteq Way
      BY <1>2, <2>1, <2>2, <3>1, <3>2 DEF ToSet
    <3>5. Way \subseteq Way' \union B
      <4> SUFFICES ASSUME NEW i \in DOMAIN Waiting(n)
                   PROVE  Waiting(n)[i] \in Way' \union B
        BY <1>2 DEF ToSet
      <4>1. CASE i \in 1 .. L
        BY <2>1, <2>2, <4>1 DEF ToSet
      <4>2. CASE ~ (i \in 1 .. L)
        <5>1. Waiting(n)[i] = Waiting(n)'[i - L] /\ i - L \in DOMAIN (Waiting(n)')
          BY <3>2, <3>3, <4>2
        <5> QED BY <1>2, <5>1 DEF ToSet
      <4> QED BY <4>1, <4>2
    <3> QED BY <3>4, <3>5
  <2>4. Table' = Table \union B
    <3>1. rows' = rows \union {[seq |-> nextSeq + i - 1, ev |-> batch[n][i]] : i \in DOMAIN batch[n]}
      BY <1>6 DEF Insert
    <3> DEFINE row(i) == [seq |-> nextSeq + i - 1, ev |-> batch[n][i]]
    <3>2. rows' = rows \union {row(i) : i \in DOMAIN batch[n]} /\ \A i \in DOMAIN batch[n] : row(i).ev = batch[n][i]
      BY <3>1
    <3> HIDE DEF row
    <3>3. {r.ev : r \in {row(i) : i \in DOMAIN batch[n]}} = B
      BY <3>2 DEF ToSet
    <3>4. Table' = Table \union {r.ev : r \in {row(i) : i \in DOMAIN batch[n]}}
      BY <3>2 DEF Table
    <3> QED BY <3>3, <3>4
  <2>5. ASSUME NEW e \in B
        PROVE  ~e.clear /\ \A f \in Way' : e.id < f.id
    <3>1. PICK i \in 1 .. L : e = batch[n][i]
      BY <2>2 DEF ToSet
    <3>2. ~e.clear
      BY <1>1, <2>2, <3>1 DEF WriterShape
    <3>3. ASSUME NEW f \in Way'
          PROVE  e.id < f.id
      <4>1. PICK j \in 1 .. Len(Waiting(n)') : f = Waiting(n)'[j]
        BY <1>2, <2>1 DEF ToSet
      <4>2. i \in DOMAIN Waiting(n) /\ L + j \in DOMAIN Waiting(n) /\ i < L + j
        BY <2>1, <2>2
      <4>3. Waiting(n)[i].id < Waiting(n)[L + j].id
        BY <1>1, <4>2 DEF Logged, WaitInOrder
      <4> QED BY <2>1, <3>1, <4>1, <4>3
    <3> QED BY <3>2, <3>3
  <2>6. B \in SUBSET Event /\ Way' \in SUBSET Event
    BY <1>3, <2>3
  <2> HIDE DEF B
  <2>7. KeptIn(Table \union B, Way', b) = KeptIn(Table, Way' \union B, b)
    <3>1. (\A e \in B : ~e.clear) /\ \A e \in B, f \in Way' : e.id < f.id
      BY <2>5
    <3>2. Table \in SUBSET Event
      BY <1>3
    <3>3. \A e \in B, f \in Way' : ~ (f.id < e.id)
      BY <2>6, <3>1, EventParts
    <3> QED BY <2>6, <3>1, <3>2, <3>3 DEF KeptIn
  <2> QED BY <1>4, <2>3, <2>4, <2>7 DEF Kept
<1>7. CASE Delete(n)
  <2> DEFINE ev == held[n][1]
  <2>1. /\ Len(Waiting(n)) = 1 + Len(Waiting(n)') /\ Len(Waiting(n)') \in Nat
        /\ DOMAIN (Waiting(n)') = 1 .. Len(Waiting(n)')
        /\ \A i \in 1 .. Len(Waiting(n)') : Waiting(n)'[i] = Waiting(n)[1 + i]
        /\ Waiting(n)[1] = ev /\ ev \in Event /\ ev.clear
    BY <1>1, <1>7, WaitingDelete
  <2>2. DOMAIN Waiting(n) = 1 .. Len(Waiting(n)) /\ Len(Waiting(n)) \in Nat
    BY <1>1, WaitingSeq
  <2>3. rows' = {r \in rows : r.ev.board # ev.board}
    BY <1>7 DEF Delete
  <2> HIDE DEF ev
  <2>4. Way = Way' \union {ev}
    <3>1. \A i \in DOMAIN (Waiting(n)') : 1 + i \in DOMAIN Waiting(n) /\ Waiting(n)'[i] = Waiting(n)[1 + i]
      BY <2>1, <2>2
    <3>2. ASSUME NEW i \in DOMAIN Waiting(n), i # 1
          PROVE  i - 1 \in DOMAIN (Waiting(n)') /\ Waiting(n)[i] = Waiting(n)'[i - 1]
      <4>1. i - 1 \in DOMAIN (Waiting(n)') /\ 1 + (i - 1) = i
        BY <2>1, <2>2, <3>2
      <4> QED BY <4>1, <3>1
    <3>3. 1 \in DOMAIN Waiting(n)
      BY <2>1, <2>2
    <3>4. Way' \union {ev} \subseteq Way
      BY <1>2, <2>1, <3>1, <3>3 DEF ToSet
    <3>5. Way \subseteq Way' \union {ev}
      <4> SUFFICES ASSUME NEW i \in DOMAIN Waiting(n)
                   PROVE  Waiting(n)[i] \in Way' \union {ev}
        BY <1>2 DEF ToSet
      <4>1. CASE i = 1
        BY <2>1, <4>1
      <4>2. CASE i # 1
        BY <1>2, <3>2, <4>2 DEF ToSet
      <4> QED BY <4>1, <4>2
    <3> QED BY <3>4, <3>5
  <2>5. Table' = {e \in Table : e.board # ev.board}
    BY <2>3 DEF Table
  <2>6. ASSUME NEW f \in Way'
        PROVE  ev.id < f.id
    <3>1. PICK j \in 1 .. Len(Waiting(n)') : f = Waiting(n)'[j]
      BY <1>2, <2>1 DEF ToSet
    <3>2. 1 \in DOMAIN Waiting(n) /\ 1 + j \in DOMAIN Waiting(n) /\ 1 < 1 + j
      BY <2>1, <2>2
    <3>3. Waiting(n)[1].id < Waiting(n)[1 + j].id
      BY <1>1, <3>2 DEF Logged, WaitInOrder
    <3> QED BY <2>1, <3>1, <3>3
  <2>7. Way' \in SUBSET Event
    BY <1>3, <2>4
  <2>8. KeptIn({e \in Table : e.board # ev.board}, Way', b) = KeptIn(Table, Way' \union {ev}, b)
    <3>1. ~ (ev.id < ev.id)
      BY <2>1, EventParts
    <3>2. CASE b = ev.board
      BY <2>1, <2>6, <3>1, <3>2 DEF KeptIn
    <3>3. CASE b # ev.board
      BY <3>1, <3>3 DEF KeptIn
    <3> QED BY <3>2, <3>3
  <2> QED BY <1>4, <2>4, <2>5, <2>8 DEF Kept
<1> QED BY <1>5, <1>6, <1>7 DEF Writer

\* A Record call changes at once what counts for its board, or nothing if it is shed.
LEMMA RecordVisible ==
  ASSUME Listed, Listed', NEW n, Nodes = {n}, \E b \in Boards, clear \in BOOLEAN : Record(n, b, clear)
  PROVE  /\ recorded' = recorded + 1
         /\ \/ \A a \in Boards : Applied(a)' = Applied(a)
            \/ \E b \in Boards : \A a \in Boards :
                 Applied(a)' = IF a = b THEN <<>> ELSE Applied(a)
            \/ \E b \in Boards : \A a \in Boards :
                 Applied(a)' = IF a = b THEN Append(Applied(b), recorded') ELSE Applied(a)
<1> PICK b \in Boards, clear \in BOOLEAN : Record(n, b, clear)
  OBVIOUS
<1> DEFINE ev == [id |-> recorded + 1, node |-> n, board |-> b, clear |-> clear]
<1>1. Logged /\ TypeOK /\ n \in Nodes /\ recorded \in Nat
  BY MaxRecordsNat DEF Listed, Logged, TypeOK
<1>2. /\ ev \in Event /\ ev.id = recorded + 1 /\ ev.board = b /\ ev.clear = clear /\ recorded' = recorded + 1
      /\ Waiting(n)' = Append(Waiting(n), ev) \/ Waiting(n)' = Waiting(n)
  BY <1>1, WaitingRecord
<1>3. Table' = Table
  BY DEF Record, Table
<1>4. Way = ToSet(Waiting(n)) /\ Way' = ToSet(Waiting(n)')
  <2>1. Way' = UNION {ToSet(Waiting(m)') : m \in Nodes}
    BY DEF Way, ToSet
  <2> QED BY <2>1 DEF Way
<1>5. /\ Way \in SUBSET Event /\ Table \in SUBSET Event
      /\ \A e \in Way : e.id < recorded + 1
  <2>1. Way \in SUBSET Event /\ Table \in SUBSET Event
    BY <1>1, WayParts
  <2>2. \A e \in Way : e.id <= recorded /\ e.id \in Nat
    BY <1>1, <2>1, WayParts, EventParts DEF Logged, WaitOwn
  <2> QED BY <1>1, <2>1, <2>2
<1>6. \A a \in Boards : /\ Applied(a) = Ascending(Kept(a))
                        /\ Applied(a)' = Ascending(KeptIn(Table', Way', a))
  <2>1. \A a \in Boards : Applied(a)' = Ascending(Kept(a))'
    BY DEF Listed
  <2>2. \A a \in Boards : Ascending(Kept(a))' = Ascending(KeptIn(Table', Way', a))
    BY DEF Kept, KeptIn, Ascending
  <2> QED BY <2>1, <2>2 DEF Listed
<1> HIDE DEF ev
<1>7. CASE Waiting(n)' = Waiting(n)
  BY <1>2, <1>3, <1>4, <1>6, <1>7 DEF Kept
<1>8. CASE Waiting(n)' = Append(Waiting(n), ev)
  <2>1. Way' = Way \union {ev}
    <3> DEFINE w == Waiting(n)
    <3>1. w \in Seq(Event)
      BY <1>1, WaitingSeq
    <3> HIDE DEF w
    <3>2. ToSet(Append(w, ev)) = ToSet(w) \union {ev}
      <4>1. /\ DOMAIN w = 1 .. Len(w) /\ Len(w) \in Nat
            /\ DOMAIN Append(w, ev) = 1 .. Len(w) + 1 /\ Append(w, ev)[Len(w) + 1] = ev
            /\ \A i \in 1 .. Len(w) : Append(w, ev)[i] = w[i]
        BY <3>1, <1>2
      <4>2. DOMAIN Append(w, ev) = DOMAIN w \union {Len(w) + 1}
        BY <4>1
      <4> QED BY <4>1, <4>2 DEF ToSet
    <3> QED BY <1>4, <1>8, <3>2 DEF w
  <2>2. \A a \in Boards : Kept(a) \in SUBSET Nat /\ IsFiniteSet(Kept(a)) /\ \A x \in Kept(a) : x < recorded + 1
    <3>1. \A a \in Boards : Kept(a) \in SUBSET Nat /\ IsFiniteSet(Kept(a)) /\ \A x \in Kept(a) : x <= recorded
      BY <1>1, KeptFinite
    <3>2. ASSUME NEW a \in Boards, NEW x \in Kept(a)
          PROVE  x < recorded + 1
      BY <1>1, <3>1
    <3> QED BY <3>1, <3>2
  <2>3. /\ ev \in Event /\ Way \in SUBSET Event /\ Table \in SUBSET Event
        /\ \A e \in Way : e.id < ev.id
    BY <1>2, <1>5
  <2>4. CASE ev.clear
    <3>1. \A a \in Boards : KeptIn(Table, Way \union {ev}, a) = IF a = b THEN {} ELSE KeptIn(Table, Way, a)
      <4>1. \A a \in Boards : KeptIn(Table, Way \union {ev}, a) = IF a = ev.board THEN {} ELSE KeptIn(Table, Way, a)
        <5>1. ev.id \in Nat /\ \A e \in Way : e.id \in Nat
          BY <2>3, EventParts
        <5>2. ~ (ev.id < ev.id) /\ \A e \in Way : ~ (ev.id < e.id)
          BY <2>3, <5>1
        <5> QED BY <2>3, <2>4, <5>2 DEF KeptIn
      <4> QED BY <1>2, <4>1
    <3>2. \A a \in Boards : Applied(a)' = IF a = b THEN <<>> ELSE Applied(a)
      BY <1>3, <1>6, <2>1, <3>1, AscendingNothing DEF Kept
    <3> QED BY <1>2, <3>2
  <2>5. CASE ~ev.clear
    <3>1. \A a \in Boards : KeptIn(Table, Way \union {ev}, a) =
                              IF a = b THEN KeptIn(Table, Way, b) \union {recorded + 1} ELSE KeptIn(Table, Way, a)
      <4>1. \A a \in Boards : KeptIn(Table, Way \union {ev}, a) =
                                IF a = ev.board THEN KeptIn(Table, Way, a) \union {ev.id} ELSE KeptIn(Table, Way, a)
        BY <2>3, <2>5 DEF KeptIn
      <4> QED BY <1>2, <4>1
    <3>2. Ascending(Kept(b) \union {recorded + 1}) = Append(Ascending(Kept(b)), recorded + 1)
      <4>1. /\ Kept(b) \in SUBSET Nat /\ IsFiniteSet(Kept(b)) /\ recorded + 1 \in Nat
            /\ \A x \in Kept(b) : x < recorded + 1
        BY <1>1, <2>2
      <4> QED BY <4>1, AscendingLast
    <3>3. \A a \in Boards : a # b => Applied(a)' = Applied(a)
      BY <1>3, <1>6, <2>1, <3>1 DEF Kept
    <3>4. Applied(b)' = Append(Applied(b), recorded')
      BY <1>2, <1>3, <1>6, <2>1, <3>1, <3>2 DEF Kept
    <3>5. \A a \in Boards : Applied(a)' = IF a = b THEN Append(Applied(b), recorded') ELSE Applied(a)
      BY <3>3, <3>4
    <3> QED BY <1>2, <3>5
  <2> QED BY <2>4, <2>5
<1> QED BY <1>2, <1>7, <1>8

(***************************************************************************)
(* Record returns before anything is stored, and the batches, the tick and *)
(* the DELETE come later: on one node whose statements all succeed nobody  *)
(* can tell.  PostgresRecorder implements Recorder, whatever the boards    *)
(* and the two limits.                                                     *)
(***************************************************************************)
THEOREM OneNodeImplementsRecorder ==
  ASSUME NEW n, Nodes = {n}, Faults = {}
  PROVE  Spec => ImplementsRecorder
<1>1. Logged => Listed
  BY AppliedIsKept DEF Listed
<1>2. Init => Promise!Init
  <2> SUFFICES ASSUME Init
               PROVE  recorded = 0 /\ \A b \in Boards : Applied(b) = <<>>
    BY DEF Promise!Init
  <2>1. Logged /\ Listed
    BY <1>1, LoggedInit
  <2>2. Waiting(n) = <<>> /\ rows = {}
    BY DEF Init, Waiting
  <2>3. Way = {} /\ Table = {}
    BY <2>2 DEF Way, Table, ToSet
  <2>4. \A b \in Boards : Kept(b) = {}
    BY <2>3 DEF Kept, KeptIn
  <2> QED BY <2>1, <2>4, AscendingNothing DEF Listed, Init
<1>3. ASSUME Listed, Listed', [Next]_recVars
      PROVE  [Promise!Next]_<<[b \in Boards |-> Applied(b)], recorded>>
  <2>1. CASE UNCHANGED recVars
    <3>1. /\ queue' = queue /\ batch' = batch /\ held' = held /\ rows' = rows /\ recorded' = recorded
      BY <2>1 DEF recVars
    <3>2. \A b \in Boards : Applied(b)' = Applied(b)
      BY <3>1 DEF Applied, OnItsWay, ClearsOnTheirWay, Catchup, Ascending, Waiting, ToSet
    <3> QED BY <3>1, <3>2
  <2>2. CASE \E b \in Boards, clear \in BOOLEAN : Record(n, b, clear)
    <3>1. /\ recorded' = recorded + 1
          /\ \/ \A a \in Boards : Applied(a)' = Applied(a)
             \/ \E b \in Boards : \A a \in Boards :
                  Applied(a)' = IF a = b THEN <<>> ELSE Applied(a)
             \/ \E b \in Boards : \A a \in Boards :
                  Applied(a)' = IF a = b THEN Append(Applied(b), recorded') ELSE Applied(a)
      BY <1>3, <2>2, RecordVisible
    <3>2. CASE \A a \in Boards : Applied(a)' = Applied(a)
      BY <3>1, <3>2 DEF Promise!Next, Promise!RecordNothing
    <3>3. CASE \E b \in Boards : \A a \in Boards : Applied(a)' = IF a = b THEN <<>> ELSE Applied(a)
      BY <3>1, <3>3 DEF Promise!Next, Promise!RecordClear
    <3>4. CASE \E b \in Boards : \A a \in Boards :
                 Applied(a)' = IF a = b THEN Append(Applied(b), recorded') ELSE Applied(a)
      BY <3>1, <3>4 DEF Promise!Next, Promise!RecordOp
    <3> QED BY <3>1, <3>2, <3>3, <3>4
  <2>3. CASE Writer(n)
    <3>1. recorded' = recorded
      BY <2>3 DEF Writer, TakeClear, TakeOp, Tick, Insert, Delete
    <3>2. \A b \in Boards : Kept(b)' = Kept(b)
      BY <1>3, <2>3, WriterInvisible DEF Listed
    <3>3. \A b \in Boards : Applied(b)' = Applied(b)
      <4>1. \A b \in Boards : Applied(b)' = Ascending(Kept(b))' /\ Applied(b) = Ascending(Kept(b))
        BY <1>3 DEF Listed
      <4>2. \A b \in Boards : Ascending(Kept(b))' = Ascending(Kept(b))
        <5> SUFFICES ASSUME NEW b \in Boards
                     PROVE  Ascending(Kept(b))' = Ascending(Kept(b))
          OBVIOUS
        <5>1. Kept(b)' = Kept(b)
          BY <3>2
        <5> QED BY <5>1 DEF Ascending
      <4> QED BY <4>1, <4>2
    <3> QED BY <3>1, <3>3
  <2>4. CASE Crash(n)
    BY <2>4 DEF Crash
  <2> QED BY <1>3, <2>1, <2>2, <2>3, <2>4 DEF Next
<1> QED BY <1>1, <1>2, <1>3, AlwaysLogged, PTL DEF Spec, ImplementsRecorder, Promise!Spec

===============================================================================
