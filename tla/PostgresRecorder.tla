--------------------------- MODULE PostgresRecorder ---------------------------
(***************************************************************************)
(* The shared op log (internal/store/postgres.go): Record enqueues without *)
(* blocking, and one writer goroutine per node turns its queue into batch  *)
(* INSERTs and, for a clear, a DELETE.  Each SQL statement is one          *)
(* transaction, so it is one step; statements of different nodes, and of   *)
(* the two a clear takes, interleave.                                      *)
(***************************************************************************)
EXTENDS Naturals, Sequences, SequencesExt, FiniteSetsExt

CONSTANTS Nodes, Boards,
          QueueLimit,     \* writerQueue: what a node holds before it sheds
          BatchLimit,     \* writerBatch: the batch size that forces a flush
          Faults,         \* which of "insert", "delete", "crash" can go wrong
          MaxRecords      \* bound on the Record calls of a behaviour

ASSUME LimitsPositive == QueueLimit \in Nat \ {0} /\ BatchLimit \in Nat \ {0}
ASSUME MaxRecordsNat == MaxRecords \in Nat

\* A pgEvent; id is the place of its Record call in the order of those calls.
Event == [id : 1 .. MaxRecords, node : Nodes, board : Boards, clear : BOOLEAN]

VARIABLES
  queue,      \* queue[n]: the channel p.ch of node n
  batch,      \* batch[n]: the writer's boards/ops, appended and not yet inserted
  held,       \* held[n]: <<the clear the writer is carrying out>>, or <<>>
  writer,     \* writer[n]: the statement the writer executes next, or "select"
  rows,       \* the table board_ops: events with their seq
  nextSeq,    \* the next value of the bigserial
  recorded,   \* Record calls with a durable payload so far
  wiped       \* wiped[n][b]: the id of n's last clear of b that the database executed

recVars == <<queue, batch, held, writer, rows, nextSeq, recorded, wiped>>

Init ==
  /\ queue = [n \in Nodes |-> <<>>]
  /\ batch = [n \in Nodes |-> <<>>]
  /\ held = [n \in Nodes |-> <<>>]
  /\ writer = [n \in Nodes |-> "select"]
  /\ rows = {}
  /\ nextSeq = 1
  /\ recorded = 0
  /\ wiped = [n \in Nodes |-> [b \in Boards |-> 0]]

(***************************************************************************)
(* Record, called by any readPump of the node: a full queue sheds the      *)
(* event, clears included.                                                 *)
(***************************************************************************)
Record(n, b, clear) ==
  LET ev == [id |-> recorded + 1, node |-> n, board |-> b, clear |-> clear] IN
  /\ recorded < MaxRecords
  /\ recorded' = recorded + 1
  /\ queue' = IF Len(queue[n]) < QueueLimit
                THEN [queue EXCEPT ![n] = Append(@, ev)] ELSE queue
  /\ UNCHANGED <<batch, held, writer, rows, nextSeq, wiped>>

\* Slip: the clear does not flush, so the batch is inserted after the DELETE.
TakeClearUnflushed(n) ==
  /\ writer[n] = "select" /\ queue[n] # <<>> /\ Head(queue[n]).clear
  /\ held' = [held EXCEPT ![n] = <<Head(queue[n])>>]
  /\ queue' = [queue EXCEPT ![n] = Tail(@)]
  /\ writer' = [writer EXCEPT ![n] = "delete"]
  /\ UNCHANGED <<batch, rows, nextSeq, recorded, wiped>>

(***************************************************************************)
(* The writer receives an event.  A clear flushes the batch, when there is *)
(* one, before it deletes.                                                 *)
(***************************************************************************)
TakeClear(n) ==
  /\ writer[n] = "select" /\ queue[n] # <<>> /\ Head(queue[n]).clear
  /\ held' = [held EXCEPT ![n] = <<Head(queue[n])>>]
  /\ queue' = [queue EXCEPT ![n] = Tail(@)]
  /\ writer' = [writer EXCEPT ![n] = IF batch[n] = <<>> THEN "delete" ELSE "insert"]
  /\ UNCHANGED <<batch, rows, nextSeq, recorded, wiped>>

\* Slip: len(ops) > writerBatch.
TakeOpOffByOne(n) ==
  /\ writer[n] = "select" /\ queue[n] # <<>> /\ ~Head(queue[n]).clear
  /\ batch' = [batch EXCEPT ![n] = Append(@, Head(queue[n]))]
  /\ queue' = [queue EXCEPT ![n] = Tail(@)]
  /\ writer' = [writer EXCEPT ![n] = IF Len(batch[n]) + 1 > BatchLimit THEN "insert" ELSE @]
  /\ UNCHANGED <<held, rows, nextSeq, recorded, wiped>>

TakeOp(n) ==
  /\ writer[n] = "select" /\ queue[n] # <<>> /\ ~Head(queue[n]).clear
  /\ batch' = [batch EXCEPT ![n] = Append(@, Head(queue[n]))]
  /\ queue' = [queue EXCEPT ![n] = Tail(@)]
  /\ writer' = [writer EXCEPT ![n] = IF Len(batch[n]) + 1 >= BatchLimit THEN "insert" ELSE @]
  /\ UNCHANGED <<held, rows, nextSeq, recorded, wiped>>

\* Slip: the tick, too, waits for a full batch.
TickFullOnly(n) ==
  /\ writer[n] = "select" /\ Len(batch[n]) >= BatchLimit
  /\ writer' = [writer EXCEPT ![n] = "insert"]
  /\ UNCHANGED <<queue, batch, held, rows, nextSeq, recorded, wiped>>

\* The tick flushes whatever is batched; select may prefer it to a waiting event.
Tick(n) ==
  /\ writer[n] = "select" /\ batch[n] # <<>>
  /\ writer' = [writer EXCEPT ![n] = "insert"]
  /\ UNCHANGED <<queue, batch, held, rows, nextSeq, recorded, wiped>>

\* Slip: the batch is kept after the INSERT.
InsertKeepsBatch(n) ==
  /\ writer[n] = "insert"
  /\ \/ /\ rows' = rows \union
                    {[seq |-> nextSeq + i - 1, ev |-> batch[n][i]] : i \in DOMAIN batch[n]}
        /\ nextSeq' = nextSeq + Len(batch[n])
     \/ "insert" \in Faults /\ UNCHANGED <<rows, nextSeq>>
  /\ writer' = [writer EXCEPT ![n] = IF held[n] = <<>> THEN "select" ELSE "delete"]
  /\ UNCHANGED <<queue, batch, held, recorded, wiped>>

(***************************************************************************)
(* flush's INSERT: all rows or, on an error that is only logged, none; the *)
(* batch is dropped either way.                                            *)
(***************************************************************************)
Insert(n) ==
  /\ writer[n] = "insert"
  /\ \/ /\ rows' = rows \union
                    {[seq |-> nextSeq + i - 1, ev |-> batch[n][i]] : i \in DOMAIN batch[n]}
        /\ nextSeq' = nextSeq + Len(batch[n])
     \/ "insert" \in Faults /\ UNCHANGED <<rows, nextSeq>>
  /\ batch' = [batch EXCEPT ![n] = <<>>]
  /\ writer' = [writer EXCEPT ![n] = IF held[n] = <<>> THEN "select" ELSE "delete"]
  /\ UNCHANGED <<queue, held, recorded, wiped>>

\* The clear's DELETE takes every node's rows of the board; an error is only logged.
Delete(n) ==
  LET ev == held[n][1] IN
  /\ writer[n] = "delete"
  /\ \/ /\ rows' = {r \in rows : r.ev.board # ev.board}
        /\ wiped' = [wiped EXCEPT ![n][ev.board] = ev.id]
     \/ "delete" \in Faults /\ UNCHANGED <<rows, wiped>>
  /\ held' = [held EXCEPT ![n] = <<>>]
  /\ writer' = [writer EXCEPT ![n] = "select"]
  /\ UNCHANGED <<queue, batch, nextSeq, recorded>>

\* A gateway process dies and comes back: what was not inserted is gone.
Crash(n) ==
  /\ "crash" \in Faults
  /\ queue' = [queue EXCEPT ![n] = <<>>]
  /\ batch' = [batch EXCEPT ![n] = <<>>]
  /\ held' = [held EXCEPT ![n] = <<>>]
  /\ writer' = [writer EXCEPT ![n] = "select"]
  /\ UNCHANGED <<rows, nextSeq, recorded, wiped>>

Writer(n) == TakeClear(n) \/ TakeOp(n) \/ Tick(n) \/ Insert(n) \/ Delete(n)

Next ==
  \E n \in Nodes :
    \/ \E b \in Boards, clear \in BOOLEAN : Record(n, b, clear)
    \/ Writer(n)
    \/ Crash(n)

Spec == Init /\ [][Next]_recVars

\* The writer goroutine is scheduled, its ticker fires and its statements return.
FairSpec == Spec /\ \A n \in Nodes : WF_recVars(Writer(n))

\* A finite set of numbers from the least to the greatest.
Ascending(S) ==
  [i \in 1 .. Cardinality(S) |-> CHOOSE x \in S : Cardinality({y \in S : y <= x}) = i]

\* Catchup: the board's events in the order of seq.
Catchup(b) ==
  LET mine == {r \in rows : r.ev.board = b}
      order == Ascending({r.seq : r \in mine})
  IN  [i \in DOMAIN order |-> (CHOOSE r \in mine : r.seq = order[i]).ev]

-----------------------------------------------------------------------------
\* What n accepted and has not stored, dropped or carried out, oldest first.
Waiting(n) == batch[n] \o held[n] \o queue[n]

\* The state has the shape of the code's, within the writer's two limits.
TypeOK ==
  /\ queue \in [Nodes -> Seq(Event)]
  /\ batch \in [Nodes -> Seq(Event)]
  /\ held \in [Nodes -> Seq(Event)]
  /\ \A n \in Nodes : /\ Len(queue[n]) <= QueueLimit
                      /\ Len(batch[n]) <= BatchLimit
                      /\ Len(held[n]) <= 1
  /\ writer \in [Nodes -> {"select", "insert", "delete"}]
  /\ rows \subseteq [seq : 1 .. MaxRecords, ev : Event]
  /\ nextSeq \in 1 .. MaxRecords + 1
  /\ recorded \in 0 .. MaxRecords
  /\ wiped \in [Nodes -> [Boards -> 0 .. MaxRecords]]

(***************************************************************************)
(* "Each op is stored exactly once" (DECISIONS.md:68) and replayed "in     *)
(* order" (hub.go:26), as far as one node can promise it: its events pass  *)
(* queue, batch and table in the order of their Record calls and none is     *)
(* ever in two places, whatever statement fails or process dies.           *)
(***************************************************************************)
FifoPerNode ==
  \A n \in Nodes :
    /\ \A i, j \in DOMAIN Waiting(n) : i < j => Waiting(n)[i].id < Waiting(n)[j].id
    /\ \A r \in rows :
         r.ev.node = n =>
           /\ \A i \in DOMAIN Waiting(n) : r.ev.id < Waiting(n)[i].id
           /\ \A s \in rows : s.ev.node = n /\ r.seq < s.seq => r.ev.id < s.ev.id

(***************************************************************************)
(* "apply pending draws before wiping" (postgres.go:117): once a clear has *)
(* been executed, nothing its node recorded before it is in the log, then  *)
(* or ever after; a late joiner cannot see an object come back.            *)
(***************************************************************************)
ClearedStaysCleared ==
  \A r \in rows : r.ev.id > wiped[r.ev.node][r.ev.board]

\* The event of that Record call was accepted and is not yet dealt with.
Pending(id) ==
  \E n \in Nodes : \E e \in ToSet(Waiting(n)) : e.id = id

(***************************************************************************)
(* Record only enqueues; the writer's batches and tick see to it that what *)
(* was enqueued does not wait for ever (postgres.go:113-131).              *)
(***************************************************************************)
EventuallyWritten ==
  \A id \in 1 .. MaxRecords : Pending(id) ~> ~Pending(id)

(***************************************************************************)
(* On one node, while every statement succeeds, queue, batches and the     *)
(* separate DELETE are invisible: what Catchup returns, followed by what   *)
(* is on its way, is what a recorder that acts at once would return.  Of   *)
(* both, only what comes after the last clear on its way counts.           *)
(***************************************************************************)
OnItsWay(b) == {e \in UNION {ToSet(Waiting(n)) : n \in Nodes} : e.board = b}
ClearsOnTheirWay(b) == {e \in OnItsWay(b) : e.clear}
Applied(b) ==
  LET stored == IF ClearsOnTheirWay(b) = {} THEN Catchup(b) ELSE <<>>
      later == {e \in OnItsWay(b) : \A c \in ClearsOnTheirWay(b) : c.id < e.id}
  IN  [i \in DOMAIN stored |-> stored[i].id] \o Ascending({e.id : e \in later})

Promise == INSTANCE Recorder WITH ops <- [b \in Boards |-> Applied(b)], calls <- recorded

ImplementsRecorder == Promise!Spec
=============================================================================
