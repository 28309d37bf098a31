------------------------------ MODULE Connection ------------------------------
(***************************************************************************)
(* One WebSocket connection of a gateway (internal/hub/client.go): the     *)
(* HTTP handler ServeWS, which registers the client and replays the board  *)
(* to it, the writePump and readPump goroutines it starts, and the bounded *)
(* channel c.send that the handler (blocking) and DeliverLocal (dropping)  *)
(* fill and writePump drains.                                              *)
(***************************************************************************)
EXTENDS Naturals, Sequences, SequencesExt

CONSTANTS SendBuffer,    \* sendBuffer: the capacity of c.send
          MaxReplay,     \* bound on the ops Catchup returns
          MaxLive        \* bound on the frames other clients send meanwhile

ASSUME SendBufferPositive == SendBuffer \in Nat \ {0}
ASSUME BoundsNat == MaxReplay \in Nat /\ MaxLive \in Nat

\* A frame for the client: hello, the k-th op of the replay, the k-th frame fanned out.
Frame == [from : {"hello", "replay", "live"}, k : 0 .. MaxReplay + MaxLive]
Hello == [from |-> "hello", k |-> 0]
Replay(k) == [from |-> "replay", k |-> k]
Live(k) == [from |-> "live", k |-> k]

VARIABLES
  handler,      \* what ServeWS does next; "done" once it has returned
  replay,       \* the ops the handler still has to send
  fetched,      \* how many ops Catchup returned
  registered,   \* the client is in Hub.boards
  send,         \* the channel c.send
  writePump,    \* "off", "select", "write" or "dead"
  writing,      \* <<the frame writePump is writing>>, or <<>>
  readPump,     \* "off", "read", "remove", "close" or "dead"
  socket,       \* "up" until either end closes it or the network drops it
  live,         \* frames fanned out to the client so far
  received      \* what the peer has received

connVars == <<handler, replay, fetched, registered, send, writePump, writing,
              readPump, socket, live, received>>

Init ==
  /\ handler = "add"
  /\ replay = <<>> /\ fetched = 0
  /\ registered = FALSE
  /\ send = <<>>
  /\ writePump = "off" /\ writing = <<>>
  /\ readPump = "off"
  /\ socket = "up"
  /\ live = 0
  /\ received = <<>>

-----------------------------------------------------------------------------
(* ServeWS, after the upgrade. *)

Add ==
  /\ handler = "add"
  /\ registered' = TRUE
  /\ handler' = "startWriter"
  /\ UNCHANGED <<replay, fetched, send, writePump, writing, readPump, socket, live, received>>

\* Slip: the go statement is lost.
StartWriterForgotten ==
  /\ handler = "startWriter"
  /\ handler' = "hello"
  /\ UNCHANGED <<replay, fetched, registered, send, writePump, writing, readPump, socket, live, received>>

\* "Start the writer first so the sends below can't deadlock on the buffer."
StartWriter ==
  /\ handler = "startWriter"
  /\ writePump' = "select"
  /\ handler' = "hello"
  /\ UNCHANGED <<replay, fetched, registered, send, writing, readPump, socket, live, received>>

\* c.send <- hello waits for room in the channel.
SendHello ==
  /\ handler = "hello" /\ Len(send) < SendBuffer
  /\ send' = Append(send, Hello)
  /\ handler' = "catchup"
  /\ UNCHANGED <<replay, fetched, registered, writePump, writing, readPump, socket, live, received>>

Catchup ==
  /\ handler = "catchup"
  /\ \E n \in 0 .. MaxReplay :
       fetched' = n /\ replay' = [k \in 1 .. n |-> Replay(k)]
  /\ handler' = "replay"
  /\ UNCHANGED <<registered, send, writePump, writing, readPump, socket, live, received>>

\* Slip: the replay is sent as DeliverLocal sends, dropping on a full channel.
SendReplayDropping ==
  /\ handler = "replay" /\ replay # <<>>
  /\ send' = IF Len(send) < SendBuffer THEN Append(send, Head(replay)) ELSE send
  /\ replay' = Tail(replay)
  /\ UNCHANGED <<handler, fetched, registered, writePump, writing, readPump, socket, live, received>>

\* c.send <- op waits for room too: the replay is never shed.
SendReplay ==
  /\ handler = "replay" /\ replay # <<>> /\ Len(send) < SendBuffer
  /\ send' = Append(send, Head(replay))
  /\ replay' = Tail(replay)
  /\ UNCHANGED <<handler, fetched, registered, writePump, writing, readPump, socket, live, received>>

StartReader ==
  /\ handler = "replay" /\ replay = <<>>
  /\ readPump' = "read"
  /\ handler' = "done"
  /\ UNCHANGED <<replay, fetched, registered, send, writePump, writing, socket, live, received>>

Handler == Add \/ StartWriter \/ SendHello \/ Catchup \/ SendReplay \/ StartReader

-----------------------------------------------------------------------------
(* writePump. *)

\* Slip: the frame stays in the channel.
TakeFramePeeks ==
  /\ writePump = "select" /\ send # <<>>
  /\ writing' = <<Head(send)>>
  /\ writePump' = "write"
  /\ UNCHANGED <<handler, replay, fetched, registered, send, readPump, socket, live, received>>

TakeFrame ==
  /\ writePump = "select" /\ send # <<>>
  /\ writing' = <<Head(send)>>
  /\ send' = Tail(send)
  /\ writePump' = "write"
  /\ UNCHANGED <<handler, replay, fetched, registered, readPump, socket, live, received>>

WriteFrame ==
  /\ writePump = "write" /\ socket = "up"
  /\ received' = received \o writing
  /\ writing' = <<>>
  /\ writePump' = "select"
  /\ UNCHANGED <<handler, replay, fetched, registered, send, readPump, socket, live>>

(***************************************************************************)
(* A frame, or the ping of the ticker, cannot be written: the socket is    *)
(* down or the write deadline passed.  The deferred Close shuts the socket.*)
(***************************************************************************)
WriteFails ==
  /\ writePump \in {"select", "write"}
  /\ writePump' = "dead"
  /\ writing' = <<>>
  /\ socket' = "down"
  /\ UNCHANGED <<handler, replay, fetched, registered, send, readPump, live, received>>

\* What writePump does by itself; on a healthy socket it need never fail.
Writer == TakeFrame \/ WriteFrame \/ (socket = "down" /\ WriteFails)

-----------------------------------------------------------------------------
(* readPump; what it reads it publishes, which this client does not see. *)

\* ReadMessage fails: the socket is down or the read deadline passed.
ReadFails ==
  /\ readPump = "read"
  /\ readPump' = "remove"
  /\ UNCHANGED <<handler, replay, fetched, registered, send, writePump, writing, socket, live, received>>

\* The deferred calls, first Hub.remove and then Close.
RemoveClient ==
  /\ readPump = "remove"
  /\ registered' = FALSE
  /\ readPump' = "close"
  /\ UNCHANGED <<handler, replay, fetched, send, writePump, writing, socket, live, received>>

\* Slip: readPump removes the client and leaves the socket open.
CloseForgotten ==
  /\ readPump = "close"
  /\ readPump' = "dead"
  /\ UNCHANGED <<handler, replay, fetched, registered, send, writePump, writing, socket, live, received>>

Close ==
  /\ readPump = "close"
  /\ socket' = "down"
  /\ readPump' = "dead"
  /\ UNCHANGED <<handler, replay, fetched, registered, send, writePump, writing, live, received>>

Reader == (socket = "down" /\ ReadFails) \/ RemoveClient \/ Close

-----------------------------------------------------------------------------
(* The rest of the world. *)

\* Slip: off by one at the capacity.
DeliverLocalOverfills ==
  /\ registered /\ live < MaxLive
  /\ live' = live + 1
  /\ send' = IF Len(send) <= SendBuffer THEN Append(send, Live(live + 1)) ELSE send
  /\ UNCHANGED <<handler, replay, fetched, registered, writePump, writing, readPump, socket, received>>

\* DeliverLocal reaches a registered client and drops the frame when c.send is full.
DeliverLocal ==
  /\ registered /\ live < MaxLive
  /\ live' = live + 1
  /\ send' = IF Len(send) < SendBuffer THEN Append(send, Live(live + 1)) ELSE send
  /\ UNCHANGED <<handler, replay, fetched, registered, writePump, writing, readPump, socket, received>>

\* The peer leaves or the network drops the connection.
Disconnect ==
  /\ socket = "up"
  /\ socket' = "down"
  /\ UNCHANGED <<handler, replay, fetched, registered, send, writePump, writing, readPump, live, received>>

Next == Handler \/ Writer \/ WriteFails \/ Reader \/ ReadFails \/ DeliverLocal \/ Disconnect

Spec == Init /\ [][Next]_connVars

\* Goroutines are scheduled, and a read or write of a dead socket returns (deadlines, pings).
FairSpec == Spec /\ WF_connVars(Handler) /\ WF_connVars(Writer) /\ WF_connVars(Reader)

-----------------------------------------------------------------------------
\* The state has the shape of the code's; c.send never holds more than its capacity.
TypeOK ==
  /\ handler \in {"add", "startWriter", "hello", "catchup", "replay", "done"}
  /\ replay \in Seq(Frame) /\ fetched \in 0 .. MaxReplay
  /\ registered \in BOOLEAN
  /\ send \in Seq(Frame) /\ Len(send) <= SendBuffer
  /\ writePump \in {"off", "select", "write", "dead"}
  /\ writing \in Seq(Frame) /\ Len(writing) <= 1
  /\ readPump \in {"off", "read", "remove", "close", "dead"}
  /\ socket \in {"up", "down"}
  /\ live \in 0 .. MaxLive
  /\ received \in Seq(Frame)

\* The k-th frame the handler owes the peer, and how many it owes by now.
Owe(k) == IF k = 0 THEN Hello ELSE Replay(k)
Due == IF handler \in {"add", "startWriter", "hello"} THEN 0 ELSE fetched + 1

\* What s has of these frames are the first n, once each and in order.
Paid(s, n) ==
  LET owed == {i \in DOMAIN s : s[i].from # "live"}
  IN  /\ {s[i] : i \in owed} = {Owe(k) : k \in 0 .. n - 1}
      /\ \A i, j \in owed : i < j => s[i].k < s[j].k

(***************************************************************************)
(* Frames for a full channel are dropped (hub.go:117-119), but never hello *)
(* or the replay: however many live frames slip in between, they reach the *)
(* peer complete and in order, up to where its connection broke            *)
(* (client.go:71-77).                                                      *)
(***************************************************************************)
ReplayComplete ==
  /\ \E n \in 0 .. Due : Paid(received, n)
  /\ writePump # "dead" => Paid(received \o writing \o send \o replay, Due)

\* What is on its way or has arrived, oldest first.
Wire == received \o writing \o send

(***************************************************************************)
(* Best-effort delivery loses frames; it never repeats or reorders what    *)
(* was fanned out to the client (hub.go:123-132, client.go:115-124).       *)
(***************************************************************************)
LiveInOrder ==
  \A i, j \in DOMAIN Wire :
    i < j /\ Wire[i].from = "live" /\ Wire[j].from = "live" => Wire[i].k < Wire[j].k

(***************************************************************************)
(* "Start the writer first so the sends below can't deadlock on the        *)
(* buffer, even when a busy board replays more ops than the send channel   *)
(* holds" (client.go:60-61): true for as long as the writer lives.         *)
(***************************************************************************)
ReplayEnds == handler = "hello" ~> handler = "done" \/ writePump = "dead"

(***************************************************************************)
(* Once both pumps run, the end of either of them or of the socket ends    *)
(* them all and takes the client off the board (client.go:84-88, 107-112): *)
(* no goroutine and no registry entry outlives its connection.             *)
(***************************************************************************)
PumpsEndTogether ==
  handler = "done" /\ (socket = "down" \/ writePump = "dead" \/ readPump # "read")
    ~> ~registered /\ writePump = "dead" /\ readPump = "dead"

\* The comment of client.go:60-61 as it stands: the sends below cannot deadlock.
HandlerReturns == handler = "hello" ~> handler = "done"
=============================================================================
