------------------------------- MODULE Session -------------------------------
(***************************************************************************)
(* One browser's session on a board (web/src/lib/useDraw.ts): the sockets  *)
(* it opens one after the other, the reconnect timer, the ids the gateway  *)
(* gives it, the scene it keeps across all that, and the cursors it shows. *)
(* The gateway (internal/hub) is there as far as a socket meets it: ServeWS *)
(* registers the client, greets it, reads the log and sends it op by op;   *)
(* readPumps fan an op out, past full channels, and then record it.        *)
(***************************************************************************)
EXTENDS BoardOps, FiniteSets

CONSTANTS MaxSockets,   \* bound on the sockets of a behaviour
          MaxEdits,     \* bound on the edits of a behaviour, the peers' included
          MaxCursors,   \* bound on the cursor messages, the peers' included
          Peer          \* the id of everybody else's cursor

Sockets == 1 .. MaxSockets
NoId == 0                     \* clientId: null

ASSUME BoundsNat == MaxSockets \in Nat /\ MaxEdits \in Nat /\ MaxCursors \in Nat
ASSUME PeerIsNoSocket == Peer \notin 0 .. MaxSockets

VARIABLES
  mounted,    \* the effect has run and has not been cleaned up
  ready,      \* ready[e]: readyState of the e-th socket
  ended,      \* sockets whose effect has been cleaned up: its "closed" is true
  last,       \* the socket of wsRef, 0 at first
  timer,      \* a connect is scheduled
  status,     \* the status shown
  me,         \* me.clientId: the socket whose hello came last
  peers,      \* ids with a cursor on show
  scene,      \* the canvas
  up,         \* up[e]: sent and not yet read by the gateway
  serving,    \* serving[e]: how far ServeWS is with the socket
  sending,    \* sending[e]: what ServeWS has to send before its next step
  down,       \* down[e]: sent by the gateway and not yet received
  pump,       \* ops fanned out and not yet recorded, with the socket they came on
  log,        \* the op log of the board
  edits, cursors,    \* edits and cursor messages so far
  away        \* history: objects this browser and the log treated differently, by cause

socketVars == <<ready, ended, last, timer>>
shownVars == <<status, me, peers>>
gatewayVars == <<serving, sending, pump, log>>
sessionVars == <<mounted, socketVars, shownVars, scene, up, gatewayVars, down, edits, cursors, away>>

\* A frame: an op, hello with the id of the socket, or a cursor with the id of its owner.
Hello(e) == [type |-> "hello", objs |-> {}, n |-> e]
Cursor(id) == [type |-> "cursor", objs |-> {}, n |-> id]

Init ==
  /\ mounted = FALSE
  /\ ready = [e \in Sockets |-> "none"] /\ ended = {} /\ last = 0 /\ timer = FALSE
  /\ status = "connecting" /\ me = NoId /\ peers = {}
  /\ scene = Blank
  /\ up = [e \in Sockets |-> <<>>] /\ down = [e \in Sockets |-> <<>>]
  /\ serving = [e \in Sockets |-> "no"] /\ sending = [e \in Sockets |-> <<>>]
  /\ pump = {} /\ log = <<>>
  /\ edits = 0 /\ cursors = 0
  /\ away = [unsent |-> {}, missed |-> {}, raced |-> {}]

\* Hub.boards: the clients on the board.
Served == {e \in Sockets : serving[e] \in {"added", "replaying"}}

Attached == last # 0 /\ ready[last] = "open"

\* The browser's socket is open and its replay has been read from the log.
CaughtUp == Attached /\ serving[last] = "replaying"

\* The ops the gateway will still replay to the browser, if the log is l when it reads it.
ToReplay(l) == IF CaughtUp THEN sending[last] ELSE l

IsClear(m) == m.type = "clear"
Touched(fs) == UNION {fs[i].objs : i \in DOMAIN fs}
Wiping(fs) == Touched([i \in {j \in DOMAIN fs : IsClear(fs[j])} |-> fs[i]])

\* Objects of ops that are fanned out and not in the log,
Unrecorded == UNION {p.op.objs : p \in pump}

\* of ops of a replay that has begun,
Replaying == IF CaughtUp THEN Touched(sending[last]) ELSE {}

\* and of any op that has not arrived everywhere.
InFlight == Unrecorded \union Replaying \union UNION {Touched(up[e]) \union Touched(down[e]) : e \in Sockets}

-----------------------------------------------------------------------------
(* The socket and its timer. *)

\* connect: the next socket replaces the last one in wsRef.
Connect ==
  /\ last < MaxSockets
  /\ last' = last + 1
  /\ ready' = [ready EXCEPT ![last + 1] = "connecting"]

\* The effect runs; StrictMode and hot reload clean it up and run it again on the same state.
Mount ==
  /\ ~mounted
  /\ Connect
  /\ mounted' = TRUE
  /\ UNCHANGED <<ended, timer, shownVars, scene, up, gatewayVars, down, edits, cursors, away>>

TimerFires ==
  /\ timer
  /\ Connect
  /\ timer' = FALSE
  /\ UNCHANGED <<mounted, ended, shownVars, scene, up, gatewayVars, down, edits, cursors, away>>

\* What is on its way down a socket that ends is lost; only a clear is not in the log either.
Deaf(e) ==
  /\ down' = [down EXCEPT ![e] = <<>>]
  /\ sending' = [sending EXCEPT ![e] = <<>>]
  /\ away' = [away EXCEPT !.missed = @ \union Wiping(down[e])]

Unmounted ==
  /\ mounted
  /\ mounted' = FALSE
  /\ ended' = ended \union 1 .. last
  /\ ready' = [ready EXCEPT ![last] = IF @ \in {"connecting", "open"} THEN "closing" ELSE @]
  /\ Deaf(last)
  /\ UNCHANGED <<last, shownVars, scene, up, serving, pump, log, edits, cursors>>

\* Slip: the timer survives the cleanup.
UnmountKeepsTimer == Unmounted /\ UNCHANGED timer

\* The cleanup: a closing socket delivers nothing any more.
Unmount == Unmounted /\ timer' = FALSE

\* Upgrade: the browser is live, and ServeWS goes on.
Open(e) ==
  /\ ready[e] = "connecting"
  /\ ready' = [ready EXCEPT ![e] = "open"]
  /\ status' = "live"
  /\ serving' = [serving EXCEPT ![e] = "accepted"]
  /\ UNCHANGED <<mounted, ended, last, timer, me, peers, scene, up, sending, pump, log, down, edits, cursors, away>>

Lost(e) ==
  /\ ready[e] \in {"connecting", "open", "closing"}
  /\ ready' = [ready EXCEPT ![e] = "closed"]
  /\ Deaf(e)
  /\ UNCHANGED <<mounted, ended, last, me, peers, scene, up, serving, pump, log, edits, cursors>>

\* Slip: onclose does not ask whether the effect is still there.
OnCloseUnasked(e) ==
  /\ Lost(e)
  /\ status' = "reconnecting" /\ timer' = TRUE

\* Slip: only a socket that has been open is replaced.
OnCloseGivesUp(e) ==
  /\ Lost(e)
  /\ IF e \in ended \/ ready[e] = "connecting" THEN UNCHANGED <<status, timer>>
     ELSE status' = "reconnecting" /\ timer' = TRUE

\* onclose; the gateway may not notice for a while.
OnClose(e) ==
  /\ Lost(e)
  /\ IF e \in ended THEN UNCHANGED <<status, timer>>
     ELSE status' = "reconnecting" /\ timer' = TRUE

-----------------------------------------------------------------------------
(* Messages. *)

\* Slip: any frame that names a client names this one.
ReceiveTakesAnyId(e) ==
  /\ ready[e] = "open" /\ down[e] # <<>>
  /\ LET m == Head(down[e]) IN
     /\ me' = IF m.type \in {"hello", "cursor"} THEN m.n ELSE me
     /\ scene' = Apply(scene, m)
  /\ down' = [down EXCEPT ![e] = Tail(@)]
  /\ UNCHANGED <<mounted, socketVars, status, peers, up, gatewayVars, edits, cursors, away>>

\* onmessage; only an open socket delivers.
Receive(e) ==
  /\ ready[e] = "open" /\ down[e] # <<>>
  /\ LET m == Head(down[e]) IN
     /\ me' = IF m.type = "hello" THEN m.n ELSE me
     /\ peers' = IF m.type = "cursor" /\ m.n # me THEN peers \union {m.n} ELSE peers
     /\ scene' = Apply(scene, m)
  /\ down' = [down EXCEPT ![e] = Tail(@)]
  /\ UNCHANGED <<mounted, socketVars, status, up, gatewayVars, edits, cursors, away>>

\* send: a socket that is not open swallows the message.
Sent(m) == IF Attached THEN [up EXCEPT ![last] = Append(@, m)] ELSE up

\* An edit goes to the own scene at once, and to the gateway if it can.
Edit ==
  /\ mounted /\ edits < MaxEdits
  /\ edits' = edits + 1
  /\ \E op \in Edits(scene, edits + 1) :
       /\ scene' = Apply(scene, op)
       /\ up' = Sent(op)
       /\ away' = [away EXCEPT !.unsent = @ \union (IF up' = up THEN op.objs ELSE {}),
                               !.raced = @ \union (op.objs \intersect (InFlight \union Touched(ToReplay(log))))]
  /\ UNCHANGED <<mounted, socketVars, shownVars, gatewayVars, down, cursors>>

MoveCursor ==
  /\ mounted /\ cursors < MaxCursors
  /\ cursors' = cursors + 1
  /\ up' = Sent(Cursor(me))
  /\ UNCHANGED <<mounted, socketVars, shownVars, scene, gatewayVars, down, edits, away>>

\* The gc interval: a cursor not heard of for PEER_TTL_MS goes.
Expire(id) ==
  /\ mounted /\ id \in peers
  /\ peers' = peers \ {id}
  /\ UNCHANGED <<mounted, socketVars, status, me, scene, up, gatewayVars, down, edits, cursors, away>>

-----------------------------------------------------------------------------
(* The gateway. *)

\* What ServeWS sends: to a socket that is gone, nothing.
Sends(e, fs) == sending' = [sending EXCEPT ![e] = IF ready[e] = "open" THEN fs ELSE <<>>]

\* A frame reaches the clients es.
To(m, es) == [e \in Sockets |-> IF e \in es THEN Append(down[e], m) ELSE down[e]]

\* Hub.add; the browser may have left by now.
Add(e) ==
  /\ serving[e] = "accepted"
  /\ serving' = [serving EXCEPT ![e] = "added"]
  /\ Sends(e, <<Hello(e)>>)
  /\ UNCHANGED <<mounted, socketVars, shownVars, scene, up, down, pump, log, edits, cursors, away>>

\* ServeWS sends hello, or the next op of the replay.
SendNext(e) ==
  /\ sending[e] # <<>>
  /\ down' = To(Head(sending[e]), {e})
  /\ sending' = [sending EXCEPT ![e] = Tail(@)]
  /\ UNCHANGED <<mounted, socketVars, shownVars, scene, up, serving, pump, log, edits, cursors, away>>

\* Slip: a browser that comes back is not sent the log.
CatchupOnce(e) ==
  /\ serving[e] = "added" /\ sending[e] = <<>>
  /\ serving' = [serving EXCEPT ![e] = "replaying"]
  /\ Sends(e, IF e = 1 THEN log ELSE <<>>)
  /\ away' = [away EXCEPT !.raced = @ \union (IF ready[e] = "open" THEN Unrecorded ELSE {})]
  /\ UNCHANGED <<mounted, socketVars, shownVars, scene, up, down, pump, log, edits, cursors>>

\* Hub.Catchup: an op on its way to the log is not in the copy.
Catchup(e) ==
  /\ serving[e] = "added" /\ sending[e] = <<>>
  /\ serving' = [serving EXCEPT ![e] = "replaying"]
  /\ Sends(e, log)
  /\ away' = [away EXCEPT !.raced = @ \union (IF ready[e] = "open" THEN Unrecorded ELSE {})]
  /\ UNCHANGED <<mounted, socketVars, shownVars, scene, up, down, pump, log, edits, cursors>>

\* Others on the board whose socket is there.
Others(from) == {e \in Served \ {from} : ready[e] = "open"}

\* Broadcaster.Publish reaches those whose channel is not full; a cursor needs no record.
FanOut(m, from, es) ==
  /\ down' = To(m, es)
  /\ pump' = pump \union (IF m.type = "cursor" THEN {} ELSE {[from |-> from, op |-> m]})

\* An op that does not reach the browser, and no replay to come will bring.
Missed(op, es) == IF last \notin es /\ (CaughtUp \/ IsClear(op)) THEN op.objs ELSE {}

\* ServeWS is done, and the readPump of the socket is at no frame.
Idle(e) == serving[e] = "replaying" /\ sending[e] = <<>> /\ \A p \in pump : p.from # e

\* A readPump takes the next frame and fans it out, even after the browser has left its socket.
Publish(e) ==
  /\ Idle(e) /\ up[e] # <<>>
  /\ up' = [up EXCEPT ![e] = Tail(@)]
  /\ LET m == Head(up[e]) IN \E es \in SUBSET Others(e) :
       /\ FanOut(m, e, es)
       /\ away' = [away EXCEPT !.missed = @ \union Missed(m, es \union {e}),
                               !.raced = @ \union (m.objs \intersect Replaying)]
  /\ UNCHANGED <<mounted, socketVars, shownVars, scene, serving, sending, log, edits, cursors>>

\* Recorder.Record, after the fan-out; other readPumps may have come first.
Record(p) ==
  /\ p \in pump
  /\ log' = Recorded(log, p.op)
  /\ pump' = pump \ {p}
  /\ UNCHANGED <<mounted, socketVars, shownVars, scene, up, down, serving, sending, edits, cursors, away>>

\* The readPump notices the end of its socket; what it has not read is lost.
Drop(e) ==
  /\ Idle(e) /\ ready[e] = "closed"
  /\ serving' = [serving EXCEPT ![e] = "no"]
  /\ up' = [up EXCEPT ![e] = <<>>]
  /\ away' = [away EXCEPT !.unsent = @ \union Touched(up[e])]
  /\ UNCHANGED <<mounted, socketVars, shownVars, scene, sending, pump, log, down, edits, cursors>>

\* The readPump of somebody else fans out an edit of the board, or a move on it.
PeerEdit ==
  /\ edits < MaxEdits
  /\ edits' = edits + 1
  /\ \E op \in Edits(Rebuilt(log), edits + 1), es \in SUBSET Others(Peer) :
       /\ FanOut(op, Peer, es)
       /\ away' = [away EXCEPT !.missed = @ \union Missed(op, es),
                               !.raced = @ \union (op.objs \intersect InFlight)]
  /\ UNCHANGED <<mounted, socketVars, shownVars, scene, up, serving, sending, log, cursors>>

PeerCursor ==
  /\ cursors < MaxCursors
  /\ cursors' = cursors + 1
  /\ \E es \in SUBSET Others(Peer) : FanOut(Cursor(Peer), Peer, es)
  /\ UNCHANGED <<mounted, socketVars, shownVars, scene, up, serving, sending, log, edits, away>>

Next ==
  \/ Mount \/ TimerFires \/ Unmount \/ Edit \/ MoveCursor \/ PeerEdit \/ PeerCursor
  \/ \E e \in Sockets : Open(e) \/ OnClose(e) \/ Receive(e) \/ Publish(e) \/ Drop(e)
  \/ \E e \in Sockets : Add(e) \/ SendNext(e) \/ Catchup(e)
  \/ \E p \in pump : Record(p)
  \/ \E id \in 0 .. MaxSockets \union {Peer} : Expire(id)

Spec == Init /\ [][Next]_sessionVars

\* A timer fires.
FairSpec == Spec /\ WF_sessionVars(TimerFires)

-----------------------------------------------------------------------------
\* The state has the shape of the code's: ids are the gateway's, and only open sockets receive.
TypeOK ==
  /\ mounted \in BOOLEAN /\ timer \in BOOLEAN
  /\ ready \in [Sockets -> {"none", "connecting", "open", "closing", "closed"}]
  /\ \A e \in Sockets : ready[e] = "none" <=> e > last
  /\ ended \subseteq 1 .. last
  /\ serving \in [Sockets -> {"no", "accepted", "added", "replaying"}]
  /\ status \in {"connecting", "live", "reconnecting"}
  /\ me \in 0 .. last
  /\ peers \subseteq 0 .. last \union {Peer}
  /\ scene \in [Objects -> 0 .. MaxEdits]
  /\ \A e \in Sockets : down[e] # <<>> => ready[e] = "open"
  /\ \A e \in Sockets : up[e] # <<>> => serving[e] # "no"
  /\ \A e \in Sockets : sending[e] # <<>> => ready[e] = "open" /\ e \in Served
  /\ \A p \in pump : p.from = Peer \/ (serving[p.from] = "replaying" /\ sending[p.from] = <<>>)
  /\ edits \in 0 .. MaxEdits /\ cursors \in 0 .. MaxCursors

(***************************************************************************)
(* Across closes, retries and cleanups, in any order: at most one socket   *)
(* is wanted at a time, a timer is pending only for an effect whose last   *)
(* socket is closed, and once the effect is cleaned up nothing is left     *)
(* that would connect again (useDraw.ts:54-64, 113-118).                   *)
(***************************************************************************)
OneSocket ==
  /\ Cardinality({e \in Sockets : ready[e] \in {"connecting", "open"}}) <= 1
  /\ timer => mounted /\ last \notin ended /\ ready[last] = "closed"
  /\ ~mounted => \A e \in Sockets : ready[e] \notin {"connecting", "open"}

\* The browser is connected and nothing is on its way in either direction, or to the log.
Quiet ==
  /\ mounted /\ CaughtUp /\ sending[last] = <<>> /\ down[last] = <<>>
  /\ pump = {} /\ \A e \in Sockets : up[e] = <<>>

Agree(o) == scene[o] = Rebuilt(log)[o]

(***************************************************************************)
(* However often the connection was lost, a browser that is back and has   *)
(* received everything shows what the log says: the scene kept across the  *)
(* gap and the whole log replayed over it make one board (useDraw.ts:50-94,*)
(* client.go:58-77, hub.go:104-107).  Excepted are objects edited while the*)
(* socket could not send; objects of an op that was dropped for the browser*)
(* or of a clear it was away for; and raced ones: edited again before an   *)
(* earlier op about them had arrived everywhere, or the subject of an op   *)
(* that a replay missed or overtook.                                       *)
(***************************************************************************)
ReplayRestores ==
  Quiet => \A o \in Objects \ (away.unsent \union away.missed \union away.raced) : Agree(o)

\* A browser that stays on the board and whose socket is closed tries again.
Reconnects ==
  \A e \in 1 .. MaxSockets - 1 :
    mounted /\ last = e /\ ready[e] = "closed" ~> ~mounted \/ last > e
=============================================================================
