-------------------------------- MODULE Relay --------------------------------
(***************************************************************************)
(* The fan-out between gateways (internal/hub/redis.go, hub.go): what a    *)
(* connection publishes goes to the board's clients on its own node, then  *)
(* through the board's Redis channel to the nodes subscribed to it, then   *)
(* to the op log.  The subscriptions are those of HubBinding, whose        *)
(* goroutines run here beside the publishing ones.  DeliverLocal is one    *)
(* step, and which send channels are full in it is a choice: Connection    *)
(* has the channel and its two ends in detail.                             *)
(***************************************************************************)
EXTENDS HubBinding, Sequences

CONSTANTS RelayFaults,   \* which of "publish", "lose", "crash" can go wrong
          MaxFrames      \* bound on the frames of a behaviour

ASSUME MaxFramesNat == MaxFrames \in Nat
ASSUME NowhereIsNoClient == Nowhere \notin Clients

Frames == 1 .. MaxFrames     \* a frame is named by its place in the order of the Publish calls

VARIABLES
  up,        \* nodes whose process runs
  sent,      \* Publish calls so far
  author,    \* author[f]: the connection that sent f, Nowhere before it is sent or after it left
  pub,       \* pub[c]: <<the frame c's readPump is publishing, its next step>>, or <<>>
  wire,      \* wire[n]: what waits for n's receiveLoop
  inbox,     \* inbox[c]: the frames connection c was sent, oldest first
  stored,    \* stored[f]: how often f was given to the Recorder
  missed,    \* <<f, n>>: Redis did not carry f, of a connection still there, to n
  dropped    \* <<f, c>>: c's send channel was full when f came, and both ends are still there

relayVars == <<up, sent, author, pub, wire, inbox, stored, missed, dropped>>
vars == <<bindVars, relayVars>>

RelayInit ==
  /\ Init
  /\ up = Nodes
  /\ sent = 0
  /\ author = [f \in Frames |-> Nowhere]
  /\ pub = [c \in Clients |-> <<>>]
  /\ wire = [n \in Nodes |-> <<>>]
  /\ inbox = [c \in Clients |-> <<>>]
  /\ stored = [f \in Frames |-> 0]
  /\ missed = {} /\ dropped = {}

\* The frames connection a has sent.
By(a) == {f \in Frames : author[f] = a}

\* Slip: the loop over the clients ends at the first full channel.
DeliverUntilFull(s, sender, f) ==
  \E rest \in SUBSET (boards[s] \ sender) :
    /\ inbox' = [c \in Clients |-> IF c \in boards[s] \ (sender \union rest)
                                  THEN Append(inbox[c], f) ELSE inbox[c]]
    /\ \/ rest = {} /\ UNCHANGED dropped
       \/ \E c \in rest : dropped' = dropped \union {<<f, c>>}

\* DeliverLocal: every client of the board on this node except the sender; one that is slow,
\* with a full send channel, is skipped.
DeliverLocal(s, sender, f) ==
  \E full \in SUBSET (boards[s] \ sender) :
    /\ inbox' = [c \in Clients |-> IF c \in boards[s] \ (sender \union full)
                                  THEN Append(inbox[c], f) ELSE inbox[c]]
    /\ dropped' = dropped \union ({f} \X full)

-----------------------------------------------------------------------------
(* Connections come and go as in HubBinding. *)

\* A gateway only takes connections while its process runs.
Connect(c, s) ==
  /\ s[1] \in up /\ Add(c, s)
  /\ UNCHANGED relayVars

\* The connections cs are over: nobody tells their frames apart any more.
Forget(cs) ==
  /\ author' = [f \in Frames |-> IF author[f] \in cs THEN Nowhere ELSE author[f]]
  /\ inbox' = [c \in Clients |-> IF c \in cs THEN <<>> ELSE inbox[c]]
  /\ missed' = {m \in missed : author[m[1]] \notin cs}
  /\ dropped' = {m \in dropped : author[m[1]] \notin cs /\ m[2] \notin cs}

\* Slip: the registry is left as soon as the socket is lost, with a Publish still going on.
DisconnectAtOnce(c) ==
  /\ Remove(c)
  /\ Forget({c})
  /\ UNCHANGED <<up, sent, pub, wire, stored>>

\* readPump has returned, so it is not in the middle of a Publish.
Disconnect(c) ==
  /\ pub[c] = <<>> /\ Remove(c)
  /\ Forget({c})
  /\ UNCHANGED <<up, sent, pub, wire, stored>>

-----------------------------------------------------------------------------
(* One frame, from readPump to the log. *)

\* RedisBroadcaster.Publish, first half: the clients of this node.
PublishLocal(c) ==
  /\ pc[c] = "open" /\ pub[c] = <<>> /\ sent < MaxFrames
  /\ sent' = sent + 1
  /\ author' = [author EXCEPT ![sent'] = c]
  /\ DeliverLocal(at[c], {c}, sent')
  /\ pub' = [pub EXCEPT ![c] = <<sent', "relay">>]
  /\ UNCHANGED <<bindVars, up, wire, stored, missed>>

Channel(b) == {n \in Nodes : <<n, b>> \in subscribed}

\* Second half: the frame, tagged with the node, goes to whoever listens; an error is logged.
PublishRelay(c) ==
  LET s == at[c]
      f == pub[c][1]
      reached == Channel(s[2])
      tagged == [origin |-> s[1], board |-> s[2], frame |-> f]
  IN  /\ pub[c] # <<>> /\ pub[c][2] = "relay"
      /\ \/ /\ wire' = [n \in Nodes |-> IF n \in reached THEN Append(wire[n], tagged) ELSE wire[n]]
            /\ missed' = missed \union {<<f, n>> : n \in Nodes \ reached}
         \/ /\ "publish" \in RelayFaults
            /\ missed' = missed \union {<<f, n>> : n \in Nodes}
            /\ UNCHANGED wire
      /\ pub' = [pub EXCEPT ![c] = <<f, "record">>]
      /\ UNCHANGED <<bindVars, up, sent, author, inbox, stored, dropped>>

\* Hub.Publish: only the node that read the frame records it.
Record(c) ==
  /\ pub[c] # <<>> /\ pub[c][2] = "record"
  /\ stored' = [stored EXCEPT ![pub[c][1]] = @ + 1]
  /\ pub' = [pub EXCEPT ![c] = <<>>]
  /\ UNCHANGED <<bindVars, up, sent, author, wire, inbox, missed, dropped>>

\* Slip: the loop does not look at the tag.
ReceiveUntagged(n) ==
  LET m == Head(wire[n]) IN
  /\ wire[n] # <<>>
  /\ wire' = [wire EXCEPT ![n] = Tail(@)]
  /\ DeliverLocal(<<n, m.board>>, {}, m.frame)
  /\ UNCHANGED <<bindVars, up, sent, author, pub, stored, missed>>

\* Slip: the loop calls Hub.Publish's recorder too.
ReceiveRecords(n) ==
  LET m == Head(wire[n]) IN
  /\ wire[n] # <<>>
  /\ wire' = [wire EXCEPT ![n] = Tail(@)]
  /\ IF m.origin = n THEN UNCHANGED <<inbox, stored, dropped>>
                     ELSE /\ DeliverLocal(<<n, m.board>>, {}, m.frame)
                          /\ stored' = [stored EXCEPT ![m.frame] = @ + 1]
  /\ UNCHANGED <<bindVars, up, sent, author, pub, missed>>

\* receiveLoop: a frame this node published is skipped, any other goes to its clients.
Receive(n) ==
  LET m == Head(wire[n]) IN
  /\ wire[n] # <<>>
  /\ wire' = [wire EXCEPT ![n] = Tail(@)]
  /\ IF m.origin = n THEN UNCHANGED <<inbox, dropped>> ELSE DeliverLocal(<<n, m.board>>, {}, m.frame)
  /\ UNCHANGED <<bindVars, up, sent, author, pub, stored, missed>>

-----------------------------------------------------------------------------
(* What fails. *)

\* The connection to Redis breaks, or go-redis drops what its channel cannot take: the
\* newest frames on the way are gone; a new connection has the same subscriptions.
Lose(n) ==
  /\ "lose" \in RelayFaults
  /\ \E i \in DOMAIN wire[n] :
       /\ missed' = missed \union {<<f, n>> : f \in {wire[n][j].frame : j \in i .. Len(wire[n])}
                                                      \ By(Nowhere)}
       /\ wire' = [wire EXCEPT ![n] = SubSeq(@, 1, i - 1)]
  /\ UNCHANGED <<bindVars, up, sent, author, pub, inbox, stored, dropped>>

\* A gateway process dies, and its sockets, its maps and its subscriptions with it.
Crash(n) ==
  LET here == {c \in Clients : at[c] # Nowhere /\ at[c][1] = n} IN
  /\ "crash" \in RelayFaults /\ n \in up
  /\ up' = up \ {n}
  /\ boards' = [s \in Slots |-> IF s[1] = n THEN {} ELSE boards[s]]
  /\ refs' = [s \in Slots |-> IF s[1] = n THEN 0 ELSE refs[s]]
  /\ subscribed' = {s \in subscribed : s[1] # n}
  /\ at' = [c \in Clients |-> IF c \in here THEN Nowhere ELSE at[c]]
  /\ pc' = [c \in Clients |-> IF c \in here THEN "off" ELSE pc[c]]
  /\ pub' = [c \in Clients |-> IF c \in here THEN <<>> ELSE pub[c]]
  /\ wire' = [wire EXCEPT ![n] = <<>>]
  /\ Forget(here)
  /\ UNCHANGED <<sent, stored>>

\* main: without Redis the process exits again; with it, it serves.
Boot(n) ==
  /\ n \notin up
  /\ up' = up \union {n}
  /\ UNCHANGED <<bindVars, sent, author, pub, wire, inbox, stored, missed, dropped>>

-----------------------------------------------------------------------------
Publishing(c) == PublishRelay(c) \/ Record(c)

RelayNext ==
  \/ \E c \in Clients :
       \/ \E s \in Slots : Connect(c, s)
       \/ Progress(c) /\ UNCHANGED relayVars
       \/ Disconnect(c)
       \/ PublishLocal(c)
       \/ Publishing(c)
  \/ \E n \in Nodes : Receive(n) \/ Lose(n) \/ Crash(n) \/ Boot(n)

RelaySpec == RelayInit /\ [][RelayNext]_vars

-----------------------------------------------------------------------------
\* The state has the shape of the code's; only a connection on the board publishes, and
\* nothing waits for a process that does not run.
RelayTypeOK ==
  /\ up \subseteq Nodes
  /\ sent \in 0 .. MaxFrames
  /\ author \in [Frames -> Clients \union {Nowhere}]
  /\ \A c \in Clients :
       pub[c] # <<>> => pub[c] \in Frames \X {"relay", "record"} /\ pc[c] = "open"
  /\ \A n \in Nodes :
       /\ wire[n] \in Seq([origin : Nodes, board : Boards, frame : Frames])
       /\ wire[n] # <<>> => n \in up
  /\ \A c \in Clients : inbox[c] \in Seq(Frames)
  /\ stored \in [Frames -> Nat]
  /\ missed \subseteq Frames \X Nodes
  /\ dropped \subseteq Frames \X Clients

Heard(c) == {inbox[c][i] : i \in DOMAIN inbox[c]}

(***************************************************************************)
(* "The receive loop skips frames this node published itself, so a client  *)
(* never sees a duplicate" (redis.go:20-21): no frame is heard twice or by *)
(* its author, and those of one author are heard in the order it sent      *)
(* them, whichever nodes the two are on.                                   *)
(***************************************************************************)
HeardOnceInOrder ==
  \A c \in Clients :
    /\ Heard(c) \intersect By(c) = {}
    /\ \A i, j \in DOMAIN inbox[c] :
         i < j => /\ inbox[c][i] # inbox[c][j]
                  /\ author[inbox[c][i]] = author[inbox[c][j]] /\ author[inbox[c][i]] # Nowhere
                       => inbox[c][i] < inbox[c][j]

\* f is on its way to node n.
OnItsWay(f, n) ==
  \/ \E a \in Clients : pub[a] = <<f, "relay">>
  \/ \E i \in DOMAIN wire[n] : wire[n][i].frame = f

(***************************************************************************)
(* A client that has begun to hear somebody hears all they send from then  *)
(* on, or it is on its way, except what was relayed while the client's     *)
(* node was not subscribed, what Redis failed to carry, and what its own   *)
(* send channel had no room for: no interleaving of joins, leaves, relays  *)
(* and restarts loses a frame anywhere else, and a slow client costs       *)
(* nobody else a frame (hub.go:104-133, redis.go:68-117).                  *)
(***************************************************************************)
HearsTheRest ==
  \A d, a \in Clients : \A e, f \in By(a) :
    e < f /\ e \in Heard(d) =>
      \/ f \in Heard(d) \/ OnItsWay(f, at[d][1])
      \/ <<f, at[d][1]>> \in missed \/ <<f, d>> \in dropped

(***************************************************************************)
(* "Only the node that received the message records it [...] so each op is *)
(* stored once" (hub.go:102-103): never twice, and never skipped as long   *)
(* as its connection lives.                                                *)
(***************************************************************************)
StoredOnce ==
  /\ \A f \in Frames : stored[f] <= 1
  /\ \A c \in Clients : \A f \in By(c) :
       \/ stored[f] = 1
       \/ pub[c] # <<>> /\ pub[c][1] = f
=============================================================================
