------------------------------- MODULE BoardSync -------------------------------
(***************************************************************************)
(* One board on one gateway, end to end: browsers that apply an edit to    *)
(* their scene and send it (web/src: App.tsx, BoardCanvas.tsx), readPumps  *)
(* that fan it out and then record it (internal/hub), the in-memory op log *)
(* (internal/store/store.go) and browsers that connect while all this      *)
(* happens and replay the log.  Channels and sockets are FIFO and, here,   *)
(* long enough that nothing is dropped: what can go wrong without a drop.  *)
(***************************************************************************)
EXTENDS BoardOps, FiniteSets

CONSTANTS Editors,    \* browsers on the board from the start; they edit
          Joiners,    \* browsers that connect later; they watch
          MaxEdits    \* bound on the edits of a behaviour

Clients == Editors \union Joiners

ASSUME RolesDisjoint == Editors \intersect Joiners = {}
ASSUME MaxEditsNat == MaxEdits \in Nat

VARIABLES
  scene,     \* scene[c][o]: the version of o in c's scene, 0 if it is not there
  uplink,    \* uplink[c]: ops sent by c and not yet read by its readPump
  pump,      \* pump[c]: <<the op c's readPump is publishing>>, or <<>>
  todo,      \* todo[c]: the clients DeliverLocal has still to serve
  inbox,     \* inbox[c]: c.send and the socket behind it
  members,   \* the clients in Hub.boards
  log,       \* MemoryRecorder.ops of the board
  joining,   \* joining[c]: "out", "catchup", "replay" or "in"
  replay,    \* replay[c]: what ServeWS has still to send of the log it fetched
  edits,     \* edits made so far
  editedBy,  \* editedBy[o]: the browsers whose edits touched o
  racy       \* racy[c]: objects whose last edit was being published while c joined

syncVars == <<scene, uplink, pump, todo, inbox, members, log, joining, replay,
              edits, editedBy, racy>>

Init ==
  /\ scene = [c \in Clients |-> Blank]
  /\ uplink = [c \in Clients |-> <<>>]
  /\ pump = [c \in Clients |-> <<>>]
  /\ todo = [c \in Clients |-> {}]
  /\ inbox = [c \in Clients |-> <<>>]
  /\ members = Editors
  /\ log = <<>>
  /\ joining = [c \in Clients |-> IF c \in Editors THEN "in" ELSE "out"]
  /\ replay = [c \in Clients |-> <<>>]
  /\ edits = 0
  /\ editedBy = [o \in Objects |-> {}]
  /\ racy = [c \in Clients |-> {}]

-----------------------------------------------------------------------------
(* The browsers. *)

\* An edit is applied to the own scene and sent.
Edit(c) ==
  /\ c \in Editors /\ edits < MaxEdits
  /\ \E op \in Edits(scene[c], edits + 1) :
       /\ scene' = [scene EXCEPT ![c] = Apply(@, op)]
       /\ uplink' = [uplink EXCEPT ![c] = Append(@, op)]
       /\ editedBy' = [o \in Objects |->
                         editedBy[o] \union (IF o \in op.objs THEN {c} ELSE {})]
  /\ edits' = edits + 1
  /\ UNCHANGED <<pump, todo, inbox, members, log, joining, replay, racy>>

\* onmessage: the next frame is applied to the scene.
Receive(c) ==
  /\ inbox[c] # <<>>
  /\ scene' = [scene EXCEPT ![c] = Apply(@, Head(inbox[c]))]
  /\ inbox' = [inbox EXCEPT ![c] = Tail(@)]
  /\ UNCHANGED <<uplink, pump, todo, members, log, joining, replay, edits, editedBy, racy>>

-----------------------------------------------------------------------------
(* The gateway. *)

Connecting == {c \in Clients : joining[c] \in {"catchup", "replay"}}

\* Slip: the author is not left out of the fan-out.
PublishToAll(c) ==
  LET op == Head(uplink[c]) IN
  /\ pump[c] = <<>> /\ uplink[c] # <<>>
  /\ pump' = [pump EXCEPT ![c] = <<op>>]
  /\ uplink' = [uplink EXCEPT ![c] = Tail(@)]
  /\ todo' = [todo EXCEPT ![c] = members]
  /\ racy' = [d \in Clients |-> IF d \in Connecting THEN racy[d] \union op.objs
                                ELSE racy[d] \ op.objs]
  /\ UNCHANGED <<scene, inbox, members, log, joining, replay, edits, editedBy>>

(***************************************************************************)
(* readPump reads a frame and calls Hub.Publish; DeliverLocal takes the    *)
(* read lock, so the members it serves are those of this moment.           *)
(***************************************************************************)
Publish(c) ==
  LET op == Head(uplink[c]) IN
  /\ pump[c] = <<>> /\ uplink[c] # <<>>
  /\ pump' = [pump EXCEPT ![c] = <<op>>]
  /\ uplink' = [uplink EXCEPT ![c] = Tail(@)]
  /\ todo' = [todo EXCEPT ![c] = members \ {c}]
  /\ racy' = [d \in Clients |-> IF d \in Connecting THEN racy[d] \union op.objs
                                ELSE racy[d] \ op.objs]
  /\ UNCHANGED <<scene, inbox, members, log, joining, replay, edits, editedBy>>

DeliverTo(c, d) ==
  /\ d \in todo[c]
  /\ inbox' = [inbox EXCEPT ![d] = Append(@, pump[c][1])]
  /\ todo' = [todo EXCEPT ![c] = @ \ {d}]
  /\ UNCHANGED <<scene, uplink, pump, members, log, joining, replay, edits, editedBy, racy>>

\* MemoryRecorder.Record, once the op has been fanned out.
Record(c) ==
  /\ pump[c] # <<>> /\ todo[c] = {}
  /\ log' = Recorded(log, pump[c][1])
  /\ pump' = [pump EXCEPT ![c] = <<>>]
  /\ UNCHANGED <<scene, uplink, todo, inbox, members, joining, replay, edits, editedBy, racy>>

\* Hub.add: it needs the lock no DeliverLocal holds.
Add(c) ==
  /\ joining[c] = "out" /\ \A d \in Clients : todo[d] = {}
  /\ members' = members \union {c}
  /\ joining' = [joining EXCEPT ![c] = "catchup"]
  /\ racy' = [racy EXCEPT ![c] = UNION {pump[d][1].objs : d \in {e \in Clients : pump[e] # <<>>}}]
  /\ UNCHANGED <<scene, uplink, pump, todo, inbox, log, replay, edits, editedBy>>

\* Hub.Catchup: a copy of the log.
Catchup(c) ==
  /\ joining[c] = "catchup"
  /\ replay' = [replay EXCEPT ![c] = log]
  /\ joining' = [joining EXCEPT ![c] = "replay"]
  /\ UNCHANGED <<scene, uplink, pump, todo, inbox, members, log, edits, editedBy, racy>>

\* The replay shares the channel with DeliverLocal, op by op.
SendReplay(c) ==
  /\ joining[c] = "replay" /\ replay[c] # <<>>
  /\ inbox' = [inbox EXCEPT ![c] = Append(@, Head(replay[c]))]
  /\ replay' = [replay EXCEPT ![c] = Tail(@)]
  /\ UNCHANGED <<scene, uplink, pump, todo, members, log, joining, edits, editedBy, racy>>

StartReader(c) ==
  /\ joining[c] = "replay" /\ replay[c] = <<>>
  /\ joining' = [joining EXCEPT ![c] = "in"]
  /\ UNCHANGED <<scene, uplink, pump, todo, inbox, members, log, replay, edits, editedBy, racy>>

Gateway(c) ==
  \/ Publish(c) \/ Record(c) \/ \E d \in Clients : DeliverTo(c, d)
  \/ Catchup(c) \/ SendReplay(c) \/ StartReader(c)

Next == \E c \in Clients : Edit(c) \/ Receive(c) \/ Add(c) \/ Gateway(c)

Spec == Init /\ [][Next]_syncVars

-----------------------------------------------------------------------------
\* The state has the shape of the code's.
TypeOK ==
  /\ scene \in [Clients -> [Objects -> 0 .. MaxEdits]]
  /\ \A c \in Clients : /\ uplink[c] \in Seq(Ops(1 .. MaxEdits)) /\ inbox[c] \in Seq(Ops(1 .. MaxEdits))
                        /\ replay[c] \in Seq(Ops(1 .. MaxEdits)) /\ pump[c] \in Seq(Ops(1 .. MaxEdits))
                        /\ Len(pump[c]) <= 1
                        /\ todo[c] \subseteq members \ {c}
  /\ members \subseteq Clients
  /\ log \in Seq(Ops(1 .. MaxEdits))
  /\ joining \in [Clients -> {"out", "catchup", "replay", "in"}]
  /\ edits \in 0 .. MaxEdits
  /\ editedBy \in [Objects -> SUBSET Editors]
  /\ racy \in [Clients -> SUBSET Objects]

\* Nothing is on its way: every edit has arrived wherever it will.
Settled ==
  /\ \A c \in Clients : uplink[c] = <<>> /\ pump[c] = <<>> /\ inbox[c] = <<>>
  /\ Connecting = {}

(***************************************************************************)
(* A board shows the same thing to everybody, object by object: whoever    *)
(* was there or joined later agrees with the author on every object only   *)
(* one browser edited, except those whose last edit was being published    *)
(* while somebody joined.  An edit after the join repairs the object       *)
(* ("corrected by the next point", DECISIONS.md:21).                       *)
(***************************************************************************)
UncontestedObjectsAgree ==
  Settled =>
    \A c, d \in members : \A o \in Objects \ (racy[c] \union racy[d]) :
      Cardinality(editedBy[o]) <= 1 => scene[c][o] = scene[d][o]

(***************************************************************************)
(* "A late joiner, on any node, replays that log to reach the exact same   *)
(* board" (README.md:27-28): with a single author there is one board to    *)
(* reach.                                                                  *)
(***************************************************************************)
JoinerSeesSameBoard ==
  Settled => \A c, d \in members :
    (\A o \in Objects : Cardinality(editedBy[o]) <= 1) => scene[c] = scene[d]
=============================================================================
