---------------------------- MODULE SessionProofs ----------------------------
(***************************************************************************)
(* Session, for any objects and any number of sockets, edits and cursors:  *)
(* the types, that at most one socket is wanted at a time, and that a      *)
(* browser that is back shows what the log says.  The inductive invariant  *)
(* has two parts.  Flowing is about the sockets: which is wanted, which    *)
(* the gateway has (Wired), what the frames are (Typed), where they wait   *)
(* (Drained), whom they name (Named), and how far ServeWS and the readPumps*)
(* are (Greeted).  Restoring says, of every object neither side has lost   *)
(* an op about, where the op that decides it is: on its way up (Own),      *)
(* fanned out or recorded (Arriving: what is on its way down, and the      *)
(* replay to come, make the scene what the log is or is about to be).      *)
(***************************************************************************)
EXTENDS Session, BoardOpsProofs, TLAPS, FiniteSetTheorems

-----------------------------------------------------------------------------
(* Clears on their way. *)

\* After every frame about o a clear follows.
Covered(s, o) ==
  \A i \in DOMAIN s : o \in s[i].objs => \E j \in DOMAIN s : i <= j /\ IsClear(s[j])

LEMMA CoveredAppend ==
  ASSUME NEW S, NEW s \in Seq(S), NEW m \in S, NEW o, IsClear(m) \/ (o \notin m.objs /\ Covered(s, o))
  PROVE  Covered(Append(s, m), o)
<1>1. PICK t, k : t = Append(s, m) /\ k = Len(s) + 1
  OBVIOUS
<1>2. /\ DOMAIN t = 1 .. k /\ k \in 1 .. k /\ t[k] = m /\ k \in Nat
      /\ \A i \in DOMAIN s : i \in DOMAIN t /\ t[i] = s[i]
      /\ \A i \in DOMAIN t : i \in DOMAIN s \/ i = k
  BY <1>1, Appended
<1>3. \A i \in DOMAIN t : i <= k
  BY <1>2
<1>4. Covered(t, o)
  BY <1>2, <1>3 DEF Covered
<1> QED BY <1>1, <1>4

LEMMA CoveredTail ==
  ASSUME NEW S, NEW s \in Seq(S), s # <<>>, NEW o, Covered(s, o)
  PROVE  Covered(Tail(s), o)
<1>1. PICK t : t = Tail(s)
  OBVIOUS
<1>2. /\ DOMAIN s \subseteq Nat /\ DOMAIN t \subseteq Nat \ {0}
      /\ \A i \in DOMAIN t : i + 1 \in DOMAIN s /\ t[i] = s[i + 1]
      /\ \A i \in DOMAIN s : i = 1 \/ (i - 1 \in DOMAIN t /\ t[i - 1] = s[i])
  BY <1>1, Tailed
<1>3. ASSUME NEW i \in DOMAIN t, o \in t[i].objs
      PROVE  \E j \in DOMAIN t : i <= j /\ IsClear(t[j])
  <2>1. i \in Nat \ {0} /\ i + 1 \in DOMAIN s /\ o \in s[i + 1].objs
    BY <1>2, <1>3
  <2>2. PICK j \in DOMAIN s : i + 1 <= j /\ IsClear(s[j])
    BY <2>1 DEF Covered
  <2>3. j \in Nat /\ j # 1
    BY <1>2, <2>1, <2>2
  <2>4. j - 1 \in DOMAIN t /\ t[j - 1] = s[j] /\ i <= j - 1
    BY <1>2, <2>1, <2>2, <2>3
  <2> QED BY <2>2, <2>4
<1> QED BY <1>1, <1>3 DEF Covered

LEMMA CoveredWiped ==
  ASSUME NEW s, NEW o, Covered(s, o), Touches(s, o),
         \A i \in DOMAIN s : IsClear(s[i]) => o \in s[i].objs
  PROVE  o \in Wiping(s)
<1>1. PICK j \in DOMAIN s : IsClear(s[j]) /\ o \in s[j].objs
  BY DEF Covered, Touches
<1> DEFINE w == [i \in {k \in DOMAIN s : IsClear(s[k])} |-> s[i]]
<1>2. j \in DOMAIN w /\ w[j] = s[j]
  BY <1>1
<1> QED BY <1>1, <1>2 DEF Wiping, Touched

-----------------------------------------------------------------------------
(* What is in the frames. *)

Durable == {op \in Ops(1 .. MaxEdits) : op.type = "clear" => op.objs = Objects}
Marks == {Cursor(id) : id \in 0 .. MaxSockets \union {Peer}}
Ups == Durable \union Marks
Downs == Ups \union {Hello(e) : e \in Sockets}

Pubs == [from : Sockets \union {Peer}, op : Durable]

Typed ==
  /\ scene \in [Objects -> 0 .. MaxEdits]
  /\ up \in [Sockets -> Seq(Ups)]
  /\ down \in [Sockets -> Seq(Downs)]
  /\ sending \in [Sockets -> Seq(Downs)]
  /\ pump \subseteq Pubs
  /\ log \in Seq(Durable)
  /\ edits \in 0 .. MaxEdits /\ cursors \in 0 .. MaxCursors
  /\ away \in [unsent : SUBSET Objects, missed : SUBSET Objects, raced : SUBSET Objects]

LEMMA Frame ==
  ASSUME NEW m \in Downs
  PROVE  /\ m.objs \in SUBSET Objects
         /\ m.type \in {"hello", "cursor"} => m.objs = {}
         /\ m.type \notin {"hello", "cursor"} => m \in Durable
         /\ IsClear(m) => m.objs = Objects
         /\ m \in Durable => m.type \in {"add", "erase", "clear"} /\ m.n \in 1 .. MaxEdits /\ Left(m) \in 0 .. MaxEdits
<1>1. CASE m \in Durable
  BY <1>1, BoundsNat DEF Durable, Ops, IsClear, Left
<1>2. CASE m \in Marks
  <2>1. m.type = "cursor" /\ m.objs = {}
    BY <1>2 DEF Marks, Cursor
  <2> QED BY <2>1 DEF IsClear, Durable, Ops
<1>3. CASE \E e \in Sockets : m = Hello(e)
  <2>1. m.type = "hello" /\ m.objs = {}
    BY <1>3 DEF Hello
  <2> QED BY <2>1 DEF IsClear, Durable, Ops
<1> QED BY <1>1, <1>2, <1>3 DEF Downs, Ups

LEMMA UpsAreDowns == Ups \subseteq Downs /\ Durable \subseteq Ups
BY DEF Ups, Downs

LEMMA TouchedIn ==
  ASSUME NEW s \in Seq(Downs)
  PROVE  Touched(s) \in SUBSET Objects /\ Wiping(s) \in SUBSET Objects
<1>1. \A i \in DOMAIN s : s[i] \in Downs
  OBVIOUS
<1>2. \A i \in DOMAIN s : s[i].objs \in SUBSET Objects
  BY <1>1, Frame
<1> QED BY <1>2 DEF Touched, Wiping

LEMMA UpsSeq ==
  ASSUME NEW s \in Seq(Ups)
  PROVE  s \in Seq(Downs)
<1>1. \A i \in DOMAIN s : s[i] \in Downs
  BY UpsAreDowns
<1> QED BY <1>1

LEMMA DurableSeq ==
  ASSUME NEW s \in Seq(Durable)
  PROVE  s \in Seq(Downs)
<1>1. \A i \in DOMAIN s : s[i] \in Downs
  BY UpsAreDowns
<1> QED BY <1>1

\* What an edit can be.
LEMMA EditIn ==
  ASSUME NEW x, NEW k \in 1 .. MaxEdits, NEW op \in Edits(x, k)
  PROVE  op \in Durable
<1>1. op.type \in {"add", "erase", "clear"} /\ op.objs \in SUBSET Objects /\ op.n = k
  BY DEF Edits
<1>2. op = [type |-> op.type, objs |-> op.objs, n |-> k]
  BY DEF Edits
<1>3. op.type = "clear" => op.objs = Objects
  BY DEF Edits
<1> QED BY <1>1, <1>2, <1>3 DEF Durable, Ops

LEMMA ApplyIn ==
  ASSUME NEW x \in [Objects -> 0 .. MaxEdits], NEW m \in Downs
  PROVE  /\ Apply(x, m) \in [Objects -> 0 .. MaxEdits]
         /\ \A o \in Objects : Apply(x, m)[o] = IF o \in m.objs THEN Left(m) ELSE x[o]
<1>1. \A o \in m.objs : Left(m) \in 0 .. MaxEdits
  BY Frame
<1> QED BY <1>1 DEF Apply

LEMMA RecordedIn ==
  ASSUME NEW l \in Seq(Durable), NEW m \in Durable
  PROVE  Recorded(l, m) \in Seq(Durable)
BY DEF Recorded

\* What is sent to a socket: as it was, or with the frame at the end.
LEMMA ToIn ==
  ASSUME down \in [Sockets -> Seq(Downs)], NEW m \in Downs, NEW es
  PROVE  /\ To(m, es) \in [Sockets -> Seq(Downs)]
         /\ \A e \in Sockets : To(m, es)[e] = IF e \in es THEN Append(down[e], m) ELSE down[e]
<1>1. \A e \in Sockets : down[e] \in Seq(Downs) /\ Append(down[e], m) \in Seq(Downs)
  BY Appended
<1> QED BY <1>1 DEF To

\* What a fan-out does to the frames and the pump.
LEMMA FanOutIn ==
  ASSUME Typed, NEW m \in Downs, m.type # "hello", NEW from \in Sockets \union {Peer}, NEW es, FanOut(m, from, es)
  PROVE  down' \in [Sockets -> Seq(Downs)] /\ pump' \subseteq Pubs
<1>1. down' \in [Sockets -> Seq(Downs)]
  BY ToIn DEF FanOut, Typed
<1>2. m.type # "cursor" => m \in Durable
  BY Frame
<1> QED BY <1>1, <1>2 DEF FanOut, Pubs, Typed

LEMMA SentIn ==
  ASSUME up \in [Sockets -> Seq(Ups)], last \in 0 .. MaxSockets, NEW m \in Ups
  PROVE  /\ Sent(m) \in [Sockets -> Seq(Ups)]
         /\ ~ Attached => Sent(m) = up
         /\ Attached =>
              /\ last \in Sockets /\ Sent(m)[last] = Append(up[last], m) /\ Sent(m) # up
              /\ \A e \in Sockets \ {last} : Sent(m)[e] = up[e]
<1>1. CASE ~ Attached
  BY <1>1 DEF Sent
<1>2. CASE Attached
  <2>1. last \in Sockets
    BY <1>2, BoundsNat DEF Sockets, Attached
  <2>2. Append(up[last], m) \in Seq(Ups) /\ Append(up[last], m) # up[last]
    BY <2>1, Appended
  <2>3. Sent(m) = [up EXCEPT ![last] = Append(@, m)]
    BY <1>2 DEF Sent
  <2> QED BY <1>2, <2>1, <2>2, <2>3
<1> QED BY <1>1, <1>2

-----------------------------------------------------------------------------
LEMMA TypedInit == Init => Typed
<1> SUFFICES ASSUME Init PROVE Typed
  OBVIOUS
<1>1. scene \in [Objects -> 0 .. MaxEdits]
  BY BoundsNat DEF Init, Blank
<1> QED BY <1>1, BoundsNat DEF Init, Typed

\* A socket that ends forgets what is on its way down.
LEMMA TypedDeaf ==
  ASSUME Typed, NEW e \in Sockets, Deaf(e), UNCHANGED <<scene, up, pump, log, edits, cursors>>
  PROVE  Typed'
<1>1. down[e] \in Seq(Downs)
  BY DEF Typed
<1>2. Wiping(down[e]) \in SUBSET Objects
  BY <1>1, TouchedIn
<1>3. down' \in [Sockets -> Seq(Downs)] /\ sending' \in [Sockets -> Seq(Downs)]
  BY DEF Deaf, Typed
<1>4. away' \in [unsent : SUBSET Objects, missed : SUBSET Objects, raced : SUBSET Objects]
  BY <1>2 DEF Deaf, Typed
<1> QED BY <1>3, <1>4 DEF Typed

LEMMA TypedReceive ==
  ASSUME Typed, NEW e \in Sockets, Receive(e)
  PROVE  Typed'
<1>1. /\ down[e] # <<>> /\ down[e] \in Seq(Downs)
      /\ scene' = Apply(scene, Head(down[e])) /\ down' = [down EXCEPT ![e] = Tail(@)]
      /\ UNCHANGED <<up, sending, pump, log, edits, cursors, away>>
  BY DEF Receive, Typed, gatewayVars
<1>2. Head(down[e]) \in Downs /\ Tail(down[e]) \in Seq(Downs)
  BY <1>1, Tailed
<1>3. scene' \in [Objects -> 0 .. MaxEdits]
  BY <1>1, <1>2, ApplyIn DEF Typed
<1>4. down' \in [Sockets -> Seq(Downs)]
  BY <1>1, <1>2 DEF Typed
<1> QED BY <1>1, <1>3, <1>4 DEF Typed

\* What ServeWS has to send: nothing, or what it starts.
LEMMA SendsIn ==
  ASSUME Typed, NEW e \in Sockets, NEW s \in Seq(Downs), Sends(e, s)
  PROVE  sending' \in [Sockets -> Seq(Downs)]
BY DEF Sends, Typed

LEMMA TypedAdd ==
  ASSUME Typed, NEW e \in Sockets, Add(e)
  PROVE  Typed'
<1>1. <<Hello(e)>> \in Seq(Downs)
  <2>1. Hello(e) \in Downs
    BY DEF Downs
  <2> QED BY <2>1
<1>2. sending' \in [Sockets -> Seq(Downs)]
  BY <1>1, SendsIn DEF Add
<1> QED BY <1>2 DEF Add, Typed

LEMMA TypedSendNext ==
  ASSUME Typed, NEW e \in Sockets, SendNext(e)
  PROVE  Typed'
<1>1. /\ sending[e] # <<>> /\ sending[e] \in Seq(Downs)
      /\ down' = To(Head(sending[e]), {e}) /\ sending' = [sending EXCEPT ![e] = Tail(@)]
      /\ UNCHANGED <<scene, up, pump, log, edits, cursors, away>>
  BY DEF SendNext, Typed
<1>2. Head(sending[e]) \in Downs /\ Tail(sending[e]) \in Seq(Downs)
  BY <1>1, Tailed
<1>3. sending' \in [Sockets -> Seq(Downs)]
  BY <1>1, <1>2 DEF Typed
<1>4. down' \in [Sockets -> Seq(Downs)]
  BY <1>1, <1>2, ToIn DEF Typed
<1> QED BY <1>1, <1>3, <1>4 DEF Typed

\* The ops in the pump.
LEMMA PumpIn ==
  ASSUME Typed, NEW p \in pump
  PROVE  p \in Pubs /\ p.op \in Durable /\ p.op \in Downs /\ p.op.objs \in SUBSET Objects
<1>1. p \in Pubs /\ p.op \in Durable
  BY DEF Typed, Pubs
<1> QED BY <1>1, UpsAreDowns, Frame

LEMMA TypedCatchup ==
  ASSUME Typed, NEW e \in Sockets, Catchup(e)
  PROVE  Typed'
<1>1. log \in Seq(Downs)
  BY DurableSeq DEF Typed
<1>2. sending' \in [Sockets -> Seq(Downs)]
  BY <1>1, SendsIn DEF Catchup
<1>3. Unrecorded \in SUBSET Objects
  BY PumpIn DEF Unrecorded
<1>4. away' \in [unsent : SUBSET Objects, missed : SUBSET Objects, raced : SUBSET Objects]
  BY <1>3 DEF Catchup, Typed
<1> QED BY <1>2, <1>4 DEF Catchup, Typed

LEMMA TypedRecord ==
  ASSUME Typed, NEW p \in pump, Record(p)
  PROVE  Typed'
<1>1. log' \in Seq(Durable)
  BY PumpIn, RecordedIn DEF Record, Typed
<1> QED BY <1>1 DEF Record, Typed

LEMMA EditsMore ==
  ASSUME Typed, edits < MaxEdits
  PROVE  edits + 1 \in 1 .. MaxEdits /\ edits + 1 \in 0 .. MaxEdits
BY BoundsNat DEF Typed

LEMMA TypedEdit ==
  ASSUME Typed, last \in 0 .. MaxSockets, Edit
  PROVE  Typed'
<1>1. edits + 1 \in 1 .. MaxEdits /\ edits + 1 \in 0 .. MaxEdits
  BY EditsMore DEF Edit
<1>2. PICK op \in Edits(scene, edits + 1) :
        /\ scene' = Apply(scene, op) /\ up' = Sent(op)
        /\ away' = [away EXCEPT !.unsent = @ \union (IF up' = up THEN op.objs ELSE {}),
                                !.raced = @ \union (op.objs \intersect (InFlight \union Touched(ToReplay(log))))]
  BY DEF Edit
<1>3. op \in Durable /\ op \in Ups /\ op \in Downs
  BY <1>1, <1>2, EditIn, UpsAreDowns DEF Typed
<1>4. scene' \in [Objects -> 0 .. MaxEdits]
  BY <1>2, <1>3, ApplyIn DEF Typed
<1>5. up' \in [Sockets -> Seq(Ups)]
  BY <1>2, <1>3, SentIn DEF Typed
<1>6. op.objs \in SUBSET Objects
  BY <1>3, Frame
<1>7. away' \in [unsent : SUBSET Objects, missed : SUBSET Objects, raced : SUBSET Objects]
  BY <1>2, <1>6 DEF Typed
<1> QED BY <1>1, <1>4, <1>5, <1>7 DEF Edit, Typed, gatewayVars

LEMMA TypedMoveCursor ==
  ASSUME Typed, last \in 0 .. MaxSockets, me \in 0 .. last, MoveCursor
  PROVE  Typed'
<1>1. Cursor(me) \in Ups
  BY BoundsNat DEF Ups, Marks
<1>2. up' \in [Sockets -> Seq(Ups)]
  BY <1>1, SentIn DEF MoveCursor, Typed
<1>3. cursors' \in 0 .. MaxCursors
  BY BoundsNat DEF MoveCursor, Typed
<1> QED BY <1>2, <1>3 DEF MoveCursor, Typed, gatewayVars

\* A frame that a browser sends is an op or a cursor.
LEMMA UpFrame ==
  ASSUME NEW m \in Ups
  PROVE  m \in Downs /\ m.type # "hello" /\ m.objs \in SUBSET Objects /\ (m.type # "cursor" => m \in Durable)
<1>1. m \in Downs
  BY UpsAreDowns
<1>2. m.type # "hello"
  <2>1. m \in Durable => m.type # "hello"
    BY <1>1, Frame
  <2>2. m \in Marks => m.type = "cursor"
    BY DEF Marks, Cursor
  <2> QED BY <2>1, <2>2 DEF Ups
<1> QED BY <1>1, <1>2, Frame

LEMMA TypedPublish ==
  ASSUME Typed, NEW e \in Sockets, Publish(e)
  PROVE  Typed'
<1>1. PICK m, es :
      /\ m = Head(up[e]) /\ FanOut(m, e, es)
      /\ away' = [away EXCEPT !.missed = @ \union Missed(m, es \union {e}),
                              !.raced = @ \union (m.objs \intersect Replaying)]
  BY DEF Publish
<1>2. /\ up[e] # <<>> /\ up[e] \in Seq(Ups) /\ up' = [up EXCEPT ![e] = Tail(@)]
      /\ UNCHANGED <<scene, sending, log, edits, cursors>>
  BY DEF Publish, Typed
<1>3. m \in Ups /\ Tail(up[e]) \in Seq(Ups)
  BY <1>1, <1>2, Tailed
<1>4. m \in Downs /\ m.type # "hello" /\ m.objs \in SUBSET Objects
  BY <1>3, UpFrame
<1>5. up' \in [Sockets -> Seq(Ups)]
  BY <1>2, <1>3 DEF Typed
<1>6. down' \in [Sockets -> Seq(Downs)] /\ pump' \subseteq Pubs
  BY <1>1, <1>4, FanOutIn
<1>7. away' \in [unsent : SUBSET Objects, missed : SUBSET Objects, raced : SUBSET Objects]
  <2>1. Missed(m, es \union {e}) \in SUBSET Objects
    BY <1>4 DEF Missed
  <2> QED BY <1>1, <1>4, <2>1 DEF Typed
<1> QED BY <1>2, <1>5, <1>6, <1>7 DEF Typed

LEMMA TypedDrop ==
  ASSUME Typed, NEW e \in Sockets, Drop(e)
  PROVE  Typed'
<1>1. up[e] \in Seq(Downs)
  BY UpsSeq DEF Typed
<1>2. Touched(up[e]) \in SUBSET Objects
  BY <1>1, TouchedIn
<1>3. up' \in [Sockets -> Seq(Ups)]
  BY DEF Drop, Typed
<1>4. away' \in [unsent : SUBSET Objects, missed : SUBSET Objects, raced : SUBSET Objects]
  BY <1>2 DEF Drop, Typed
<1> QED BY <1>3, <1>4 DEF Drop, Typed

LEMMA TypedPeerEdit ==
  ASSUME Typed, PeerEdit
  PROVE  Typed'
<1>1. edits + 1 \in 1 .. MaxEdits /\ edits + 1 \in 0 .. MaxEdits
  BY EditsMore DEF PeerEdit
<1>2. PICK op \in Edits(Rebuilt(log), edits + 1), es \in SUBSET Others(Peer) :
        /\ FanOut(op, Peer, es)
        /\ away' = [away EXCEPT !.missed = @ \union Missed(op, es),
                                !.raced = @ \union (op.objs \intersect InFlight)]
  BY DEF PeerEdit
<1>3. op \in Durable
  BY <1>1, EditIn
<1>4. op \in Downs /\ op.type # "hello" /\ op.objs \in SUBSET Objects
  BY <1>3, UpFrame, UpsAreDowns
<1>5. down' \in [Sockets -> Seq(Downs)] /\ pump' \subseteq Pubs
  BY <1>2, <1>4, FanOutIn
<1>6. away' \in [unsent : SUBSET Objects, missed : SUBSET Objects, raced : SUBSET Objects]
  <2>1. Missed(op, es) \in SUBSET Objects
    BY <1>4 DEF Missed
  <2> QED BY <1>2, <1>4, <2>1 DEF Typed
<1> QED BY <1>1, <1>5, <1>6 DEF PeerEdit, Typed

LEMMA TypedPeerCursor ==
  ASSUME Typed, PeerCursor
  PROVE  Typed'
<1>1. Cursor(Peer) \in Downs
  BY DEF Downs, Ups, Marks
<1>2. down' \in [Sockets -> Seq(Downs)] /\ pump' \subseteq Pubs
  <2>1. Cursor(Peer).type # "hello"
    BY DEF Cursor
  <2> QED BY <1>1, <2>1, FanOutIn DEF PeerCursor
<1>3. cursors' \in 0 .. MaxCursors
  BY BoundsNat DEF PeerCursor, Typed
<1> QED BY <1>2, <1>3 DEF PeerCursor, Typed, gatewayVars

-----------------------------------------------------------------------------
(* The sockets, the timer and the effect. *)

States == {"none", "connecting", "open", "closing", "closed"}
Stages == {"no", "accepted", "added", "replaying"}

Wired ==
  /\ mounted \in BOOLEAN /\ timer \in BOOLEAN
  /\ ready \in [Sockets -> States]
  /\ last \in 0 .. MaxSockets
  /\ status \in {"connecting", "live", "reconnecting"}
  /\ ended \subseteq 1 .. last
  /\ serving \in [Sockets -> Stages]
  /\ \A e \in Sockets : ready[e] = "none" <=> e > last
  \* only the last socket is wanted, and only while the effect is there,
  /\ \A e \in Sockets : ready[e] \in {"connecting", "open"} => e = last /\ mounted
  /\ mounted => last # 0 /\ last \notin ended
  /\ timer => mounted /\ ready[last] = "closed"
  \* those before it are closed if they are of the same effect,
  /\ \A e \in 1 .. last : e \notin ended => mounted /\ (e < last => ready[e] = "closed")
  \* and the gateway serves the sockets it has accepted.
  /\ \A e \in Sockets : ready[e] = "open" => serving[e] # "no"
  /\ \A e \in Sockets : serving[e] # "no" => ready[e] \in {"open", "closing", "closed"}

\* Frames wait only where somebody will read them.
Drained ==
  /\ \A e \in Sockets : down[e] # <<>> => ready[e] = "open"
  /\ \A e \in Sockets : up[e] # <<>> => serving[e] # "no"

\* Only ids that were given out are in use.
Known(m, k) ==
  /\ m.type = "hello" => m.n \in 0 .. k
  /\ m.type = "cursor" => m.n \in 0 .. k \union {Peer}

Named ==
  /\ me \in 0 .. last
  /\ peers \subseteq 0 .. last \union {Peer}
  /\ \A e \in Sockets : \A i \in DOMAIN up[e] : Known(up[e][i], last)
  /\ \A e \in Sockets : \A i \in DOMAIN down[e] : Known(down[e][i], last)

LEMMA WiredInit == Init => Wired /\ Drained /\ Named
<1> SUFFICES ASSUME Init PROVE Wired /\ Drained /\ Named
  OBVIOUS
<1>1. Wired
  <2>1. ready \in [Sockets -> States] /\ \A e \in Sockets : ready[e] = "none" /\ e > last
    BY DEF Init, States, Sockets
  <2>2. last \in 0 .. MaxSockets /\ 1 .. last = {}
    BY BoundsNat DEF Init
  <2> QED BY <2>1, <2>2 DEF Init, Wired, Stages
<1>2. Drained /\ Named
  BY DEF Init, Drained, Named, NoId
<1> QED BY <1>1, <1>2

LEMMA LastSocket ==
  ASSUME Wired
  PROVE  /\ 1 .. last \subseteq Sockets
         /\ mounted => last \in Sockets
         /\ \A e \in Sockets : ready[e] = "open" => e = last /\ last # 0 /\ last \in Sockets
BY BoundsNat DEF Wired, Sockets

\* connect: no socket was wanted before.
LEMMA WiredConnect ==
  ASSUME Wired, Connect, UNCHANGED <<ended, serving, status>>, mounted' = TRUE, timer' = FALSE,
         (~ mounted) \/ timer
  PROVE  /\ Wired'
         /\ last + 1 \in Sockets /\ serving[last + 1] = "no" /\ last' = last + 1 /\ last \in Nat
         /\ ready'[last + 1] = "connecting" /\ \A e \in Sockets : e # last + 1 => ready'[e] = ready[e]
         /\ \A e \in Sockets : ready[e] # "open" /\ ready'[e] # "open"
<1>1. /\ last + 1 \in Sockets /\ last \in Nat /\ last' = last + 1 /\ last' \in 0 .. MaxSockets
      /\ ready' = [ready EXCEPT ![last + 1] = "connecting"]
  BY BoundsNat DEF Wired, Connect, Sockets
<1>2. ready'[last + 1] = "connecting" /\ \A e \in Sockets : e # last + 1 => ready'[e] = ready[e]
  BY <1>1 DEF Wired
<1>3. \A e \in Sockets : ready[e] \notin {"connecting", "open"}
  BY DEF Wired
<1>4. ready' \in [Sockets -> States]
  BY <1>1 DEF Wired, States
<1>5. ready[last + 1] = "none" /\ last + 1 \notin ended
  BY <1>1 DEF Wired
<1>6. serving[last + 1] = "no"
  BY <1>1, <1>5 DEF Wired
<1>7. ended \subseteq 1 .. last'
  BY <1>1 DEF Wired
<1>8. \A e \in Sockets : ready'[e] = "none" <=> e > last'
  BY <1>1, <1>2 DEF Wired, Sockets
<1>9. \A e \in Sockets : ready'[e] \in {"connecting", "open"} => e = last'
  BY <1>1, <1>2, <1>3
<1>10. \A e \in 1 .. last' : e \notin ended => (e < last' => ready'[e] = "closed")
  <2> SUFFICES ASSUME NEW e \in 1 .. last', e \notin ended, e < last'
               PROVE  ready'[e] = "closed"
    OBVIOUS
  <2>1. e \in 1 .. last /\ e # last + 1 /\ e \in Sockets /\ (e < last \/ e = last)
    BY <1>1, BoundsNat DEF Sockets
  <2>2. mounted /\ (e < last => ready[e] = "closed")
    BY <2>1 DEF Wired
  <2>3. timer /\ ready[last] = "closed"
    BY <2>2 DEF Wired
  <2> QED BY <1>2, <2>1, <2>2, <2>3
<1>11. \A e \in Sockets : serving[e] # "no" => ready'[e] \in {"open", "closing", "closed"}
  BY <1>2, <1>6 DEF Wired
<1>12. \A e \in Sockets : ready'[e] = "open" => serving[e] # "no"
  BY <1>2, <1>3
<1>13. last' # 0 /\ last' \notin ended /\ ended' = ended /\ serving' = serving
  BY <1>1, <1>5
<1>14. status' \in {"connecting", "live", "reconnecting"} /\ serving \in [Sockets -> Stages]
  BY DEF Wired
<1>15. Wired'
  BY <1>1, <1>4, <1>7, <1>8, <1>9, <1>10, <1>11, <1>12, <1>13, <1>14 DEF Wired
<1> QED BY <1>1, <1>2, <1>3, <1>6, <1>15

\* The sockets and the effect stay as they are.
LEMMA WiredStays ==
  ASSUME Wired, UNCHANGED <<mounted, socketVars, status, serving>>
  PROVE  Wired'
BY DEF Wired, socketVars

\* ServeWS goes on with a socket it serves.
LEMMA WiredServes ==
  ASSUME Wired, UNCHANGED <<mounted, socketVars, status>>, NEW e \in Sockets, NEW v \in Stages \ {"no"},
         serving[e] # "no", serving' = [serving EXCEPT ![e] = v]
  PROVE  Wired'
<1>1. serving'[e] = v /\ \A f \in Sockets : f # e => serving'[f] = serving[f]
  BY DEF Wired
<1>2. serving' \in [Sockets -> Stages]
  BY DEF Wired
<1>3. \A f \in Sockets : serving'[f] # "no" <=> serving[f] # "no"
  BY <1>1
<1>4. /\ \A f \in Sockets : ready[f] = "open" => serving'[f] # "no"
      /\ \A f \in Sockets : serving'[f] # "no" => ready[f] \in {"open", "closing", "closed"}
  BY <1>3 DEF Wired
<1> QED BY <1>2, <1>4 DEF Wired, socketVars

LEMMA WiredUnmount ==
  ASSUME Wired, Unmount
  PROVE  Wired' /\ ready'[last] # "open" /\ \A e \in Sockets : e # last => ready'[e] = ready[e]
<1>1. /\ mounted /\ last \in Sockets
      /\ mounted' = FALSE /\ timer' = FALSE /\ ended' = ended \union 1 .. last
      /\ ready' = [ready EXCEPT ![last] = IF @ \in {"connecting", "open"} THEN "closing" ELSE @]
      /\ UNCHANGED <<last, status, serving>>
  BY LastSocket DEF Unmount, Unmounted, shownVars, gatewayVars
<1>2. /\ ready'[last] = IF ready[last] \in {"connecting", "open"} THEN "closing" ELSE ready[last]
      /\ \A e \in Sockets : e # last => ready'[e] = ready[e]
  BY <1>1 DEF Wired
<1>3. ready' \in [Sockets -> States]
  BY <1>1 DEF Wired, States
<1>4. \A e \in Sockets : ready'[e] \notin {"connecting", "open"}
  BY <1>2 DEF Wired
<1>5. \A e \in Sockets : ready'[e] = "none" <=> e > last
  BY <1>1, <1>2 DEF Wired
<1>6. \A e \in Sockets : serving[e] # "no" => ready'[e] \in {"open", "closing", "closed"}
  BY <1>2 DEF Wired
<1>7. ended' \subseteq 1 .. last /\ \A e \in 1 .. last : e \in ended'
  BY <1>1 DEF Wired
<1>8. Wired'
  BY <1>1, <1>3, <1>4, <1>5, <1>6, <1>7 DEF Wired
<1> QED BY <1>1, <1>2, <1>4, <1>8

LEMMA WiredOpen ==
  ASSUME Wired, NEW e \in Sockets, Open(e)
  PROVE  /\ Wired' /\ e = last /\ mounted /\ serving[e] = "no" /\ ready[e] # "open" /\ ready'[e] = "open"
         /\ serving'[e] = "accepted" /\ \A f \in Sockets : f # e => serving'[f] = serving[f]
         /\ \A f \in Sockets : f # e => ready'[f] = ready[f]
<1>1. /\ ready[e] = "connecting" /\ ready' = [ready EXCEPT ![e] = "open"] /\ status' = "live"
      /\ serving' = [serving EXCEPT ![e] = "accepted"] /\ UNCHANGED <<mounted, ended, last, timer>>
  BY DEF Open
<1>2. e = last /\ mounted /\ last # 0 /\ last \notin ended /\ serving[e] = "no"
  BY <1>1 DEF Wired, Stages
<1>3. ready'[e] = "open" /\ \A f \in Sockets : f # e => ready'[f] = ready[f]
  BY <1>1 DEF Wired
<1>4. ready' \in [Sockets -> States]
  BY <1>1 DEF Wired, States
<1>5. /\ serving' \in [Sockets -> Stages] /\ serving'[e] = "accepted"
      /\ \A f \in Sockets : f # e => serving'[f] = serving[f]
  BY <1>1 DEF Wired, Stages
<1>6. ~ timer
  BY <1>1, <1>2 DEF Wired
<1>7. \A f \in Sockets : ready'[f] = "none" <=> f > last
  BY <1>1, <1>3 DEF Wired
<1>8. \A f \in Sockets : ready'[f] \in {"connecting", "open"} => f = last /\ mounted
  BY <1>2, <1>3 DEF Wired
<1>9. \A f \in 1 .. last : f \notin ended => mounted /\ (f < last => ready'[f] = "closed")
  BY <1>2, <1>3, LastSocket DEF Wired
<1>10. /\ \A f \in Sockets : ready'[f] = "open" => serving'[f] # "no"
       /\ \A f \in Sockets : serving'[f] # "no" => ready'[f] \in {"open", "closing", "closed"}
  BY <1>1, <1>3, <1>5 DEF Wired
<1>11. Wired'
  BY <1>1, <1>2, <1>4, <1>5, <1>6, <1>7, <1>8, <1>9, <1>10 DEF Wired
<1> QED BY <1>1, <1>2, <1>3, <1>5, <1>11

LEMMA WiredOnClose ==
  ASSUME Wired, NEW e \in Sockets, OnClose(e)
  PROVE  Wired' /\ ready'[e] = "closed" /\ \A f \in Sockets : f # e => ready'[f] = ready[f]
<1>1. /\ ready[e] \in {"connecting", "open", "closing"} /\ ready' = [ready EXCEPT ![e] = "closed"]
      /\ UNCHANGED <<mounted, ended, last, serving>>
      /\ IF e \in ended THEN status' = status /\ timer' = timer
                        ELSE status' = "reconnecting" /\ timer' = TRUE
  BY DEF OnClose, Lost
<1>2. ready'[e] = "closed" /\ \A f \in Sockets : f # e => ready'[f] = ready[f]
  BY <1>1 DEF Wired
<1>3. ready' \in [Sockets -> States]
  BY <1>1 DEF Wired, States
<1>4. e \in 1 .. last /\ 1 .. last \subseteq Sockets
  BY <1>1, LastSocket DEF Wired, Sockets
<1>5. e \notin ended => e = last /\ mounted
  BY <1>1, <1>4 DEF Wired
<1>6. timer' \in BOOLEAN /\ status' \in {"connecting", "live", "reconnecting"}
  BY <1>1 DEF Wired
<1>7. timer' => mounted /\ ready'[last] = "closed"
  <2>1. CASE e \in ended
    <3>1. last # e \/ ~ mounted
      BY <2>1 DEF Wired
    <3>2. mounted => last \in Sockets
      BY LastSocket
    <3> QED BY <1>1, <1>2, <2>1, <3>1, <3>2 DEF Wired
  <2>2. CASE e \notin ended
    BY <1>2, <1>5, <2>2
  <2> QED BY <2>1, <2>2
<1>8. /\ \A f \in Sockets : ready'[f] = "none" <=> f > last
      /\ \A f \in Sockets : ready'[f] \in {"connecting", "open"} => f = last /\ mounted
      /\ \A f \in Sockets : ready'[f] = "open" => serving[f] # "no"
  BY <1>1, <1>2, <1>4 DEF Wired
<1>9. \A f \in 1 .. last : f \notin ended => mounted /\ (f < last => ready'[f] = "closed")
  BY <1>2, <1>4 DEF Wired
<1>10. \A f \in Sockets : serving[f] # "no" => ready'[f] \in {"open", "closing", "closed"}
  BY <1>2 DEF Wired
<1>11. Wired'
  BY <1>1, <1>3, <1>6, <1>7, <1>8, <1>9, <1>10 DEF Wired
<1> QED BY <1>2, <1>11

LEMMA WiredDrop ==
  ASSUME Wired, NEW e \in Sockets, Drop(e)
  PROVE  Wired' /\ ready[e] = "closed"
<1>1. /\ ready[e] = "closed" /\ serving' = [serving EXCEPT ![e] = "no"]
      /\ UNCHANGED <<mounted, ready, ended, last, timer, status>>
  BY DEF Drop, socketVars, shownVars
<1>2. /\ serving' \in [Sockets -> Stages]
      /\ \A f \in Sockets : ready[f] = "open" => serving'[f] # "no"
      /\ \A f \in Sockets : serving'[f] # "no" => ready[f] \in {"open", "closing", "closed"}
  BY <1>1 DEF Wired, Stages
<1> QED BY <1>1, <1>2 DEF Wired

-----------------------------------------------------------------------------
(* Frames and ids. *)

\* An op names nobody.
LEMMA DurableKnown ==
  ASSUME NEW m \in Durable
  PROVE  Known(m, last)
BY DEF Durable, Ops, Known

LEMMA ToFlow ==
  ASSUME Typed, Drained, Named, NEW m \in Downs, Known(m, last), NEW es, NEW e \in Sockets,
         \A f \in es : f \in Sockets => ready[f] = "open"
  PROVE  /\ To(m, es)[e] # <<>> => ready[e] = "open"
         /\ \A i \in DOMAIN To(m, es)[e] : Known(To(m, es)[e][i], last)
<1>1. To(m, es)[e] = IF e \in es THEN Append(down[e], m) ELSE down[e]
  BY ToIn DEF Typed
<1>2. CASE To(m, es)[e] = down[e]
  BY <1>2 DEF Drained, Named
<1>3. CASE ready[e] = "open" /\ To(m, es)[e] = Append(down[e], m)
  <2>1. down[e] \in Seq(Downs)
    BY DEF Typed
  <2>2. \A i \in DOMAIN Append(down[e], m) : Known(Append(down[e], m)[i], last)
    BY <2>1, Appended DEF Named
  <2> QED BY <1>3, <2>2
<1> QED BY <1>1, <1>2, <1>3

LEMMA SentFlow ==
  ASSUME Typed, Wired, Drained, Named, NEW m \in Ups, Known(m, last), NEW e \in Sockets
  PROVE  /\ Sent(m)[e] # <<>> => serving[e] # "no"
         /\ \A i \in DOMAIN Sent(m)[e] : Known(Sent(m)[e][i], last)
<1>1. /\ up \in [Sockets -> Seq(Ups)] /\ last \in 0 .. MaxSockets
  BY DEF Typed, Wired
<1>2. CASE Sent(m)[e] = up[e]
  BY <1>2 DEF Drained, Named
<1>3. CASE ready[e] = "open" /\ Sent(m)[e] = Append(up[e], m)
  <2>1. up[e] \in Seq(Ups)
    BY DEF Typed
  <2>2. \A i \in DOMAIN Append(up[e], m) : Known(Append(up[e], m)[i], last)
    BY <2>1, Appended DEF Named
  <2>3. serving[e] # "no"
    BY <1>3 DEF Wired
  <2> QED BY <1>3, <2>2, <2>3
<1>4. Attached => ready[last] = "open"
  BY DEF Attached
<1> QED BY <1>1, <1>2, <1>3, <1>4, SentIn

\* The sequences of frames left are those there were, or the rest of them.
LEMMA FlowLess ==
  ASSUME Typed, Drained, Named, last \in Nat, last' \in Nat, last <= last', me' = me, peers' \subseteq peers,
         \A e \in Sockets : down'[e] = down[e] \/ down'[e] = <<>>,
         \A e \in Sockets : up'[e] = up[e] \/ up'[e] = <<>>,
         \A e \in Sockets : down'[e] # <<>> => ready'[e] = "open",
         \A e \in Sockets : up'[e] # <<>> => serving'[e] # "no"
  PROVE  Drained' /\ Named'
<1>1. 0 .. last \subseteq 0 .. last'
  OBVIOUS
<1>2. \A m : Known(m, last) => Known(m, last')
  BY <1>1 DEF Known
<1>3. \A e \in Sockets : \A i \in DOMAIN down'[e] : Known(down'[e][i], last')
  <2> SUFFICES ASSUME NEW e \in Sockets, NEW i \in DOMAIN down'[e] PROVE Known(down'[e][i], last')
    OBVIOUS
  <2>1. down'[e] = down[e]
    OBVIOUS
  <2> QED BY <1>2, <2>1 DEF Named
<1>4. \A e \in Sockets : \A i \in DOMAIN up'[e] : Known(up'[e][i], last')
  <2> SUFFICES ASSUME NEW e \in Sockets, NEW i \in DOMAIN up'[e] PROVE Known(up'[e][i], last')
    OBVIOUS
  <2>1. up'[e] = up[e]
    OBVIOUS
  <2> QED BY <1>2, <2>1 DEF Named
<1>5. me' \in 0 .. last' /\ peers' \subseteq 0 .. last' \union {Peer}
  BY <1>1 DEF Named
<1> QED BY <1>3, <1>4, <1>5 DEF Drained, Named

LEMMA FlowConnect ==
  ASSUME Typed, Wired, Drained, Named, Mount \/ TimerFires
  PROVE  Wired' /\ Drained' /\ Named' /\ Typed'
<1>1. /\ Connect /\ UNCHANGED <<ended, status, me, peers, gatewayVars, scene, up, down, edits, cursors, away>>
      /\ mounted' = TRUE /\ (~ mounted \/ timer)
  BY DEF Mount, TimerFires, Wired, shownVars
<1>2. timer' = FALSE
  BY DEF Mount, TimerFires, Wired
<1>3. /\ Wired' /\ last' = last + 1 /\ last \in Nat
      /\ \A e \in Sockets : ready[e] # "open"
  BY <1>1, <1>2, WiredConnect DEF gatewayVars
<1>4. \A e \in Sockets : down[e] = <<>>
  BY <1>3 DEF Drained
<1>5. Drained' /\ Named'
  <2>1. last' \in Nat /\ last <= last'
    BY <1>3
  <2> QED BY <1>1, <1>3, <1>4, <2>1, FlowLess DEF Drained, gatewayVars
<1>6. Typed'
  BY <1>1 DEF Typed, gatewayVars
<1> QED BY <1>3, <1>5, <1>6

LEMMA FlowDeaf ==
  ASSUME Typed, Wired, Drained, Named, NEW e \in Sockets, Deaf(e), ready'[e] # "open",
         \A f \in Sockets : f # e => ready'[f] = ready[f],
         UNCHANGED <<up, serving, last, me, peers>>
  PROVE  Drained' /\ Named'
<1>1. down'[e] = <<>> /\ \A f \in Sockets : f # e => down'[f] = down[f]
  BY DEF Deaf, Typed
<1>2. last \in Nat /\ last <= last
  BY BoundsNat DEF Wired
<1>3. \A f \in Sockets : down'[f] # <<>> => ready'[f] = "open"
  BY <1>1 DEF Drained
<1>4. \A f \in Sockets : up'[f] # <<>> => serving'[f] # "no"
  BY DEF Drained
<1> QED BY <1>1, <1>2, <1>3, <1>4, FlowLess

LEMMA FlowUnmount ==
  ASSUME Typed, Wired, Drained, Named, Unmount
  PROVE  Wired' /\ Drained' /\ Named' /\ Typed'
<1>1. /\ Deaf(last) /\ UNCHANGED <<last, me, peers, serving, pump, log, scene, up, edits, cursors>> /\ mounted
  BY DEF Unmount, Unmounted, shownVars
<1>2. last \in Sockets
  BY <1>1, LastSocket
<1>3. Wired' /\ ready'[last] # "open" /\ \A e \in Sockets : e # last => ready'[e] = ready[e]
  BY WiredUnmount
<1> QED BY <1>1, <1>2, <1>3, FlowDeaf, TypedDeaf

LEMMA FlowOnClose ==
  ASSUME Typed, Wired, Drained, Named, NEW e \in Sockets, OnClose(e)
  PROVE  Wired' /\ Drained' /\ Named' /\ Typed'
<1>1. Deaf(e) /\ UNCHANGED <<last, me, peers, serving, pump, log, scene, up, edits, cursors>>
  BY DEF OnClose, Lost
<1>2. Wired' /\ ready'[e] = "closed" /\ \A f \in Sockets : f # e => ready'[f] = ready[f]
  BY WiredOnClose
<1> QED BY <1>1, <1>2, FlowDeaf, TypedDeaf

LEMMA FlowDrop ==
  ASSUME Typed, Wired, Drained, Named, NEW e \in Sockets, Drop(e)
  PROVE  Wired' /\ Drained' /\ Named' /\ Typed'
<1>1. /\ Wired' /\ serving' = [serving EXCEPT ![e] = "no"] /\ up' = [up EXCEPT ![e] = <<>>]
      /\ UNCHANGED <<ready, last, me, peers, down>>
  BY WiredDrop DEF Drop, socketVars, shownVars
<1>2. /\ up'[e] = <<>> /\ \A f \in Sockets : f # e => up'[f] = up[f]
      /\ \A f \in Sockets : f # e => serving'[f] = serving[f]
  BY <1>1 DEF Typed, Wired
<1>3. last \in Nat /\ last <= last
  BY BoundsNat DEF Wired
<1>4. Drained' /\ Named'
  BY <1>1, <1>2, <1>3, FlowLess DEF Drained
<1> QED BY <1>1, <1>4, TypedDrop

LEMMA FlowExpire ==
  ASSUME Typed, Wired, Drained, Named, NEW id, Expire(id)
  PROVE  Wired' /\ Drained' /\ Named' /\ Typed'
<1>1. /\ peers' \subseteq peers
      /\ UNCHANGED <<mounted, socketVars, status, me, scene, up, gatewayVars, down, edits, cursors, away>>
  BY DEF Expire
<1>2. Wired' /\ Typed'
  BY <1>1, WiredStays DEF Typed, gatewayVars
<1>3. last \in Nat /\ last <= last
  BY BoundsNat DEF Wired
<1>4. Drained' /\ Named'
  BY <1>1, <1>3, FlowLess DEF Drained, socketVars, gatewayVars
<1> QED BY <1>2, <1>4

LEMMA FlowOpen ==
  ASSUME Typed, Wired, Drained, Named, NEW e \in Sockets, Open(e)
  PROVE  Wired' /\ Drained' /\ Named' /\ Typed'
<1>1. /\ Wired' /\ ready'[e] = "open" /\ serving'[e] = "accepted"
      /\ \A f \in Sockets : f # e => ready'[f] = ready[f] /\ serving'[f] = serving[f]
  BY WiredOpen
<1>2. UNCHANGED <<last, me, peers, scene, up, sending, pump, log, down, edits, cursors, away>>
  BY DEF Open
<1>3. last \in Nat /\ last <= last
  BY BoundsNat DEF Wired
<1>4. Drained' /\ Named'
  BY <1>1, <1>2, <1>3, FlowLess DEF Drained
<1>5. Typed'
  BY <1>2 DEF Typed
<1> QED BY <1>1, <1>4, <1>5

LEMMA FlowReceive ==
  ASSUME Typed, Wired, Drained, Named, NEW e \in Sockets, Receive(e)
  PROVE  Wired' /\ Drained' /\ Named' /\ Typed'
<1> DEFINE m == Head(down[e])
<1>1. /\ ready[e] = "open" /\ down[e] # <<>>
      /\ me' = IF m.type = "hello" THEN m.n ELSE me
      /\ peers' = IF m.type = "cursor" /\ m.n # me THEN peers \union {m.n} ELSE peers
      /\ down' = [down EXCEPT ![e] = Tail(@)]
      /\ UNCHANGED <<mounted, socketVars, status, up, serving>>
  BY DEF Receive, gatewayVars
<1>2. down[e] \in Seq(Downs)
  BY DEF Typed
<1>3. /\ m = down[e][1] /\ 1 \in DOMAIN down[e]
      /\ \A i \in DOMAIN Tail(down[e]) : i + 1 \in DOMAIN down[e] /\ Tail(down[e])[i] = down[e][i + 1]
  BY <1>1, <1>2, Tailed
<1> HIDE DEF m
<1>4. Known(m, last)
  BY <1>3 DEF Named
<1>5. down'[e] = Tail(down[e]) /\ \A f \in Sockets : f # e => down'[f] = down[f]
  BY <1>1 DEF Typed
<1>6. \A f \in Sockets : \A i \in DOMAIN down'[f] : Known(down'[f][i], last)
  <2>1. \A i \in DOMAIN down'[e] : Known(down'[e][i], last)
    BY <1>3, <1>5 DEF Named
  <2> QED BY <1>5, <2>1 DEF Named
<1>7. me' \in 0 .. last /\ peers' \subseteq 0 .. last \union {Peer}
  BY <1>1, <1>4 DEF Named, Known
<1>8. Named'
  <2>1. \A x : Known(x, last) => Known(x, last')
    BY <1>1 DEF Known, socketVars
  <2> QED BY <1>1, <1>6, <1>7, <2>1 DEF Named, socketVars
<1>9. Drained'
  BY <1>1, <1>5 DEF Drained, socketVars
<1> QED BY <1>1, <1>8, <1>9, WiredStays, TypedReceive

\* Frames are appended or read, and the sockets stay as they are.
LEMMA FlowMore ==
  ASSUME Wired', Named, UNCHANGED <<socketVars, me, peers>>,
         \A e \in Sockets : down'[e] # <<>> => ready[e] = "open",
         \A e \in Sockets : \A i \in DOMAIN down'[e] : Known(down'[e][i], last),
         \A e \in Sockets : up'[e] # <<>> => serving'[e] # "no",
         \A e \in Sockets : \A i \in DOMAIN up'[e] : Known(up'[e][i], last)
  PROVE  Drained' /\ Named'
<1>1. \A x : Known(x, last) => Known(x, last')
  BY DEF Known, socketVars
<1>2. Named'
  BY <1>1 DEF Named, socketVars
<1>3. Drained'
  BY DEF Drained, socketVars
<1> QED BY <1>2, <1>3

LEMMA FlowEdit ==
  ASSUME Typed, Wired, Drained, Named, Edit
  PROVE  Wired' /\ Drained' /\ Named' /\ Typed'
<1>1. edits + 1 \in 1 .. MaxEdits
  BY EditsMore DEF Edit
<1>2. PICK op \in Durable : up' = Sent(op)
  BY <1>1, EditIn DEF Edit
<1>3. UNCHANGED <<mounted, socketVars, status, me, peers, serving, down>> /\ op \in Ups /\ Known(op, last)
  BY <1>2, DurableKnown, UpsAreDowns DEF Edit, shownVars, gatewayVars
<1>4. /\ \A e \in Sockets : up'[e] # <<>> => serving'[e] # "no"
      /\ \A e \in Sockets : \A i \in DOMAIN up'[e] : Known(up'[e][i], last)
  BY <1>2, <1>3, SentFlow
<1>5. Wired'
  BY <1>3, WiredStays
<1>6. Drained' /\ Named'
  BY <1>3, <1>4, <1>5, FlowMore DEF Drained, Named
<1>7. Typed'
  BY TypedEdit DEF Wired
<1> QED BY <1>5, <1>6, <1>7

LEMMA FlowMoveCursor ==
  ASSUME Typed, Wired, Drained, Named, MoveCursor
  PROVE  Wired' /\ Drained' /\ Named' /\ Typed'
<1>1. /\ up' = Sent(Cursor(me)) /\ UNCHANGED <<mounted, socketVars, status, me, peers, serving, down>>
  BY DEF MoveCursor, shownVars, gatewayVars
<1>2. Cursor(me) \in Ups /\ Known(Cursor(me), last)
  <2>1. me \in 0 .. last /\ me \in 0 .. MaxSockets
    BY BoundsNat DEF Named, Wired
  <2>2. Cursor(me) \in Ups
    BY <2>1 DEF Ups, Marks
  <2>3. Known(Cursor(me), last)
    BY <2>1 DEF Known, Cursor
  <2> QED BY <2>2, <2>3
<1>3. /\ \A e \in Sockets : up'[e] # <<>> => serving'[e] # "no"
      /\ \A e \in Sockets : \A i \in DOMAIN up'[e] : Known(up'[e][i], last)
  BY <1>1, <1>2, SentFlow
<1>4. Wired'
  BY <1>1, WiredStays
<1>5. Drained' /\ Named'
  BY <1>1, <1>3, <1>4, FlowMore DEF Drained, Named
<1>6. Typed'
  BY TypedMoveCursor DEF Wired, Named
<1> QED BY <1>4, <1>5, <1>6

\* A fan-out reaches open sockets.
LEMMA OthersOpen ==
  ASSUME NEW from, NEW es \in SUBSET Others(from)
  PROVE  \A f \in es : f \in Sockets /\ f \in Served \ {from} /\ ready[f] = "open"
BY DEF Others, Served

LEMMA FlowPublish ==
  ASSUME Typed, Wired, Drained, Named, NEW e \in Sockets, Publish(e)
  PROVE  Wired' /\ Drained' /\ Named' /\ Typed'
<1>1. PICK m, es : es \in SUBSET Others(e) /\ m = Head(up[e]) /\ down' = To(m, es)
  <2>1. \E es \in SUBSET Others(e) : FanOut(Head(up[e]), e, es)
    BY DEF Publish
  <2> QED BY <2>1 DEF FanOut
<1>2. /\ up[e] # <<>> /\ up[e] \in Seq(Ups) /\ up' = [up EXCEPT ![e] = Tail(@)]
      /\ UNCHANGED <<mounted, socketVars, status, me, peers, serving>>
  BY DEF Publish, shownVars, Typed
<1>3. /\ m = up[e][1] /\ 1 \in DOMAIN up[e] /\ m \in Ups
      /\ \A i \in DOMAIN Tail(up[e]) : i + 1 \in DOMAIN up[e] /\ Tail(up[e])[i] = up[e][i + 1]
  BY <1>1, <1>2, Tailed
<1>4. Known(m, last) /\ m \in Downs
  BY <1>3, UpsAreDowns DEF Named
<1>5. up'[e] = Tail(up[e]) /\ \A f \in Sockets : f # e => up'[f] = up[f]
  BY <1>2 DEF Typed
<1>6. /\ \A f \in Sockets : up'[f] # <<>> => serving'[f] # "no"
      /\ \A f \in Sockets : \A i \in DOMAIN up'[f] : Known(up'[f][i], last)
  BY <1>2, <1>3, <1>5 DEF Drained, Named
<1>7. /\ \A f \in Sockets : down'[f] # <<>> => ready[f] = "open"
      /\ \A f \in Sockets : \A i \in DOMAIN down'[f] : Known(down'[f][i], last)
  BY <1>1, <1>4, OthersOpen, ToFlow
<1>8. Wired'
  BY <1>2, WiredStays
<1>9. Drained' /\ Named'
  BY <1>2, <1>6, <1>7, <1>8, FlowMore
<1> QED BY <1>8, <1>9, TypedPublish

LEMMA FlowPeer ==
  ASSUME Typed, Wired, Drained, Named, PeerEdit \/ PeerCursor
  PROVE  Wired' /\ Drained' /\ Named' /\ Typed'
<1>1. PICK m \in Downs, es \in SUBSET Others(Peer) : Known(m, last) /\ down' = To(m, es)
  <2>1. CASE PeerEdit
    <3>1. edits + 1 \in 1 .. MaxEdits
      BY <2>1, EditsMore DEF PeerEdit
    <3>2. PICK op \in Durable, es \in SUBSET Others(Peer) : down' = To(op, es)
      BY <2>1, <3>1, EditIn DEF PeerEdit, FanOut
    <3> QED BY <3>2, DurableKnown, UpsAreDowns
  <2>2. CASE PeerCursor
    <3>1. Cursor(Peer) \in Downs /\ Known(Cursor(Peer), last)
      BY DEF Downs, Ups, Marks, Known, Cursor
    <3> QED BY <2>2, <3>1 DEF PeerCursor, FanOut
  <2> QED BY <2>1, <2>2
<1>2. UNCHANGED <<mounted, socketVars, status, me, peers, serving, up>>
  BY DEF PeerEdit, PeerCursor, shownVars
<1>3. /\ \A f \in Sockets : down'[f] # <<>> => ready[f] = "open"
      /\ \A f \in Sockets : \A i \in DOMAIN down'[f] : Known(down'[f][i], last)
  BY <1>1, OthersOpen, ToFlow
<1>4. Wired'
  BY <1>2, WiredStays
<1>5. Drained' /\ Named'
  BY <1>2, <1>3, <1>4, FlowMore DEF Drained, Named
<1> QED BY <1>4, <1>5, TypedPeerEdit, TypedPeerCursor

-----------------------------------------------------------------------------
(* What ServeWS has to send, and what the readPumps are at. *)

Greeted ==
  /\ \A e \in Sockets : sending[e] # <<>> => ready[e] = "open" /\ serving[e] \in {"added", "replaying"}
  /\ \A e \in Sockets : serving[e] # "replaying" => \A i \in DOMAIN sending[e] : sending[e][i].objs = {}
  /\ \A e \in Sockets : \A i \in DOMAIN sending[e] : Known(sending[e][i], last)
  /\ \A p \in pump : p.from = Peer \/ (serving[p.from] = "replaying" /\ sending[p.from] = <<>>)

LEMMA GreetedInit == Init => Greeted
BY DEF Init, Greeted

\* ServeWS goes on with the next op at an open socket, and the frames to it were known.
LEMMA FlowSendNext ==
  ASSUME Typed, Wired, Drained, Named, Greeted, NEW e \in Sockets, SendNext(e)
  PROVE  Wired' /\ Drained' /\ Named' /\ Typed'
<1>1. /\ sending[e] # <<>> /\ down' = To(Head(sending[e]), {e})
      /\ UNCHANGED <<mounted, socketVars, status, me, peers, serving, up>>
  BY DEF SendNext, shownVars
<1>2. PICK m : m = Head(sending[e])
  OBVIOUS
<1>3. m \in Downs /\ Known(m, last)
  <2>1. sending[e] \in Seq(Downs)
    BY DEF Typed
  <2>2. m \in Downs /\ m = sending[e][1] /\ 1 \in DOMAIN sending[e]
    BY <1>1, <1>2, <2>1, Tailed
  <2> QED BY <2>2 DEF Greeted
<1>4. ready[e] = "open"
  BY <1>1 DEF Greeted
<1>5. /\ \A f \in Sockets : down'[f] # <<>> => ready[f] = "open"
      /\ \A f \in Sockets : \A i \in DOMAIN down'[f] : Known(down'[f][i], last)
  BY <1>1, <1>2, <1>3, <1>4, ToFlow
<1>6. Wired'
  BY <1>1, WiredStays
<1>7. Drained' /\ Named'
  BY <1>1, <1>5, <1>6, FlowMore DEF Drained, Named
<1> QED BY <1>6, <1>7, TypedSendNext

LEMMA FlowServes ==
  ASSUME Typed, Wired, Drained, Named, NEW e \in Sockets, Add(e) \/ Catchup(e)
  PROVE  Wired' /\ Drained' /\ Named' /\ Typed'
<1>1. PICK v \in Stages \ {"no"} : serving[e] # "no" /\ serving' = [serving EXCEPT ![e] = v]
  <2>1. {"added", "replaying"} \subseteq Stages \ {"no"}
    BY DEF Stages
  <2> QED BY <2>1 DEF Add, Catchup
<1>2. UNCHANGED <<mounted, socketVars, status, me, peers, up, down>>
  BY DEF Add, Catchup, shownVars
<1>3. Wired'
  BY <1>1, <1>2, WiredServes
<1>4. \A f \in Sockets : serving[f] # "no" => serving'[f] # "no"
  BY <1>1 DEF Wired
<1>5. Drained' /\ Named'
  BY <1>2, <1>3, <1>4, FlowMore DEF Drained, Named
<1> QED BY <1>3, <1>5, TypedAdd, TypedCatchup

LEMMA FlowRecord ==
  ASSUME Typed, Wired, Drained, Named, NEW p \in pump, Record(p)
  PROVE  Wired' /\ Drained' /\ Named' /\ Typed'
<1>1. UNCHANGED <<mounted, socketVars, status, me, peers, serving, up, down>>
  BY DEF Record, shownVars
<1>2. Wired'
  BY <1>1, WiredStays
<1>3. Drained' /\ Named'
  BY <1>1, <1>2, FlowMore DEF Drained, Named
<1> QED BY <1>2, <1>3, TypedRecord

\* ServeWS and the readPumps stay where they are, or their socket ends.
LEMMA GreetedLess ==
  ASSUME Greeted, Wired, last' \in Nat, last <= last', UNCHANGED serving, pump' \subseteq pump,
         \A e \in Sockets : sending'[e] = sending[e] \/ sending'[e] = <<>>,
         \A e \in Sockets : sending'[e] # <<>> => ready'[e] = "open",
         Typed
  PROVE  Greeted'
<1>1. \A m : Known(m, last) => Known(m, last')
  <2>1. 0 .. last \subseteq 0 .. last'
    BY BoundsNat DEF Wired
  <2> QED BY <2>1 DEF Known
<1>2. \A e \in Sockets : \A i \in DOMAIN sending'[e] : Known(sending'[e][i], last')
  <2> SUFFICES ASSUME NEW e \in Sockets, NEW i \in DOMAIN sending'[e] PROVE Known(sending'[e][i], last')
    OBVIOUS
  <2>1. sending'[e] = sending[e]
    OBVIOUS
  <2> QED BY <1>1, <2>1 DEF Greeted
<1>3. \A p \in pump' : p.from = Peer \/ (serving[p.from] = "replaying" /\ sending'[p.from] = <<>>)
  <2> SUFFICES ASSUME NEW p \in pump, p.from # Peer PROVE serving[p.from] = "replaying" /\ sending'[p.from] = <<>>
    OBVIOUS
  <2>1. p.from \in Sockets
    BY PumpIn DEF Pubs
  <2>2. serving[p.from] = "replaying" /\ sending[p.from] = <<>>
    BY DEF Greeted
  <2> QED BY <2>1, <2>2
<1>4. \A e \in Sockets : serving[e] # "replaying" => \A i \in DOMAIN sending'[e] : sending'[e][i].objs = {}
  <2> SUFFICES ASSUME NEW e \in Sockets, serving[e] # "replaying", NEW i \in DOMAIN sending'[e]
               PROVE  sending'[e][i].objs = {}
    OBVIOUS
  <2>1. sending'[e] = sending[e]
    OBVIOUS
  <2> QED BY <2>1 DEF Greeted
<1> QED BY <1>2, <1>3, <1>4 DEF Greeted

LEMMA GreetedDeaf ==
  ASSUME Greeted, Wired, Typed, NEW e \in Sockets, Deaf(e), UNCHANGED <<last, serving, pump>>,
         \A f \in Sockets : f # e => ready'[f] = ready[f]
  PROVE  Greeted'
<1>1. sending'[e] = <<>> /\ \A f \in Sockets : f # e => sending'[f] = sending[f]
  BY DEF Deaf, Typed
<1>2. last' \in Nat /\ last <= last'
  BY BoundsNat DEF Wired
<1>3. /\ \A f \in Sockets : sending'[f] = sending[f] \/ sending'[f] = <<>>
      /\ \A f \in Sockets : sending'[f] # <<>> => ready'[f] = "open"
  BY <1>1 DEF Greeted
<1> QED BY <1>2, <1>3, GreetedLess

\* Steps in which ServeWS and the readPumps have no part.
LEMMA GreetedStays ==
  ASSUME Greeted, Wired, Typed, UNCHANGED <<serving, sending, last, ready>>, pump' \subseteq pump
  PROVE  Greeted'
<1>1. last' \in Nat /\ last <= last'
  BY BoundsNat DEF Wired
<1>2. /\ \A f \in Sockets : sending'[f] = sending[f] \/ sending'[f] = <<>>
      /\ \A f \in Sockets : sending'[f] # <<>> => ready'[f] = "open"
  BY DEF Greeted
<1> QED BY <1>1, <1>2, GreetedLess

LEMMA GreetedConnect ==
  ASSUME Greeted, Wired, Typed, Mount \/ TimerFires
  PROVE  Greeted'
<1>1. /\ Connect /\ UNCHANGED <<ended, status, gatewayVars>> /\ mounted' = TRUE /\ timer' = FALSE
      /\ (~ mounted \/ timer)
  BY DEF Mount, TimerFires, Wired, shownVars
<1>2. /\ last' = last + 1 /\ last \in Nat /\ \A e \in Sockets : ready[e] # "open"
  BY <1>1, WiredConnect DEF gatewayVars
<1>3. last' \in Nat /\ last <= last'
  BY <1>2
<1>4. \A e \in Sockets : sending[e] = <<>>
  BY <1>2 DEF Greeted
<1> QED BY <1>1, <1>3, <1>4, GreetedLess DEF gatewayVars

\* Nobody is published for before the readPump starts.
LEMMA GreetedServes ==
  ASSUME Greeted, Wired, Typed, NEW e \in Sockets, UNCHANGED <<last, pump>>,
         \A p \in pump : p.from # e,
         \A f \in Sockets : f # e => sending'[f] = sending[f] /\ serving'[f] = serving[f] /\ ready'[f] = ready[f],
         sending'[e] # <<>> => ready'[e] = "open" /\ serving'[e] \in {"added", "replaying"},
         serving'[e] # "replaying" => \A i \in DOMAIN sending'[e] : sending'[e][i].objs = {},
         \A i \in DOMAIN sending'[e] : Known(sending'[e][i], last)
  PROVE  Greeted'
<1>1. \A m : Known(m, last) => Known(m, last')
  BY DEF Known
<1>2. \A p \in pump : p.from = Peer \/ (serving'[p.from] = "replaying" /\ sending'[p.from] = <<>>)
  <2> SUFFICES ASSUME NEW p \in pump, p.from # Peer
               PROVE  serving'[p.from] = "replaying" /\ sending'[p.from] = <<>>
    OBVIOUS
  <2>1. p.from \in Sockets /\ p.from # e
    BY PumpIn DEF Pubs
  <2> QED BY <2>1 DEF Greeted
<1> QED BY <1>1, <1>2 DEF Greeted

LEMMA GreetedOpen ==
  ASSUME Greeted, Wired, Typed, NEW e \in Sockets, Open(e)
  PROVE  Greeted'
<1>1. /\ serving[e] = "no" /\ ready[e] # "open"
      /\ \A f \in Sockets : f # e => ready'[f] = ready[f] /\ serving'[f] = serving[f]
      /\ UNCHANGED <<last, pump, sending>>
  BY WiredOpen DEF Open
<1>2. sending[e] = <<>>
  BY <1>1 DEF Greeted
<1>3. \A p \in pump : p.from # e
  <2>1. \A p \in pump : p.from = Peer => p.from # e
    BY PeerIsNoSocket DEF Sockets
  <2> QED BY <1>1, <2>1 DEF Greeted
<1> QED BY <1>1, <1>2, <1>3, GreetedServes

LEMMA GreetedAdd ==
  ASSUME Greeted, Wired, Typed, NEW e \in Sockets, Add(e) \/ Catchup(e)
  PROVE  Greeted'
<1>1. PICK v \in {"added", "replaying"}, s \in Seq(Downs) :
        /\ Sends(e, s) /\ serving' = [serving EXCEPT ![e] = v] /\ UNCHANGED <<last, pump, ready>>
        /\ serving[e] \in {"accepted", "added"}
        /\ v # "replaying" => \A i \in DOMAIN s : s[i].objs = {}
        /\ \A i \in DOMAIN s : Known(s[i], last)
  <2>1. CASE Add(e)
    <3>1. Known(Hello(e), last)
      <4>1. e \in 0 .. last
        <5>1. ready[e] # "none"
          BY <2>1 DEF Add, Wired
        <5> QED BY <5>1, BoundsNat DEF Wired, Sockets
      <4> QED BY <4>1 DEF Known, Hello
    <3>2. PICK s : s = <<Hello(e)>>
      OBVIOUS
    <3>3. s \in Seq(Downs) /\ DOMAIN s = {1} /\ s[1] = Hello(e)
      <4>1. Hello(e) \in Downs
        BY DEF Downs
      <4> QED BY <3>2, <4>1
    <3>4. Hello(e).objs = {}
      BY DEF Hello
    <3> QED BY <2>1, <3>1, <3>2, <3>3, <3>4 DEF Add, socketVars
  <2>2. CASE Catchup(e)
    <3>1. log \in Seq(Downs) /\ \A i \in DOMAIN log : Known(log[i], last)
      BY DurableSeq, DurableKnown DEF Typed
    <3> QED BY <2>2, <3>1 DEF Catchup, socketVars
  <2> QED BY <2>1, <2>2
<1>2. /\ serving'[e] = v /\ \A f \in Sockets : f # e => serving'[f] = serving[f]
      /\ sending'[e] = (IF ready[e] = "open" THEN s ELSE <<>>)
      /\ \A f \in Sockets : f # e => sending'[f] = sending[f]
  BY <1>1 DEF Sends, Typed, Wired
<1>3. \A p \in pump : p.from # e
  <2>1. \A p \in pump : p.from = Peer => p.from # e
    BY PeerIsNoSocket DEF Sockets
  <2> QED BY <1>1, <2>1 DEF Greeted
<1> QED BY <1>1, <1>2, <1>3, GreetedServes

LEMMA GreetedSendNext ==
  ASSUME Greeted, Wired, Typed, NEW e \in Sockets, SendNext(e)
  PROVE  Greeted'
<1>1. /\ sending[e] # <<>> /\ sending[e] \in Seq(Downs) /\ sending' = [sending EXCEPT ![e] = Tail(@)]
      /\ UNCHANGED <<last, ready, serving, pump>>
  BY DEF SendNext, socketVars, Typed
<1>2. sending'[e] = Tail(sending[e]) /\ \A f \in Sockets : f # e => sending'[f] = sending[f]
  BY <1>1 DEF Typed
<1>3. \A i \in DOMAIN Tail(sending[e]) : i + 1 \in DOMAIN sending[e] /\ Tail(sending[e])[i] = sending[e][i + 1]
  BY <1>1, Tailed
<1>4. \A p \in pump : p.from # e
  <2>1. \A p \in pump : p.from = Peer => p.from # e
    BY PeerIsNoSocket DEF Sockets
  <2> QED BY <1>1, <2>1 DEF Greeted
<1>5. \A i \in DOMAIN sending'[e] : Known(sending'[e][i], last)
  BY <1>2, <1>3 DEF Greeted
<1>6. serving'[e] # "replaying" => \A i \in DOMAIN sending'[e] : sending'[e][i].objs = {}
  BY <1>1, <1>2, <1>3 DEF Greeted
<1>7. sending'[e] # <<>> => ready'[e] = "open" /\ serving'[e] \in {"added", "replaying"}
  BY <1>1 DEF Greeted
<1> QED BY <1>1, <1>2, <1>4, <1>5, <1>6, <1>7, GreetedServes

LEMMA GreetedDrop ==
  ASSUME Greeted, Wired, Typed, NEW e \in Sockets, Drop(e)
  PROVE  Greeted'
<1>1. /\ sending[e] = <<>> /\ \A p \in pump : p.from # e
      /\ serving' = [serving EXCEPT ![e] = "no"] /\ UNCHANGED <<last, ready, sending, pump>>
  BY DEF Drop, Idle, socketVars
<1>2. \A f \in Sockets : f # e => serving'[f] = serving[f]
  BY <1>1 DEF Wired
<1> QED BY <1>1, <1>2, GreetedServes

\* A readPump that is at a frame has been started.
LEMMA GreetedFanOut ==
  ASSUME Greeted, NEW m, NEW from, NEW es, FanOut(m, from, es), UNCHANGED <<serving, sending, last, ready>>,
         from = Peer \/ Idle(from)
  PROVE  Greeted'
<1>1. \A p \in pump' : p \in pump \/ p.from = from
  BY DEF FanOut
<1>2. \A p \in pump' : p.from = Peer \/ (serving[p.from] = "replaying" /\ sending[p.from] = <<>>)
  BY <1>1 DEF Greeted, Idle
<1> QED BY <1>2 DEF Greeted, Known

LEMMA GreetedNext ==
  ASSUME Greeted, Wired, Typed, [Next]_sessionVars
  PROVE  Greeted'
<1>1. CASE Mount \/ TimerFires
  BY <1>1, GreetedConnect
<1>2. CASE Unmount
  <2>1. last \in Sockets
    BY <1>2, LastSocket DEF Unmount, Unmounted
  <2> QED BY <1>2, <2>1, WiredUnmount, GreetedDeaf DEF Unmount, Unmounted
<1>3. ASSUME NEW e \in Sockets, OnClose(e)
      PROVE  Greeted'
  BY <1>3, WiredOnClose, GreetedDeaf DEF OnClose, Lost
<1>4. CASE Edit \/ MoveCursor \/ (\E e \in Sockets : Receive(e)) \/ (\E id : Expire(id)) \/ UNCHANGED sessionVars
  <2>1. UNCHANGED <<serving, sending, last, ready, pump>>
    BY <1>4 DEF Edit, MoveCursor, Receive, Expire, sessionVars, socketVars, gatewayVars
  <2> QED BY <2>1, GreetedStays
<1>5. ASSUME NEW p \in pump, Record(p)
      PROVE  Greeted'
  <2>1. UNCHANGED <<serving, sending, last, ready>> /\ pump' \subseteq pump
    BY <1>5 DEF Record, socketVars
  <2> QED BY <2>1, GreetedStays
<1>6. ASSUME NEW e \in Sockets, Open(e) \/ Add(e) \/ Catchup(e) \/ SendNext(e) \/ Drop(e)
      PROVE  Greeted'
  BY <1>6, GreetedOpen, GreetedAdd, GreetedSendNext, GreetedDrop
<1>7. ASSUME NEW e \in Sockets, Publish(e)
      PROVE  Greeted'
  BY <1>7, GreetedFanOut DEF Publish, socketVars
<1>8. CASE PeerEdit \/ PeerCursor
  BY <1>8, GreetedFanOut DEF PeerEdit, PeerCursor, socketVars
<1> QED BY <1>1, <1>2, <1>3, <1>4, <1>5, <1>6, <1>7, <1>8 DEF Next

Flowing == Typed /\ Wired /\ Drained /\ Named /\ Greeted

LEMMA FlowingNext ==
  ASSUME Flowing, [Next]_sessionVars
  PROVE  Flowing'
<1>1. Greeted'
  BY GreetedNext DEF Flowing
<1>2. CASE UNCHANGED sessionVars
  <2>1. Typed' /\ Wired'
    BY <1>2, WiredStays DEF Flowing, sessionVars, Typed, shownVars, gatewayVars
  <2>2. Drained'
    BY <1>2 DEF Flowing, sessionVars, Drained, socketVars, gatewayVars
  <2>3. Named'
    BY <1>2 DEF Flowing, sessionVars, Named, Known, socketVars, shownVars
  <2> QED BY <1>1, <2>1, <2>2, <2>3 DEF Flowing
<1>3. CASE Next
  <2>1. Typed' /\ Wired' /\ Drained' /\ Named'
    BY <1>3, FlowConnect, FlowUnmount, FlowEdit, FlowMoveCursor, FlowPeer, FlowOpen, FlowOnClose, FlowServes,
       FlowSendNext, FlowRecord, FlowReceive, FlowPublish, FlowDrop, FlowExpire DEF Next, Flowing
  <2> QED BY <1>1, <2>1 DEF Flowing
<1> QED BY <1>2, <1>3

\* In every state the sockets, the frames and the ids are as Flowing says.
THEOREM AlwaysFlowing == Spec => []Flowing
<1>1. Init => Flowing
  BY TypedInit, WiredInit, GreetedInit DEF Flowing
<1>2. Flowing /\ [Next]_sessionVars => Flowing'
  BY FlowingNext
<1> QED BY <1>1, <1>2, PTL DEF Spec

(***************************************************************************)
(* The state has the shape of the code's: the ids in use are those the     *)
(* gateway gave out, and only an open socket has something to receive.     *)
(***************************************************************************)
THEOREM TypeCorrect == Spec => []TypeOK
<1>1. Flowing => TypeOK
  BY DEF Flowing, Typed, Wired, Drained, Named, Greeted, Served, TypeOK, States, Stages
<1> QED BY <1>1, AlwaysFlowing, PTL

(***************************************************************************)
(* Whatever closes, retries and is cleaned up in whatever order: at most   *)
(* one socket is wanted at a time, a timer is pending only for an effect   *)
(* whose last socket is closed, and nothing connects again once the effect *)
(* is cleaned up (useDraw.ts:54-64, 113-118).                              *)
(***************************************************************************)
THEOREM AlwaysOneSocket == Spec => []OneSocket
<1>1. Flowing => OneSocket
  <2> SUFFICES ASSUME Wired PROVE OneSocket
    BY DEF Flowing
  <2> DEFINE wanted == {e \in Sockets : ready[e] \in {"connecting", "open"}}
  <2>1. wanted \subseteq {last}
    BY DEF Wired
  <2>2. Cardinality(wanted) <= 1
    <3>1. IsFiniteSet({last}) /\ Cardinality({last}) = 1
      BY FS_Singleton
    <3>2. Cardinality(wanted) <= Cardinality({last})
      BY <2>1, <3>1, FS_Subset
    <3> QED BY <3>1, <3>2
  <2> QED BY <2>2 DEF Wired, OneSocket
<1> QED BY <1>1, AlwaysFlowing, PTL

-----------------------------------------------------------------------------
(* What decides an object. *)

(***************************************************************************)
(* The frames d on their way and the replay r to follow, over x, leave of  *)
(* o what the log l says; and if the log says nothing of it, what is on    *)
(* its way will have wiped it.                                             *)
(***************************************************************************)
Decides(d, r, x, l, o) ==
  /\ \E v : Shows(l, 0, o, v) /\ (IF Touches(r, o) THEN Shows(r, 0, o, v) ELSE Shows(d, x, o, v))
  /\ Touches(l, o) \/ (Covered(d, o) /\ ~ Touches(r, o))

\* An op that is recorded decides what the log says of its objects.
LEMMA RecordedNew ==
  ASSUME NEW l \in Seq(Durable), NEW m \in Durable, NEW o \in m.objs
  PROVE  /\ Shows(Recorded(l, m), 0, o, Left(m))
         /\ ~ IsClear(m) => Touches(Recorded(l, m), o)
         /\ IsClear(m) => Left(m) = 0 /\ Recorded(l, m) = <<>>
BY RecordedAbout DEF IsClear, Left, Recorded

\* An op that is not about o is no clear.
LEMMA RecordedOther ==
  ASSUME NEW l \in Seq(Durable), NEW m \in Durable, NEW o \in Objects, o \notin m.objs
  PROVE  /\ Touches(Recorded(l, m), o) <=> Touches(l, o)
         /\ \A y, v : Shows(l, y, o, v) => Shows(Recorded(l, m), y, o, v)
<1>1. m.type # "clear"
  BY DEF Durable
<1> QED BY <1>1, RecordedBesides

\* After an op about o only that op counts.
LEMMA ShowsLast ==
  ASSUME NEW l \in Seq(Durable), NEW m \in Durable, NEW o \in m.objs, NEW y, NEW v, Shows(Append(l, m), y, o, v)
  PROVE  v = Left(m)
<1>1. PICK t, k : t = Append(l, m) /\ k = Len(l) + 1
  OBVIOUS
<1>2. /\ DOMAIN t = 1 .. k /\ k \in 1 .. k /\ t[k] = m
      /\ \A i \in 1 .. k : i \in 1 .. Len(l) \/ i = k
      /\ \A i \in 1 .. Len(l) : i < k
  BY <1>1, Appended
<1>3. Touches(t, o)
  BY <1>2 DEF Touches
<1>4. PICK i \in DOMAIN t : v = Left(t[i]) /\ \A j \in DOMAIN t : i < j => o \notin t[j].objs
  BY <1>1, <1>3 DEF Shows
<1>5. i = k
  BY <1>2, <1>4
<1> QED BY <1>2, <1>4, <1>5

\* Two logs to which the same op about o is added.
LEMMA RecordedAlike ==
  ASSUME NEW l \in Seq(Durable), NEW k \in Seq(Durable), NEW m \in Durable, NEW o \in m.objs
  PROVE  /\ Touches(Recorded(k, m), o) <=> Touches(Recorded(l, m), o)
         /\ \A y, v : Shows(Recorded(l, m), y, o, v) => Shows(Recorded(k, m), y, o, v)
<1>1. CASE IsClear(m)
  <2>1. Recorded(k, m) = Recorded(l, m)
    BY <1>1, RecordedNew
  <2> QED BY <2>1
<1>2. CASE ~ IsClear(m)
  <2>1. Recorded(k, m) = Append(k, m) /\ Recorded(l, m) = Append(l, m)
    BY <1>2 DEF Recorded, IsClear
  <2>2. \A y : Shows(Append(k, m), y, o, Left(m)) /\ Touches(Append(k, m), o) /\ Touches(Append(l, m), o)
    BY ShowsNew
  <2>3. \A y, v : Shows(Append(l, m), y, o, v) => v = Left(m)
    BY ShowsLast
  <2> QED BY <2>1, <2>2, <2>3
<1> QED BY <1>1, <1>2

\* A frame that is not about o goes to the browser.
LEMMA DecidesDown ==
  ASSUME NEW d \in Seq(Downs), NEW r, NEW x, NEW l, NEW m \in Downs, NEW o, o \notin m.objs, Decides(d, r, x, l, o)
  PROVE  Decides(Append(d, m), r, x, l, o)
<1>1. \A v : Shows(d, x, o, v) => Shows(Append(d, m), x, o, v)
  BY ShowsAppend
<1>2. Covered(d, o) => Covered(Append(d, m), o)
  BY CoveredAppend
<1> QED BY <1>1, <1>2 DEF Decides

\* The browser takes the next frame.
LEMMA DecidesTail ==
  ASSUME NEW d \in Seq(Downs), d # <<>>, NEW r, NEW x, NEW l, NEW o, Decides(d, r, x, l, o)
  PROVE  Decides(Tail(d), r, IF o \in Head(d).objs THEN Left(Head(d)) ELSE x, l, o)
<1>1. PICK y : y = IF o \in Head(d).objs THEN Left(Head(d)) ELSE x
  OBVIOUS
<1>2. \A v : Shows(d, x, o, v) => Shows(Tail(d), y, o, v)
  BY <1>1, ShowsTail
<1>3. Covered(d, o) => Covered(Tail(d), o)
  BY CoveredTail
<1>4. Decides(Tail(d), r, y, l, o)
  BY <1>2, <1>3 DEF Decides
<1> QED BY <1>1, <1>4

\* The next op of the replay is sent.
LEMMA DecidesSend ==
  ASSUME NEW d \in Seq(Downs), NEW r \in Seq(Downs), r # <<>>, NEW x, NEW l, NEW o, Decides(d, r, x, l, o)
  PROVE  Decides(Append(d, Head(r)), Tail(r), x, l, o)
<1>1. PICK h, t, a : h = Head(r) /\ t = Tail(r) /\ a = Append(d, h)
  OBVIOUS
<1>2. h \in Downs
  BY <1>1, Tailed
<1>3. Touches(r, o) <=> Touches(t, o) \/ o \in h.objs
  BY <1>1, TouchesTail
<1>4. PICK v : Shows(l, 0, o, v) /\ (IF Touches(r, o) THEN Shows(r, 0, o, v) ELSE Shows(d, x, o, v))
  BY DEF Decides
<1>5. IF Touches(t, o) THEN Shows(t, 0, o, v) ELSE Shows(a, x, o, v)
  <2>1. CASE Touches(t, o)
    <3>1. Shows(r, 0, o, v)
      BY <1>3, <1>4, <2>1
    <3>2. \E y : Shows(t, y, o, v)
      BY <1>1, <3>1, ShowsTail
    <3>3. Shows(t, 0, o, v)
      BY <2>1, <3>2, ShowsOver
    <3> QED BY <2>1, <3>3
  <2>2. CASE ~ Touches(t, o) /\ o \in h.objs
    <3>1. Shows(r, 0, o, v)
      BY <1>3, <1>4, <2>2
    <3>2. Shows(Tail(r), IF o \in Head(r).objs THEN Left(Head(r)) ELSE 0, o, v)
      BY <3>1, ShowsTail
    <3>3. Shows(t, Left(h), o, v)
      BY <1>1, <2>2, <3>2
    <3>4. v = Left(h)
      BY <2>2, <3>3 DEF Shows, Touches
    <3>5. Shows(Append(d, h), x, o, Left(h))
      BY <1>2, <2>2, ShowsNew
    <3> QED BY <1>1, <2>2, <3>4, <3>5
  <2>3. CASE ~ Touches(t, o) /\ o \notin h.objs
    <3>1. Shows(d, x, o, v)
      BY <1>3, <1>4, <2>3
    <3>2. Shows(Append(d, h), x, o, IF o \in h.objs THEN Left(h) ELSE v)
      BY <1>2, <3>1, ShowsAppend
    <3> QED BY <1>1, <2>3, <3>2
  <2> QED BY <2>1, <2>2, <2>3
<1>6. Touches(l, o) \/ (Covered(a, o) /\ ~ Touches(t, o))
  <2> SUFFICES ASSUME ~ Touches(l, o) PROVE Covered(a, o) /\ ~ Touches(t, o)
    OBVIOUS
  <2>1. Covered(d, o) /\ ~ Touches(t, o) /\ o \notin h.objs
    BY <1>3 DEF Decides
  <2>2. Covered(Append(d, h), o)
    BY <1>2, <2>1, CoveredAppend
  <2> QED BY <1>1, <2>1, <2>2
<1>7. Decides(a, t, x, l, o)
  BY <1>4, <1>5, <1>6 DEF Decides
<1> QED BY <1>1, <1>7

\* The log changes and says the same of o; it may be the replay to come.
LEMMA DecidesAlike ==
  ASSUME NEW d, NEW r, NEW q, NEW x, NEW l, NEW k, NEW o, Decides(d, r, x, l, o),
         Touches(k, o) <=> Touches(l, o), \A y, v : Shows(l, y, o, v) => Shows(k, y, o, v),
         q = r \/ (r = l /\ q = k)
  PROVE  Decides(d, q, x, k, o)
BY DEF Decides

\* An op about o goes to the browser, and will go to the log.
LEMMA DecidesNew ==
  ASSUME NEW d \in Seq(Downs), NEW r, NEW x, NEW l \in Seq(Durable), NEW m \in Durable, NEW o \in m.objs,
         r = Recorded(l, m) \/ ~ Touches(r, o)
  PROVE  Decides(Append(d, m), r, x, Recorded(l, m), o)
<1>1. m \in Downs
  BY UpsAreDowns
<1>2. Shows(Append(d, m), x, o, Left(m))
  BY <1>1, ShowsNew
<1>3. IsClear(m) => Covered(Append(d, m), o)
  BY <1>1, CoveredAppend
<1>4. IsClear(m) => ~ Touches(r, o)
  BY RecordedNew DEF Touches
<1> QED BY <1>2, <1>3, <1>4, RecordedNew DEF Decides

\* An op about o that is no clear will be in the log when it is replayed.
LEMMA DecidesLate ==
  ASSUME NEW d, NEW x, NEW l \in Seq(Durable), NEW m \in Durable, NEW o \in m.objs, ~ IsClear(m)
  PROVE  Decides(d, Recorded(l, m), x, Recorded(l, m), o)
BY RecordedNew DEF Decides

\* An op of the browser goes to the log: nothing on its way down undoes it.
LEMMA DecidesOwn ==
  ASSUME NEW d, NEW r, NEW l \in Seq(Durable), NEW m \in Durable, NEW o \in m.objs, ~ Touches(d, o), ~ Touches(r, o)
  PROVE  Decides(d, r, Left(m), Recorded(l, m), o)
<1>1. Shows(d, Left(m), o, Left(m))
  BY DEF Shows
<1>2. Covered(d, o)
  BY DEF Covered, Touches
<1> QED BY <1>1, <1>2, RecordedNew DEF Decides

\* What is on its way is lost: the log is replayed over what was kept, unless a clear is lost.
LEMMA DecidesLost ==
  ASSUME NEW d \in Seq(Downs), NEW r, NEW x, NEW l, NEW o \in Objects, Decides(d, r, x, l, o), o \notin Wiping(d)
  PROVE  Decides(<<>>, l, x, l, o)
<1>1. PICK v : Shows(l, 0, o, v) /\ (IF Touches(r, o) THEN Shows(r, 0, o, v) ELSE Shows(d, x, o, v))
  BY DEF Decides
<1>2. CASE Touches(l, o)
  BY <1>1, <1>2 DEF Decides
<1>3. CASE ~ Touches(l, o)
  <2>1. Covered(d, o) /\ ~ Touches(r, o)
    BY <1>3 DEF Decides
  <2>2. \A i \in DOMAIN d : d[i] \in Downs
    OBVIOUS
  <2>3. \A i \in DOMAIN d : IsClear(d[i]) => o \in d[i].objs
    BY <2>2, Frame
  <2>4. ~ Touches(d, o)
    BY <2>1, <2>3, CoveredWiped
  <2>5. v = x
    BY <1>1, <2>1, <2>4 DEF Shows, Touches
  <2>6. Shows(<<>>, x, o, v) /\ Covered(<<>>, o)
    BY <2>5 DEF Shows, Touches, Covered
  <2> QED BY <1>1, <1>3, <2>6 DEF Decides
<1> QED BY <1>2, <1>3

-----------------------------------------------------------------------------
(* Objects neither side lost an op about. *)

Spared == Objects \ (away.unsent \union away.missed \union away.raced)
Settled(o) == \A e \in Sockets : ~ Touches(up[e], o)
Pending(o) == \E p \in pump : o \in p.op.objs
Coming == IF Attached THEN down[last] ELSE <<>>
Arriving(o, l) == Decides(Coming, ToReplay(l), scene[o], l, o)

\* At most one frame about o is on its way to the gateway or to the log,
Alone(o) ==
  /\ \A e, f \in Sockets : \A i \in DOMAIN up[e] : \A j \in DOMAIN up[f] :
       o \in up[e][i].objs /\ o \in up[f][j].objs => e = f /\ i = j
  /\ \A p, q \in pump : o \in p.op.objs /\ o \in q.op.objs => p = q
  /\ Pending(o) => Settled(o)

\* and one on the last socket is what the scene shows, with nothing to follow.
Own(o) ==
  last # 0 => \A i \in DOMAIN up[last] :
    o \in up[last][i].objs =>
      /\ scene[o] = Left(up[last][i])
      /\ Attached => ~ Touches(down[last], o) /\ ~ Touches(ToReplay(log), o)

\* Otherwise what is on its way to the browser makes its scene what the log is or is about to be.
Kept(o) ==
  /\ Alone(o)
  /\ Own(o)
  /\ Settled(o) /\ ~ Pending(o) => Arriving(o, log)
  /\ \A p \in pump : o \in p.op.objs => Arriving(o, Recorded(log, p.op))

Restoring == \A o \in Spared : Kept(o)

LEMMA AttachedSocket ==
  ASSUME Flowing, Attached
  PROVE  /\ last \in Sockets /\ ready[last] = "open"
         /\ down[last] \in Seq(Downs) /\ up[last] \in Seq(Ups) /\ sending[last] \in Seq(Downs)
<1>1. last \in Sockets
  BY BoundsNat DEF Flowing, Wired, Attached, Sockets
<1> QED BY <1>1 DEF Flowing, Wired, Typed, Attached

LEMMA ComingIn ==
  ASSUME Flowing
  PROVE  Coming \in Seq(Downs)
<1>1. <<>> \in Seq(Downs)
  OBVIOUS
<1> QED BY <1>1, AttachedSocket DEF Coming

LEMMA LogIn ==
  ASSUME Flowing
  PROVE  log \in Seq(Durable)
BY DEF Flowing, Typed

LEMMA RestoringInit == Init => Restoring
<1> SUFFICES ASSUME Init, NEW o \in Objects PROVE Kept(o)
  BY DEF Restoring, Spared
<1>1. /\ ~ Attached /\ ~ CaughtUp /\ scene[o] = 0 /\ log = <<>> /\ pump = {}
      /\ \A e \in Sockets : up[e] = <<>>
  BY DEF Init, Attached, CaughtUp, Blank
<1>2. Decides(<<>>, <<>>, 0, <<>>, o)
  BY DEF Decides, Shows, Touches, Covered
<1>3. Arriving(o, log)
  BY <1>1, <1>2 DEF Arriving, Coming, ToReplay
<1>4. last = 0
  BY DEF Init
<1> QED BY <1>1, <1>3, <1>4 DEF Kept, Alone, Own, Pending

\* A step that leaves the log and the pump as they are, as far as o is concerned.
LEMMA KeptCarried ==
  ASSUME NEW o, Kept(o), Alone(o)', Own(o)', Settled(o)' => Settled(o),
         \A p : o \in p.op.objs => (p \in pump' <=> p \in pump), log' = log,
         \A l : Arriving(o, l) => Arriving(o, l)'
  PROVE  Kept(o)'
<1>1. Pending(o) <=> Pending(o)'
  BY DEF Pending
<1>2. \A l : Arriving(o, l)' <=> Decides(Coming', IF CaughtUp' THEN sending'[last'] ELSE l, scene'[o], l, o)
  BY DEF Arriving, ToReplay
<1>3. ASSUME Settled(o)', ~ Pending(o)'
      PROVE  Arriving(o, log)'
  <2>1. Arriving(o, log)
    BY <1>1, <1>3 DEF Kept
  <2>2. PICK l : l = log
    OBVIOUS
  <2>3. Arriving(o, l)'
    BY <2>1, <2>2
  <2> QED BY <1>2, <2>2, <2>3 DEF Arriving, ToReplay
<1>4. ASSUME NEW p \in pump', o \in p.op.objs
      PROVE  Arriving(o, Recorded(log, p.op))'
  <2>1. Arriving(o, Recorded(log, p.op))
    BY <1>4 DEF Kept
  <2>2. PICK l : l = Recorded(log, p.op)
    OBVIOUS
  <2>3. Arriving(o, l)'
    BY <2>1, <2>2
  <2>4. l = Recorded(log', p.op)
    BY <2>2
  <2> QED BY <1>2, <2>3, <2>4 DEF Arriving, ToReplay
<1> QED BY <1>3, <1>4 DEF Kept

LEMMA AloneStays ==
  ASSUME NEW o, Alone(o), UNCHANGED up, \A p : o \in p.op.objs /\ p \in pump' => p \in pump
  PROVE  Alone(o)'
<1>1. Pending(o)' => Pending(o)
  BY DEF Pending
<1>2. Settled(o)' <=> Settled(o)
  BY DEF Settled
<1> QED BY <1>1, <1>2 DEF Alone

LEMMA OwnStays ==
  ASSUME NEW o, Own(o), UNCHANGED <<last, up>>, scene'[o] = scene[o], Attached' => Attached,
         Attached' /\ ~ Touches(down[last], o) /\ ~ Touches(ToReplay(log), o) =>
           ~ Touches(down'[last], o) /\ ~ Touches(ToReplay(log)', o)
  PROVE  Own(o)'
BY DEF Own

\* The browser and what is on its way to it stay as they are.
LEMMA KeptStill ==
  ASSUME NEW o, Kept(o), UNCHANGED <<last, up, log>>, \A p : o \in p.op.objs => (p \in pump' <=> p \in pump),
         scene'[o] = scene[o], Coming' = Coming, CaughtUp' <=> CaughtUp,
         CaughtUp => sending'[last] = sending[last], Attached' <=> Attached
  PROVE  Kept(o)'
<1>1. Alone(o)'
  BY AloneStays DEF Kept
<1>2. Own(o)'
  <2>1. Attached' => down'[last] = down[last] /\ ToReplay(log)' = ToReplay(log)
    BY DEF Coming, ToReplay
  <2> QED BY <2>1, OwnStays DEF Kept
<1>3. \A l : Arriving(o, l) => Arriving(o, l)'
  BY DEF Arriving, ToReplay
<1>4. Settled(o)' => Settled(o)
  BY DEF Settled
<1> QED BY <1>1, <1>2, <1>3, <1>4, KeptCarried

LEMMA KeptUnchanged ==
  ASSUME NEW o, Kept(o), UNCHANGED <<last, ready, serving, sending, scene, up, down, pump, log>>
  PROVE  Kept(o)'
<1>1. (Attached' <=> Attached) /\ (CaughtUp' <=> CaughtUp)
  BY DEF Attached, CaughtUp
<1>2. Coming' = Coming
  BY <1>1 DEF Coming
<1> QED BY <1>1, <1>2, KeptStill

LEMMA KeptConnect ==
  ASSUME Flowing, NEW o, Kept(o), Mount \/ TimerFires
  PROVE  Kept(o)'
<1>1. /\ Connect /\ UNCHANGED <<ended, status, serving, sending, pump, log, scene, up, down>>
      /\ mounted' = TRUE /\ timer' = FALSE /\ (~ mounted \/ timer)
  BY DEF Flowing, Mount, TimerFires, Wired, shownVars, gatewayVars
<1>2. /\ last + 1 \in Sockets /\ last' = last + 1 /\ ready'[last + 1] = "connecting"
      /\ \A e \in Sockets : ready[e] # "open"
  BY <1>1, WiredConnect DEF Flowing
<1>3. ~ Attached /\ ~ Attached'
  BY <1>2, AttachedSocket DEF Attached
<1>4. ~ CaughtUp /\ ~ CaughtUp' /\ Coming' = Coming
  BY <1>3 DEF CaughtUp, Coming
<1>5. Own(o)'
  <2>1. serving[last + 1] = "no"
    BY <1>1, WiredConnect DEF Flowing
  <2>2. up'[last'] = <<>>
    BY <1>1, <1>2, <2>1 DEF Flowing, Drained
  <2> QED BY <2>2 DEF Own
<1>6. Alone(o)'
  BY <1>1, AloneStays DEF Kept
<1>7. \A l : Arriving(o, l) => Arriving(o, l)'
  BY <1>1, <1>4 DEF Arriving, ToReplay
<1>8. Settled(o)' => Settled(o)
  BY <1>1 DEF Settled
<1> QED BY <1>1, <1>5, <1>6, <1>7, <1>8, KeptCarried

\* The socket ends, and what is on its way down it is lost.
LEMMA KeptDeaf ==
  ASSUME Flowing, NEW o \in Objects, Kept(o), NEW e \in Sockets, Deaf(e), o \notin away'.missed,
         ready'[e] # "open", \A f \in Sockets : f # e => ready'[f] = ready[f],
         UNCHANGED <<last, scene, up, log, pump, serving>>
  PROVE  Kept(o)'
<1>1. /\ down'[e] = <<>> /\ \A f \in Sockets : f # e => down'[f] = down[f]
      /\ \A f \in Sockets : f # e => sending'[f] = sending[f]
  BY DEF Deaf, Flowing, Typed
<1>2. CASE Attached /\ e = last
  <2>1. ~ Attached' /\ ~ CaughtUp' /\ Coming' = <<>>
    BY <1>2 DEF Attached, CaughtUp, Coming
  <2>2. o \notin Wiping(down[last]) /\ Coming = down[last]
    BY <1>2 DEF Deaf, Flowing, Typed, Coming
  <2>3. Alone(o)'
    BY AloneStays DEF Kept
  <2>4. Own(o)'
    BY <2>1, OwnStays DEF Kept
  <2>5. \A l : Arriving(o, l) => Arriving(o, l)'
    <3> SUFFICES ASSUME NEW l, Arriving(o, l) PROVE Arriving(o, l)'
      OBVIOUS
    <3>1. Decides(<<>>, l, scene[o], l, o)
      BY <2>2, ComingIn, DecidesLost DEF Arriving
    <3> QED BY <2>1, <3>1 DEF Arriving, ToReplay
  <2>6. Settled(o)' => Settled(o)
    BY DEF Settled
  <2> QED BY <2>3, <2>4, <2>5, <2>6, KeptCarried
<1>3. CASE ~ (Attached /\ e = last)
  <2>1. Attached' <=> Attached
    <3>1. last \in Sockets \/ last = 0
      BY BoundsNat DEF Flowing, Wired, Sockets
    <3> QED BY <1>3, <3>1 DEF Attached
  <2>2. Attached => last \in Sockets /\ down'[last] = down[last] /\ sending'[last] = sending[last]
    BY <1>1, <1>3, AttachedSocket
  <2>3. (CaughtUp' <=> CaughtUp) /\ (CaughtUp => Attached) /\ Coming' = Coming
    BY <2>1, <2>2 DEF CaughtUp, Coming
  <2> QED BY <2>1, <2>2, <2>3, KeptStill
<1> QED BY <1>2, <1>3

LEMMA KeptUnmount ==
  ASSUME Flowing, NEW o \in Objects, Kept(o), Unmount, o \in Spared'
  PROVE  Kept(o)'
<1>1. /\ Deaf(last) /\ UNCHANGED <<last, scene, up, log, pump, serving>> /\ mounted
  BY DEF Unmount, Unmounted
<1>2. last \in Sockets
  BY <1>1, LastSocket DEF Flowing
<1>3. ready'[last] # "open" /\ \A e \in Sockets : e # last => ready'[e] = ready[e]
  BY WiredUnmount DEF Flowing
<1> QED BY <1>1, <1>2, <1>3, KeptDeaf DEF Spared

LEMMA KeptOnClose ==
  ASSUME Flowing, NEW o \in Objects, Kept(o), NEW e \in Sockets, OnClose(e), o \in Spared'
  PROVE  Kept(o)'
<1>1. Deaf(e) /\ UNCHANGED <<last, scene, up, log, pump, serving>>
  BY DEF OnClose, Lost
<1>2. ready'[e] = "closed" /\ \A f \in Sockets : f # e => ready'[f] = ready[f]
  BY WiredOnClose DEF Flowing
<1> QED BY <1>1, <1>2, KeptDeaf DEF Spared

\* The socket opens: the gateway has nothing of it, and nothing is on its way down.
LEMMA KeptOpen ==
  ASSUME Flowing, NEW o \in Objects, Kept(o), NEW e \in Sockets, Open(e)
  PROVE  Kept(o)'
<1>1. e = last /\ serving[e] = "no" /\ ready[e] # "open" /\ ready'[e] = "open" /\ serving'[e] = "accepted"
  BY WiredOpen DEF Flowing
<1>2. UNCHANGED <<last, scene, up, down, pump, log>>
  BY DEF Open
<1>3. up[e] = <<>> /\ down[e] = <<>>
  BY <1>1 DEF Flowing, Drained
<1>4. ~ Attached /\ ~ CaughtUp /\ ~ CaughtUp' /\ Coming = <<>> /\ Coming' = <<>>
  BY <1>1, <1>2, <1>3 DEF Attached, CaughtUp, Coming
<1>5. Own(o)'
  BY <1>1, <1>2, <1>3 DEF Own
<1>6. Alone(o)'
  BY <1>2, AloneStays DEF Kept
<1>7. \A l : Arriving(o, l) => Arriving(o, l)'
  BY <1>2, <1>4 DEF Arriving, ToReplay
<1>8. Settled(o)' => Settled(o)
  BY <1>2 DEF Settled
<1> QED BY <1>2, <1>5, <1>6, <1>7, <1>8, KeptCarried

LEMMA KeptAdd ==
  ASSUME Flowing, NEW o \in Objects, Kept(o), NEW e \in Sockets, Add(e)
  PROVE  Kept(o)'
<1>1. /\ serving[e] = "accepted" /\ serving' = [serving EXCEPT ![e] = "added"]
      /\ UNCHANGED <<last, ready, scene, up, down, pump, log>>
  BY DEF Add, socketVars
<1>2. serving'[e] = "added" /\ \A f \in Sockets : f # e => serving'[f] = serving[f] /\ sending'[f] = sending[f]
  BY <1>1 DEF Flowing, Wired, Typed, Add, Sends
<1>3. Attached' <=> Attached
  BY <1>1 DEF Attached
<1>4. Coming' = Coming
  BY <1>1, <1>3 DEF Coming
<1>5. (CaughtUp' <=> CaughtUp) /\ (CaughtUp => sending'[last] = sending[last])
  BY <1>1, <1>2, <1>3, AttachedSocket DEF CaughtUp
<1> QED BY <1>1, <1>3, <1>4, <1>5, KeptStill

\* The log is read for the open socket: what was to be replayed is what will be.
LEMMA KeptCatchup ==
  ASSUME Flowing, NEW o \in Objects, Kept(o), NEW e \in Sockets, Catchup(e), o \in Spared'
  PROVE  Kept(o)'
<1>1. /\ serving[e] = "added" /\ serving' = [serving EXCEPT ![e] = "replaying"]
      /\ UNCHANGED <<last, ready, scene, up, down, pump, log>>
  BY DEF Catchup, socketVars
<1>2. /\ serving'[e] = "replaying" /\ sending'[e] = IF ready[e] = "open" THEN log ELSE <<>>
      /\ \A f \in Sockets : f # e => serving'[f] = serving[f] /\ sending'[f] = sending[f]
  BY <1>1 DEF Flowing, Wired, Typed, Catchup, Sends
<1>3. Attached' <=> Attached
  BY <1>1 DEF Attached
<1>4. Coming' = Coming
  BY <1>1, <1>3 DEF Coming
<1>5. CASE Attached /\ e = last
  <2>1. ~ CaughtUp /\ CaughtUp' /\ sending'[last'] = log
    BY <1>1, <1>2, <1>3, <1>5 DEF CaughtUp, Attached
  <2>2. ~ Pending(o)
    <3>1. o \notin Unrecorded
      BY <1>5 DEF Catchup, Spared, Flowing, Typed, Attached
    <3> QED BY <3>1 DEF Unrecorded, Pending
  <2>3. ToReplay(log) = log /\ ToReplay(log)' = log
    BY <2>1 DEF ToReplay
  <2>4. Alone(o)'
    BY <1>1, AloneStays DEF Kept
  <2>5. Own(o)'
    BY <1>1, <1>3, <2>3, OwnStays DEF Kept
  <2>6. Settled(o)' => Arriving(o, log)'
    <3> SUFFICES ASSUME Settled(o) PROVE Arriving(o, log)'
      BY <1>1 DEF Settled
    <3>1. Arriving(o, log)
      BY <2>2 DEF Kept
    <3> QED BY <1>1, <1>4, <2>3, <3>1 DEF Arriving
  <2>7. \A p \in pump' : o \notin p.op.objs
    BY <1>1, <2>2 DEF Pending
  <2> QED BY <2>4, <2>5, <2>6, <2>7 DEF Kept
<1>6. CASE ~ (Attached /\ e = last)
  <2>1. (CaughtUp' <=> CaughtUp) /\ (CaughtUp => sending'[last] = sending[last])
    BY <1>1, <1>2, <1>3, <1>6, AttachedSocket DEF CaughtUp
  <2> QED BY <1>1, <1>3, <1>4, <2>1, KeptStill
<1> QED BY <1>5, <1>6

\* The next op of the replay goes on its way.
LEMMA KeptSendNext ==
  ASSUME Flowing, NEW o \in Objects, Kept(o), NEW e \in Sockets, SendNext(e)
  PROVE  Kept(o)'
<1>1. /\ sending[e] # <<>> /\ down' = To(Head(sending[e]), {e}) /\ sending' = [sending EXCEPT ![e] = Tail(@)]
      /\ UNCHANGED <<last, ready, serving, scene, up, pump, log>>
  BY DEF SendNext, socketVars
<1>2. e = last /\ Attached /\ Attached'
  <2>1. ready[e] = "open"
    BY <1>1 DEF Flowing, Greeted
  <2> QED BY <1>1, <2>1, LastSocket DEF Flowing, Attached
<1>3. PICK r, h, d : r = sending[e] /\ h = Head(r) /\ d = down[e]
  OBVIOUS
<1>4. r \in Seq(Downs) /\ h \in Downs /\ d \in Seq(Downs) /\ h = r[1] /\ 1 \in DOMAIN r
  <2>1. r \in Seq(Downs) /\ d \in Seq(Downs)
    BY <1>3 DEF Flowing, Typed
  <2> QED BY <1>1, <1>3, <2>1, Tailed
<1>5. down'[e] = Append(d, h) /\ sending'[e] = Tail(r)
  <2>1. down \in [Sockets -> Seq(Downs)] /\ sending \in [Sockets -> Seq(Downs)]
    BY DEF Flowing, Typed
  <2>2. \A f \in Sockets : To(h, {e})[f] = IF f \in {e} THEN Append(down[f], h) ELSE down[f]
    BY <1>4, <2>1, ToIn
  <2>3. down'[e] = Append(d, h)
    BY <1>1, <1>3, <2>2
  <2>4. sending'[e] = Tail(r)
    BY <1>1, <1>3, <2>1
  <2> QED BY <2>3, <2>4
<1>6. Coming = d /\ Coming' = Append(d, h) /\ (CaughtUp' <=> CaughtUp)
  BY <1>1, <1>2, <1>3, <1>5 DEF Coming, CaughtUp
<1>7. ~ CaughtUp => o \notin h.objs
  <2>1. ~ CaughtUp => serving[e] # "replaying"
    BY <1>2 DEF CaughtUp
  <2> QED BY <1>3, <1>4, <2>1 DEF Flowing, Greeted
<1>8. \A l : Arriving(o, l) => Arriving(o, l)'
  <2> SUFFICES ASSUME NEW l, Arriving(o, l) PROVE Arriving(o, l)'
    OBVIOUS
  <2>1. CASE CaughtUp
    <3>1. Decides(d, r, scene[o], l, o)
      BY <1>2, <1>3, <1>6, <2>1 DEF Arriving, ToReplay
    <3>2. r # <<>>
      BY <1>1, <1>3
    <3>3. Decides(Append(d, Head(r)), Tail(r), scene[o], l, o)
      BY <1>4, <3>1, <3>2, DecidesSend
    <3> QED BY <1>1, <1>2, <1>3, <1>5, <1>6, <2>1, <3>3 DEF Arriving, ToReplay
  <2>2. CASE ~ CaughtUp
    <3>1. Decides(d, l, scene[o], l, o)
      BY <1>6, <2>2 DEF Arriving, ToReplay
    <3>2. Decides(Append(d, h), l, scene[o], l, o)
      BY <1>4, <1>7, <2>2, <3>1, DecidesDown
    <3> QED BY <1>1, <1>6, <2>2, <3>2 DEF Arriving, ToReplay
  <2> QED BY <2>1, <2>2
<1>9. Own(o)'
  <2>1. ASSUME ~ Touches(down[last], o), ~ Touches(ToReplay(log), o)
        PROVE  ~ Touches(down'[last], o) /\ ~ Touches(ToReplay(log)', o)
    <3>1. Touches(r, o) <=> Touches(Tail(r), o) \/ o \in h.objs
      BY <1>1, <1>3, <1>4, TouchesTail
    <3>2. Touches(Append(d, h), o) <=> Touches(d, o) \/ o \in h.objs
      BY <1>4, TouchesAppend
    <3>3. CASE CaughtUp
      <4>1. ToReplay(log) = r /\ ToReplay(log)' = Tail(r)
        BY <1>1, <1>2, <1>3, <1>5, <1>6, <3>3 DEF ToReplay
      <4> QED BY <1>2, <1>3, <1>5, <2>1, <3>1, <3>2, <4>1
    <3>4. CASE ~ CaughtUp
      <4>1. ToReplay(log) = log /\ ToReplay(log)' = log
        BY <1>1, <1>6, <3>4 DEF ToReplay
      <4> QED BY <1>2, <1>3, <1>5, <1>7, <2>1, <3>2, <3>4, <4>1
    <3> QED BY <3>3, <3>4
  <2> QED BY <1>1, <1>2, <2>1, OwnStays DEF Kept
<1>10. Alone(o)'
  BY <1>1, AloneStays DEF Kept
<1>11. Settled(o)' => Settled(o)
  BY <1>1 DEF Settled
<1> QED BY <1>1, <1>8, <1>9, <1>10, <1>11, KeptCarried

LEMMA KeptReceive ==
  ASSUME Flowing, NEW o \in Objects, Kept(o), NEW e \in Sockets, Receive(e)
  PROVE  Kept(o)'
<1>1. /\ ready[e] = "open" /\ down[e] # <<>> /\ down[e] \in Seq(Downs)
      /\ scene' = Apply(scene, Head(down[e])) /\ down' = [down EXCEPT ![e] = Tail(@)]
      /\ UNCHANGED <<last, ready, serving, sending, up, pump, log>>
  BY DEF Receive, gatewayVars, socketVars, Flowing, Typed
<1>2. e = last /\ Attached /\ Attached' /\ (CaughtUp' <=> CaughtUp)
  BY <1>1, LastSocket DEF Flowing, Attached, CaughtUp
<1>3. PICK d, m : d = down[e] /\ m = Head(d)
  OBVIOUS
<1>4. d \in Seq(Downs) /\ d # <<>> /\ m \in Downs /\ down'[e] = Tail(d)
  BY <1>1, <1>3, Tailed DEF Flowing, Typed
<1>5. Touches(d, o) <=> Touches(Tail(d), o) \/ o \in m.objs
  BY <1>3, <1>4, TouchesTail
<1>6. scene'[o] = IF o \in m.objs THEN Left(m) ELSE scene[o]
  <2>1. scene \in [Objects -> 0 .. MaxEdits] /\ scene' = Apply(scene, m)
    BY <1>1, <1>3 DEF Flowing, Typed
  <2>2. \A x \in Objects : Apply(scene, m)[x] = IF x \in m.objs THEN Left(m) ELSE scene[x]
    BY <1>4, <2>1, ApplyIn
  <2> QED BY <2>1, <2>2
<1>7. Coming = d /\ Coming' = Tail(d)
  BY <1>1, <1>2, <1>3, <1>4 DEF Coming
<1>8. \A l : Arriving(o, l) => Arriving(o, l)'
  <2> SUFFICES ASSUME NEW l, Arriving(o, l) PROVE Arriving(o, l)'
    OBVIOUS
  <2>1. PICK r : r = ToReplay(l)
    OBVIOUS
  <2>2. ToReplay(l)' = r
    BY <1>1, <1>2, <2>1 DEF ToReplay
  <2>3. Decides(d, r, scene[o], l, o)
    BY <1>7, <2>1 DEF Arriving
  <2>4. Decides(Tail(d), r, IF o \in Head(d).objs THEN Left(Head(d)) ELSE scene[o], l, o)
    BY <1>4, <2>3, DecidesTail
  <2>5. Decides(Tail(d), r, scene'[o], l, o)
    BY <1>3, <1>6, <2>4
  <2> QED BY <1>7, <2>2, <2>5 DEF Arriving
<1>9. Own(o)'
  <2>2. ToReplay(log)' = ToReplay(log)
    BY <1>1, <1>2 DEF ToReplay
  <2> SUFFICES ASSUME NEW i \in DOMAIN up[last], o \in up[last][i].objs
               PROVE  scene'[o] = Left(up[last][i]) /\ ~ Touches(down'[last], o) /\ ~ Touches(ToReplay(log), o)
    BY <1>1, <2>2 DEF Own
  <2>1. scene[o] = Left(up[last][i]) /\ ~ Touches(down[last], o) /\ ~ Touches(ToReplay(log), o)
    BY <1>2 DEF Kept, Own, Attached
  <2> QED BY <1>2, <1>3, <1>4, <1>5, <1>6, <2>1
<1>10. Alone(o)'
  BY <1>1, AloneStays DEF Kept
<1>11. Settled(o)' => Settled(o)
  BY <1>1 DEF Settled
<1> QED BY <1>1, <1>8, <1>9, <1>10, <1>11, KeptCarried

\* A frame that is not about o goes up.
LEMMA KeptSent ==
  ASSUME Flowing, NEW o \in Objects, Kept(o), NEW m \in Ups, o \notin m.objs, up' = Sent(m),
         scene'[o] = scene[o], UNCHANGED <<last, ready, serving, sending, down, pump, log>>
  PROVE  Kept(o)'
<1>1. up \in [Sockets -> Seq(Ups)] /\ last \in 0 .. MaxSockets
  BY DEF Flowing, Typed, Wired
<1>2. (Attached' <=> Attached) /\ (CaughtUp' <=> CaughtUp)
  BY DEF Attached, CaughtUp
<1>3. Coming' = Coming
  BY <1>2 DEF Coming
<1>4. CASE ~ Attached
  <2>1. up' = up
    BY <1>1, <1>4, SentIn
  <2> QED BY <1>2, <1>3, <2>1, KeptStill
<1>5. CASE Attached
  <2>1. /\ last \in Sockets /\ up'[last] = Append(up[last], m)
        /\ \A e \in Sockets \ {last} : up'[e] = up[e]
    BY <1>1, <1>5, SentIn
  <2>2. /\ \A i \in DOMAIN up'[last] : o \in up'[last][i].objs => i \in DOMAIN up[last] /\ up'[last][i] = up[last][i]
        /\ Touches(up'[last], o) <=> Touches(up[last], o)
    <3>1. up[last] \in Seq(Ups)
      BY <1>1, <2>1
    <3>2. PICK s, t, n : s = up[last] /\ t = Append(s, m) /\ n = Len(s) + 1
      OBVIOUS
    <3>3. /\ DOMAIN t = 1 .. n /\ DOMAIN s = 1 .. Len(s) /\ t[n] = m
          /\ \A i \in 1 .. Len(s) : t[i] = s[i]
          /\ \A i \in 1 .. n : i \in 1 .. Len(s) \/ i = n
      BY <3>1, <3>2, Appended
    <3>4. Touches(t, o) <=> Touches(s, o)
      BY <3>1, <3>2, TouchesAppend
    <3> QED BY <2>1, <3>2, <3>3, <3>4
  <2>3. \A e \in Sockets : \A i \in DOMAIN up'[e] :
          o \in up'[e][i].objs => i \in DOMAIN up[e] /\ up'[e][i] = up[e][i]
    BY <2>1, <2>2
  <2>4. Settled(o)' <=> Settled(o)
    BY <2>1, <2>2 DEF Settled
  <2>5. Pending(o)' <=> Pending(o)
    BY DEF Pending
  <2>6. Alone(o)'
    BY <2>3, <2>4, <2>5 DEF Kept, Alone
  <2>7. \A l : ToReplay(l)' = ToReplay(l)
    BY <1>2 DEF ToReplay
  <2>8. Own(o)'
    BY <1>2, <2>1, <2>3, <2>7 DEF Kept, Own, ToReplay
  <2>9. \A l : Arriving(o, l) => Arriving(o, l)'
    BY <1>2, <1>3 DEF Arriving, ToReplay
  <2>10. Settled(o)' => Settled(o)
    BY <2>4
  <2> QED BY <2>6, <2>8, <2>9, <2>10, KeptCarried
<1> QED BY <1>4, <1>5

LEMMA KeptMoveCursor ==
  ASSUME Flowing, NEW o \in Objects, Kept(o), MoveCursor
  PROVE  Kept(o)'
<1>1. /\ up' = Sent(Cursor(me)) /\ UNCHANGED <<last, ready, serving, sending, scene, down, pump, log>>
  BY DEF MoveCursor, gatewayVars, socketVars
<1>2. Cursor(me) \in Ups /\ o \notin Cursor(me).objs
  <2>1. me \in 0 .. MaxSockets
    BY BoundsNat DEF Flowing, Named, Wired
  <2>2. Cursor(me) \in Ups
    BY <2>1 DEF Ups, Marks
  <2> QED BY <2>2 DEF Cursor
<1> QED BY <1>1, <1>2, KeptSent

\* Nothing on its way is about an object that is not in flight.
LEMMA InFlightTouched ==
  ASSUME NEW o, o \notin InFlight
  PROVE  /\ \A e \in Sockets : ~ Touches(up[e], o) /\ ~ Touches(down[e], o)
         /\ ~ Pending(o) /\ o \notin Replaying
BY DEF InFlight, Touched, Touches, Pending, Unrecorded

\* The browser's own edit: the only frame about its objects, which nothing on its way will undo.
LEMMA KeptEdit ==
  ASSUME Flowing, NEW o \in Objects, Kept(o), Edit, o \in Spared'
  PROVE  Kept(o)'
<1>1. edits + 1 \in 1 .. MaxEdits
  BY EditsMore DEF Edit, Flowing
<1>2. PICK op \in Edits(scene, edits + 1) :
        /\ scene' = Apply(scene, op) /\ up' = Sent(op)
        /\ away' = [away EXCEPT !.unsent = @ \union (IF up' = up THEN op.objs ELSE {}),
                                !.raced = @ \union (op.objs \intersect (InFlight \union Touched(ToReplay(log))))]
  BY DEF Edit
<1>3. op \in Durable /\ op \in Ups /\ op \in Downs
  BY <1>1, <1>2, EditIn, UpsAreDowns
<1>4. UNCHANGED <<last, ready, serving, sending, down, pump, log>>
  BY DEF Edit, gatewayVars, socketVars
<1>5. scene'[o] = IF o \in op.objs THEN Left(op) ELSE scene[o]
  BY <1>2, <1>3, ApplyIn DEF Flowing, Typed
<1>6. CASE o \notin op.objs
  BY <1>2, <1>3, <1>4, <1>5, <1>6, KeptSent
<1>7. CASE o \in op.objs
  <2>1. up' # up /\ o \notin InFlight /\ o \notin Touched(ToReplay(log))
    BY <1>2, <1>7 DEF Spared, Flowing, Typed
  <2>2. up \in [Sockets -> Seq(Ups)] /\ last \in 0 .. MaxSockets
    BY DEF Flowing, Typed, Wired
  <2>3. Attached
    BY <1>2, <1>3, <2>1, <2>2, SentIn
  <2>4. /\ last \in Sockets /\ up'[last] = Append(up[last], op)
        /\ \A e \in Sockets \ {last} : up'[e] = up[e]
    BY <1>2, <1>3, <2>2, <2>3, SentIn
  <2>5. (\A e \in Sockets : ~ Touches(up[e], o) /\ ~ Touches(down[e], o)) /\ ~ Pending(o)
    BY <2>1, InFlightTouched
  <2>6. PICK n : /\ n \in DOMAIN up'[last] /\ up'[last][n] = op
                 /\ \A i \in DOMAIN up'[last] : o \in up'[last][i].objs => i = n
    <3>1. PICK s, t, n : s = up[last] /\ t = Append(s, op) /\ n = Len(s) + 1
      OBVIOUS
    <3>2. s \in Seq(Ups) /\ ~ Touches(s, o)
      BY <2>2, <2>4, <2>5, <3>1
    <3>3. /\ DOMAIN t = 1 .. n /\ DOMAIN s = 1 .. Len(s) /\ n \in 1 .. n /\ t[n] = op
          /\ \A i \in 1 .. Len(s) : t[i] = s[i]
          /\ \A i \in 1 .. n : i \in 1 .. Len(s) \/ i = n
      BY <1>3, <3>1, <3>2, Appended
    <3>4. \A i \in DOMAIN t : o \in t[i].objs => i = n
      BY <3>2, <3>3 DEF Touches
    <3> QED BY <2>4, <3>1, <3>3, <3>4
  <2>7. \A e \in Sockets : \A i \in DOMAIN up'[e] : o \in up'[e][i].objs => e = last /\ i = n
    BY <2>4, <2>5, <2>6 DEF Touches
  <2>8. ~ Pending(o)'
    BY <1>4, <2>5 DEF Pending
  <2>9. Alone(o)'
    BY <2>7, <2>8 DEF Alone, Pending
  <2>10. Own(o)'
    <3>1. ~ Touches(ToReplay(log), o)
      BY <2>1 DEF Touched, Touches
    <3>2. ToReplay(log)' = ToReplay(log)
      BY <1>4 DEF ToReplay, CaughtUp, Attached
    <3> QED BY <1>4, <1>5, <1>7, <2>4, <2>5, <2>6, <3>1, <3>2 DEF Own
  <2>11. ~ Settled(o)'
    BY <1>7, <2>4, <2>6 DEF Settled, Touches
  <2> QED BY <2>8, <2>9, <2>10, <2>11 DEF Kept, Pending
<1> QED BY <1>6, <1>7

\* The gateway gives up a socket whose unread frames are not about o.
LEMMA KeptDrop ==
  ASSUME Flowing, NEW o \in Objects, Kept(o), NEW e \in Sockets, Drop(e), o \in Spared'
  PROVE  Kept(o)'
<1>1. /\ ready[e] = "closed" /\ up' = [up EXCEPT ![e] = <<>>]
      /\ serving' = [serving EXCEPT ![e] = "no"]
      /\ away' = [away EXCEPT !.unsent = @ \union Touched(up[e])]
      /\ UNCHANGED <<last, ready, sending, scene, down, pump, log>>
  BY DEF Drop, socketVars
<1>2. ~ Touches(up[e], o)
  BY <1>1 DEF Spared, Flowing, Typed, Touched, Touches
<1>3. up'[e] = <<>> /\ \A f \in Sockets : f # e => up'[f] = up[f] /\ serving'[f] = serving[f]
  BY <1>1 DEF Flowing, Typed, Wired
<1>4. ~ Touches(up'[e], o)
  BY <1>3 DEF Touches
<1>5. Settled(o)' <=> Settled(o)
  BY <1>2, <1>3, <1>4 DEF Settled
<1>6. (Attached' <=> Attached) /\ (Attached => last # e)
  BY <1>1 DEF Attached
<1>7. CaughtUp' <=> CaughtUp
  BY <1>3, <1>6, AttachedSocket, <1>1 DEF CaughtUp
<1>8. Coming' = Coming /\ ToReplay(log)' = ToReplay(log)
  BY <1>1, <1>6, <1>7 DEF Coming, ToReplay
<1>9. Alone(o)'
  <2>1. \A f \in Sockets : \A i \in DOMAIN up'[f] : i \in DOMAIN up[f] /\ up'[f][i] = up[f][i]
    BY <1>3
  <2>2. Pending(o)' <=> Pending(o)
    BY <1>1 DEF Pending
  <2> QED BY <1>1, <1>5, <2>1, <2>2 DEF Kept, Alone
<1>10. Own(o)'
  <2>1. last # 0 => last \in Sockets
    BY BoundsNat DEF Flowing, Wired, Sockets
  <2>2. last # 0 => up'[last] = up[last] \/ up'[last] = <<>>
    BY <1>3, <2>1
  <2> QED BY <1>1, <1>6, <1>8, <2>2 DEF Kept, Own
<1>11. \A l : Arriving(o, l) => Arriving(o, l)'
  BY <1>1, <1>7, <1>8 DEF Arriving, ToReplay
<1>12. Settled(o)' => Settled(o)
  BY <1>5
<1> QED BY <1>1, <1>9, <1>10, <1>11, <1>12, KeptCarried

\* What a fan-out brings to the browser's socket.
LEMMA FannedLast ==
  ASSUME Flowing, NEW m \in Downs, NEW es, down' = To(m, es), UNCHANGED <<last, ready, serving, sending>>
  PROVE  /\ (Attached' <=> Attached) /\ (CaughtUp' <=> CaughtUp)
         /\ \A l : ToReplay(l)' = ToReplay(l)
         /\ Attached => down'[last] = (IF last \in es THEN Append(down[last], m) ELSE down[last])
         /\ Attached => Coming = down[last] /\ Coming' = down'[last]
         /\ ~ Attached => Coming = <<>> /\ Coming' = <<>>
<1>1. (Attached' <=> Attached) /\ (CaughtUp' <=> CaughtUp)
  BY DEF Attached, CaughtUp
<1>2. \A l : ToReplay(l)' = ToReplay(l)
  BY <1>1 DEF ToReplay
<1>3. Attached => down'[last] = (IF last \in es THEN Append(down[last], m) ELSE down[last])
  BY AttachedSocket, ToIn DEF Flowing, Typed
<1> QED BY <1>1, <1>2, <1>3 DEF Coming

\* A frame about something else goes to the board.
LEMMA FannedOther ==
  ASSUME Flowing, NEW o \in Objects, NEW m \in Downs, o \notin m.objs, NEW es, down' = To(m, es),
         UNCHANGED <<last, ready, serving, sending, scene>>
  PROVE  /\ \A l : Arriving(o, l) => Arriving(o, l)'
         /\ Attached /\ ~ Touches(down[last], o) => ~ Touches(down'[last], o)
<1>1. PICK c, d : c = Coming /\ d = Coming'
  OBVIOUS
<1>2. c \in Seq(Downs)
  BY <1>1, ComingIn
<1>3. d = c \/ d = Append(c, m)
  BY <1>1, FannedLast
<1>4. ASSUME NEW l, Arriving(o, l)
      PROVE  Arriving(o, l)'
  <2>1. PICK r : r = ToReplay(l)
    OBVIOUS
  <2>2. ToReplay(l)' = r
    BY <2>1, FannedLast
  <2>3. Decides(c, r, scene[o], l, o)
    BY <1>1, <1>4, <2>1 DEF Arriving
  <2>4. Decides(d, r, scene[o], l, o)
    BY <1>2, <1>3, <2>3, DecidesDown
  <2> QED BY <1>1, <2>2, <2>4 DEF Arriving
<1>5. Touches(Append(c, m), o) <=> Touches(c, o)
  BY <1>2, TouchesAppend
<1>6. Attached /\ ~ Touches(down[last], o) => ~ Touches(down'[last], o)
  BY <1>1, <1>3, <1>5, FannedLast
<1> QED BY <1>4, <1>6

(***************************************************************************)
(* An op about o goes to the board and will go to the log.  It is fanned   *)
(* out to the browser, or a replay to come will bring it, or it is the     *)
(* browser's own and what the scene shows.                                 *)
(***************************************************************************)
LEMMA FannedAbout ==
  ASSUME Flowing, NEW o \in Objects, NEW m \in Durable, o \in m.objs, NEW es, down' = To(m, es),
         UNCHANGED <<last, ready, serving, sending, scene, log>>, o \notin Replaying,
         \/ last \in es /\ Attached
         \/ ~ CaughtUp /\ ~ IsClear(m)
         \/ last \notin es /\ scene[o] = Left(m) /\ (Attached => ~ Touches(down[last], o))
  PROVE  Decides(Coming', ToReplay(Recorded(log, m)), scene[o], Recorded(log, m), o)
<1>1. PICK c, d, r : c = Coming /\ d = Coming' /\ r = ToReplay(Recorded(log, m))
  OBVIOUS
<1>2. c \in Seq(Downs) /\ m \in Downs /\ log \in Seq(Durable)
  BY <1>1, ComingIn, UpsAreDowns, LogIn
<1>3. (~ CaughtUp /\ r = Recorded(log, m)) \/ (CaughtUp /\ ~ Touches(r, o))
  BY <1>1 DEF ToReplay, Replaying, Touched, Touches
<1>4. CASE last \in es /\ Attached
  <2>1. d = Append(c, m)
    BY <1>1, <1>2, <1>4, FannedLast
  <2>2. Decides(Append(c, m), r, scene[o], Recorded(log, m), o)
    BY <1>2, <1>3, DecidesNew
  <2> QED BY <1>1, <2>1, <2>2
<1>5. CASE ~ CaughtUp /\ ~ IsClear(m)
  <2>1. r = Recorded(log, m)
    BY <1>3, <1>5
  <2>2. Decides(d, Recorded(log, m), scene[o], Recorded(log, m), o)
    BY <1>2, <1>5, DecidesLate
  <2> QED BY <1>1, <2>1, <2>2
<1>6. CASE /\ last \notin es /\ scene[o] = Left(m) /\ (Attached => ~ Touches(down[last], o))
           /\ CaughtUp \/ IsClear(m)
  <2>1. ~ Touches(d, o)
    <3>1. ~ Touches(<<>>, o)
      BY DEF Touches
    <3>2. Attached => d = down[last]
      BY <1>1, <1>2, <1>6, FannedLast
    <3>3. ~ Attached => d = <<>>
      BY <1>1, <1>2, FannedLast
    <3> QED BY <1>6, <3>1, <3>2, <3>3
  <2>2. ~ Touches(r, o)
    <3>1. IsClear(m) => ~ Touches(Recorded(log, m), o)
      BY <1>2, RecordedNew DEF Touches
    <3> QED BY <1>3, <1>6, <3>1
  <2>3. Decides(d, r, Left(m), Recorded(log, m), o)
    BY <1>2, <2>1, <2>2, DecidesOwn
  <2> QED BY <1>1, <1>6, <2>3
<1> QED BY <1>4, <1>5, <1>6

\* The readPump of a socket takes its next frame.
LEMMA ReadOne ==
  ASSUME Flowing, NEW e \in Sockets, Publish(e)
  PROVE  \E m, es :
           /\ m \in Ups /\ m \in Downs /\ (m.type # "cursor" => m \in Durable)
           /\ es \in SUBSET Others(e)
           /\ 1 \in DOMAIN up[e] /\ up[e][1] = m
           /\ \A f \in Sockets : f # e => up'[f] = up[f]
           /\ \A i \in DOMAIN up'[e] : i \in Nat \ {0} /\ i + 1 \in DOMAIN up[e] /\ up'[e][i] = up[e][i + 1]
           /\ \A o : Touches(up[e], o) <=> Touches(up'[e], o) \/ o \in m.objs
           /\ FanOut(m, e, es)
           /\ away' = [away EXCEPT !.missed = @ \union Missed(m, es \union {e}),
                                   !.raced = @ \union (m.objs \intersect Replaying)]
<1>1. /\ up[e] # <<>> /\ up[e] \in Seq(Ups) /\ up' = [up EXCEPT ![e] = Tail(@)]
  BY DEF Publish, Flowing, Typed
<1>2. PICK m, es :
        /\ m = Head(up[e]) /\ es \in SUBSET Others(e) /\ FanOut(m, e, es)
        /\ away' = [away EXCEPT !.missed = @ \union Missed(m, es \union {e}),
                                !.raced = @ \union (m.objs \intersect Replaying)]
  BY DEF Publish
<1>3. /\ m \in Ups /\ m = up[e][1] /\ 1 \in DOMAIN up[e]
  BY <1>1, <1>2, Tailed
<1>4. up'[e] = Tail(up[e]) /\ \A f \in Sockets : f # e => up'[f] = up[f]
  BY <1>1 DEF Flowing, Typed
<1>5. \A i \in DOMAIN up'[e] : i \in Nat \ {0} /\ i + 1 \in DOMAIN up[e] /\ up'[e][i] = up[e][i + 1]
  <2>1. PICK t : t = Tail(up[e])
    OBVIOUS
  <2>2. \A i \in DOMAIN t : i \in Nat \ {0} /\ i + 1 \in DOMAIN up[e] /\ t[i] = up[e][i + 1]
    BY <1>1, <2>1, Tailed
  <2> QED BY <1>4, <2>1, <2>2
<1>6. \A o : Touches(up[e], o) <=> Touches(up'[e], o) \/ o \in m.objs
  BY <1>1, <1>2, <1>4, TouchesTail
<1>7. m \in Downs /\ (m.type # "cursor" => m \in Durable)
  BY <1>3, UpFrame
<1> QED BY <1>2, <1>3, <1>4, <1>5, <1>6, <1>7

\* A readPump fans out an op about o, and is the only one with such an op.
LEMMA KeptAbout ==
  ASSUME Flowing, NEW o \in Objects, NEW m \in Durable, o \in m.objs, NEW from, NEW es, FanOut(m, from, es),
         UNCHANGED <<last, ready, serving, sending, scene, log>>, o \notin Replaying, ~ Pending(o), Settled(o)',
         last # 0 => last \in Sockets,
         \/ last \in es /\ Attached
         \/ ~ CaughtUp /\ ~ IsClear(m)
         \/ last \notin es /\ scene[o] = Left(m) /\ (Attached => ~ Touches(down[last], o))
  PROVE  Kept(o)'
<1>1. down' = To(m, es) /\ m \in Downs
  BY UpsAreDowns DEF FanOut
<1>2. m.type # "cursor"
  BY DEF Durable, Ops
<1>3. PICK q : q.op = m /\ pump' = pump \union {q}
  <2>1. [from |-> from, op |-> m].op = m
    OBVIOUS
  <2> QED BY <1>2, <2>1 DEF FanOut
<1>4. \A p \in pump' : o \in p.op.objs => p = q
  BY <1>3 DEF Pending
<1>5. Pending(o)'
  BY <1>3 DEF Pending
<1>6. \A e \in Sockets : \A i \in DOMAIN up'[e] : o \notin up'[e][i].objs
  BY DEF Settled, Touches
<1>7. Alone(o)'
  BY <1>4, <1>6 DEF Alone
<1>8. Own(o)'
  BY <1>6 DEF Own
<1>9. ASSUME NEW p \in pump', o \in p.op.objs
      PROVE  Arriving(o, Recorded(log, p.op))'
  <2>1. PICK l : l = Recorded(log, m)
    OBVIOUS
  <2>2. Decides(Coming', ToReplay(l), scene[o], l, o)
    BY <1>1, <2>1, FannedAbout
  <2>3. ToReplay(l)' = ToReplay(l)
    BY <1>1, FannedLast
  <2>4. Arriving(o, l)'
    BY <2>2, <2>3 DEF Arriving
  <2>5. l = Recorded(log, p.op)'
    BY <1>3, <1>4, <1>9, <2>1
  <2> QED BY <2>4, <2>5 DEF Arriving, ToReplay
<1> QED BY <1>5, <1>7, <1>8, <1>9 DEF Kept

LEMMA KeptPublish ==
  ASSUME Flowing, NEW o \in Objects, Kept(o), NEW e \in Sockets, Publish(e), o \in Spared'
  PROVE  Kept(o)'
<1>1. PICK m, es :
        /\ m \in Ups /\ m \in Downs /\ (m.type # "cursor" => m \in Durable)
        /\ es \in SUBSET Others(e)
        /\ 1 \in DOMAIN up[e] /\ up[e][1] = m
        /\ \A f \in Sockets : f # e => up'[f] = up[f]
        /\ \A i \in DOMAIN up'[e] : i \in Nat \ {0} /\ i + 1 \in DOMAIN up[e] /\ up'[e][i] = up[e][i + 1]
        /\ \A x : Touches(up[e], x) <=> Touches(up'[e], x) \/ x \in m.objs
        /\ FanOut(m, e, es)
        /\ away' = [away EXCEPT !.missed = @ \union Missed(m, es \union {e}),
                                !.raced = @ \union (m.objs \intersect Replaying)]
  BY ReadOne
<1>2. /\ Idle(e) /\ UNCHANGED <<last, ready, serving, sending, scene, log>>
      /\ last # 0 => last \in Sockets
  BY BoundsNat DEF Publish, socketVars, Flowing, Wired, Sockets
<1>3. CASE o \notin m.objs
  <2>1. Settled(o)' <=> Settled(o)
    BY <1>1, <1>3 DEF Settled
  <2>2. \A p : o \in p.op.objs => (p \in pump' <=> p \in pump)
    <3>1. PICK q : q.op = m /\ (pump' = pump \/ pump' = pump \union {q})
      <4>1. [from |-> e, op |-> m].op = m
        OBVIOUS
      <4> QED BY <1>1, <4>1 DEF FanOut
    <3> QED BY <1>3, <3>1
  <2>3. /\ \A l : Arriving(o, l) => Arriving(o, l)'
        /\ Attached /\ ~ Touches(down[last], o) => ~ Touches(down'[last], o)
    BY <1>1, <1>2, <1>3, FannedOther DEF FanOut
  <2>4. PICK k \in [Sockets -> Nat] : k[e] = 1 /\ \A f \in Sockets : f # e => k[f] = 0
    <3>1. [f \in Sockets |-> IF f = e THEN 1 ELSE 0] \in [Sockets -> Nat]
      OBVIOUS
    <3> QED BY <3>1
  <2>5. \A f \in Sockets : DOMAIN up'[f] \subseteq Nat
    <3>1. \A f \in Sockets : DOMAIN up[f] \subseteq Nat
      BY DEF Flowing, Typed
    <3> QED BY <1>1, <3>1
  <2>6. \A f \in Sockets : \A i \in DOMAIN up'[f] : i + k[f] \in DOMAIN up[f] /\ up'[f][i] = up[f][i + k[f]]
    <3> SUFFICES ASSUME NEW f \in Sockets, NEW i \in DOMAIN up'[f]
                 PROVE  i + k[f] \in DOMAIN up[f] /\ up'[f][i] = up[f][i + k[f]]
      OBVIOUS
    <3>1. CASE f = e
      BY <1>1, <2>4, <3>1
    <3>2. CASE f # e
      <4>1. i + k[f] = i
        BY <2>4, <2>5, <3>2
      <4> QED BY <1>1, <3>2, <4>1
    <3> QED BY <3>1, <3>2
  <2>7. Alone(o)'
    <3>1. ASSUME NEW f \in Sockets, NEW g \in Sockets, NEW i \in DOMAIN up'[f], NEW j \in DOMAIN up'[g],
                 o \in up'[f][i].objs, o \in up'[g][j].objs
          PROVE  f = g /\ i = j
      <4>1. /\ i + k[f] \in DOMAIN up[f] /\ o \in up[f][i + k[f]].objs
            /\ j + k[g] \in DOMAIN up[g] /\ o \in up[g][j + k[g]].objs
        BY <2>6, <3>1
      <4>2. f = g /\ i + k[f] = j + k[g]
        BY <4>1 DEF Kept, Alone
      <4>3. i \in Nat /\ j \in Nat /\ k[f] \in Nat
        BY <2>5
      <4> QED BY <4>2, <4>3
    <3>2. Pending(o)' <=> Pending(o)
      BY <2>2 DEF Pending
    <3>3. \A p, q \in pump' : o \in p.op.objs /\ o \in q.op.objs => p = q
      BY <2>2 DEF Kept, Alone
    <3>4. Pending(o)' => Settled(o)'
      BY <2>1, <3>2 DEF Kept, Alone
    <3> QED BY <3>1, <3>3, <3>4 DEF Alone
  <2>8. Own(o)'
    <3> SUFFICES ASSUME last # 0, NEW i \in DOMAIN up'[last], o \in up'[last][i].objs
                 PROVE  /\ scene[o] = Left(up'[last][i])
                        /\ Attached' => ~ Touches(down'[last], o) /\ ~ Touches(ToReplay(log)', o)
      BY <1>2 DEF Own
    <3>1. i + k[last] \in DOMAIN up[last] /\ up'[last][i] = up[last][i + k[last]]
      BY <1>2, <2>6
    <3>2. /\ scene[o] = Left(up'[last][i])
          /\ Attached => ~ Touches(down[last], o) /\ ~ Touches(ToReplay(log), o)
      BY <3>1 DEF Kept, Own
    <3>3. (Attached' <=> Attached) /\ ToReplay(log)' = ToReplay(log)
      BY <1>2 DEF Attached, ToReplay, CaughtUp
    <3> QED BY <2>3, <3>2, <3>3
  <2>9. Settled(o)' => Settled(o)
    BY <2>1
  <2> QED BY <1>2, <2>2, <2>3, <2>7, <2>8, <2>9, KeptCarried
<1>4. CASE o \in m.objs
  <2>1. m \in Durable
    <3>1. m.type # "cursor"
      BY <1>1, <1>4, Frame
    <3> QED BY <1>1, <3>1
  <2>2. ~ Pending(o)
    <3>1. ~ Settled(o)
      BY <1>1, <1>4 DEF Settled, Touches
    <3> QED BY <3>1 DEF Kept, Alone
  <2>3. \A f \in Sockets : \A i \in DOMAIN up'[f] : o \notin up'[f][i].objs
    <3> SUFFICES ASSUME NEW f \in Sockets, NEW i \in DOMAIN up'[f], o \in up'[f][i].objs PROVE FALSE
      OBVIOUS
    <3>1. CASE f = e
      <4>1. i \in Nat \ {0} /\ i + 1 \in DOMAIN up[e] /\ o \in up[e][i + 1].objs
        BY <1>1, <3>1
      <4>2. i + 1 = 1
        BY <1>1, <1>4, <4>1 DEF Kept, Alone
      <4> QED BY <4>1, <4>2
    <3>2. CASE f # e
      <4>1. i \in DOMAIN up[f] /\ o \in up[f][i].objs
        BY <1>1, <3>2
      <4> QED BY <1>1, <1>4, <3>2, <4>1 DEF Kept, Alone
    <3> QED BY <3>1, <3>2
  <2>4. Settled(o)'
    BY <2>3 DEF Settled, Touches
  <2>5. o \notin Replaying /\ o \notin Missed(m, es \union {e})
    BY <1>1, <1>4 DEF Spared, Flowing, Typed
  <2>6. \/ last \in es /\ Attached
        \/ ~ CaughtUp /\ ~ IsClear(m)
        \/ last \notin es /\ scene[o] = Left(m) /\ (Attached => ~ Touches(down[last], o))
    <3>1. CASE last \in es
      <4>1. last \in Sockets /\ ready[last] = "open"
        BY <1>1, <3>1, OthersOpen
      <4>2. last # 0
        BY <4>1 DEF Sockets
      <4> QED BY <3>1, <4>1, <4>2 DEF Attached
    <3>2. CASE last = e
      <4>1. last \notin es
        BY <1>1, <3>2 DEF Others
      <4>2. last # 0
        BY <3>2 DEF Sockets
      <4>3. scene[o] = Left(m) /\ (Attached => ~ Touches(down[last], o))
        BY <1>1, <1>4, <3>2, <4>2 DEF Kept, Own
      <4> QED BY <4>1, <4>3
    <3>3. CASE last \notin es /\ last # e
      BY <1>4, <2>5, <3>3 DEF Missed
    <3> QED BY <3>1, <3>2, <3>3
  <2>7. FanOut(m, e, es)
    BY <1>1
  <2> QED BY <1>2, <1>4, <2>1, <2>2, <2>4, <2>5, <2>6, <2>7, KeptAbout
<1> QED BY <1>3, <1>4

\* What somebody else sends is not about o.
LEMMA KeptBesides ==
  ASSUME Flowing, NEW o \in Objects, Kept(o), NEW m \in Downs, o \notin m.objs, NEW es, FanOut(m, Peer, es),
         UNCHANGED <<last, ready, serving, sending, scene, up, log>>
  PROVE  Kept(o)'
<1>1. \A p : o \in p.op.objs => (p \in pump' <=> p \in pump)
  <2>1. PICK q : q.op = m /\ (pump' = pump \/ pump' = pump \union {q})
    <3>1. [from |-> Peer, op |-> m].op = m
      OBVIOUS
    <3> QED BY <3>1 DEF FanOut
  <2> QED BY <2>1
<1>2. /\ \A l : Arriving(o, l) => Arriving(o, l)'
      /\ Attached /\ ~ Touches(down[last], o) => ~ Touches(down'[last], o)
  BY FannedOther DEF FanOut
<1>3. (Attached' <=> Attached) /\ ToReplay(log)' = ToReplay(log)
  BY DEF Attached, ToReplay, CaughtUp
<1>4. Own(o)'
  BY <1>2, <1>3, OwnStays DEF Kept
<1>5. Alone(o)'
  BY <1>1, AloneStays DEF Kept
<1>6. Settled(o)' => Settled(o)
  BY DEF Settled
<1> QED BY <1>1, <1>2, <1>4, <1>5, <1>6, KeptCarried

LEMMA KeptPeerCursor ==
  ASSUME Flowing, NEW o \in Objects, Kept(o), PeerCursor
  PROVE  Kept(o)'
<1>1. PICK es : FanOut(Cursor(Peer), Peer, es)
  BY DEF PeerCursor
<1>2. Cursor(Peer) \in Downs /\ o \notin Cursor(Peer).objs
  <2>1. Cursor(Peer) \in Downs
    BY DEF Downs, Ups, Marks
  <2> QED BY <2>1 DEF Cursor
<1>3. UNCHANGED <<last, ready, serving, sending, scene, up, log>>
  BY DEF PeerCursor, socketVars
<1> QED BY <1>1, <1>2, <1>3, KeptBesides

LEMMA KeptPeerEdit ==
  ASSUME Flowing, NEW o \in Objects, Kept(o), PeerEdit, o \in Spared'
  PROVE  Kept(o)'
<1>1. edits + 1 \in 1 .. MaxEdits
  BY EditsMore DEF PeerEdit, Flowing
<1>2. PICK op, es :
        /\ op \in Edits(Rebuilt(log), edits + 1) /\ es \in SUBSET Others(Peer) /\ FanOut(op, Peer, es)
        /\ away' = [away EXCEPT !.missed = @ \union Missed(op, es),
                                !.raced = @ \union (op.objs \intersect InFlight)]
  BY DEF PeerEdit
<1>3. op \in Durable /\ op \in Downs
  BY <1>1, <1>2, EditIn, UpsAreDowns
<1>4. UNCHANGED <<last, ready, serving, sending, scene, up, log>> /\ (last # 0 => last \in Sockets)
  BY BoundsNat DEF PeerEdit, socketVars, Flowing, Wired, Sockets
<1>5. CASE o \notin op.objs
  BY <1>2, <1>3, <1>4, <1>5, KeptBesides
<1>6. CASE o \in op.objs
  <2>1. o \notin InFlight /\ o \notin Missed(op, es)
    BY <1>2, <1>6 DEF Spared, Flowing, Typed
  <2>2. (\A f \in Sockets : ~ Touches(up[f], o)) /\ ~ Pending(o) /\ o \notin Replaying
    BY <2>1, InFlightTouched
  <2>3. Settled(o)'
    BY <1>4, <2>2 DEF Settled
  <2>4. (last \in es /\ Attached) \/ (~ CaughtUp /\ ~ IsClear(op))
    <3>1. CASE last \in es
      <4>1. last \in Sockets /\ ready[last] = "open"
        BY <1>2, <3>1, OthersOpen
      <4>2. last # 0
        BY <4>1 DEF Sockets
      <4> QED BY <3>1, <4>1, <4>2 DEF Attached
    <3>2. CASE last \notin es
      BY <1>6, <2>1, <3>2 DEF Missed
    <3> QED BY <3>1, <3>2
  <2>5. FanOut(op, Peer, es)
    BY <1>2
  <2> QED BY <1>3, <1>4, <1>6, <2>2, <2>3, <2>4, <2>5, KeptAbout
<1> QED BY <1>5, <1>6

\* An op goes to the log: what was to be there is, or the log says of o what it said.
LEMMA KeptRecord ==
  ASSUME Flowing, NEW o \in Objects, Kept(o), NEW q \in pump, Record(q)
  PROVE  Kept(o)'
<1>1. /\ log' = Recorded(log, q.op) /\ pump' = pump \ {q}
      /\ UNCHANGED <<last, ready, serving, sending, scene, up, down>>
  BY DEF Record, socketVars
<1>2. q.op \in Durable /\ log \in Seq(Durable) /\ log' \in Seq(Durable)
  <2>1. q.op \in Durable /\ log \in Seq(Durable)
    BY PumpIn, LogIn DEF Flowing
  <2> QED BY <1>1, <2>1, RecordedIn
<1>3. Coming' = Coming /\ \A l : ToReplay(l)' = ToReplay(l)
  BY <1>1 DEF Coming, ToReplay, CaughtUp, Attached
<1>4. Alone(o)'
  BY <1>1, AloneStays DEF Kept
<1>5. PICK k : k = log'
  OBVIOUS
<1>6. ToReplay(log)' = ToReplay(k) /\ (Arriving(o, log)' <=> Decides(Coming, ToReplay(k), scene[o], k, o))
  BY <1>1, <1>3, <1>5 DEF Arriving, ToReplay, CaughtUp, Attached
<1>7. CASE o \in q.op.objs
  <2>1. Settled(o) /\ \A p \in pump' : o \notin p.op.objs
    BY <1>1, <1>7 DEF Kept, Alone, Pending
  <2>2. Own(o)'
    <3>1. last # 0 => last \in Sockets
      BY BoundsNat DEF Flowing, Wired, Sockets
    <3> QED BY <1>1, <2>1, <3>1 DEF Own, Settled, Touches
  <2>3. Arriving(o, k)
    BY <1>1, <1>5, <1>7 DEF Kept
  <2>4. Arriving(o, log)'
    BY <1>6, <2>3 DEF Arriving
  <2> QED BY <1>4, <2>1, <2>2, <2>4 DEF Kept
<1>8. CASE o \notin q.op.objs
  <2>1. /\ Touches(k, o) <=> Touches(log, o)
        /\ \A y, v : Shows(log, y, o, v) => Shows(k, y, o, v)
    BY <1>1, <1>2, <1>5, <1>8, RecordedOther
  <2>2. ToReplay(k) = ToReplay(log) \/ (ToReplay(log) = log /\ ToReplay(k) = k)
    BY DEF ToReplay
  <2>3. Own(o)'
    <3>1. ~ Touches(ToReplay(log), o) => ~ Touches(ToReplay(log)', o)
      BY <1>6, <2>1, <2>2
    <3>2. Attached' <=> Attached
      BY <1>1 DEF Attached
    <3> QED BY <1>1, <3>1, <3>2, OwnStays DEF Kept
  <2>4. (Settled(o)' <=> Settled(o)) /\ (Pending(o)' <=> Pending(o))
    BY <1>1, <1>8 DEF Settled, Pending
  <2>5. Arriving(o, log) => Arriving(o, log)'
    <3>1. PICK r, t : r = ToReplay(log) /\ t = ToReplay(k)
      OBVIOUS
    <3>2. t = r \/ (r = log /\ t = k)
      BY <2>2, <3>1
    <3>3. Decides(Coming, r, scene[o], log, o) => Decides(Coming, t, scene[o], k, o)
      BY <2>1, <3>2, DecidesAlike
    <3> QED BY <1>6, <3>1, <3>3 DEF Arriving
  <2>6. ASSUME NEW p \in pump', o \in p.op.objs
        PROVE  Arriving(o, Recorded(log, p.op))'
    <3>1. p \in pump /\ p.op \in Durable
      BY <1>1, <2>6, PumpIn DEF Flowing
    <3>2. PICK l, n : l = Recorded(log, p.op) /\ n = Recorded(k, p.op)
      OBVIOUS
    <3>3. Touches(n, o) <=> Touches(l, o)
      BY <1>2, <1>5, <2>6, <3>1, <3>2, RecordedAlike
    <3>4. \A y, v : Shows(l, y, o, v) => Shows(n, y, o, v)
      BY <1>2, <1>5, <2>6, <3>1, <3>2, RecordedAlike
    <3>5. PICK r, t : r = ToReplay(l) /\ t = ToReplay(n)
      OBVIOUS
    <3>6. t = r \/ (r = l /\ t = n)
      BY <3>5 DEF ToReplay
    <3>7. Decides(Coming, r, scene[o], l, o)
      BY <2>6, <3>1, <3>2, <3>5 DEF Kept, Arriving
    <3>8. Decides(Coming, t, scene[o], n, o)
      BY <3>3, <3>4, <3>6, <3>7, DecidesAlike
    <3>9. ToReplay(n)' = t
      BY <1>3, <3>5
    <3>10. Arriving(o, n)'
      BY <1>1, <1>3, <3>8, <3>9 DEF Arriving
    <3>11. n = Recorded(log, p.op)'
      BY <1>5, <3>2
    <3> QED BY <3>10, <3>11 DEF Arriving, ToReplay
  <2> QED BY <1>4, <2>3, <2>4, <2>5, <2>6 DEF Kept
<1> QED BY <1>7, <1>8

-----------------------------------------------------------------------------
\* What was lost stays lost.
LEMMA SparedLess ==
  ASSUME Flowing, [Next]_sessionVars
  PROVE  Spared' \subseteq Spared
<1>1. /\ away.unsent \subseteq away'.unsent /\ away.missed \subseteq away'.missed
      /\ away.raced \subseteq away'.raced
  <2> USE DEF Flowing, Typed
  <2>1. CASE Unmount \/ \E e \in Sockets : OnClose(e)
    <3>1. PICK w : away' = [away EXCEPT !.missed = @ \union w]
      BY <2>1 DEF Unmount, Unmounted, OnClose, Lost, Deaf
    <3> QED BY <3>1
  <2>2. CASE Edit
    <3>1. PICK u, r : away' = [away EXCEPT !.unsent = @ \union u, !.raced = @ \union r]
      BY <2>2 DEF Edit
    <3> QED BY <3>1
  <2>3. CASE PeerEdit \/ \E e \in Sockets : Publish(e)
    <3>1. PICK w, r : away' = [away EXCEPT !.missed = @ \union w, !.raced = @ \union r]
      BY <2>3 DEF PeerEdit, Publish
    <3> QED BY <3>1
  <2>4. CASE \E e \in Sockets : Catchup(e)
    <3>1. PICK r : away' = [away EXCEPT !.raced = @ \union r]
      BY <2>4 DEF Catchup
    <3> QED BY <3>1
  <2>5. CASE \E e \in Sockets : Drop(e)
    BY <2>5 DEF Drop
  <2>6. CASE ~ (Unmount \/ Edit \/ PeerEdit
                \/ \E e \in Sockets : OnClose(e) \/ Publish(e) \/ Catchup(e) \/ Drop(e))
    <3>1. away' = away
      BY <2>6 DEF Next, sessionVars, Mount, TimerFires, MoveCursor, PeerCursor, Open, Receive, Add, SendNext,
                  Record, Expire
    <3> QED BY <3>1
  <2> QED BY <2>1, <2>2, <2>3, <2>4, <2>5, <2>6
<1> QED BY <1>1 DEF Spared

LEMMA RestoringNext ==
  ASSUME Flowing, Restoring, [Next]_sessionVars
  PROVE  Restoring'
<1> SUFFICES ASSUME NEW o, o \in Spared'
             PROVE  Kept(o)'
  BY DEF Restoring
<1>1. o \in Objects /\ Kept(o)
  BY SparedLess DEF Restoring, Spared
<1>2. CASE UNCHANGED sessionVars
  BY <1>1, <1>2, KeptUnchanged DEF sessionVars, socketVars, gatewayVars
<1>3. CASE Mount \/ TimerFires
  BY <1>1, <1>3, KeptConnect
<1>4. CASE Unmount
  BY <1>1, <1>4, KeptUnmount
<1>5. CASE Edit
  BY <1>1, <1>5, KeptEdit
<1>6. CASE MoveCursor
  BY <1>1, <1>6, KeptMoveCursor
<1>7. CASE PeerEdit
  BY <1>1, <1>7, KeptPeerEdit
<1>8. CASE PeerCursor
  BY <1>1, <1>8, KeptPeerCursor
<1>9. CASE \E e \in Sockets : Open(e)
  BY <1>1, <1>9, KeptOpen
<1>10. CASE \E e \in Sockets : OnClose(e)
  BY <1>1, <1>10, KeptOnClose
<1>11. CASE \E e \in Sockets : Receive(e)
  BY <1>1, <1>11, KeptReceive
<1>12. CASE \E e \in Sockets : Publish(e)
  BY <1>1, <1>12, KeptPublish
<1>13. CASE \E e \in Sockets : Drop(e)
  BY <1>1, <1>13, KeptDrop
<1>14. CASE \E e \in Sockets : Add(e)
  BY <1>1, <1>14, KeptAdd
<1>15. CASE \E e \in Sockets : SendNext(e)
  BY <1>1, <1>15, KeptSendNext
<1>16. CASE \E e \in Sockets : Catchup(e)
  BY <1>1, <1>16, KeptCatchup
<1>17. CASE \E p \in pump : Record(p)
  BY <1>1, <1>17, KeptRecord
<1>18. CASE \E id : Expire(id)
  <2>1. UNCHANGED <<last, ready, serving, sending, scene, up, down, pump, log>>
    BY <1>18 DEF Expire, socketVars, gatewayVars
  <2> QED BY <1>1, <2>1, KeptUnchanged
<1> QED BY <1>2, <1>3, <1>4, <1>5, <1>6, <1>7, <1>8, <1>9, <1>10, <1>11, <1>12, <1>13, <1>14, <1>15, <1>16, <1>17,
           <1>18 DEF Next

\* In every state Flowing and Restoring hold.
THEOREM AlwaysRestoring == Spec => [](Flowing /\ Restoring)
<1>1. Init => Restoring
  BY RestoringInit
<1>2. Flowing /\ Restoring /\ [Next]_sessionVars => Restoring'
  BY RestoringNext
<1> QED BY <1>1, <1>2, AlwaysFlowing, PTL DEF Spec

(***************************************************************************)
(* However often the connection was lost, a browser that is back and has   *)
(* received everything shows what the log says of every object but those   *)
(* whose op was not sent, was dropped or is a clear it was away for, and   *)
(* the raced ones (useDraw.ts:50-94, client.go:58-77, hub.go:104-107).     *)
(***************************************************************************)
THEOREM AlwaysRestores == Spec => []ReplayRestores
<1>1. Flowing /\ Restoring => ReplayRestores
  <2> SUFFICES ASSUME Flowing, Restoring, Quiet, NEW o \in Spared
               PROVE  Agree(o)
    BY DEF ReplayRestores, Spared
  <2>1. o \in Objects /\ Kept(o)
    BY DEF Restoring, Spared
  <2>2. Attached /\ Settled(o) /\ ~ Pending(o) /\ Coming = <<>> /\ ToReplay(log) = <<>>
    BY DEF Quiet, CaughtUp, Settled, Touches, Pending, Coming, ToReplay
  <2>3. Decides(<<>>, <<>>, scene[o], log, o)
    BY <2>1, <2>2 DEF Kept, Arriving
  <2>4. PICK v : Shows(log, 0, o, v) /\ Shows(<<>>, scene[o], o, v)
    BY <2>3 DEF Decides, Touches
  <2>5. v = scene[o]
    BY <2>4 DEF Shows, Touches
  <2>6. Rebuilt(log)[o] = v
    BY <2>1, <2>4, LogIn, ShowsRebuilt
  <2> QED BY <2>5, <2>6 DEF Agree
<1> QED BY <1>1, AlwaysRestoring, PTL

=============================================================================
