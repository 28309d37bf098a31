--------------------------- MODULE ConnectionProofs ---------------------------
(***************************************************************************)
(* Connection, for channels of any capacity and replays of any length: the *)
(* replay reaches the peer complete and in order up to where the           *)
(* connection broke, and live frames are never repeated or reordered.  The *)
(* inductive invariant Paying says how much of what the handler owes is on *)
(* the wire while the writer lives.                                        *)
(***************************************************************************)
EXTENDS Connection, TLAPS

\* The writer is started once, and holds a frame exactly while it writes one.
Held ==
  /\ handler \in {"add", "startWriter"} => writePump = "off"
  /\ writePump \in {"off", "select", "dead"} => writing = <<>>
  /\ writePump = "write" => Len(writing) = 1

\* What the handler still has to send is the rest of what it owes.
Rest ==
  /\ handler \in {"add", "startWriter", "hello", "catchup"} => replay = <<>> /\ fetched = 0
  /\ Len(replay) <= fetched
  /\ \A j \in DOMAIN replay : replay[j] = Replay(fetched - Len(replay) + j)

\* How much of it the handler has sent.
Sent == Due - Len(replay)

Arrived == \E n \in 0 .. Due : Paid(received, n)

LiveSoFar == \A i \in DOMAIN Wire : Wire[i].from = "live" => Wire[i].k <= live

Paying ==
  /\ TypeOK /\ Held /\ Rest
  /\ Arrived
  /\ writePump # "dead" => Paid(Wire, Sent)
  /\ LiveInOrder /\ LiveSoFar

-----------------------------------------------------------------------------
(* The frames the handler owes. *)

LEMMA OweNumbered ==
  \A k \in Nat : Owe(k).k = k /\ Owe(k).from # "live"
BY DEF Owe, Hello, Replay

\* The frames s has of those owed are the first n of them.
LEMMA PaidFrame ==
  ASSUME NEW n \in Nat, NEW s \in Seq(Frame), Paid(s, n)
  PROVE  /\ \A i \in DOMAIN s : s[i].from # "live" => s[i].k \in 0 .. n - 1 /\ s[i] = Owe(s[i].k)
         /\ \A k \in 0 .. n - 1 : \E i \in DOMAIN s : s[i] = Owe(k) /\ s[i].from # "live"
<1> DEFINE owed == {i \in DOMAIN s : s[i].from # "live"}
<1>1. {s[i] : i \in owed} = {Owe(k) : k \in 0 .. n - 1}
  BY DEF Paid
<1>2. ASSUME NEW i \in DOMAIN s, s[i].from # "live"
      PROVE  s[i].k \in 0 .. n - 1 /\ s[i] = Owe(s[i].k)
  <2>1. s[i] \in {Owe(k) : k \in 0 .. n - 1}
    BY <1>1, <1>2
  <2>2. PICK k \in 0 .. n - 1 : s[i] = Owe(k)
    BY <2>1
  <2>3. k \in Nat /\ s[i].k = k
    BY <2>2, OweNumbered
  <2> QED BY <2>2, <2>3
<1>3. ASSUME NEW k \in 0 .. n - 1
      PROVE  \E i \in DOMAIN s : s[i] = Owe(k) /\ s[i].from # "live"
  <2>1. Owe(k) \in {s[i] : i \in owed}
    BY <1>1
  <2> QED BY <2>1
<1> QED BY <1>2, <1>3

LEMMA PaidByFrames ==
  ASSUME NEW n \in Nat, NEW s \in Seq(Frame),
         \A i \in DOMAIN s : s[i].from # "live" => s[i].k \in 0 .. n - 1 /\ s[i] = Owe(s[i].k),
         \A k \in 0 .. n - 1 : \E i \in DOMAIN s : s[i] = Owe(k),
         \A i, j \in DOMAIN s :
           i < j /\ s[i].from # "live" /\ s[j].from # "live" => s[i].k < s[j].k
  PROVE  Paid(s, n)
<1> DEFINE owed == {i \in DOMAIN s : s[i].from # "live"}
<1>1. {s[i] : i \in owed} \subseteq {Owe(k) : k \in 0 .. n - 1}
  OBVIOUS
<1>2. ASSUME NEW k \in 0 .. n - 1
      PROVE  Owe(k) \in {s[i] : i \in owed}
  <2>1. PICK i \in DOMAIN s : s[i] = Owe(k)
    OBVIOUS
  <2>2. s[i].from # "live"
    BY <2>1, OweNumbered
  <2> QED BY <2>1, <2>2
<1>3. {s[i] : i \in owed} = {Owe(k) : k \in 0 .. n - 1}
  BY <1>1, <1>2
<1> QED BY <1>3 DEF Paid

\* A live frame in between changes nothing; the next frame owed is one more.
LEMMA PaidLive ==
  ASSUME NEW n \in Nat, NEW s \in Seq(Frame), Paid(s, n), NEW f \in Frame, f.from = "live"
  PROVE  Paid(Append(s, f), n)
<1> DEFINE t == Append(s, f)
<1>1. /\ t \in Seq(Frame) /\ DOMAIN t = 1 .. Len(s) + 1 /\ DOMAIN s = 1 .. Len(s) /\ Len(s) \in Nat
      /\ \A i \in DOMAIN s : t[i] = s[i]
      /\ t[Len(s) + 1] = f
  OBVIOUS
<1>2. \A i \in DOMAIN t : t[i].from # "live" => i \in DOMAIN s /\ t[i] = s[i]
  BY <1>1
<1>3. \A i \in DOMAIN t : t[i].from # "live" => t[i].k \in 0 .. n - 1 /\ t[i] = Owe(t[i].k)
  BY <1>2, PaidFrame
<1>4. ASSUME NEW k \in 0 .. n - 1
      PROVE  \E i \in DOMAIN t : t[i] = Owe(k)
  <2>1. PICK i \in DOMAIN s : s[i] = Owe(k)
    BY PaidFrame
  <2> QED BY <2>1, <1>1
<1>5. \A i, j \in DOMAIN t :
        i < j /\ t[i].from # "live" /\ t[j].from # "live" => t[i].k < t[j].k
  BY <1>2 DEF Paid
<1> HIDE DEF t
<1>6. Paid(t, n)
  BY <1>1, <1>3, <1>4, <1>5, PaidByFrames
<1> QED BY <1>6 DEF t

LEMMA PaidNext ==
  ASSUME NEW n \in Nat, NEW s \in Seq(Frame), Paid(s, n), Owe(n) \in Frame
  PROVE  Paid(Append(s, Owe(n)), n + 1)
<1> DEFINE t == Append(s, Owe(n))
           m == n + 1
<1>1. /\ t \in Seq(Frame) /\ DOMAIN t = 1 .. Len(s) + 1 /\ DOMAIN s = 1 .. Len(s) /\ Len(s) \in Nat
      /\ \A i \in DOMAIN s : t[i] = s[i]
      /\ t[Len(s) + 1] = Owe(n)
  OBVIOUS
<1>2. /\ Owe(n).k = n /\ Owe(n).from # "live"
      /\ \A i \in DOMAIN s : s[i].from # "live" => s[i].k \in 0 .. n - 1 /\ s[i] = Owe(s[i].k)
  BY PaidFrame, OweNumbered
<1>3. \A i \in DOMAIN t : t[i].from # "live" => t[i].k \in 0 .. m - 1 /\ t[i] = Owe(t[i].k)
  <2> SUFFICES ASSUME NEW i \in DOMAIN t, t[i].from # "live"
               PROVE  t[i].k \in 0 .. m - 1 /\ t[i] = Owe(t[i].k)
    OBVIOUS
  <2>1. CASE i \in DOMAIN s
    BY <2>1, <1>1, <1>2
  <2>2. CASE i = Len(s) + 1
    BY <2>2, <1>1, <1>2
  <2> QED BY <2>1, <2>2, <1>1
<1>4. \A k \in 0 .. m - 1 : \E i \in DOMAIN t : t[i] = Owe(k)
  <2> SUFFICES ASSUME NEW k \in 0 .. m - 1
               PROVE  \E i \in DOMAIN t : t[i] = Owe(k)
    OBVIOUS
  <2>1. CASE k \in 0 .. n - 1
    <3>1. PICK i \in DOMAIN s : s[i] = Owe(k)
      BY <2>1, PaidFrame
    <3> QED BY <3>1, <1>1
  <2>2. CASE k = n
    BY <2>2, <1>1
  <2> QED BY <2>1, <2>2
<1>5. \A i, j \in DOMAIN t :
        i < j /\ t[i].from # "live" /\ t[j].from # "live" => t[i].k < t[j].k
  <2> SUFFICES ASSUME NEW i \in DOMAIN t, NEW j \in DOMAIN t,
                      i < j, t[i].from # "live", t[j].from # "live"
               PROVE  t[i].k < t[j].k
    OBVIOUS
  <2>1. i \in DOMAIN s /\ t[i] = s[i]
    BY <1>1
  <2>2. CASE j \in DOMAIN s
    BY <2>1, <2>2, <1>1 DEF Paid
  <2>3. CASE j = Len(s) + 1
    BY <2>1, <2>3, <1>1, <1>2
  <2> QED BY <2>2, <2>3, <1>1
<1>6. m \in Nat
  OBVIOUS
<1> HIDE DEF t, m
<1>7. Paid(t, m)
  BY <1>1, <1>3, <1>4, <1>5, <1>6, PaidByFrames
<1> QED BY <1>7 DEF t, m

\* With what is left to send behind it, everything is paid.
LEMMA PaidRest ==
  ASSUME NEW n \in Nat, NEW s \in Seq(Frame), Paid(s, n), NEW t \in Seq(Frame),
         \A j \in DOMAIN t : t[j] = Owe(n + j - 1)
  PROVE  Paid(s \o t, n + Len(t))
<1> DEFINE u == s \o t
           m == n + Len(t)
<1>1. /\ u \in Seq(Frame) /\ DOMAIN u = 1 .. Len(s) + Len(t) /\ DOMAIN s = 1 .. Len(s)
      /\ Len(s) \in Nat /\ Len(t) \in Nat /\ DOMAIN t = 1 .. Len(t)
      /\ m \in Nat /\ m = n + Len(t)
      /\ \A i \in 1 .. Len(s) : u[i] = s[i]
      /\ \A j \in 1 .. Len(t) : u[Len(s) + j] = t[j]
  OBVIOUS
<1> HIDE DEF u, m
<1>2. \A i \in DOMAIN s : s[i].from # "live" => s[i].k \in 0 .. n - 1 /\ s[i] = Owe(s[i].k)
  BY PaidFrame
<1>3. ASSUME NEW i \in DOMAIN u
      PROVE  \/ i \in DOMAIN s /\ u[i] = s[i]
             \/ /\ i - Len(s) \in 1 .. Len(t) /\ u[i] = Owe(n + (i - Len(s)) - 1)
                /\ u[i].k = n + (i - Len(s)) - 1 /\ u[i].from # "live"
  <2>1. CASE i \in 1 .. Len(s)
    BY <2>1, <1>1
  <2>2. CASE i \notin 1 .. Len(s)
    <3> DEFINE j == i - Len(s)
    <3>1. j \in 1 .. Len(t) /\ i = Len(s) + j
      BY <2>2, <1>1
    <3>2. u[i] = t[j] /\ t[j] = Owe(n + j - 1) /\ n + j - 1 \in Nat
      BY <3>1, <1>1
    <3> QED BY <3>1, <3>2, OweNumbered
  <2> QED BY <2>1, <2>2
<1>4. ASSUME NEW i \in DOMAIN u, u[i].from # "live"
      PROVE  u[i].k \in 0 .. m - 1 /\ u[i] = Owe(u[i].k)
  <2>1. CASE i \in DOMAIN s /\ u[i] = s[i]
    <3>1. u[i].k \in 0 .. n - 1 /\ u[i] = Owe(u[i].k)
      BY <2>1, <1>2, <1>4
    <3>2. m = n + Len(t) /\ Len(t) \in Nat
      BY <1>1
    <3> QED BY <3>1, <3>2
  <2>2. CASE /\ i - Len(s) \in 1 .. Len(t) /\ u[i] = Owe(n + (i - Len(s)) - 1)
             /\ u[i].k = n + (i - Len(s)) - 1
    <3> DEFINE d == i - Len(s)
    <3>1. d \in 1 .. Len(t) /\ u[i] = Owe(n + d - 1) /\ u[i].k = n + d - 1
      BY <2>2
    <3>2. m = n + Len(t) /\ Len(t) \in Nat
      BY <1>1
    <3> HIDE DEF d
    <3> QED BY <3>1, <3>2
  <2> QED BY <2>1, <2>2, <1>3
<1>5. ASSUME NEW k \in 0 .. m - 1
      PROVE  \E i \in DOMAIN u : u[i] = Owe(k)
  <2>1. CASE k \in 0 .. n - 1
    <3>1. PICK i \in DOMAIN s : s[i] = Owe(k)
      BY <2>1, PaidFrame
    <3> QED BY <3>1, <1>1
  <2>2. CASE k \notin 0 .. n - 1
    <3> DEFINE j == k - n + 1
    <3>1. j \in 1 .. Len(t) /\ n + j - 1 = k
      <4>1. m = n + Len(t) /\ Len(t) \in Nat
        BY <1>1
      <4> QED BY <2>2, <4>1
    <3> HIDE DEF j
    <3>2. Len(s) + j \in DOMAIN u /\ u[Len(s) + j] = t[j]
      <4>1. Len(s) \in Nat /\ Len(t) \in Nat /\ DOMAIN u = 1 .. Len(s) + Len(t)
        BY <1>1
      <4>2. Len(s) + j \in DOMAIN u
        BY <3>1, <4>1
      <4> QED BY <3>1, <4>2, <1>1
    <3>3. t[j] = Owe(n + j - 1)
      BY <3>1, <1>1
    <3> QED BY <3>1, <3>2, <3>3
  <2> QED BY <2>1, <2>2
<1>6. ASSUME NEW i \in DOMAIN u, NEW j \in DOMAIN u,
             i < j, u[i].from # "live", u[j].from # "live"
      PROVE  u[i].k < u[j].k
  <2>1. CASE i \in DOMAIN s /\ j \in DOMAIN s
    <3>1. u[i] = s[i] /\ u[j] = s[j]
      BY <2>1, <1>1
    <3> QED BY <3>1, <2>1, <1>6 DEF Paid
  <2>2. CASE i \in DOMAIN s /\ j \notin DOMAIN s
    <3>1. u[i] = s[i] /\ s[i].k < n /\ s[i].k \in Nat
      BY <2>2, <1>1, <1>2, <1>6
    <3>2. u[j].k = n + (j - Len(s)) - 1 /\ j - Len(s) \in 1 .. Len(t)
      BY <2>2, <1>3
    <3> DEFINE d == j - Len(s)
    <3>3. d \in 1 .. Len(t) /\ u[j].k = n + d - 1
      BY <3>2
    <3> HIDE DEF d
    <3>4. s[i].k < n + d - 1
      BY <3>1, <3>3
    <3> QED BY <3>1, <3>3, <3>4
  <2>3. CASE i \notin DOMAIN s
    <3>1. j \notin DOMAIN s
      BY <2>3, <1>1, <1>6
    <3>2. u[j].k = n + (j - Len(s)) - 1 /\ u[i].k = n + (i - Len(s)) - 1
      BY <2>3, <3>1, <1>3
    <3> QED BY <3>2, <1>1, <1>6
  <2> QED BY <2>1, <2>2, <2>3
<1>7. Paid(u, m)
  BY <1>1, <1>4, <1>5, <1>6, PaidByFrames
<1> QED BY <1>7 DEF u, m

\* What arrives next extends what has arrived, whatever follows it.
LEMMA PaidUpTo ==
  ASSUME NEW n \in Nat, NEW s \in Seq(Frame), NEW f \in Frame, NEW t \in Seq(Frame),
         Paid(s \o <<f>> \o t, n), \E m \in 0 .. n : Paid(s, m)
  PROVE  \E m \in 0 .. n : Paid(Append(s, f), m)
<1> DEFINE u == s \o <<f>> \o t
<1>1. PICK m \in 0 .. n : Paid(s, m)
  OBVIOUS
<1>2. /\ u \in Seq(Frame) /\ DOMAIN s = 1 .. Len(s) /\ Len(s) \in Nat
      /\ DOMAIN u = 1 .. Len(s) + 1 + Len(t) /\ Len(t) \in Nat
      /\ \A i \in DOMAIN s : u[i] = s[i]
      /\ u[Len(s) + 1] = f
  OBVIOUS
<1>3. CASE f.from = "live"
  <2>1. Paid(Append(s, f), m)
    BY <1>1, <1>3, PaidLive
  <2> QED BY <2>1
<1> HIDE DEF u
<1>4. CASE f.from # "live"
  <2>1. /\ \A i \in DOMAIN u : u[i].from # "live" => u[i].k \in 0 .. n - 1 /\ u[i] = Owe(u[i].k)
        /\ \A l \in 0 .. n - 1 : \E i \in DOMAIN u : u[i] = Owe(l) /\ u[i].from # "live"
        /\ \A i, j \in DOMAIN u :
             i < j /\ u[i].from # "live" /\ u[j].from # "live" => u[i].k < u[j].k
    <3>1. Paid(u, n)
      BY DEF u
    <3> QED BY <3>1, <1>2, PaidFrame DEF Paid
  <2>2. PICK k \in 0 .. n - 1 : k = f.k /\ f = Owe(k)
    BY <2>1, <1>2, <1>4
  <2>3. ASSUME NEW i \in DOMAIN s, s[i].from # "live"
        PROVE  s[i].k < k
    <3>1. i \in DOMAIN u /\ Len(s) + 1 \in DOMAIN u /\ i < Len(s) + 1
      BY <1>2
    <3>2. u[i] = s[i] /\ u[Len(s) + 1] = f
      BY <1>2
    <3>3. u[i].k < u[Len(s) + 1].k
      BY <3>1, <3>2, <2>1, <2>3, <1>4
    <3> QED BY <3>2, <3>3, <2>2
  <2>4. ASSUME NEW l \in 0 .. k - 1
        PROVE  \E i \in DOMAIN s : s[i] = Owe(l) /\ s[i].from # "live"
    <3>1. l \in 0 .. n - 1 /\ Owe(l).k = l
      BY <2>2, OweNumbered
    <3>2. PICK i \in DOMAIN u : u[i] = Owe(l) /\ u[i].from # "live"
      BY <3>1, <2>1
    <3>3. u[i].k = l /\ Len(s) + 1 \in DOMAIN u /\ u[Len(s) + 1].k = k
      BY <3>1, <3>2, <2>2, <1>2
    <3>4. l < k
      BY <2>2
    <3>5. ~ (Len(s) + 1 < i)
      <4>1. Len(s) + 1 < i => k < l
        BY <3>2, <3>3, <2>1, <1>2, <1>4
      <4> QED BY <4>1, <3>4, <2>2
    <3>6. i # Len(s) + 1
      BY <3>3, <3>4, <2>2
    <3>7. i \in DOMAIN s
      BY <3>5, <3>6, <1>2
    <3> QED BY <3>2, <3>7, <1>2
  <2>5. m = k
    <3>1. ASSUME k < m
          PROVE  FALSE
      <4>1. k \in 0 .. m - 1
        BY <3>1, <2>2
      <4>2. PICK i \in DOMAIN s : s[i] = Owe(k) /\ s[i].from # "live"
        BY <4>1, <1>1, PaidFrame
      <4>3. s[i].k = k
        BY <4>2, <2>2, OweNumbered
      <4> QED BY <4>2, <4>3, <2>2, <2>3
    <3>2. ASSUME m < k
          PROVE  FALSE
      <4>1. m \in 0 .. k - 1
        BY <3>2, <2>2
      <4>2. PICK i \in DOMAIN s : s[i] = Owe(m) /\ s[i].from # "live"
        BY <4>1, <2>4
      <4>3. s[i].k \in 0 .. m - 1
        BY <4>2, <1>1, PaidFrame
      <4>4. s[i].k = m
        BY <4>2, OweNumbered
      <4> QED BY <4>3, <4>4
    <3> QED BY <3>1, <3>2, <2>2
  <2>6. Paid(Append(s, Owe(k)), k + 1)
    <3>1. Paid(s, k)
      BY <2>5, <1>1
    <3>2. k \in Nat
      BY <2>2
    <3>3. Owe(k) \in Frame
      BY <2>2
    <3> QED BY <3>1, <3>2, <3>3, PaidNext
  <2> QED BY <2>2, <2>6
<1> QED BY <1>3, <1>4

-----------------------------------------------------------------------------
(* The shape of the state. *)

LEMMA Frames ==
  /\ Hello \in Frame
  /\ \A k \in 0 .. MaxReplay : Replay(k) \in Frame
  /\ \A k \in 0 .. MaxLive : Live(k) \in Frame /\ Live(k).from = "live" /\ Live(k).k = k
BY BoundsNat DEF Hello, Replay, Live, Frame

LEMMA TypeInit == Init => TypeOK
<1>1. <<>> \in Seq(Frame) /\ Len(<<>>) = 0
  OBVIOUS
<1>2. 0 \in 0 .. MaxReplay /\ 0 \in 0 .. MaxLive /\ 0 <= SendBuffer /\ 0 <= 1
  BY BoundsNat, SendBufferPositive
<1> SUFFICES ASSUME Init
             PROVE  TypeOK
  OBVIOUS
<1>3. replay \in Seq(Frame) /\ send \in Seq(Frame) /\ writing \in Seq(Frame) /\ received \in Seq(Frame)
  BY <1>1 DEF Init
<1>4. Len(send) <= SendBuffer /\ Len(writing) <= 1
  BY <1>1, <1>2 DEF Init
<1> QED BY <1>2, <1>3, <1>4 DEF Init, TypeOK

LEMMA TypeNext ==
  ASSUME TypeOK, [Next]_connVars
  PROVE  TypeOK'
<1> USE DEF TypeOK
<1>1. CASE Handler
  <2>1. CASE Add \/ StartWriter \/ StartReader
    BY <2>1 DEF Add, StartWriter, StartReader
  <2>2. CASE SendHello
    BY <2>2, Frames, SendBufferPositive DEF SendHello
  <2>3. CASE Catchup
    <3>1. PICK n \in 0 .. MaxReplay : fetched' = n /\ replay' = [k \in 1 .. n |-> Replay(k)]
      BY <2>3 DEF Catchup
    <3>2. n \in Nat /\ \A k \in 1 .. n : Replay(k) \in Frame
      BY Frames, BoundsNat
    <3>3. replay' \in Seq(Frame)
      BY <3>1, <3>2
    <3> QED BY <2>3, <3>1, <3>3 DEF Catchup
  <2>4. CASE SendReplay
    BY <2>4, SendBufferPositive DEF SendReplay
  <2> QED BY <1>1, <2>1, <2>2, <2>3, <2>4 DEF Handler
<1>2. CASE TakeFrame
  <2>1. writing' \in Seq(Frame) /\ Len(writing') = 1 /\ send' \in Seq(Frame) /\ Len(send') = Len(send) - 1
    BY <1>2 DEF TakeFrame
  <2> QED BY <1>2, <2>1, SendBufferPositive DEF TakeFrame
<1>3. CASE WriteFrame
  BY <1>3 DEF WriteFrame
<1>4. CASE WriteFails
  BY <1>4 DEF WriteFails
<1>5. CASE ReadFails \/ RemoveClient \/ Close \/ Disconnect
  BY <1>5 DEF ReadFails, RemoveClient, Close, Disconnect
<1>6. CASE DeliverLocal
  <2>1. live + 1 \in 0 .. MaxLive /\ Live(live + 1) \in Frame
    BY <1>6, Frames, BoundsNat DEF DeliverLocal
  <2>2. send' \in Seq(Frame) /\ Len(send') <= SendBuffer
    BY <1>6, <2>1, SendBufferPositive DEF DeliverLocal
  <2> QED BY <1>6, <2>1, <2>2 DEF DeliverLocal
<1>7. CASE UNCHANGED connVars
  BY <1>7 DEF connVars
<1> QED BY <1>1, <1>2, <1>3, <1>4, <1>5, <1>6, <1>7 DEF Next, Writer, Reader

\* Every step keeps a frame in the writer's hands only while it writes.
LEMMA HeldNext ==
  ASSUME TypeOK, Held, [Next]_connVars
  PROVE  Held'
<1> USE DEF Held
<1>1. CASE TakeFrame
  BY <1>1 DEF TakeFrame
<1>2. CASE WriteFrame \/ WriteFails
  BY <1>2 DEF WriteFrame, WriteFails
<1>3. CASE StartWriter
  BY <1>3 DEF StartWriter, TypeOK
<1>4. CASE UNCHANGED <<writePump, writing>> /\ (handler' \in {"add", "startWriter"} => handler \in {"add", "startWriter"})
  BY <1>4
<1> QED BY <1>1, <1>2, <1>3, <1>4 DEF Next, Handler, Writer, Reader, Add, SendHello, Catchup,
        SendReplay, StartReader, ReadFails, RemoveClient, Close, DeliverLocal, Disconnect, connVars

-----------------------------------------------------------------------------
(* What is on the wire. *)

LEMMA WireType ==
  ASSUME TypeOK
  PROVE  Wire \in Seq(Frame)
BY DEF TypeOK, Wire

LEMMA AppendedLast ==
  ASSUME NEW S, NEW r \in Seq(S), NEW w \in Seq(S), NEW q \in Seq(S), NEW f \in S
  PROVE  r \o w \o Append(q, f) = Append(r \o w \o q, f)
  OBVIOUS

LEMMA HeadTaken ==
  ASSUME NEW S, NEW r \in Seq(S), NEW q \in Seq(S), q # <<>>
  PROVE  r \o <<Head(q)>> \o Tail(q) = r \o <<>> \o q
  OBVIOUS

LEMMA WireAppended ==
  ASSUME TypeOK, NEW f \in Frame,
         received' = received, writing' = writing, send' = Append(send, f)
  PROVE  Wire' = Append(Wire, f)
<1>1. received \in Seq(Frame) /\ writing \in Seq(Frame) /\ send \in Seq(Frame)
  BY DEF TypeOK
<1>2. received \o writing \o Append(send, f) = Append(received \o writing \o send, f)
  BY <1>1, AppendedLast
<1> QED BY <1>2 DEF Wire

\* A frame that moves from the channel to the writer to the peer stays where it is on the wire.
LEMMA WireTaken ==
  ASSUME TypeOK, Held, TakeFrame
  PROVE  Wire' = Wire
<1>1. received \in Seq(Frame) /\ writing = <<>> /\ send \in Seq(Frame) /\ send # <<>>
  BY DEF TypeOK, Held, TakeFrame
<1>2. received \o <<Head(send)>> \o Tail(send) = received \o <<>> \o send
  BY <1>1, HeadTaken
<1> QED BY <1>1, <1>2 DEF Wire, TakeFrame

LEMMA WireWritten ==
  ASSUME TypeOK, Held, WriteFrame
  PROVE  Wire' = Wire
BY DEF TypeOK, Held, Wire, WriteFrame

\* A live frame that is younger than all of them keeps them in order.
LEMMA LiveAppended ==
  ASSUME TypeOK, LiveInOrder, LiveSoFar, TypeOK', NEW f \in Frame, Wire' = Append(Wire, f),
         \/ f.from # "live" /\ live' = live
         \/ f.k = live + 1 /\ live' = live + 1
  PROVE  LiveInOrder' /\ LiveSoFar'
<1>1. /\ DOMAIN Wire = 1 .. Len(Wire) /\ Len(Wire) \in Nat
      /\ DOMAIN Wire' = 1 .. Len(Wire) + 1
      /\ \A i \in DOMAIN Wire : Wire'[i] = Wire[i] /\ Wire[i].k \in Nat
      /\ Wire'[Len(Wire) + 1] = f
      /\ live \in Nat
  <2>1. Wire \in Seq(Frame) /\ live \in Nat
    BY WireType, BoundsNat DEF TypeOK
  <2> HIDE DEF Wire
  <2>2. \A i \in DOMAIN Wire : Wire[i] \in Frame
    BY <2>1
  <2>3. \A g \in Frame : g.k \in Nat
    BY BoundsNat DEF Frame
  <2> QED BY <2>1, <2>2, <2>3
<1>2. \A i \in DOMAIN Wire' : i \in DOMAIN Wire \/ i = Len(Wire) + 1
  BY <1>1
<1>3. LiveSoFar'
  <2> SUFFICES ASSUME NEW i \in DOMAIN Wire', Wire'[i].from = "live"
               PROVE  Wire'[i].k <= live'
    BY DEF LiveSoFar
  <2>1. CASE i \in DOMAIN Wire
    BY <2>1, <1>1 DEF LiveSoFar
  <2>2. CASE i = Len(Wire) + 1
    BY <2>2, <1>1
  <2> QED BY <2>1, <2>2, <1>2
<1>4. LiveInOrder'
  <2> SUFFICES ASSUME NEW i \in DOMAIN Wire', NEW j \in DOMAIN Wire', i < j,
                      Wire'[i].from = "live", Wire'[j].from = "live"
               PROVE  Wire'[i].k < Wire'[j].k
    BY DEF LiveInOrder
  <2>1. i \in DOMAIN Wire /\ Wire'[i] = Wire[i]
    BY <1>1
  <2>2. CASE j \in DOMAIN Wire
    BY <2>1, <2>2, <1>1 DEF LiveInOrder
  <2>3. CASE j = Len(Wire) + 1
    BY <2>1, <2>3, <1>1 DEF LiveSoFar
  <2> QED BY <2>2, <2>3, <1>2
<1> QED BY <1>3, <1>4

-----------------------------------------------------------------------------
(* The invariant, action by action. *)

LEMMA PayingInit == Init => Paying
<1> SUFFICES ASSUME Init
             PROVE  Paying
  OBVIOUS
<1>1. TypeOK /\ Held
  BY TypeInit DEF Init, Held
<1>2. Wire = <<>> /\ received = <<>> /\ replay = <<>> /\ Due = 0 /\ Sent = 0
  BY DEF Init, Wire, Due, Sent
<1>3. Paid(<<>>, 0)
  <2>1. {i \in DOMAIN <<>> : <<>>[i].from # "live"} = {} /\ {Owe(k) : k \in 0 .. 0 - 1} = {}
    OBVIOUS
  <2> QED BY <2>1 DEF Paid
<1>4. Rest /\ LiveInOrder /\ LiveSoFar
  BY <1>2 DEF Init, Rest, LiveInOrder, LiveSoFar
<1> QED BY <1>1, <1>2, <1>3, <1>4 DEF Paying, Arrived

LEMMA DueNat ==
  ASSUME TypeOK, Rest
  PROVE  Due \in Nat /\ Sent \in Nat /\ Len(replay) \in Nat /\ Due <= MaxReplay + 1 /\ fetched \in Nat
<1>1. Len(replay) \in Nat /\ fetched \in Nat /\ fetched <= MaxReplay
  BY BoundsNat DEF TypeOK
<1>2. CASE handler \in {"add", "startWriter", "hello"}
  <2>1. Len(replay) = 0 /\ Due = 0
    BY <1>2 DEF Rest, Due
  <2> QED BY <2>1, <1>1, BoundsNat DEF Sent
<1>3. CASE handler \notin {"add", "startWriter", "hello"}
  <2>1. Due = fetched + 1 /\ Len(replay) <= fetched
    BY <1>3 DEF Rest, Due
  <2> QED BY <2>1, <1>1, BoundsNat DEF Sent
<1> QED BY <1>2, <1>3

\* Steps that move no frame.
LEMMA PayingSilent ==
  ASSUME Paying, TypeOK', Held', UNCHANGED <<replay, fetched, send, writing, live, received>>,
         Due' = Due, writePump' # "dead" => writePump # "dead",
         handler' \in {"add", "startWriter", "hello", "catchup"} =>
           handler \in {"add", "startWriter", "hello", "catchup"}
  PROVE  Paying'
<1>1. Wire' = Wire /\ Sent' = Sent
  BY DEF Wire, Sent
<1>2. Rest'
  BY DEF Paying, Rest
<1>3. Arrived' /\ (writePump' # "dead" => Paid(Wire', Sent'))
  BY <1>1 DEF Paying, Arrived, Paid
<1>4. LiveInOrder' /\ LiveSoFar'
  BY <1>1 DEF Paying, LiveInOrder, LiveSoFar
<1> QED BY <1>2, <1>3, <1>4 DEF Paying

LEMMA PayingHello ==
  ASSUME Paying, TypeOK', Held', SendHello
  PROVE  Paying'
<1>1. /\ handler = "hello" /\ handler' = "catchup" /\ replay' = replay /\ fetched' = fetched
      /\ received' = received /\ writing' = writing /\ send' = Append(send, Hello)
      /\ live' = live /\ writePump' = writePump
  BY DEF SendHello
<1>2. TypeOK /\ Rest /\ replay = <<>> /\ fetched = 0
  BY <1>1 DEF Paying, Rest
<1>3. Due = 0 /\ Due' = 1 /\ Sent = 0 /\ Sent' = 1 /\ Owe(0) = Hello
  BY <1>1, <1>2 DEF Due, Sent, Owe
<1>4. Wire' = Append(Wire, Hello) /\ Hello.from # "live"
  BY <1>1, <1>2, Frames, WireAppended DEF Hello
<1>5. Rest'
  BY <1>1, <1>2 DEF Rest
<1>6. Arrived'
  <2>1. PICK n \in 0 .. Due : Paid(received, n)
    BY DEF Paying, Arrived
  <2>2. n \in 0 .. Due' /\ Paid(received', n)
    BY <2>1, <1>1, <1>3
  <2> QED BY <2>2 DEF Arrived
<1>7. ASSUME writePump' # "dead"
      PROVE  Paid(Wire', Sent')
  <2>1. Paid(Wire, 0) /\ Wire \in Seq(Frame)
    BY <1>1, <1>2, <1>3, <1>7, WireType DEF Paying
  <2>2. Paid(Append(Wire, Owe(0)), 0 + 1)
    BY <2>1, <1>3, Frames, PaidNext
  <2> QED BY <2>2, <1>3, <1>4
<1>8. LiveInOrder' /\ LiveSoFar'
  BY <1>1, <1>2, <1>4, Frames, LiveAppended DEF Paying
<1> QED BY <1>5, <1>6, <1>7, <1>8 DEF Paying

LEMMA PayingCatchup ==
  ASSUME Paying, TypeOK', Held', Catchup
  PROVE  Paying'
<1>1. PICK n \in 0 .. MaxReplay : fetched' = n /\ replay' = [k \in 1 .. n |-> Replay(k)]
  BY DEF Catchup
<1>2. /\ handler = "catchup" /\ handler' = "replay" /\ received' = received /\ writing' = writing
      /\ send' = send /\ live' = live /\ writePump' = writePump
  BY DEF Catchup
<1>3. n \in Nat /\ TypeOK /\ Rest /\ replay = <<>> /\ fetched = 0
  BY <1>2, BoundsNat DEF Paying, Rest
<1>4. Len(replay') = n /\ DOMAIN replay' = 1 .. n /\ \A k \in 1 .. n : replay'[k] = Replay(k)
  BY <1>1, <1>3
<1>5. Due = 1 /\ Due' = n + 1 /\ Sent = 1 /\ Sent' = 1 /\ Wire' = Wire
  BY <1>1, <1>2, <1>3, <1>4 DEF Due, Sent, Wire
<1>6. Rest'
  <2>1. \A j \in DOMAIN replay' : fetched' - Len(replay') + j = j
    BY <1>1, <1>3, <1>4
  <2> QED BY <2>1, <1>1, <1>2, <1>3, <1>4 DEF Rest
<1>7. Arrived'
  <2>1. PICK m \in 0 .. Due : Paid(received, m)
    BY DEF Paying, Arrived
  <2>2. m \in 0 .. Due' /\ Paid(received', m)
    BY <2>1, <1>2, <1>3, <1>5
  <2> QED BY <2>2 DEF Arrived
<1>8. writePump' # "dead" => Paid(Wire', Sent')
  BY <1>2, <1>5 DEF Paying
<1>9. LiveInOrder' /\ LiveSoFar'
  BY <1>2, <1>5 DEF Paying, LiveInOrder, LiveSoFar
<1> QED BY <1>6, <1>7, <1>8, <1>9 DEF Paying

LEMMA PayingReplay ==
  ASSUME Paying, TypeOK', Held', SendReplay
  PROVE  Paying'
<1> DEFINE f == Head(replay)
<1>1. /\ handler = "replay" /\ handler' = handler /\ received' = received /\ writing' = writing
      /\ replay # <<>> /\ send' = Append(send, f) /\ replay' = Tail(replay)
      /\ fetched' = fetched /\ live' = live /\ writePump' = writePump
  BY DEF SendReplay
<1>2. TypeOK /\ Rest
  BY DEF Paying
<1>3. /\ Len(replay') = Len(replay) - 1 /\ Len(replay) \in Nat \ {0} /\ f = replay[1] /\ f \in Frame
      /\ 1 \in DOMAIN replay /\ DOMAIN replay' = 1 .. Len(replay) - 1
      /\ \A j \in DOMAIN replay' : j + 1 \in DOMAIN replay /\ replay'[j] = replay[j + 1]
  BY <1>1, <1>2 DEF TypeOK
<1>4. Due' = Due /\ Sent' = Sent + 1 /\ Sent \in Nat \ {0} /\ Sent = fetched + 1 - Len(replay)
  BY <1>1, <1>2, <1>3, DueNat DEF Due, Sent, Rest
<1>5. f = Owe(Sent)
  <2>1. f = Replay(fetched - Len(replay) + 1)
    BY <1>2, <1>3 DEF Rest
  <2>2. fetched - Len(replay) + 1 = Sent
    BY <1>4, <1>2, <1>3, DueNat
  <2> QED BY <2>1, <2>2, <1>4 DEF Owe
<1>6. Rest'
  <2>1. Len(replay') <= fetched'
    BY <1>1, <1>2, <1>3, DueNat DEF Rest
  <2>2. ASSUME NEW j \in DOMAIN replay'
        PROVE  replay'[j] = Replay(fetched' - Len(replay') + j)
    <3>1. replay'[j] = Replay(fetched - Len(replay) + (j + 1))
      BY <1>2, <1>3 DEF Rest
    <3>2. fetched - Len(replay) + (j + 1) = fetched' - Len(replay') + j
      BY <1>1, <1>2, <1>3, DueNat
    <3> QED BY <3>1, <3>2
  <2> QED BY <2>1, <2>2, <1>1 DEF Rest
<1>7. Arrived'
  BY <1>1, <1>4 DEF Paying, Arrived
<1> HIDE DEF f
<1>8. Wire' = Append(Wire, f) /\ Wire \in Seq(Frame)
  BY <1>1, <1>2, <1>3, WireAppended, WireType
<1>9. ASSUME writePump' # "dead"
      PROVE  Paid(Wire', Sent')
  <2>1. Paid(Wire, Sent)
    BY <1>1, <1>9 DEF Paying
  <2>2. Paid(Append(Wire, Owe(Sent)), Sent + 1)
    BY <2>1, <1>3, <1>4, <1>5, <1>8, PaidNext
  <2> QED BY <2>2, <1>4, <1>5, <1>8
<1>10. LiveInOrder' /\ LiveSoFar'
  <2>1. f.from # "live"
    BY <1>4, <1>5, OweNumbered
  <2> QED BY <2>1, <1>1, <1>2, <1>3, <1>8, LiveAppended DEF Paying
<1> QED BY <1>6, <1>7, <1>9, <1>10 DEF Paying

LEMMA PayingTake ==
  ASSUME Paying, TypeOK', Held', TakeFrame
  PROVE  Paying'
<1>1. /\ handler' = handler /\ replay' = replay /\ fetched' = fetched /\ received' = received
      /\ live' = live /\ writePump # "dead" /\ Wire' = Wire
  BY WireTaken DEF Paying, TakeFrame
<1>2. Due' = Due /\ Sent' = Sent /\ Rest'
  BY <1>1 DEF Due, Sent, Paying, Rest
<1>3. Arrived'
  BY <1>1, <1>2 DEF Paying, Arrived
<1>4. Paid(Wire', Sent') /\ LiveInOrder' /\ LiveSoFar'
  BY <1>1, <1>2 DEF Paying, LiveInOrder, LiveSoFar
<1> QED BY <1>2, <1>3, <1>4 DEF Paying

LEMMA PayingWrite ==
  ASSUME Paying, TypeOK', Held', WriteFrame
  PROVE  Paying'
<1>1. /\ handler' = handler /\ replay' = replay /\ fetched' = fetched /\ send' = send
      /\ received' = received \o writing /\ live' = live /\ writePump = "write" /\ Wire' = Wire
  BY WireWritten DEF Paying, WriteFrame
<1>2. Due' = Due /\ Sent' = Sent /\ Rest' /\ TypeOK /\ Held /\ Rest
  BY <1>1 DEF Due, Sent, Paying, Rest
<1>3. Arrived'
  <2> DEFINE f == writing[1]
  <2>1. f \in Frame /\ writing = <<f>> /\ received \in Seq(Frame) /\ send \in Seq(Frame)
    <3>1. writing \in Seq(Frame) /\ Len(writing) = 1
      BY <1>1, <1>2 DEF TypeOK, Held
    <3>2. writing = <<f>> /\ f \in Frame
      BY <3>1
    <3> QED BY <3>2, <1>2 DEF TypeOK
  <2> HIDE DEF f
  <2>2. received' = Append(received, f)
    <3>1. received \o <<f>> = Append(received, f)
      BY <2>1
    <3> QED BY <1>1, <2>1, <3>1
  <2>3. Paid(received \o <<f>> \o send, Sent)
    BY <1>1, <2>1 DEF Paying, Wire
  <2>4. PICK n \in 0 .. Due : Paid(received, n)
    BY DEF Paying, Arrived
  <2>5. n <= Sent
    <3>1. CASE n = 0
      BY <3>1, <1>2, DueNat
    <3>2. CASE n # 0
      <4>1. n - 1 \in 0 .. n - 1 /\ n \in Nat
        BY <3>2, <2>4
      <4>2. PICK i \in DOMAIN received : received[i] = Owe(n - 1) /\ received[i].from # "live"
        BY <4>1, <2>1, <2>4, PaidFrame
      <4> DEFINE s == received \o <<f>> \o send
      <4>3. s \in Seq(Frame) /\ i \in DOMAIN s /\ s[i] = received[i]
        BY <2>1
      <4>4. Sent \in Nat /\ Paid(s, Sent)
        BY <2>3, <1>2, DueNat
      <4> HIDE DEF s
      <4>5. s[i].k \in 0 .. Sent - 1
        BY <4>2, <4>3, <4>4, PaidFrame
      <4>6. s[i].k = n - 1
        BY <4>1, <4>2, <4>3, OweNumbered
      <4> QED BY <4>1, <4>4, <4>5, <4>6
    <3> QED BY <3>1, <3>2
  <2>6. Sent \in Nat /\ Due \in Nat /\ Sent <= Due
    BY <1>2, DueNat DEF Sent
  <2>7. n \in 0 .. Sent
    BY <2>4, <2>5, <2>6
  <2>8. \E m \in 0 .. Sent : Paid(Append(received, f), m)
    BY <2>1, <2>3, <2>4, <2>6, <2>7, PaidUpTo
  <2>9. PICK m \in 0 .. Sent : Paid(received', m)
    BY <2>2, <2>8
  <2>10. m \in 0 .. Due'
    BY <2>6, <1>2
  <2> QED BY <2>9, <2>10 DEF Arrived
<1>4. Paid(Wire', Sent') /\ LiveInOrder' /\ LiveSoFar'
  BY <1>1, <1>2 DEF Paying, LiveInOrder, LiveSoFar
<1> QED BY <1>2, <1>3, <1>4 DEF Paying

\* The frame in the writer's hands is lost; nothing is promised of what follows the replay's break.
LEMMA PayingFails ==
  ASSUME Paying, TypeOK', Held', WriteFails
  PROVE  Paying'
<1>1. /\ handler' = handler /\ replay' = replay /\ fetched' = fetched /\ send' = send
      /\ received' = received /\ writing' = <<>> /\ live' = live /\ writePump' = "dead"
  BY DEF WriteFails
<1>2. Due' = Due /\ Rest' /\ Arrived'
  BY <1>1 DEF Due, Paying, Rest, Arrived
<1>3. PICK shift \in [DOMAIN Wire' -> DOMAIN Wire] :
        /\ \A i \in DOMAIN Wire' : Wire'[i] = Wire[shift[i]]
        /\ \A i, j \in DOMAIN Wire' : i < j => shift[i] < shift[j]
  <2>1. received \in Seq(Frame) /\ send \in Seq(Frame) /\ writing \in Seq(Frame)
    BY DEF Paying, TypeOK
  <2> DEFINE shift == [i \in DOMAIN Wire' |-> IF i <= Len(received) THEN i ELSE i + Len(writing)]
  <2>2. /\ Len(received) \in Nat /\ Len(writing) \in Nat /\ Len(send) \in Nat
        /\ DOMAIN Wire = 1 .. Len(received) + Len(writing) + Len(send)
        /\ DOMAIN Wire' = 1 .. Len(received) + Len(send)
        /\ \A i \in 1 .. Len(received) : Wire[i] = received[i] /\ Wire'[i] = received[i]
        /\ \A i \in 1 .. Len(send) : /\ Wire[Len(received) + Len(writing) + i] = send[i]
                                     /\ Wire'[Len(received) + i] = send[i]
    BY <2>1, <1>1 DEF Wire
  <2>3. shift \in [DOMAIN Wire' -> DOMAIN Wire]
    BY <2>2
  <2>4. ASSUME NEW i \in DOMAIN Wire'
        PROVE  Wire'[i] = Wire[shift[i]]
    <3>1. CASE i <= Len(received)
      BY <3>1, <2>2
    <3>2. CASE ~ (i <= Len(received))
      <4> DEFINE k == i - Len(received)
      <4>1. k \in 1 .. Len(send) /\ i = Len(received) + k /\ shift[i] = Len(received) + Len(writing) + k
        BY <3>2, <2>2
      <4> QED BY <4>1, <2>2
    <3> QED BY <3>1, <3>2
  <2>5. \A i, j \in DOMAIN Wire' : i < j => shift[i] < shift[j]
    BY <2>2
  <2> QED BY <2>3, <2>4, <2>5
<1>4. LiveSoFar'
  BY <1>1, <1>3 DEF Paying, LiveSoFar
<1>5. LiveInOrder'
  BY <1>3 DEF Paying, LiveInOrder
<1> QED BY <1>1, <1>2, <1>4, <1>5 DEF Paying

LEMMA PayingDeliver ==
  ASSUME Paying, TypeOK', Held', DeliverLocal
  PROVE  Paying'
<1> DEFINE f == Live(live + 1)
<1>1. /\ handler' = handler /\ received' = received /\ writing' = writing /\ replay' = replay
      /\ fetched' = fetched /\ live' = live + 1 /\ live < MaxLive /\ writePump' = writePump
      /\ send' = IF Len(send) < SendBuffer THEN Append(send, f) ELSE send
  BY DEF DeliverLocal
<1>2. TypeOK /\ Rest /\ live \in Nat
  BY BoundsNat DEF Paying, TypeOK
<1>3. Due' = Due /\ Sent' = Sent /\ Rest' /\ Arrived'
  BY <1>1 DEF Paying, Due, Sent, Rest, Arrived
<1>4. f \in Frame /\ f.from = "live" /\ f.k = live + 1
  <2>1. live + 1 \in 0 .. MaxLive
    BY <1>1, <1>2, BoundsNat
  <2> QED BY <2>1, Frames
<1> HIDE DEF f
<1>5. CASE Len(send) < SendBuffer
  <2>1. Wire' = Append(Wire, f) /\ Wire \in Seq(Frame)
    BY <1>1, <1>2, <1>4, <1>5, WireAppended, WireType
  <2>2. ASSUME writePump' # "dead"
        PROVE  Paid(Wire', Sent')
    <3>1. Paid(Wire, Sent) /\ Sent \in Nat
      BY <2>2, <1>1, <1>2, DueNat DEF Paying
    <3>2. Paid(Append(Wire, f), Sent)
      BY <3>1, <2>1, <1>4, PaidLive
    <3> QED BY <3>2, <2>1, <1>3
  <2>3. LiveInOrder' /\ LiveSoFar'
    BY <2>1, <1>1, <1>2, <1>4, LiveAppended DEF Paying
  <2> QED BY <2>2, <2>3, <1>3 DEF Paying
<1>6. CASE ~ (Len(send) < SendBuffer)
  <2>1. Wire' = Wire /\ Wire \in Seq(Frame)
    BY <1>1, <1>2, <1>6, WireType DEF Wire
  <2>2. writePump' # "dead" => Paid(Wire', Sent')
    BY <2>1, <1>1, <1>3 DEF Paying
  <2>3. LiveSoFar'
    <3>1. \A i \in DOMAIN Wire : Wire[i].k \in Nat
      <4>1. \A i \in DOMAIN Wire : Wire[i] \in Frame
        BY <2>1
      <4> QED BY <4>1, BoundsNat DEF Frame
    <3> QED BY <3>1, <2>1, <1>1, <1>2 DEF Paying, LiveSoFar
  <2>4. LiveInOrder'
    BY <2>1 DEF Paying, LiveInOrder
  <2> QED BY <2>2, <2>3, <2>4, <1>3 DEF Paying
<1> QED BY <1>5, <1>6

LEMMA PayingNext ==
  ASSUME Paying, [Next]_connVars
  PROVE  Paying'
<1>1. TypeOK /\ Held
  BY DEF Paying
<1>2. TypeOK' /\ Held'
  BY <1>1, TypeNext, HeldNext
<1>3. CASE Add \/ StartWriter \/ StartReader
  <2>1. Due' = Due
    BY <1>3 DEF Due, Add, StartWriter, StartReader
  <2> QED BY <1>2, <1>3, <2>1, PayingSilent, <1>1 DEF Add, StartWriter, StartReader, Held
<1>4. CASE ReadFails \/ RemoveClient \/ Close \/ Disconnect \/ UNCHANGED connVars
  <2>1. UNCHANGED <<handler, replay, fetched, send, writing, live, received, writePump>>
    BY <1>4 DEF ReadFails, RemoveClient, Close, Disconnect, connVars
  <2>2. Due' = Due
    BY <2>1 DEF Due
  <2> QED BY <1>2, <2>1, <2>2, PayingSilent
<1> QED BY <1>2, <1>3, <1>4, PayingHello, PayingCatchup, PayingReplay, PayingTake, PayingWrite,
           PayingFails, PayingDeliver DEF Next, Handler, Writer, Reader

-----------------------------------------------------------------------------

(***************************************************************************)
(* In every state the wire holds exactly what the handler has sent of what *)
(* it owes, while the writer lives (client.go:60-81, 104-131).             *)
(***************************************************************************)
THEOREM AlwaysPaying == Spec => []Paying
<1>1. Init => Paying
  BY PayingInit
<1>2. Paying /\ [Next]_connVars => Paying'
  BY PayingNext
<1> QED BY <1>1, <1>2, PTL DEF Spec

(***************************************************************************)
(* The channel never holds more than its capacity, and handler, pumps and  *)
(* socket keep the shape of the code's (client.go:16, 52).                 *)
(***************************************************************************)
THEOREM TypeCorrect == Spec => []TypeOK
<1>1. Paying => TypeOK
  BY DEF Paying
<1> QED BY <1>1, AlwaysPaying, PTL

(***************************************************************************)
(* Hello and the replay are never shed: whatever live frames come between, *)
(* and whenever the connection breaks, the peer has them complete and in   *)
(* order up to that moment (hub.go:117-119, client.go:71-77).              *)
(***************************************************************************)
THEOREM ReplayAlwaysComplete == Spec => []ReplayComplete
<1>1. Paying => ReplayComplete
  <2> SUFFICES ASSUME Paying
               PROVE  ReplayComplete
    OBVIOUS
  <2>1. TypeOK /\ Rest /\ Arrived
    BY DEF Paying
  <2>2. ASSUME writePump # "dead"
        PROVE  Paid(received \o writing \o send \o replay, Due)
    <3>1. Paid(Wire, Sent) /\ Wire \in Seq(Frame) /\ replay \in Seq(Frame) /\ Sent \in Nat
      BY <2>1, <2>2, WireType, DueNat DEF Paying, TypeOK
    <3>2. ASSUME NEW j \in DOMAIN replay
          PROVE  replay[j] = Owe(Sent + j - 1)
      <4>1. handler \notin {"add", "startWriter", "hello"} /\ j \in Nat \ {0}
        BY <2>1, <3>1 DEF Rest
      <4>2. Sent = fetched + 1 - Len(replay) /\ Len(replay) <= fetched
        BY <4>1, <2>1, DueNat DEF Sent, Due, Rest
      <4>3. Sent + j - 1 = fetched - Len(replay) + j /\ Sent + j - 1 # 0
        BY <4>1, <4>2, <2>1, DueNat
      <4> QED BY <4>3, <2>1 DEF Rest, Owe
    <3>3. Paid(Wire \o replay, Sent + Len(replay))
      BY <3>1, <3>2, PaidRest
    <3>4. Sent + Len(replay) = Due
      BY <2>1, DueNat DEF Sent
    <3> QED BY <3>3, <3>4 DEF Wire
  <2> QED BY <2>1, <2>2 DEF ReplayComplete, Arrived
<1> QED BY <1>1, AlwaysPaying, PTL

(***************************************************************************)
(* A client that is too slow loses live frames; it never gets one twice or *)
(* an older one after a younger (hub.go:123-132, client.go:115-124).       *)
(***************************************************************************)
THEOREM LiveAlwaysInOrder == Spec => []LiveInOrder
<1>1. Paying => LiveInOrder
  BY DEF Paying
<1> QED BY <1>1, AlwaysPaying, PTL
===============================================================================
