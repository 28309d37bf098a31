---------------------------- MODULE BoardSyncProofs ----------------------------
(***************************************************************************)
(* BoardSync, for any objects, browsers and number of edits: an object     *)
(* that one browser edited is the same on every board that is not racy     *)
(* about it.  The invariant follows the author's ops.  To a browser on the *)
(* board they come through its inbox, the fan-out in progress and the      *)
(* author's uplink; to one that joins, through the log it was sent.  Each  *)
(* of these ways, applied to where it begins, ends at the author's scene.  *)
(***************************************************************************)
EXTENDS BoardSync, BoardOpsProofs, TLAPS, FiniteSetTheorems

-----------------------------------------------------------------------------
(* Three queues, one behind the other. *)

\* Applied to x one after the other, the ops of s, t and r leave v of o.
Through(s, t, r, x, o, v) == \E u, w : Shows(s, x, o, u) /\ Shows(t, u, o, w) /\ Shows(r, w, o, v)

LEMMA ShowsNothing == ASSUME NEW o, NEW x, NEW v PROVE Shows(<<>>, x, o, v) <=> v = x
BY DEF Shows, Touches

LEMMA ShowsOne ==
  ASSUME NEW m, NEW o \in m.objs, NEW x
  PROVE  Shows(<<m>>, x, o, Left(m))
BY DEF Shows

LEMMA ShowsUntouched ==
  ASSUME NEW s, NEW o, ~ Touches(s, o), NEW x, NEW v
  PROVE  Shows(s, x, o, v) <=> v = x
BY DEF Shows, Touches

LEMMA OneTouches == ASSUME NEW m, NEW o PROVE Touches(<<m>>, o) <=> o \in m.objs
BY DEF Touches

\* The author edits.
LEMMA ThroughEnd ==
  ASSUME NEW S, NEW r \in Seq(S), NEW m \in S, NEW s, NEW t, NEW x, NEW o, NEW v, Through(s, t, r, x, o, v)
  PROVE  Through(s, t, Append(r, m), x, o, IF o \in m.objs THEN Left(m) ELSE v)
BY ShowsAppend DEF Through

\* The browser takes the next op.
LEMMA ThroughHead ==
  ASSUME NEW S, NEW s \in Seq(S), s # <<>>, NEW t, NEW r, NEW x, NEW o, NEW v, Through(s, t, r, x, o, v)
  PROVE  Through(Tail(s), t, r, IF o \in Head(s).objs THEN Left(Head(s)) ELSE x, o, v)
BY ShowsTail DEF Through

\* An op about something else joins the first queue, or leaves the last.
LEMMA ThroughOther ==
  ASSUME NEW S, NEW s \in Seq(S), NEW m \in S, NEW t, NEW r, NEW x, NEW o, o \notin m.objs, NEW v,
         Through(s, t, r, x, o, v)
  PROVE  Through(Append(s, m), t, r, x, o, v)
BY ShowsAppend DEF Through

LEMMA ThroughLess ==
  ASSUME NEW S, NEW r \in Seq(S), r # <<>>, NEW s, NEW t, NEW x, NEW o, o \notin Head(r).objs, NEW v,
         Through(s, t, r, x, o, v)
  PROVE  Through(s, t, Tail(r), x, o, v)
BY ShowsTail DEF Through

\* The next op of the second queue joins the first.
LEMMA ThroughFirst ==
  ASSUME NEW S, NEW s \in Seq(S), NEW t \in Seq(S), t # <<>>, NEW r, NEW x, NEW o, NEW v, Through(s, t, r, x, o, v)
  PROVE  Through(Append(s, Head(t)), Tail(t), r, x, o, v)
<1>1. Head(t) \in S
  BY Tailed
<1>2. PICK u, w : Shows(s, x, o, u) /\ Shows(t, u, o, w) /\ Shows(r, w, o, v)
  BY DEF Through
<1>3. Shows(Append(s, Head(t)), x, o, IF o \in Head(t).objs THEN Left(Head(t)) ELSE u)
  BY <1>1, <1>2, ShowsAppend
<1>4. Shows(Tail(t), IF o \in Head(t).objs THEN Left(Head(t)) ELSE u, o, w)
  BY <1>2, ShowsTail
<1> QED BY <1>2, <1>3, <1>4 DEF Through

\* The next op of the third queue is all the second has.
LEMMA ThroughSecond ==
  ASSUME NEW S, NEW r \in Seq(S), r # <<>>, NEW s, NEW x, NEW o, NEW v, Through(s, <<>>, r, x, o, v)
  PROVE  Through(s, <<Head(r)>>, Tail(r), x, o, v)
<1>1. PICK u : Shows(s, x, o, u) /\ Shows(r, u, o, v)
  BY ShowsNothing DEF Through
<1>2. Shows(Tail(r), IF o \in Head(r).objs THEN Left(Head(r)) ELSE u, o, v)
  BY <1>1, ShowsTail
<1>3. Shows(<<Head(r)>>, u, o, IF o \in Head(r).objs THEN Left(Head(r)) ELSE u)
  <2>1. CASE o \in Head(r).objs
    BY <2>1, ShowsOne
  <2>2. CASE o \notin Head(r).objs
    BY <2>2, OneTouches, ShowsUntouched
  <2> QED BY <2>1, <2>2
<1> QED BY <1>1, <1>2, <1>3 DEF Through

\* Whatever came before: from the op about o that is published next, all are right.
LEMMA ThroughAnew ==
  ASSUME NEW S, NEW r \in Seq(S), r # <<>>, NEW s, NEW x, NEW o \in Head(r).objs, NEW v, NEW u, NEW w,
         Shows(s, x, o, u), Shows(r, w, o, v)
  PROVE  Through(s, <<Head(r)>>, Tail(r), x, o, v)
<1>1. Shows(Tail(r), Left(Head(r)), o, v)
  BY ShowsTail
<1>2. Shows(<<Head(r)>>, u, o, Left(Head(r)))
  BY ShowsOne
<1> QED BY <1>1, <1>2 DEF Through

\* What is not about o can be in the second queue or not.
LEMMA ThroughSkip ==
  ASSUME NEW s, NEW t, NEW q, NEW r, NEW x, NEW o, ~ Touches(t, o), ~ Touches(q, o), NEW v,
         Through(s, t, r, x, o, v)
  PROVE  Through(s, q, r, x, o, v)
BY ShowsUntouched DEF Through

\* The log is sent to a browser that has nothing of o and nothing about it on its way.
LEMMA ThroughReplay ==
  ASSUME NEW l, NEW t, NEW r, NEW o, NEW v, Through(l, t, r, 0, o, v), ~ Touches(t, o), NEW s, ~ Touches(s, o)
  PROVE  Through(s, l, r, 0, o, v)
BY ShowsUntouched DEF Through

\* The log takes what is published.
LEMMA ThroughRecord ==
  ASSUME NEW S, NEW l \in Seq(S), NEW m \in S, m.type = "clear" => m.objs = Objects, NEW r, NEW o \in Objects, NEW v,
         Through(l, <<m>>, r, 0, o, v)
  PROVE  Through(Recorded(l, m), <<>>, r, 0, o, v)
<1>1. PICK u, w : Shows(l, 0, o, u) /\ Shows(<<m>>, u, o, w) /\ Shows(r, w, o, v)
  BY DEF Through
<1>2. CASE o \in m.objs
  <2>1. w = Left(m)
    BY <1>1, <1>2 DEF Shows, Touches
  <2>2. Shows(Recorded(l, m), 0, o, w)
    BY <1>2, <2>1, RecordedAbout
  <2> QED BY <1>1, <2>2, ShowsNothing DEF Through
<1>3. CASE o \notin m.objs
  <2>1. w = u
    BY <1>1, <1>3, OneTouches, ShowsUntouched
  <2>2. Shows(Recorded(l, m), 0, o, w)
    BY <1>1, <1>3, <2>1, RecordedBesides
  <2> QED BY <1>1, <2>2, ShowsNothing DEF Through
<1> QED BY <1>2, <1>3

-----------------------------------------------------------------------------
(* Types, and where a client is in joining. *)

Durable == {op \in Ops(1 .. MaxEdits) : op.type = "clear" => op.objs = Objects}

Fits ==
  /\ scene \in [Clients -> [Objects -> 0 .. MaxEdits]]
  /\ uplink \in [Clients -> Seq(Durable)]
  /\ pump \in [Clients -> {<<>>} \union {<<op>> : op \in Durable}]
  /\ todo \in [Clients -> SUBSET Clients]
  /\ inbox \in [Clients -> Seq(Durable)]
  /\ log \in Seq(Durable)
  /\ joining \in [Clients -> {"out", "catchup", "replay", "in"}]
  /\ replay \in [Clients -> Seq(Durable)]
  /\ edits \in 0 .. MaxEdits
  /\ editedBy \in [Objects -> SUBSET Editors] /\ \A o \in Objects : IsFiniteSet(editedBy[o])
  /\ racy \in [Clients -> SUBSET Objects]

Phases ==
  /\ members = {c \in Clients : joining[c] # "out"}
  /\ \A c \in Editors : joining[c] = "in"
  /\ \A c \in Clients : todo[c] \subseteq members \ {c} /\ (pump[c] = <<>> => todo[c] = {})
  /\ \A c \in Clients : joining[c] = "out" => inbox[c] = <<>> /\ scene[c] = Blank
  /\ \A c \in Clients : joining[c] # "replay" => replay[c] = <<>>

Shape == Fits /\ Phases

LEMMA OpIn ==
  ASSUME NEW m \in Durable
  PROVE  /\ m.objs \in SUBSET Objects /\ Left(m) \in 0 .. MaxEdits
         /\ m.type = "clear" => m.objs = Objects
         /\ m.type \in {"add", "erase", "clear"} /\ m \in Ops(1 .. MaxEdits)
BY MaxEditsNat DEF Durable, Ops, Left

LEMMA ApplyIn ==
  ASSUME NEW x \in [Objects -> 0 .. MaxEdits], NEW m \in Durable
  PROVE  /\ Apply(x, m) \in [Objects -> 0 .. MaxEdits]
         /\ \A o \in Objects : Apply(x, m)[o] = IF o \in m.objs THEN Left(m) ELSE x[o]
<1>1. \A o \in m.objs : Left(m) \in 0 .. MaxEdits
  BY OpIn
<1> QED BY <1>1 DEF Apply

LEMMA EditIn ==
  ASSUME NEW x, NEW k \in 1 .. MaxEdits, NEW op \in Edits(x, k)
  PROVE  op \in Durable
<1>1. op.type \in {"add", "erase", "clear"} /\ op.objs \in SUBSET Objects /\ op.n = k
  BY DEF Edits
<1>2. op = [type |-> op.type, objs |-> op.objs, n |-> k]
  BY DEF Edits
<1>3. op.type = "clear" => op.objs = Objects
  BY DEF Edits
<1> QED BY <1>1, <1>2, <1>3 DEF Durable, Ops

LEMMA ShapeInit == Init => Shape
<1> SUFFICES ASSUME Init PROVE Shape
  OBVIOUS
<1>1. Blank \in [Objects -> 0 .. MaxEdits]
  BY MaxEditsNat DEF Blank
<1>2. IsFiniteSet({})
  BY FS_EmptySet
<1>3. Editors \subseteq Clients
  BY DEF Clients
<1>4. Fits
  BY <1>1, <1>2, MaxEditsNat DEF Init, Fits
<1>5. Phases
  BY <1>3 DEF Init, Phases
<1> QED BY <1>4, <1>5 DEF Shape

\* An edit is applied to the own scene and sent.
LEMMA EditDoes ==
  ASSUME Shape, NEW c \in Clients, Edit(c)
  PROVE  /\ Shape' /\ c \in Editors
         /\ UNCHANGED <<pump, todo, inbox, log, joining, replay, racy>>
         /\ \A d \in Clients \ {c} : scene'[d] = scene[d] /\ uplink'[d] = uplink[d]
         /\ \E op \in Durable :
              /\ \A o \in Objects : scene'[c][o] = IF o \in op.objs THEN Left(op) ELSE scene[c][o]
              /\ uplink'[c] = Append(uplink[c], op)
              /\ \A o \in Objects : editedBy'[o] = editedBy[o] \union (IF o \in op.objs THEN {c} ELSE {})
<1>1. c \in Editors /\ edits + 1 \in 1 .. MaxEdits /\ edits' \in 0 .. MaxEdits
  BY MaxEditsNat DEF Edit, Shape, Fits
<1>2. PICK op \in Edits(scene[c], edits + 1) :
        /\ scene' = [scene EXCEPT ![c] = Apply(@, op)]
        /\ uplink' = [uplink EXCEPT ![c] = Append(@, op)]
        /\ editedBy' = [o \in Objects |-> editedBy[o] \union (IF o \in op.objs THEN {c} ELSE {})]
  BY DEF Edit
<1>3. op \in Durable
  BY <1>1, <1>2, EditIn
<1>4. scene[c] \in [Objects -> 0 .. MaxEdits] /\ uplink[c] \in Seq(Durable)
  BY DEF Shape, Fits
<1>5. /\ Apply(scene[c], op) \in [Objects -> 0 .. MaxEdits]
      /\ \A o \in Objects : Apply(scene[c], op)[o] = IF o \in op.objs THEN Left(op) ELSE scene[c][o]
  BY <1>3, <1>4, ApplyIn
<1>6. Append(uplink[c], op) \in Seq(Durable)
  BY <1>3, <1>4, Appended
<1>7. /\ scene' \in [Clients -> [Objects -> 0 .. MaxEdits]] /\ scene'[c] = Apply(scene[c], op)
      /\ \A d \in Clients \ {c} : scene'[d] = scene[d]
  BY <1>2, <1>5 DEF Shape, Fits
<1>8. /\ uplink' \in [Clients -> Seq(Durable)] /\ uplink'[c] = Append(uplink[c], op)
      /\ \A d \in Clients \ {c} : uplink'[d] = uplink[d]
  BY <1>2, <1>6 DEF Shape, Fits
<1>9. \A o \in Objects : editedBy'[o] = editedBy[o] \union (IF o \in op.objs THEN {c} ELSE {})
  BY <1>2
<1>10. editedBy' \in [Objects -> SUBSET Editors]
  BY <1>1, <1>2 DEF Shape, Fits
<1>11. \A o \in Objects : IsFiniteSet(editedBy'[o])
  <2> SUFFICES ASSUME NEW o \in Objects PROVE IsFiniteSet(editedBy'[o])
    OBVIOUS
  <2>1. IsFiniteSet(editedBy[o])
    BY DEF Shape, Fits
  <2>2. IsFiniteSet(editedBy[o] \union {c})
    BY <2>1, FS_AddElement
  <2> QED BY <1>9, <2>1, <2>2
<1>12. UNCHANGED <<pump, todo, inbox, members, log, joining, replay, racy>>
  BY DEF Edit
<1>13. Fits'
  BY <1>1, <1>7, <1>8, <1>10, <1>11, <1>12 DEF Shape, Fits
<1>14. joining[c] = "in"
  BY <1>1 DEF Shape, Phases
<1>15. Phases'
  BY <1>7, <1>12, <1>14 DEF Shape, Phases
<1>16. Shape'
  BY <1>13, <1>15 DEF Shape
<1> QED BY <1>1, <1>3, <1>5, <1>7, <1>8, <1>9, <1>12, <1>16

\* The next frame is applied to the scene.
LEMMA ReceiveDoes ==
  ASSUME Shape, NEW c \in Clients, Receive(c)
  PROVE  /\ Shape'
         /\ UNCHANGED <<uplink, pump, todo, log, joining, replay, editedBy, racy>>
         /\ \A d \in Clients \ {c} : scene'[d] = scene[d] /\ inbox'[d] = inbox[d]
         /\ inbox[c] # <<>> /\ inbox[c] \in Seq(Durable) /\ inbox'[c] = Tail(inbox[c])
         /\ \A o \in Objects :
              scene'[c][o] = IF o \in Head(inbox[c]).objs THEN Left(Head(inbox[c])) ELSE scene[c][o]
<1>1. /\ inbox[c] # <<>> /\ inbox[c] \in Seq(Durable) /\ scene[c] \in [Objects -> 0 .. MaxEdits]
      /\ scene' = [scene EXCEPT ![c] = Apply(@, Head(inbox[c]))] /\ inbox' = [inbox EXCEPT ![c] = Tail(@)]
      /\ UNCHANGED <<uplink, pump, todo, members, log, joining, replay, edits, editedBy, racy>>
  BY DEF Receive, Shape, Fits
<1>2. Head(inbox[c]) \in Durable /\ Tail(inbox[c]) \in Seq(Durable)
  BY <1>1, Tailed
<1>3. PICK m : m = Head(inbox[c])
  OBVIOUS
<1>4. /\ Apply(scene[c], m) \in [Objects -> 0 .. MaxEdits]
      /\ \A o \in Objects : Apply(scene[c], m)[o] = IF o \in m.objs THEN Left(m) ELSE scene[c][o]
  <2>1. m \in Durable /\ scene[c] \in [Objects -> 0 .. MaxEdits]
    BY <1>1, <1>2, <1>3
  <2> QED BY <2>1, ApplyIn
<1>5. /\ scene' \in [Clients -> [Objects -> 0 .. MaxEdits]] /\ scene'[c] = Apply(scene[c], m)
      /\ \A d \in Clients \ {c} : scene'[d] = scene[d]
  BY <1>1, <1>3, <1>4 DEF Shape, Fits
<1>6. /\ inbox' \in [Clients -> Seq(Durable)] /\ inbox'[c] = Tail(inbox[c])
      /\ \A d \in Clients \ {c} : inbox'[d] = inbox[d]
  BY <1>1, <1>2 DEF Shape, Fits
<1>7. Fits'
  BY <1>1, <1>5, <1>6 DEF Shape, Fits
<1>8. joining[c] # "out"
  BY <1>1 DEF Shape, Phases
<1>9. Phases'
  BY <1>1, <1>5, <1>6, <1>8 DEF Shape, Phases
<1>10. Shape'
  BY <1>7, <1>9 DEF Shape
<1> QED BY <1>1, <1>3, <1>4, <1>5, <1>6, <1>10

\* The next frame of c goes to the members of this moment.
LEMMA PublishDoes ==
  ASSUME Shape, NEW c \in Clients, Publish(c)
  PROVE  /\ Shape'
         /\ UNCHANGED <<scene, inbox, log, joining, replay, editedBy>>
         /\ pump[c] = <<>> /\ todo[c] = {} /\ uplink[c] # <<>> /\ uplink[c] \in Seq(Durable)
         /\ Head(uplink[c]) \in Durable
         /\ pump'[c] = <<Head(uplink[c])>> /\ uplink'[c] = Tail(uplink[c]) /\ todo'[c] = members \ {c}
         /\ \A d \in Clients \ {c} : pump'[d] = pump[d] /\ uplink'[d] = uplink[d] /\ todo'[d] = todo[d]
         /\ \A d \in Clients : racy'[d] = IF d \in Connecting THEN racy[d] \union Head(uplink[c]).objs
                                          ELSE racy[d] \ Head(uplink[c]).objs
<1>1. /\ pump[c] = <<>> /\ uplink[c] # <<>> /\ uplink[c] \in Seq(Durable)
      /\ pump' = [pump EXCEPT ![c] = <<Head(uplink[c])>>]
      /\ uplink' = [uplink EXCEPT ![c] = Tail(@)] /\ todo' = [todo EXCEPT ![c] = members \ {c}]
      /\ racy' = [d \in Clients |-> IF d \in Connecting THEN racy[d] \union Head(uplink[c]).objs
                                    ELSE racy[d] \ Head(uplink[c]).objs]
      /\ UNCHANGED <<scene, inbox, members, log, joining, replay, edits, editedBy>>
  BY DEF Publish, Shape, Fits
<1>2. Head(uplink[c]) \in Durable /\ Tail(uplink[c]) \in Seq(Durable)
  BY <1>1, Tailed
<1>3. PICK m : m = Head(uplink[c])
  OBVIOUS
<1>4. m.objs \in SUBSET Objects
  BY <1>2, <1>3, OpIn
<1>5. members \subseteq Clients
  BY DEF Shape, Phases
<1>6. /\ pump' \in [Clients -> {<<>>} \union {<<op>> : op \in Durable}] /\ pump'[c] = <<m>>
      /\ \A d \in Clients \ {c} : pump'[d] = pump[d]
  BY <1>1, <1>2, <1>3 DEF Shape, Fits
<1>7. /\ uplink' \in [Clients -> Seq(Durable)] /\ uplink'[c] = Tail(uplink[c])
      /\ \A d \in Clients \ {c} : uplink'[d] = uplink[d]
  BY <1>1, <1>2 DEF Shape, Fits
<1>8. /\ todo' \in [Clients -> SUBSET Clients] /\ todo'[c] = members \ {c}
      /\ \A d \in Clients \ {c} : todo'[d] = todo[d]
  BY <1>1, <1>5 DEF Shape, Fits
<1>9. racy' \in [Clients -> SUBSET Objects]
  BY <1>1, <1>3, <1>4 DEF Shape, Fits
<1>10. Fits'
  BY <1>1, <1>6, <1>7, <1>8, <1>9 DEF Shape, Fits
<1>11. Phases'
  BY <1>1, <1>6, <1>8 DEF Shape, Phases
<1>12. todo[c] = {}
  BY <1>1 DEF Shape, Phases
<1>13. Shape'
  BY <1>10, <1>11 DEF Shape
<1> QED BY <1>1, <1>2, <1>3, <1>6, <1>7, <1>8, <1>12, <1>13

\* What a client is publishing is one op.
LEMMA Publishing ==
  ASSUME Shape, NEW c \in Clients, pump[c] # <<>>
  PROVE  pump[c][1] \in Durable /\ pump[c] = <<pump[c][1]>>
<1>1. PICK op \in Durable : pump[c] = <<op>>
  BY DEF Shape, Fits
<1> QED BY <1>1

LEMMA DeliverDoes ==
  ASSUME Shape, NEW c \in Clients, NEW d \in Clients, DeliverTo(c, d)
  PROVE  /\ Shape'
         /\ UNCHANGED <<scene, uplink, pump, log, joining, replay, editedBy, racy>>
         /\ d \in todo[c] /\ d # c /\ joining[d] # "out" /\ pump[c] # <<>>
         /\ pump[c] = <<pump[c][1]>> /\ pump[c][1] \in Durable
         /\ inbox[d] \in Seq(Durable) /\ inbox'[d] = Append(inbox[d], pump[c][1])
         /\ todo'[c] = todo[c] \ {d}
         /\ \A e \in Clients : (e # d => inbox'[e] = inbox[e]) /\ (e # c => todo'[e] = todo[e])
<1>1. /\ d \in todo[c] /\ inbox[d] \in Seq(Durable)
      /\ inbox' = [inbox EXCEPT ![d] = Append(@, pump[c][1])]
      /\ todo' = [todo EXCEPT ![c] = @ \ {d}]
      /\ UNCHANGED <<scene, uplink, pump, members, log, joining, replay, edits, editedBy, racy>>
  BY DEF DeliverTo, Shape, Fits
<1>2. pump[c] # <<>> /\ d # c /\ joining[d] # "out"
  BY <1>1 DEF Shape, Phases
<1>3. pump[c][1] \in Durable /\ pump[c] = <<pump[c][1]>>
  BY <1>2, Publishing
<1>4. Append(inbox[d], pump[c][1]) \in Seq(Durable)
  BY <1>1, <1>3, Appended
<1>5. /\ inbox' \in [Clients -> Seq(Durable)] /\ inbox'[d] = Append(inbox[d], pump[c][1])
      /\ \A e \in Clients : e # d => inbox'[e] = inbox[e]
  BY <1>1, <1>4 DEF Shape, Fits
<1>6. /\ todo' \in [Clients -> SUBSET Clients] /\ todo'[c] = todo[c] \ {d}
      /\ \A e \in Clients : e # c => todo'[e] = todo[e]
  BY <1>1 DEF Shape, Fits
<1>7. Fits'
  BY <1>1, <1>5, <1>6 DEF Shape, Fits
<1>8. Phases'
  BY <1>1, <1>2, <1>5, <1>6 DEF Shape, Phases
<1>9. Shape'
  BY <1>7, <1>8 DEF Shape
<1> QED BY <1>1, <1>2, <1>3, <1>5, <1>6, <1>9

LEMMA RecordDoes ==
  ASSUME Shape, NEW c \in Clients, Record(c)
  PROVE  /\ Shape'
         /\ UNCHANGED <<scene, uplink, todo, inbox, joining, replay, editedBy, racy>>
         /\ todo[c] = {} /\ pump[c] = <<pump[c][1]>> /\ pump[c][1] \in Durable
         /\ log \in Seq(Durable) /\ log' = Recorded(log, pump[c][1])
         /\ pump'[c] = <<>> /\ \A d \in Clients : d # c => pump'[d] = pump[d]
<1>1. /\ pump[c] # <<>> /\ todo[c] = {} /\ log \in Seq(Durable) /\ log' = Recorded(log, pump[c][1])
      /\ pump' = [pump EXCEPT ![c] = <<>>]
      /\ UNCHANGED <<scene, uplink, todo, inbox, members, joining, replay, edits, editedBy, racy>>
  BY DEF Record, Shape, Fits
<1>2. pump[c][1] \in Durable /\ pump[c] = <<pump[c][1]>>
  BY <1>1, Publishing
<1>3. log' \in Seq(Durable)
  <2>1. Append(log, pump[c][1]) \in Seq(Durable)
    BY <1>1, <1>2, Appended
  <2> QED BY <1>1, <2>1 DEF Recorded
<1>4. /\ pump' \in [Clients -> {<<>>} \union {<<op>> : op \in Durable}] /\ pump'[c] = <<>>
      /\ \A d \in Clients : d # c => pump'[d] = pump[d]
  BY <1>1 DEF Shape, Fits
<1>5. Fits'
  BY <1>1, <1>3, <1>4 DEF Shape, Fits
<1>6. Phases'
  BY <1>1, <1>4 DEF Shape, Phases
<1>7. Shape'
  BY <1>5, <1>6 DEF Shape
<1> QED BY <1>1, <1>2, <1>4, <1>7

LEMMA AddDoes ==
  ASSUME Shape, NEW c \in Clients, Add(c)
  PROVE  /\ Shape'
         /\ UNCHANGED <<scene, uplink, pump, todo, inbox, log, replay, editedBy>>
         /\ joining[c] = "out" /\ inbox[c] = <<>> /\ scene[c] = Blank
         /\ joining'[c] = "catchup" /\ \A d \in Clients : d # c => joining'[d] = joining[d] /\ racy'[d] = racy[d]
         /\ \A d \in Clients : \A o : Touches(pump[d], o) => o \in racy'[c]
<1> DEFINE R == UNION {pump[d][1].objs : d \in {e \in Clients : pump[e] # <<>>}}
<1>1. /\ joining[c] = "out" /\ members' = members \union {c} /\ joining' = [joining EXCEPT ![c] = "catchup"]
      /\ racy' = [racy EXCEPT ![c] = R]
      /\ UNCHANGED <<scene, uplink, pump, todo, inbox, log, replay, edits, editedBy>>
  BY DEF Add
<1>2. inbox[c] = <<>> /\ scene[c] = Blank /\ c \notin Editors
  BY <1>1 DEF Shape, Phases
<1>3. /\ joining' \in [Clients -> {"out", "catchup", "replay", "in"}] /\ joining'[c] = "catchup"
      /\ \A d \in Clients : d # c => joining'[d] = joining[d]
  BY <1>1 DEF Shape, Fits
<1>4. R \in SUBSET Objects
  <2>1. \A d \in Clients : pump[d] # <<>> => pump[d][1].objs \in SUBSET Objects
    BY Publishing, OpIn
  <2> QED BY <2>1
<1>5. \A d \in Clients : \A o : Touches(pump[d], o) => o \in R
  <2> SUFFICES ASSUME NEW d \in Clients, NEW o, Touches(pump[d], o) PROVE o \in R
    OBVIOUS
  <2>1. pump[d] # <<>>
    BY DEF Touches
  <2>2. pump[d] = <<pump[d][1]>>
    BY <2>1, Publishing
  <2>3. o \in pump[d][1].objs
    BY <2>2, OneTouches
  <2> QED BY <2>1, <2>3
<1> HIDE DEF R
<1>6. racy' \in [Clients -> SUBSET Objects] /\ racy'[c] = R /\ \A d \in Clients : d # c => racy'[d] = racy[d]
  BY <1>1, <1>4 DEF Shape, Fits
<1>7. Fits'
  BY <1>1, <1>3, <1>6 DEF Shape, Fits
<1>8. Phases'
  BY <1>1, <1>2, <1>3 DEF Shape, Phases
<1>9. Shape'
  BY <1>7, <1>8 DEF Shape
<1> QED BY <1>1, <1>2, <1>3, <1>5, <1>6, <1>9

LEMMA CatchupDoes ==
  ASSUME Shape, NEW c \in Clients, Catchup(c)
  PROVE  /\ Shape'
         /\ UNCHANGED <<scene, uplink, pump, todo, inbox, log, editedBy, racy>>
         /\ joining[c] = "catchup" /\ joining'[c] = "replay" /\ replay'[c] = log
         /\ \A d \in Clients : d # c => joining'[d] = joining[d] /\ replay'[d] = replay[d]
<1>1. /\ joining[c] = "catchup" /\ replay' = [replay EXCEPT ![c] = log]
      /\ joining' = [joining EXCEPT ![c] = "replay"]
      /\ UNCHANGED <<scene, uplink, pump, todo, inbox, members, log, edits, editedBy, racy>>
  BY DEF Catchup
<1>2. /\ joining' \in [Clients -> {"out", "catchup", "replay", "in"}] /\ joining'[c] = "replay"
      /\ replay' \in [Clients -> Seq(Durable)] /\ replay'[c] = log
      /\ \A d \in Clients : d # c => joining'[d] = joining[d] /\ replay'[d] = replay[d]
  BY <1>1 DEF Shape, Fits
<1>3. Fits'
  BY <1>1, <1>2 DEF Shape, Fits
<1>4. c \notin Editors
  BY <1>1 DEF Shape, Phases
<1>5. Phases'
  BY <1>1, <1>2, <1>4 DEF Shape, Phases
<1>6. Shape'
  BY <1>3, <1>5 DEF Shape
<1> QED BY <1>1, <1>2, <1>6

LEMMA SendReplayDoes ==
  ASSUME Shape, NEW c \in Clients, SendReplay(c)
  PROVE  /\ Shape'
         /\ UNCHANGED <<scene, uplink, pump, todo, log, joining, editedBy, racy>>
         /\ joining[c] = "replay" /\ replay[c] # <<>> /\ replay[c] \in Seq(Durable) /\ inbox[c] \in Seq(Durable)
         /\ Head(replay[c]) \in Durable
         /\ inbox'[c] = Append(inbox[c], Head(replay[c])) /\ replay'[c] = Tail(replay[c])
         /\ \A d \in Clients : d # c => inbox'[d] = inbox[d] /\ replay'[d] = replay[d]
<1>1. /\ joining[c] = "replay" /\ replay[c] # <<>> /\ replay[c] \in Seq(Durable) /\ inbox[c] \in Seq(Durable)
      /\ inbox' = [inbox EXCEPT ![c] = Append(@, Head(replay[c]))]
      /\ replay' = [replay EXCEPT ![c] = Tail(@)]
      /\ UNCHANGED <<scene, uplink, pump, todo, members, log, joining, edits, editedBy, racy>>
  BY DEF SendReplay, Shape, Fits
<1>2. Head(replay[c]) \in Durable /\ Tail(replay[c]) \in Seq(Durable)
  BY <1>1, Tailed
<1>3. Append(inbox[c], Head(replay[c])) \in Seq(Durable)
  BY <1>1, <1>2, Appended
<1>4. /\ inbox' \in [Clients -> Seq(Durable)] /\ inbox'[c] = Append(inbox[c], Head(replay[c]))
      /\ replay' \in [Clients -> Seq(Durable)] /\ replay'[c] = Tail(replay[c])
      /\ \A d \in Clients : d # c => inbox'[d] = inbox[d] /\ replay'[d] = replay[d]
  BY <1>1, <1>2, <1>3 DEF Shape, Fits
<1>5. Fits'
  BY <1>1, <1>4 DEF Shape, Fits
<1>6. Phases'
  BY <1>1, <1>4 DEF Shape, Phases
<1>7. Shape'
  BY <1>5, <1>6 DEF Shape
<1> QED BY <1>1, <1>2, <1>4, <1>7

LEMMA StartReaderDoes ==
  ASSUME Shape, NEW c \in Clients, StartReader(c)
  PROVE  /\ Shape'
         /\ UNCHANGED <<scene, uplink, pump, todo, inbox, log, replay, editedBy, racy>>
         /\ joining[c] = "replay" /\ replay[c] = <<>> /\ joining'[c] = "in"
         /\ \A d \in Clients : d # c => joining'[d] = joining[d]
<1>1. /\ joining[c] = "replay" /\ replay[c] = <<>> /\ joining' = [joining EXCEPT ![c] = "in"]
      /\ UNCHANGED <<scene, uplink, pump, todo, inbox, members, log, replay, edits, editedBy, racy>>
  BY DEF StartReader
<1>2. /\ joining' \in [Clients -> {"out", "catchup", "replay", "in"}] /\ joining'[c] = "in"
      /\ \A d \in Clients : d # c => joining'[d] = joining[d]
  BY <1>1 DEF Shape, Fits
<1>3. Fits'
  BY <1>1, <1>2 DEF Shape, Fits
<1>4. Phases'
  BY <1>1, <1>2 DEF Shape, Phases
<1>5. Shape'
  BY <1>3, <1>4 DEF Shape
<1> QED BY <1>1, <1>2, <1>5

-----------------------------------------------------------------------------
(* What holds of one object. *)

\* Ops about o come from those who edited it, and reach the others.
Authored(o) ==
  /\ \A c \in Clients : Touches(uplink[c], o) \/ Touches(pump[c], o) => c \in editedBy[o]
  /\ \A c \in Clients : Touches(inbox[c], o) => editedBy[o] \ {c} # {}
  /\ \A c \in Clients : Touches(replay[c], o) => editedBy[o] # {}
  /\ Touches(log, o) => editedBy[o] # {}
  /\ editedBy[o] = {} => \A c \in Clients : scene[c][o] = 0

\* Somewhere the frames on their way end.
Arriving(o) == \A c \in Clients : \E v : Shows(inbox[c], scene[c][o], o, v)

\* While somebody joins, an op about o that is published makes the join racy.
Quietly(o) == \A d \in Clients : joining[d] \in {"catchup", "replay"} /\ o \notin racy[d] =>
                \A c \in Clients : ~ Touches(pump[c], o)

\* Until the log is read, a browser that joins has nothing of o.
Fetching(o) == \A d \in Clients : joining[d] = "catchup" /\ o \notin racy[d] =>
                 ~ Touches(inbox[d], o) /\ scene[d][o] = 0

\* The ways to the board of a, through the log, to a browser on the board and to one that joins.
Still(a, d) == IF d \in todo[a] THEN pump[a] ELSE <<>>
InLog(o, a) == Through(log, pump[a], uplink[a], 0, o, scene[a][o])
InBox(o, a, d) == joining[d] = "in" /\ o \notin racy[d] =>
                    Through(inbox[d], Still(a, d), uplink[a], scene[d][o], o, scene[a][o])
InReplay(o, a, d) == joining[d] = "replay" /\ o \notin racy[d] =>
                       Through(inbox[d], replay[d], uplink[a], scene[d][o], o, scene[a][o])
Followed(o, a) == InLog(o, a) /\ \A d \in Clients \ {a} : InBox(o, a, d) /\ InReplay(o, a, d)

\* An author alone on o is followed by all.
Alone(o) == \A a \in Editors : editedBy[o] \subseteq {a} => Followed(o, a)

Kept(o) == Authored(o) /\ Arriving(o) /\ Quietly(o) /\ Fetching(o) /\ Alone(o)

LEMMA NothingTouches == ASSUME NEW o PROVE ~ Touches(<<>>, o)
BY DEF Touches

LEMMA KeptInit == ASSUME Init, NEW o \in Objects PROVE Kept(o)
<1>1. /\ \A c \in Clients : /\ uplink[c] = <<>> /\ pump[c] = <<>> /\ inbox[c] = <<>> /\ replay[c] = <<>>
                            /\ scene[c][o] = 0 /\ joining[c] \in {"in", "out"} /\ todo[c] = {}
      /\ log = <<>>
  BY DEF Init, Blank
<1>2. Shows(<<>>, 0, o, 0)
  BY ShowsNothing
<1>3. Authored(o)
  BY <1>1, NothingTouches DEF Authored
<1>4. Arriving(o)
  BY <1>1, <1>2 DEF Arriving
<1>5. Quietly(o) /\ Fetching(o)
  BY <1>1 DEF Quietly, Fetching
<1>6. Through(<<>>, <<>>, <<>>, 0, o, 0)
  BY <1>2 DEF Through
<1>7. Alone(o)
  <2> SUFFICES ASSUME NEW a \in Editors PROVE Followed(o, a)
    BY DEF Alone
  <2>1. a \in Clients
    BY DEF Clients
  <2>2. InLog(o, a)
    BY <1>1, <1>6, <2>1 DEF InLog
  <2>3. ASSUME NEW d \in Clients PROVE InBox(o, a, d) /\ InReplay(o, a, d)
    BY <1>1, <1>6, <2>1 DEF InBox, InReplay, Still
  <2> QED BY <2>2, <2>3 DEF Followed
<1> QED BY <1>3, <1>4, <1>5, <1>7 DEF Kept

LEMMA ShowsSomething ==
  ASSUME NEW s, NEW o, NEW x, NEW y, \E v : Shows(s, x, o, v)
  PROVE  \E v : Shows(s, y, o, v)
BY DEF Shows

LEMMA EditKeeps ==
  ASSUME Shape, NEW o \in Objects, Kept(o), NEW c \in Clients, Edit(c)
  PROVE  Kept(o)'
<1>1. /\ c \in Editors
      /\ UNCHANGED <<pump, todo, inbox, log, joining, replay, racy>>
      /\ \A d \in Clients \ {c} : scene'[d] = scene[d] /\ uplink'[d] = uplink[d]
  BY EditDoes
<1>2. PICK op \in Durable :
        /\ scene'[c][o] = IF o \in op.objs THEN Left(op) ELSE scene[c][o]
        /\ uplink'[c] = Append(uplink[c], op)
        /\ editedBy'[o] = editedBy[o] \union (IF o \in op.objs THEN {c} ELSE {})
  BY EditDoes
<1>3. uplink[c] \in Seq(Durable)
  BY DEF Shape, Fits
<1>4. Touches(uplink'[c], o) <=> Touches(uplink[c], o) \/ o \in op.objs
  BY <1>2, <1>3, TouchesAppend
<1>5. editedBy[o] \subseteq editedBy'[o] /\ (o \in op.objs => c \in editedBy'[o])
  BY <1>2
<1>6. Authored(o)'
  BY <1>1, <1>2, <1>4, <1>5 DEF Kept, Authored
<1>7. Arriving(o)'
  <2> SUFFICES ASSUME NEW d \in Clients PROVE \E v : Shows(inbox[d], scene'[d][o], o, v)
    BY <1>1 DEF Arriving
  <2>1. \E v : Shows(inbox[d], scene[d][o], o, v)
    BY DEF Kept, Arriving
  <2> QED BY <2>1, ShowsSomething
<1>8. Quietly(o)'
  BY <1>1 DEF Kept, Quietly
<1>9. joining[c] = "in"
  BY <1>1 DEF Shape, Phases
<1>10. Fetching(o)'
  BY <1>1, <1>9 DEF Kept, Fetching
<1>11. Alone(o)'
  <2> SUFFICES ASSUME NEW a \in Editors, editedBy'[o] \subseteq {a} PROVE Followed(o, a)'
    BY DEF Alone
  <2>1. Followed(o, a) /\ a \in Clients
    BY <1>5 DEF Kept, Alone, Clients
  <2>2. o \in op.objs => c = a
    BY <1>5
  <2>3. ASSUME NEW s, NEW t, NEW x, Through(s, t, uplink[a], x, o, scene[a][o])
        PROVE  Through(s, t, uplink'[a], x, o, scene'[a][o])
    <3>1. CASE c = a
      <4>1. PICK r, v : r = uplink[a] /\ v = scene[a][o]
        OBVIOUS
      <4>2. Through(s, t, Append(r, op), x, o, IF o \in op.objs THEN Left(op) ELSE v)
        BY <1>3, <2>3, <3>1, <4>1, ThroughEnd
      <4> QED BY <1>2, <3>1, <4>1, <4>2
    <3>2. CASE c # a
      BY <1>1, <2>1, <2>3, <3>2
    <3> QED BY <3>1, <3>2
  <2>4. InLog(o, a)'
    BY <1>1, <2>1, <2>3 DEF Followed, InLog
  <2>5. ASSUME NEW d \in Clients \ {a} PROVE InBox(o, a, d)' /\ InReplay(o, a, d)'
    <3>1. scene'[d][o] = scene[d][o]
      <4>1. CASE d = c
        BY <1>2, <2>2, <4>1
      <4>2. CASE d # c
        BY <1>1, <4>2
      <4> QED BY <4>1, <4>2
    <3>2. InBox(o, a, d) /\ InReplay(o, a, d)
      BY <2>1 DEF Followed
    <3>3. InBox(o, a, d)'
      BY <1>1, <2>3, <3>1, <3>2 DEF InBox, Still
    <3>4. InReplay(o, a, d)'
      BY <1>1, <2>3, <3>1, <3>2 DEF InReplay
    <3> QED BY <3>3, <3>4
  <2> QED BY <2>4, <2>5 DEF Followed
<1> QED BY <1>6, <1>7, <1>8, <1>10, <1>11 DEF Kept

LEMMA ReceiveKeeps ==
  ASSUME Shape, NEW o \in Objects, Kept(o), NEW c \in Clients, Receive(c)
  PROVE  Kept(o)'
<1>1. /\ UNCHANGED <<uplink, pump, todo, log, joining, replay, editedBy, racy>>
      /\ \A d \in Clients \ {c} : scene'[d] = scene[d] /\ inbox'[d] = inbox[d]
      /\ inbox[c] # <<>> /\ inbox[c] \in Seq(Durable) /\ inbox'[c] = Tail(inbox[c])
      /\ scene'[c][o] = IF o \in Head(inbox[c]).objs THEN Left(Head(inbox[c])) ELSE scene[c][o]
  BY ReceiveDoes
<1>2. Touches(inbox[c], o) <=> Touches(inbox'[c], o) \/ o \in Head(inbox[c]).objs
  BY <1>1, TouchesTail
<1>3. ~ Touches(inbox[c], o) => scene'[c][o] = scene[c][o] /\ ~ Touches(inbox'[c], o)
  BY <1>1, <1>2
<1>4. Authored(o)'
  BY <1>1, <1>2, <1>3 DEF Kept, Authored
<1>5. Arriving(o)'
  <2> SUFFICES ASSUME NEW d \in Clients PROVE \E v : Shows(inbox'[d], scene'[d][o], o, v)
    BY DEF Arriving
  <2>1. PICK v : Shows(inbox[d], scene[d][o], o, v)
    BY DEF Kept, Arriving
  <2>2. CASE d = c
    BY <1>1, <2>1, <2>2, ShowsTail
  <2>3. CASE d # c
    BY <1>1, <2>1, <2>3
  <2> QED BY <2>2, <2>3
<1>6. Quietly(o)'
  BY <1>1 DEF Kept, Quietly
<1>7. Fetching(o)'
  BY <1>1, <1>3 DEF Kept, Fetching
<1>8. Alone(o)'
  <2> SUFFICES ASSUME NEW a \in Editors, editedBy[o] \subseteq {a} PROVE Followed(o, a)'
    BY <1>1 DEF Alone
  <2>1. Followed(o, a) /\ a \in Clients
    BY DEF Kept, Alone, Clients
  <2>2. scene'[a][o] = scene[a][o]
    <3>1. ~ Touches(inbox[a], o)
      BY <2>1 DEF Kept, Authored
    <3> QED BY <1>1, <1>3, <2>1, <3>1
  <2>3. InLog(o, a)'
    BY <1>1, <2>1, <2>2 DEF Followed, InLog
  <2>4. ASSUME NEW d \in Clients \ {a} PROVE InBox(o, a, d)' /\ InReplay(o, a, d)'
    <3>1. ASSUME NEW t, Through(inbox[d], t, uplink[a], scene[d][o], o, scene[a][o])
          PROVE  Through(inbox'[d], t, uplink[a], scene'[d][o], o, scene[a][o])
      <4>1. CASE d = c
        BY <1>1, <3>1, <4>1, ThroughHead
      <4>2. CASE d # c
        BY <1>1, <3>1, <4>2
      <4> QED BY <4>1, <4>2
    <3>2. InBox(o, a, d) /\ InReplay(o, a, d)
      BY <2>1 DEF Followed
    <3>3. InBox(o, a, d)'
      BY <1>1, <2>2, <3>1, <3>2 DEF InBox, Still
    <3>4. InReplay(o, a, d)'
      BY <1>1, <2>2, <3>1, <3>2 DEF InReplay
    <3> QED BY <3>3, <3>4
  <2> QED BY <2>3, <2>4 DEF Followed
<1> QED BY <1>4, <1>5, <1>6, <1>7, <1>8 DEF Kept

LEMMA PublishKeeps ==
  ASSUME Shape, NEW o \in Objects, Kept(o), NEW c \in Clients, Publish(c)
  PROVE  Kept(o)'
<1> DEFINE m == Head(uplink[c])
<1>1. /\ UNCHANGED <<scene, inbox, log, joining, replay, editedBy>>
      /\ pump[c] = <<>> /\ todo[c] = {} /\ uplink[c] # <<>> /\ uplink[c] \in Seq(Durable) /\ m \in Durable
      /\ pump'[c] = <<m>> /\ uplink'[c] = Tail(uplink[c]) /\ todo'[c] = members \ {c}
      /\ \A d \in Clients \ {c} : pump'[d] = pump[d] /\ uplink'[d] = uplink[d] /\ todo'[d] = todo[d]
      /\ \A d \in Clients : racy'[d] = IF d \in Connecting THEN racy[d] \union m.objs ELSE racy[d] \ m.objs
  BY PublishDoes
<1>2. Touches(uplink[c], o) <=> Touches(uplink'[c], o) \/ o \in m.objs
  BY <1>1, TouchesTail
<1>3. Touches(pump'[c], o) <=> o \in m.objs
  BY <1>1, OneTouches
<1> HIDE DEF m
<1>4. Authored(o)'
  BY <1>1, <1>2, <1>3 DEF Kept, Authored
<1>5. Arriving(o)'
  BY <1>1 DEF Kept, Arriving
<1>6. ASSUME NEW d \in Clients, joining[d] \in {"catchup", "replay"}, o \notin racy'[d]
      PROVE  o \notin racy[d] /\ o \notin m.objs
  BY <1>1, <1>6 DEF Connecting
<1>7. Quietly(o)'
  BY <1>1, <1>3, <1>6 DEF Kept, Quietly
<1>8. Fetching(o)'
  BY <1>1, <1>6 DEF Kept, Fetching
<1>9. Alone(o)'
  <2> SUFFICES ASSUME NEW a \in Editors, editedBy[o] \subseteq {a} PROVE Followed(o, a)'
    BY <1>1 DEF Alone
  <2>1. Followed(o, a) /\ a \in Clients
    BY DEF Kept, Alone, Clients
  <2>2. o \in m.objs => c = a
    BY <1>2 DEF Kept, Authored
  <2>3. ASSUME NEW s, NEW x, c = a, Through(s, <<>>, uplink[a], x, o, scene[a][o])
        PROVE  Through(s, pump'[a], uplink'[a], x, o, scene'[a][o])
    <3>1. Through(s, <<Head(uplink[c])>>, Tail(uplink[c]), x, o, scene[a][o])
      BY <1>1, <2>3, ThroughSecond
    <3> QED BY <1>1, <2>3, <3>1 DEF m
  <2>4. ASSUME c # a PROVE pump'[a] = pump[a] /\ uplink'[a] = uplink[a] /\ todo'[a] = todo[a]
    BY <1>1, <2>1, <2>4
  <2>5. InLog(o, a)'
    <3>1. CASE c = a
      BY <1>1, <2>1, <2>3, <3>1 DEF Followed, InLog
    <3>2. CASE c # a
      BY <1>1, <2>1, <2>4, <3>2 DEF Followed, InLog
    <3> QED BY <3>1, <3>2
  <2>6. ASSUME NEW d \in Clients \ {a} PROVE InBox(o, a, d)'
    <3> SUFFICES ASSUME joining[d] = "in", o \notin racy'[d]
                 PROVE  Through(inbox[d], Still(a, d)', uplink'[a], scene[d][o], o, scene[a][o])
      BY <1>1 DEF InBox
    <3>1. o \in racy[d] => o \in m.objs
      BY <1>1 DEF Connecting
    <3>2. CASE c = a /\ o \in m.objs
      <4>1. d \in members
        BY DEF Shape, Phases
      <4>2. Still(a, d)' = <<Head(uplink[a])>> /\ uplink'[a] = Tail(uplink[a])
        BY <1>1, <3>2, <4>1 DEF Still, m
      <4>3. PICK u : Shows(inbox[d], scene[d][o], o, u)
        BY DEF Kept, Arriving
      <4>4. PICK w : Shows(uplink[a], w, o, scene[a][o])
        BY <2>1 DEF Followed, InLog, Through
      <4>5. o \in Head(uplink[a]).objs /\ uplink[a] # <<>> /\ uplink[a] \in Seq(Durable)
        BY <1>1, <3>2 DEF m
      <4>6. Through(inbox[d], <<Head(uplink[a])>>, Tail(uplink[a]), scene[d][o], o, scene[a][o])
        BY <4>3, <4>4, <4>5, ThroughAnew
      <4> QED BY <4>2, <4>6
    <3>3. CASE c = a /\ o \notin m.objs
      <4>1. d \in members
        BY DEF Shape, Phases
      <4>2. Still(a, d) = <<>> /\ Still(a, d)' = pump'[a]
        BY <1>1, <3>3, <4>1 DEF Still
      <4>3. Through(inbox[d], <<>>, uplink[a], scene[d][o], o, scene[a][o])
        BY <2>1, <3>1, <3>3, <4>2 DEF Followed, InBox
      <4> QED BY <1>1, <2>3, <3>3, <4>2, <4>3
    <3>4. CASE c # a
      BY <1>1, <2>1, <2>2, <2>4, <3>1, <3>4 DEF Followed, InBox, Still
    <3> QED BY <3>2, <3>3, <3>4
  <2>7. ASSUME NEW d \in Clients \ {a} PROVE InReplay(o, a, d)'
    <3> SUFFICES ASSUME joining[d] = "replay", o \notin racy'[d]
                 PROVE  Through(inbox[d], replay[d], uplink'[a], scene[d][o], o, scene[a][o])
      BY <1>1 DEF InReplay
    <3>1. Through(inbox[d], replay[d], uplink[a], scene[d][o], o, scene[a][o]) /\ o \notin m.objs
      BY <1>6, <2>1 DEF Followed, InReplay
    <3>2. CASE c = a
      <4>1. Through(inbox[d], replay[d], Tail(uplink[c]), scene[d][o], o, scene[a][o])
        BY <1>1, <3>1, <3>2, ThroughLess DEF m
      <4> QED BY <1>1, <3>2, <4>1
    <3>3. CASE c # a
      BY <2>4, <3>1, <3>3
    <3> QED BY <3>2, <3>3
  <2> QED BY <2>5, <2>6, <2>7 DEF Followed
<1> QED BY <1>4, <1>5, <1>7, <1>8, <1>9 DEF Kept

LEMMA DeliverKeeps ==
  ASSUME Shape, NEW o \in Objects, Kept(o), NEW c \in Clients, NEW d \in Clients, DeliverTo(c, d)
  PROVE  Kept(o)'
<1> DEFINE m == pump[c][1]
<1>1. /\ UNCHANGED <<scene, uplink, pump, log, joining, replay, editedBy, racy>>
      /\ d \in todo[c] /\ d # c /\ joining[d] # "out" /\ pump[c] # <<>>
      /\ pump[c] = <<m>> /\ m \in Durable
      /\ inbox[d] \in Seq(Durable) /\ inbox'[d] = Append(inbox[d], m)
      /\ todo'[c] = todo[c] \ {d}
      /\ \A e \in Clients : (e # d => inbox'[e] = inbox[e]) /\ (e # c => todo'[e] = todo[e])
  BY DeliverDoes
<1> HIDE DEF m
<1>2. Touches(inbox'[d], o) <=> Touches(inbox[d], o) \/ o \in m.objs
  BY <1>1, TouchesAppend
<1>3. Touches(pump[c], o) <=> o \in m.objs
  BY <1>1, OneTouches
<1>4. Authored(o)'
  BY <1>1, <1>2, <1>3 DEF Kept, Authored
<1>5. Arriving(o)'
  <2> SUFFICES ASSUME NEW e \in Clients PROVE \E v : Shows(inbox'[e], scene[e][o], o, v)
    BY <1>1 DEF Arriving
  <2>1. PICK v : Shows(inbox[e], scene[e][o], o, v)
    BY DEF Kept, Arriving
  <2>2. CASE e = d
    <3>1. \E w : Shows(Append(inbox[e], m), scene[e][o], o, w)
      BY <1>1, <2>1, <2>2, ShowsAppend
    <3> QED BY <1>1, <2>2, <3>1
  <2>3. CASE e # d
    BY <1>1, <2>1, <2>3
  <2> QED BY <2>2, <2>3
<1>6. Quietly(o)'
  BY <1>1 DEF Kept, Quietly
<1>7. joining[d] \in {"catchup", "replay"} /\ o \notin racy[d] => o \notin m.objs
  BY <1>3 DEF Kept, Quietly
<1>8. Fetching(o)'
  BY <1>1, <1>2, <1>7 DEF Kept, Fetching
<1>9. Alone(o)'
  <2> SUFFICES ASSUME NEW a \in Editors, editedBy[o] \subseteq {a} PROVE Followed(o, a)'
    BY <1>1 DEF Alone
  <2>1. Followed(o, a) /\ a \in Clients
    BY DEF Kept, Alone, Clients
  <2>2. o \in m.objs => c = a
    BY <1>3 DEF Kept, Authored
  <2>3. InLog(o, a)'
    BY <1>1, <2>1 DEF Followed, InLog
  <2>4. ASSUME NEW e \in Clients \ {a} PROVE InBox(o, a, e)'
    <3> SUFFICES ASSUME joining[e] = "in", o \notin racy[e]
                 PROVE  Through(inbox'[e], Still(a, e)', uplink[a], scene[e][o], o, scene[a][o])
      BY <1>1 DEF InBox
    <3>1. Through(inbox[e], Still(a, e), uplink[a], scene[e][o], o, scene[a][o])
      BY <2>1 DEF Followed, InBox
    <3>2. CASE e # d
      BY <1>1, <2>1, <3>1, <3>2 DEF Still
    <3>3. CASE e = d /\ c = a
      <4>1. Still(a, e) = <<m>> /\ Still(a, e)' = <<>>
        BY <1>1, <3>3 DEF Still
      <4>2. PICK t : t = <<m>>
        OBVIOUS
      <4>3. t \in Seq(Durable) /\ t # <<>> /\ Head(t) = m /\ Tail(t) = <<>>
        BY <1>1, <4>2
      <4>4. Through(Append(inbox[d], Head(t)), Tail(t), uplink[a], scene[e][o], o, scene[a][o])
        BY <1>1, <3>1, <3>3, <4>1, <4>2, <4>3, ThroughFirst
      <4> QED BY <1>1, <3>3, <4>1, <4>3, <4>4
    <3>4. CASE e = d /\ c # a
      <4>1. Still(a, e)' = Still(a, e)
        BY <1>1, <2>1, <3>4 DEF Still
      <4>2. Through(Append(inbox[d], m), Still(a, e), uplink[a], scene[e][o], o, scene[a][o])
        BY <1>1, <2>2, <3>1, <3>4, ThroughOther
      <4> QED BY <1>1, <3>4, <4>1, <4>2
    <3> QED BY <3>2, <3>3, <3>4
  <2>5. ASSUME NEW e \in Clients \ {a} PROVE InReplay(o, a, e)'
    <3> SUFFICES ASSUME joining[e] = "replay", o \notin racy[e]
                 PROVE  Through(inbox'[e], replay[e], uplink[a], scene[e][o], o, scene[a][o])
      BY <1>1 DEF InReplay
    <3>1. Through(inbox[e], replay[e], uplink[a], scene[e][o], o, scene[a][o])
      BY <2>1 DEF Followed, InReplay
    <3>2. CASE e # d
      BY <1>1, <3>1, <3>2
    <3>3. CASE e = d
      <4>1. Through(Append(inbox[d], m), replay[e], uplink[a], scene[e][o], o, scene[a][o])
        BY <1>1, <1>7, <3>1, <3>3, ThroughOther
      <4> QED BY <1>1, <3>3, <4>1
    <3> QED BY <3>2, <3>3
  <2> QED BY <2>3, <2>4, <2>5 DEF Followed
<1> QED BY <1>4, <1>5, <1>6, <1>8, <1>9 DEF Kept

LEMMA RecordKeeps ==
  ASSUME Shape, NEW o \in Objects, Kept(o), NEW c \in Clients, Record(c)
  PROVE  Kept(o)'
<1> DEFINE m == pump[c][1]
<1>1. /\ UNCHANGED <<scene, uplink, todo, inbox, joining, replay, editedBy, racy>>
      /\ todo[c] = {} /\ pump[c] = <<m>> /\ m \in Durable
      /\ log \in Seq(Durable) /\ log' = Recorded(log, m)
      /\ pump'[c] = <<>> /\ \A d \in Clients : d # c => pump'[d] = pump[d]
  BY RecordDoes
<1> HIDE DEF m
<1>2. m.type = "clear" => m.objs = Objects
  BY <1>1, OpIn
<1>3. Touches(pump[c], o) <=> o \in m.objs
  BY <1>1, OneTouches
<1>4. ~ Touches(pump'[c], o)
  BY <1>1, NothingTouches
<1>5. o \notin m.objs => /\ Touches(log', o) <=> Touches(log, o)
                        /\ \A x, v : Shows(log, x, o, v) => Shows(log', x, o, v)
  BY <1>1, <1>2, RecordedBesides
<1>6. Authored(o)'
  BY <1>1, <1>3, <1>4, <1>5 DEF Kept, Authored
<1>7. Arriving(o)'
  BY <1>1 DEF Kept, Arriving
<1>8. Quietly(o)'
  BY <1>1, <1>4 DEF Kept, Quietly
<1>9. Fetching(o)'
  BY <1>1 DEF Kept, Fetching
<1>10. Alone(o)'
  <2> SUFFICES ASSUME NEW a \in Editors, editedBy[o] \subseteq {a} PROVE Followed(o, a)'
    BY <1>1 DEF Alone
  <2>1. Followed(o, a) /\ a \in Clients
    BY DEF Kept, Alone, Clients
  <2>2. InLog(o, a)'
    <3>1. Through(log, pump[a], uplink[a], 0, o, scene[a][o])
      BY <2>1 DEF Followed, InLog
    <3>2. CASE c = a
      <4>1. Through(log, <<m>>, uplink[a], 0, o, scene[a][o])
        BY <1>1, <3>1, <3>2
      <4>2. Through(Recorded(log, m), <<>>, uplink[a], 0, o, scene[a][o])
        BY <1>1, <1>2, <4>1, ThroughRecord
      <4> QED BY <1>1, <3>2, <4>2 DEF InLog
    <3>3. CASE c # a
      <4>1. o \notin m.objs
        BY <1>3, <3>3 DEF Kept, Authored
      <4>2. Through(log', pump[a], uplink[a], 0, o, scene[a][o])
        BY <1>5, <3>1, <4>1 DEF Through
      <4> QED BY <1>1, <2>1, <3>3, <4>2 DEF InLog
    <3> QED BY <3>2, <3>3
  <2>3. ASSUME NEW d \in Clients \ {a} PROVE InBox(o, a, d)' /\ InReplay(o, a, d)'
    <3>1. InBox(o, a, d) /\ InReplay(o, a, d)
      BY <2>1 DEF Followed
    <3>2. Still(a, d)' = Still(a, d)
      BY <1>1, <2>1 DEF Still
    <3>3. InBox(o, a, d)'
      BY <1>1, <3>1, <3>2 DEF InBox
    <3>4. InReplay(o, a, d)'
      BY <1>1, <3>1 DEF InReplay
    <3> QED BY <3>3, <3>4
  <2> QED BY <2>2, <2>3 DEF Followed
<1> QED BY <1>6, <1>7, <1>8, <1>9, <1>10 DEF Kept

LEMMA AddKeeps ==
  ASSUME Shape, NEW o \in Objects, Kept(o), NEW c \in Clients, Add(c)
  PROVE  Kept(o)'
<1>1. /\ UNCHANGED <<scene, uplink, pump, todo, inbox, log, replay, editedBy>>
      /\ joining[c] = "out" /\ inbox[c] = <<>> /\ scene[c] = Blank
      /\ joining'[c] = "catchup" /\ \A d \in Clients : d # c => joining'[d] = joining[d] /\ racy'[d] = racy[d]
      /\ \A d \in Clients : Touches(pump[d], o) => o \in racy'[c]
  BY AddDoes
<1>2. Authored(o)'
  BY <1>1 DEF Kept, Authored
<1>3. Arriving(o)'
  BY <1>1 DEF Kept, Arriving
<1>4. Quietly(o)'
  BY <1>1 DEF Kept, Quietly
<1>5. ~ Touches(inbox[c], o) /\ scene[c][o] = 0
  BY <1>1, NothingTouches DEF Blank
<1>6. Fetching(o)'
  BY <1>1, <1>5 DEF Kept, Fetching
<1>7. Alone(o)'
  <2> SUFFICES ASSUME NEW a \in Editors, editedBy[o] \subseteq {a} PROVE Followed(o, a)'
    BY <1>1 DEF Alone
  <2>1. Followed(o, a)
    BY DEF Kept, Alone
  <2>2. InLog(o, a)'
    BY <1>1, <2>1 DEF Followed, InLog
  <2>3. ASSUME NEW d \in Clients \ {a} PROVE InBox(o, a, d)' /\ InReplay(o, a, d)'
    <3>1. CASE d = c
      BY <1>1, <3>1 DEF InBox, InReplay
    <3>2. CASE d # c
      <4>1. InBox(o, a, d) /\ InReplay(o, a, d)
        BY <2>1 DEF Followed
      <4>2. InBox(o, a, d)'
        BY <1>1, <3>2, <4>1 DEF InBox, Still
      <4>3. InReplay(o, a, d)'
        BY <1>1, <3>2, <4>1 DEF InReplay
      <4> QED BY <4>2, <4>3
    <3> QED BY <3>1, <3>2
  <2> QED BY <2>2, <2>3 DEF Followed
<1> QED BY <1>2, <1>3, <1>4, <1>6, <1>7 DEF Kept

LEMMA CatchupKeeps ==
  ASSUME Shape, NEW o \in Objects, Kept(o), NEW c \in Clients, Catchup(c)
  PROVE  Kept(o)'
<1>1. /\ UNCHANGED <<scene, uplink, pump, todo, inbox, log, editedBy, racy>>
      /\ joining[c] = "catchup" /\ joining'[c] = "replay" /\ replay'[c] = log
      /\ \A d \in Clients : d # c => joining'[d] = joining[d] /\ replay'[d] = replay[d]
  BY CatchupDoes
<1>2. Authored(o)'
  BY <1>1 DEF Kept, Authored
<1>3. Arriving(o)'
  BY <1>1 DEF Kept, Arriving
<1>4. Quietly(o)'
  BY <1>1 DEF Kept, Quietly
<1>5. Fetching(o)'
  BY <1>1 DEF Kept, Fetching
<1>6. Alone(o)'
  <2> SUFFICES ASSUME NEW a \in Editors, editedBy[o] \subseteq {a} PROVE Followed(o, a)'
    BY <1>1 DEF Alone
  <2>1. Followed(o, a) /\ a \in Clients
    BY DEF Kept, Alone, Clients
  <2>2. InLog(o, a)'
    BY <1>1, <2>1 DEF Followed, InLog
  <2>3. ASSUME NEW d \in Clients \ {a} PROVE InBox(o, a, d)' /\ InReplay(o, a, d)'
    <3>1. CASE d = c
      <4>1. InBox(o, a, d)'
        BY <1>1, <3>1 DEF InBox
      <4>2. ASSUME o \notin racy[d]
            PROVE  Through(inbox[d], log, uplink[a], scene[d][o], o, scene[a][o])
        <5>1. ~ Touches(inbox[d], o) /\ scene[d][o] = 0
          BY <1>1, <3>1, <4>2 DEF Kept, Fetching
        <5>2. ~ Touches(pump[a], o)
          BY <1>1, <2>1, <3>1, <4>2 DEF Kept, Quietly
        <5>3. Through(log, pump[a], uplink[a], 0, o, scene[a][o])
          BY <2>1 DEF Followed, InLog
        <5>4. Through(inbox[d], log, uplink[a], 0, o, scene[a][o])
          BY <5>1, <5>2, <5>3, ThroughReplay
        <5> QED BY <5>1, <5>4
      <4>3. InReplay(o, a, d)'
        BY <1>1, <3>1, <4>2 DEF InReplay
      <4> QED BY <4>1, <4>3
    <3>2. CASE d # c
      <4>1. InBox(o, a, d) /\ InReplay(o, a, d)
        BY <2>1 DEF Followed
      <4>2. InBox(o, a, d)'
        BY <1>1, <3>2, <4>1 DEF InBox, Still
      <4>3. InReplay(o, a, d)'
        BY <1>1, <3>2, <4>1 DEF InReplay
      <4> QED BY <4>2, <4>3
    <3> QED BY <3>1, <3>2
  <2> QED BY <2>2, <2>3 DEF Followed
<1> QED BY <1>2, <1>3, <1>4, <1>5, <1>6 DEF Kept

LEMMA SendReplayKeeps ==
  ASSUME Shape, NEW o \in Objects, Kept(o), NEW c \in Clients, SendReplay(c)
  PROVE  Kept(o)'
<1>1. /\ UNCHANGED <<scene, uplink, pump, todo, log, joining, editedBy, racy>>
      /\ joining[c] = "replay" /\ replay[c] # <<>> /\ replay[c] \in Seq(Durable) /\ inbox[c] \in Seq(Durable)
      /\ Head(replay[c]) \in Durable
      /\ inbox'[c] = Append(inbox[c], Head(replay[c])) /\ replay'[c] = Tail(replay[c])
      /\ \A d \in Clients : d # c => inbox'[d] = inbox[d] /\ replay'[d] = replay[d]
  BY SendReplayDoes
<1>2. PICK m : m = Head(replay[c])
  OBVIOUS
<1>3. Touches(replay[c], o) <=> Touches(replay'[c], o) \/ o \in m.objs
  BY <1>1, <1>2, TouchesTail
<1>4. Touches(inbox'[c], o) <=> Touches(inbox[c], o) \/ o \in m.objs
  BY <1>1, <1>2, TouchesAppend
<1>5. c \notin Editors /\ editedBy[o] \subseteq Editors
  BY <1>1 DEF Shape, Fits, Phases
<1>6. Authored(o)'
  <2>1. \A d \in Clients : Touches(inbox'[d], o) => editedBy[o] \ {d} # {}
    <3>1. Touches(inbox[c], o) => editedBy[o] \ {c} # {}
      BY DEF Kept, Authored
    <3>2. o \in m.objs => editedBy[o] # {}
      BY <1>3 DEF Kept, Authored
    <3>3. Touches(inbox'[c], o) => editedBy[o] \ {c} # {}
      BY <1>4, <1>5, <3>1, <3>2
    <3> QED BY <1>1, <3>3 DEF Kept, Authored
  <2>2. \A d \in Clients : Touches(replay'[d], o) => editedBy[o] # {}
    BY <1>1, <1>3 DEF Kept, Authored
  <2> QED BY <1>1, <2>1, <2>2 DEF Kept, Authored
<1>7. Arriving(o)'
  <2> SUFFICES ASSUME NEW d \in Clients PROVE \E v : Shows(inbox'[d], scene[d][o], o, v)
    BY <1>1 DEF Arriving
  <2>1. PICK v : Shows(inbox[d], scene[d][o], o, v)
    BY DEF Kept, Arriving
  <2>2. CASE d = c
    <3>1. \E w : Shows(Append(inbox[c], m), scene[d][o], o, w)
      BY <1>1, <1>2, <2>1, <2>2, ShowsAppend
    <3> QED BY <1>1, <1>2, <2>2, <3>1
  <2>3. CASE d # c
    BY <1>1, <2>1, <2>3
  <2> QED BY <2>2, <2>3
<1>8. Quietly(o)'
  BY <1>1 DEF Kept, Quietly
<1>9. Fetching(o)'
  BY <1>1 DEF Kept, Fetching
<1>10. Alone(o)'
  <2> SUFFICES ASSUME NEW a \in Editors, editedBy[o] \subseteq {a} PROVE Followed(o, a)'
    BY <1>1 DEF Alone
  <2>1. Followed(o, a)
    BY DEF Kept, Alone
  <2>2. InLog(o, a)'
    BY <1>1, <2>1 DEF Followed, InLog
  <2>3. ASSUME NEW d \in Clients \ {a} PROVE InBox(o, a, d)' /\ InReplay(o, a, d)'
    <3>1. InBox(o, a, d) /\ InReplay(o, a, d)
      BY <2>1 DEF Followed
    <3>2. CASE d = c
      <4>1. InBox(o, a, d)'
        BY <1>1, <3>2 DEF InBox
      <4>2. ASSUME o \notin racy[d]
            PROVE  Through(inbox'[d], replay'[d], uplink[a], scene[d][o], o, scene[a][o])
        <5>1. Through(inbox[c], replay[c], uplink[a], scene[d][o], o, scene[a][o])
          BY <1>1, <3>1, <3>2, <4>2 DEF InReplay
        <5>2. Through(Append(inbox[c], Head(replay[c])), Tail(replay[c]), uplink[a], scene[d][o], o, scene[a][o])
          BY <1>1, <5>1, ThroughFirst
        <5> QED BY <1>1, <3>2, <5>2
      <4>3. InReplay(o, a, d)'
        BY <1>1, <4>2 DEF InReplay
      <4> QED BY <4>1, <4>3
    <3>3. CASE d # c
      <4>1. InBox(o, a, d)'
        BY <1>1, <3>1, <3>3 DEF InBox, Still
      <4>2. InReplay(o, a, d)'
        BY <1>1, <3>1, <3>3 DEF InReplay
      <4> QED BY <4>1, <4>2
    <3> QED BY <3>2, <3>3
  <2> QED BY <2>2, <2>3 DEF Followed
<1> QED BY <1>6, <1>7, <1>8, <1>9, <1>10 DEF Kept

LEMMA StartReaderKeeps ==
  ASSUME Shape, NEW o \in Objects, Kept(o), NEW c \in Clients, StartReader(c)
  PROVE  Kept(o)'
<1>1. /\ UNCHANGED <<scene, uplink, pump, todo, inbox, log, replay, editedBy, racy>>
      /\ joining[c] = "replay" /\ replay[c] = <<>> /\ joining'[c] = "in"
      /\ \A d \in Clients : d # c => joining'[d] = joining[d]
  BY StartReaderDoes
<1>2. Authored(o)'
  BY <1>1 DEF Kept, Authored
<1>3. Arriving(o)'
  BY <1>1 DEF Kept, Arriving
<1>4. Quietly(o)'
  BY <1>1 DEF Kept, Quietly
<1>5. Fetching(o)'
  BY <1>1 DEF Kept, Fetching
<1>6. Alone(o)'
  <2> SUFFICES ASSUME NEW a \in Editors, editedBy[o] \subseteq {a} PROVE Followed(o, a)'
    BY <1>1 DEF Alone
  <2>1. Followed(o, a) /\ a \in Clients
    BY DEF Kept, Alone, Clients
  <2>2. InLog(o, a)'
    BY <1>1, <2>1 DEF Followed, InLog
  <2>3. ASSUME NEW d \in Clients \ {a} PROVE InBox(o, a, d)' /\ InReplay(o, a, d)'
    <3>1. InBox(o, a, d) /\ InReplay(o, a, d)
      BY <2>1 DEF Followed
    <3>2. CASE d = c
      <4>1. InReplay(o, a, d)'
        BY <1>1, <3>2 DEF InReplay
      <4>2. ASSUME o \notin racy[d]
            PROVE  Through(inbox[d], Still(a, d), uplink[a], scene[d][o], o, scene[a][o])
        <5>1. Through(inbox[d], <<>>, uplink[a], scene[d][o], o, scene[a][o])
          BY <1>1, <3>1, <3>2, <4>2 DEF InReplay
        <5>2. ~ Touches(pump[a], o)
          BY <1>1, <2>1, <3>2, <4>2 DEF Kept, Quietly
        <5>3. ~ Touches(Still(a, d), o)
          BY <5>2, NothingTouches DEF Still
        <5> QED BY <5>1, <5>3, NothingTouches, ThroughSkip
      <4>3. InBox(o, a, d)'
        BY <1>1, <4>2 DEF InBox, Still
      <4> QED BY <4>1, <4>3
    <3>3. CASE d # c
      <4>1. InBox(o, a, d)'
        BY <1>1, <3>1, <3>3 DEF InBox, Still
      <4>2. InReplay(o, a, d)'
        BY <1>1, <3>1, <3>3 DEF InReplay
      <4> QED BY <4>1, <4>2
    <3> QED BY <3>2, <3>3
  <2> QED BY <2>2, <2>3 DEF Followed
<1> QED BY <1>2, <1>3, <1>4, <1>5, <1>6 DEF Kept

-----------------------------------------------------------------------------
(* The invariant and what it says. *)

IInv == Shape /\ \A o \in Objects : Kept(o)

LEMMA NextKeeps == ASSUME Shape, NEW o \in Objects, Kept(o), Next PROVE Kept(o)'
<1>1. PICK c \in Clients : Edit(c) \/ Receive(c) \/ Add(c) \/ Gateway(c)
  BY DEF Next
<1>2. CASE Edit(c)
  BY <1>2, EditKeeps
<1>3. CASE Receive(c)
  BY <1>3, ReceiveKeeps
<1>4. CASE Add(c)
  BY <1>4, AddKeeps
<1>5. CASE Publish(c)
  BY <1>5, PublishKeeps
<1>6. CASE Record(c)
  BY <1>6, RecordKeeps
<1>7. ASSUME NEW d \in Clients, DeliverTo(c, d) PROVE Kept(o)'
  BY <1>7, DeliverKeeps
<1>8. CASE Catchup(c)
  BY <1>8, CatchupKeeps
<1>9. CASE SendReplay(c)
  BY <1>9, SendReplayKeeps
<1>10. CASE StartReader(c)
  BY <1>10, StartReaderKeeps
<1> QED BY <1>1, <1>2, <1>3, <1>4, <1>5, <1>6, <1>7, <1>8, <1>9, <1>10 DEF Gateway

LEMMA NextShapes == ASSUME Shape, Next PROVE Shape'
<1>1. PICK c \in Clients : Edit(c) \/ Receive(c) \/ Add(c) \/ Gateway(c)
  BY DEF Next
<1>2. ASSUME NEW d \in Clients, DeliverTo(c, d) PROVE Shape'
  BY <1>2, DeliverDoes
<1>3. Edit(c) \/ Receive(c) \/ Add(c) \/ Publish(c) => Shape'
  BY EditDoes, ReceiveDoes, AddDoes, PublishDoes
<1>4. Record(c) \/ Catchup(c) \/ SendReplay(c) \/ StartReader(c) => Shape'
  BY RecordDoes, CatchupDoes, SendReplayDoes, StartReaderDoes
<1> QED BY <1>1, <1>2, <1>3, <1>4 DEF Gateway

LEMMA Stutters == ASSUME UNCHANGED syncVars, Shape PROVE Shape' /\ \A o \in Objects : Kept(o) => Kept(o)'
<1>1. Shape'
  BY DEF Shape, Fits, Phases, syncVars
<1>2. ASSUME NEW o \in Objects, Kept(o) PROVE Kept(o)'
  <2>1. Authored(o)' /\ Arriving(o)' /\ Quietly(o)' /\ Fetching(o)'
    BY <1>2 DEF Kept, Authored, Arriving, Quietly, Fetching, syncVars
  <2>2. Alone(o)'
    BY <1>2 DEF Kept, Alone, Followed, InLog, InBox, InReplay, Still, syncVars
  <2> QED BY <2>1, <2>2 DEF Kept
<1> QED BY <1>1, <1>2

LEMMA ImpliesTypeOK == Shape => TypeOK
<1> SUFFICES ASSUME Shape PROVE TypeOK
  OBVIOUS
<1>1. Durable \subseteq Ops(1 .. MaxEdits)
  BY DEF Durable
<1>2. ASSUME NEW s \in Seq(Durable) PROVE s \in Seq(Ops(1 .. MaxEdits))
  BY <1>1
<1>3. ASSUME NEW c \in Clients PROVE pump[c] \in Seq(Durable) /\ Len(pump[c]) <= 1
  <2>1. pump[c] = <<>> \/ \E op \in Durable : pump[c] = <<op>>
    BY DEF Shape, Fits
  <2>2. ASSUME NEW op \in Durable PROVE <<op>> \in Seq(Durable) /\ Len(<<op>>) <= 1
    OBVIOUS
  <2>3. <<>> \in Seq(Durable) /\ Len(<<>>) <= 1
    OBVIOUS
  <2>4. CASE pump[c] = <<>>
    BY <2>3, <2>4
  <2>5. ASSUME NEW op \in Durable, pump[c] = <<op>> PROVE pump[c] \in Seq(Durable) /\ Len(pump[c]) <= 1
    BY <2>2, <2>5
  <2> QED BY <2>1, <2>4, <2>5
<1>4. \A c \in Clients : uplink[c] \in Seq(Durable) /\ inbox[c] \in Seq(Durable) /\ replay[c] \in Seq(Durable)
  BY DEF Shape, Fits
<1>5. \A c \in Clients : /\ uplink[c] \in Seq(Ops(1 .. MaxEdits)) /\ inbox[c] \in Seq(Ops(1 .. MaxEdits))
                         /\ replay[c] \in Seq(Ops(1 .. MaxEdits)) /\ pump[c] \in Seq(Ops(1 .. MaxEdits))
                         /\ Len(pump[c]) <= 1 /\ todo[c] \subseteq members \ {c}
  BY <1>2, <1>3, <1>4 DEF Shape, Phases
<1>6. log \in Seq(Ops(1 .. MaxEdits))
  BY <1>2 DEF Shape, Fits
<1>7. members \subseteq Clients
  BY DEF Shape, Phases
<1> QED BY <1>5, <1>6, <1>7 DEF Shape, Fits, TypeOK

\* What one browser edited, everybody who was there or joined quietly shows once all has arrived.
LEMMA ImpliesAgreement == IInv => UncontestedObjectsAgree
<1> SUFFICES ASSUME Shape, Settled, NEW o \in Objects, Kept(o), Cardinality(editedBy[o]) <= 1
             PROVE  \A c, d \in members : o \notin racy[c] \union racy[d] => scene[c][o] = scene[d][o]
  BY DEF IInv, UncontestedObjectsAgree
<1>1. members \subseteq Clients /\ \A c \in members : joining[c] = "in"
  BY DEF Shape, Fits, Phases, Settled, Connecting
<1>2. IsFiniteSet(editedBy[o]) /\ editedBy[o] \subseteq Editors
  BY DEF Shape, Fits
<1>3. CASE editedBy[o] = {}
  BY <1>1, <1>3 DEF Kept, Authored
<1>4. CASE editedBy[o] # {}
  <2>1. PICK a : a \in editedBy[o]
    BY <1>4
  <2>2. IsFiniteSet(editedBy[o] \ {a}) /\ Cardinality(editedBy[o] \ {a}) = Cardinality(editedBy[o]) - 1
    BY <1>2, <2>1, FS_RemoveElement
  <2>3. Cardinality(editedBy[o]) \in Nat /\ Cardinality(editedBy[o] \ {a}) \in Nat
    BY <1>2, <2>2, FS_CardinalityType
  <2>4. Cardinality(editedBy[o] \ {a}) = 0
    BY <2>2, <2>3
  <2>5. editedBy[o] \ {a} = {}
    BY <2>2, <2>4, FS_EmptySet
  <2>6. a \in Editors /\ editedBy[o] \subseteq {a}
    BY <1>2, <2>1, <2>5
  <2>7. Followed(o, a) /\ a \in Clients
    BY <2>6 DEF Kept, Alone, Clients
  <2>8. ASSUME NEW c \in members, o \notin racy[c] PROVE scene[c][o] = scene[a][o]
    <3>1. CASE c # a
      <4>1. Through(inbox[c], Still(a, c), uplink[a], scene[c][o], o, scene[a][o])
        BY <1>1, <2>7, <2>8, <3>1 DEF Followed, InBox
      <4>2. inbox[c] = <<>> /\ Still(a, c) = <<>> /\ uplink[a] = <<>>
        BY <1>1, <2>7 DEF Settled, Still
      <4>3. Through(<<>>, <<>>, <<>>, scene[c][o], o, scene[a][o])
        BY <4>1, <4>2
      <4> QED BY <4>3, ShowsNothing DEF Through
    <3> QED BY <3>1
  <2> QED BY <2>8
<1> QED BY <1>3, <1>4

\* The scenes, the queues of a gateway and its log have the shape TypeOK gives.
THEOREM TypeCorrect == Spec => []TypeOK
<1>1. Init => Shape
  BY ShapeInit
<1>2. Shape /\ [Next]_syncVars => Shape'
  BY NextShapes, Stutters
<1>3. Shape => TypeOK
  BY ImpliesTypeOK
<1> QED BY <1>1, <1>2, <1>3, PTL DEF Spec

(***************************************************************************)
(* For any browsers, objects and number of edits, in every order of the    *)
(* edits, the fan-out, the recording and the joins: boards agree, once all *)
(* has arrived, on each object only one browser edited, except those whose *)
(* last edit was being published while one of the two joined.              *)
(***************************************************************************)
THEOREM AlwaysAgree == Spec => []UncontestedObjectsAgree
<1>1. Init => IInv
  BY ShapeInit, KeptInit DEF IInv
<1>2. IInv /\ [Next]_syncVars => IInv'
  <2>1. IInv /\ Next => IInv'
    <3> SUFFICES ASSUME IInv, Next PROVE IInv'
      OBVIOUS
    <3>1. Shape'
      BY NextShapes DEF IInv
    <3>2. \A o \in Objects : Kept(o)'
      BY NextKeeps DEF IInv
    <3> QED BY <3>1, <3>2 DEF IInv
  <2>2. IInv /\ UNCHANGED syncVars => IInv'
    BY Stutters DEF IInv
  <2> QED BY <2>1, <2>2
<1>3. IInv => UncontestedObjectsAgree
  BY ImpliesAgreement
<1> QED BY <1>1, <1>2, <1>3, PTL DEF Spec
===============================================================================
