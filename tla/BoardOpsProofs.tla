---------------------------- MODULE BoardOpsProofs ----------------------------
(***************************************************************************)
(* What a sequence of ops does to one object, of whatever scene it is      *)
(* applied to: lemmas that need no induction, because what is left of an   *)
(* object is given by the last op about it.                                *)
(***************************************************************************)
EXTENDS BoardOps, TLAPS

Touches(s, o) == \E i \in DOMAIN s : o \in s[i].objs

\* Applied one after the other to x, the frames leave v of o.
Shows(s, x, o, v) ==
  \/ v = x /\ ~ Touches(s, o)
  \/ \E i \in DOMAIN s : /\ o \in s[i].objs /\ v = Left(s[i])
                         /\ \A j \in DOMAIN s : i < j => o \notin s[j].objs

\* Sequences with an element more at either end, or without the first.
LEMMA Appended ==
  ASSUME NEW S, NEW s \in Seq(S), NEW x \in S
  PROVE  /\ Append(s, x) \in Seq(S) /\ Append(s, x) # s
         /\ DOMAIN Append(s, x) = 1 .. Len(s) + 1 /\ DOMAIN s = 1 .. Len(s) /\ Len(s) \in Nat
         /\ \A i \in 1 .. Len(s) : i \in 1 .. Len(s) + 1 /\ i < Len(s) + 1 /\ Append(s, x)[i] = s[i]
         /\ Len(s) + 1 \in 1 .. Len(s) + 1 /\ Append(s, x)[Len(s) + 1] = x
         /\ \A i \in 1 .. Len(s) + 1 : i \in 1 .. Len(s) \/ i = Len(s) + 1
<1>1. /\ Append(s, x) \in Seq(S) /\ Len(s) \in Nat
      /\ DOMAIN Append(s, x) = 1 .. Len(s) + 1 /\ DOMAIN s = 1 .. Len(s)
  OBVIOUS
<1>2. \A i \in 1 .. Len(s) : Append(s, x)[i] = s[i]
  OBVIOUS
<1>3. Append(s, x)[Len(s) + 1] = x
  OBVIOUS
<1>4. /\ Len(s) + 1 \in 1 .. Len(s) + 1 /\ Len(s) + 1 \notin 1 .. Len(s)
      /\ \A i \in 1 .. Len(s) : i \in 1 .. Len(s) + 1 /\ i < Len(s) + 1
      /\ \A i \in 1 .. Len(s) + 1 : i \in 1 .. Len(s) \/ i = Len(s) + 1
  BY <1>1
<1>5. Append(s, x) # s
  BY <1>1, <1>4
<1> QED BY <1>1, <1>2, <1>3, <1>4, <1>5

LEMMA Tailed ==
  ASSUME NEW S, NEW s \in Seq(S), s # <<>>
  PROVE  /\ Tail(s) \in Seq(S) /\ Head(s) \in S /\ Head(s) = s[1] /\ 1 \in DOMAIN s
         /\ DOMAIN s \subseteq Nat /\ DOMAIN Tail(s) \subseteq Nat \ {0}
         /\ \A i \in DOMAIN Tail(s) : i + 1 \in DOMAIN s /\ Tail(s)[i] = s[i + 1]
         /\ \A i \in DOMAIN s : i = 1 \/ (i - 1 \in DOMAIN Tail(s) /\ Tail(s)[i - 1] = s[i])
  OBVIOUS

LEMMA Joined ==
  ASSUME NEW S, NEW t \in Seq(S), NEW s \in Seq(S)
  PROVE  /\ t \o s \in Seq(S) /\ Len(s) \in Nat /\ DOMAIN s = 1 .. Len(s)
         /\ Len(t \o s) = Len(t) + Len(s) /\ DOMAIN (t \o s) = 1 .. Len(t) + Len(s)
         /\ \A i \in 1 .. Len(t) + Len(s) : (t \o s)[i] = IF i <= Len(t) THEN t[i] ELSE s[i - Len(t)]
  OBVIOUS

LEMMA Prepended ==
  ASSUME NEW S, NEW s \in Seq(S), NEW x \in S
  PROVE  /\ <<x>> \o s \in Seq(S) /\ DOMAIN s \subseteq Nat \ {0} /\ DOMAIN (<<x>> \o s) \subseteq Nat
         /\ \A i \in DOMAIN s : i + 1 \in DOMAIN (<<x>> \o s) /\ (<<x>> \o s)[i + 1] = s[i]
         /\ \A i \in DOMAIN (<<x>> \o s) :
              \/ i = 1 /\ (<<x>> \o s)[i] = x
              \/ i - 1 \in DOMAIN s /\ (<<x>> \o s)[i] = s[i - 1]
<1>1. <<x>> \in Seq(S) /\ Len(<<x>>) = 1 /\ <<x>>[1] = x
  OBVIOUS
<1>2. PICK t : t = <<x>>
  OBVIOUS
<1>3. t \in Seq(S) /\ Len(t) = 1 /\ t[1] = x
  BY <1>1, <1>2
<1>4. /\ t \o s \in Seq(S) /\ Len(s) \in Nat /\ DOMAIN s = 1 .. Len(s)
      /\ DOMAIN (t \o s) = 1 .. Len(s) + 1
      /\ \A i \in 1 .. Len(s) + 1 : (t \o s)[i] = IF i <= 1 THEN t[i] ELSE s[i - 1]
  <2>1. t \o s \in Seq(S) /\ Len(s) \in Nat /\ DOMAIN s = 1 .. Len(s)
    BY <1>3
  <2>2. DOMAIN (t \o s) = 1 .. Len(t) + Len(s)
    <3>1. PICK u : u = t \o s
      OBVIOUS
    <3>2. t \in Seq(S)
      BY <1>3
    <3>3. u \in Seq(S) /\ Len(u) = Len(t) + Len(s)
      BY <3>1, <3>2
    <3>4. DOMAIN u = 1 .. Len(u)
      BY <3>3
    <3> QED BY <3>1, <3>3, <3>4
  <2>3. \A i \in 1 .. Len(t) + Len(s) : (t \o s)[i] = IF i <= Len(t) THEN t[i] ELSE s[i - Len(t)]
    BY <1>3, Joined
  <2>4. 1 .. Len(t) + Len(s) = 1 .. Len(s) + 1
    BY <1>3, <2>1
  <2> QED BY <1>3, <2>1, <2>2, <2>3, <2>4
<1>5. \A i \in DOMAIN s : i + 1 \in DOMAIN (t \o s) /\ (t \o s)[i + 1] = s[i]
  BY <1>4
<1>6. \A i \in DOMAIN (t \o s) :
        (i = 1 /\ (t \o s)[i] = x) \/ (i - 1 \in DOMAIN s /\ (t \o s)[i] = s[i - 1])
  BY <1>3, <1>4
<1> QED BY <1>2, <1>4, <1>5, <1>6

LEMMA TouchesAppend ==
  ASSUME NEW S, NEW s \in Seq(S), NEW m \in S, NEW o
  PROVE  Touches(Append(s, m), o) <=> Touches(s, o) \/ o \in m.objs
BY Appended DEF Touches

LEMMA TouchesTail ==
  ASSUME NEW S, NEW s \in Seq(S), s # <<>>, NEW o
  PROVE  Touches(s, o) <=> Touches(Tail(s), o) \/ o \in Head(s).objs
<1>1. PICK t : t = Tail(s)
  OBVIOUS
<1>2. /\ Head(s) = s[1] /\ 1 \in DOMAIN s
      /\ \A i \in DOMAIN t : i + 1 \in DOMAIN s /\ t[i] = s[i + 1]
      /\ \A i \in DOMAIN s : i = 1 \/ (i - 1 \in DOMAIN t /\ t[i - 1] = s[i])
  BY <1>1, Tailed
<1> QED BY <1>1, <1>2 DEF Touches

LEMMA TouchesPrepend ==
  ASSUME NEW S, NEW s \in Seq(S), NEW m \in S, NEW o, o \notin m.objs
  PROVE  Touches(<<m>> \o s, o) <=> Touches(s, o)
<1>1. PICK t : t = <<m>> \o s
  OBVIOUS
<1>2. /\ DOMAIN s \subseteq Nat \ {0}
      /\ \A i \in DOMAIN s : i + 1 \in DOMAIN t /\ t[i + 1] = s[i]
      /\ \A i \in DOMAIN t : (i = 1 /\ t[i] = m) \/ (i - 1 \in DOMAIN s /\ t[i] = s[i - 1])
  BY <1>1, Prepended
<1> QED BY <1>1, <1>2 DEF Touches

LEMMA ShowsAppend ==
  ASSUME NEW S, NEW s \in Seq(S), NEW m \in S, NEW o, NEW x, NEW v, Shows(s, x, o, v)
  PROVE  Shows(Append(s, m), x, o, IF o \in m.objs THEN Left(m) ELSE v)
<1>1. PICK t, k : t = Append(s, m) /\ k = Len(s) + 1
  OBVIOUS
<1>2. /\ DOMAIN t = 1 .. k /\ DOMAIN s = 1 .. Len(s) /\ k \in 1 .. k /\ t[k] = m
      /\ \A i \in DOMAIN s : i \in DOMAIN t /\ i < k /\ t[i] = s[i]
      /\ \A i \in DOMAIN t : i \in DOMAIN s \/ i = k
  BY <1>1, Appended
<1>3. CASE o \in m.objs
  <2>1. \A j \in DOMAIN t : ~ (k < j)
    BY <1>1, <1>2
  <2>2. Shows(t, x, o, Left(m))
    BY <1>2, <1>3, <2>1 DEF Shows
  <2> QED BY <1>1, <1>3, <2>2
<1>4. CASE o \notin m.objs
  <2>1. CASE v = x /\ ~ Touches(s, o)
    <3>1. ~ Touches(t, o)
      BY <1>1, <1>4, <2>1, TouchesAppend
    <3> QED BY <1>1, <1>4, <2>1, <3>1 DEF Shows
  <2>2. CASE \E i \in DOMAIN s : /\ o \in s[i].objs /\ v = Left(s[i])
                                 /\ \A j \in DOMAIN s : i < j => o \notin s[j].objs
    <3>1. Shows(t, x, o, v)
      BY <1>2, <1>4, <2>2 DEF Shows
    <3> QED BY <1>1, <1>4, <3>1
  <2> QED BY <2>1, <2>2 DEF Shows
<1> QED BY <1>3, <1>4

LEMMA ShowsTail ==
  ASSUME NEW S, NEW s \in Seq(S), s # <<>>, NEW o, NEW x, NEW v, Shows(s, x, o, v)
  PROVE  Shows(Tail(s), IF o \in Head(s).objs THEN Left(Head(s)) ELSE x, o, v)
<1>1. PICK t : t = Tail(s)
  OBVIOUS
<1>2. /\ Head(s) = s[1] /\ 1 \in DOMAIN s /\ DOMAIN s \subseteq Nat /\ DOMAIN t \subseteq Nat \ {0}
      /\ \A i \in DOMAIN t : i + 1 \in DOMAIN s /\ t[i] = s[i + 1]
      /\ \A i \in DOMAIN s : i = 1 \/ (i - 1 \in DOMAIN t /\ t[i - 1] = s[i])
  BY <1>1, Tailed
<1>3. CASE v = x /\ ~ Touches(s, o)
  BY <1>1, <1>2, <1>3 DEF Shows, Touches
<1>4. ASSUME NEW i \in DOMAIN s, o \in s[i].objs, v = Left(s[i]),
             \A j \in DOMAIN s : i < j => o \notin s[j].objs
      PROVE  Shows(t, IF o \in Head(s).objs THEN Left(Head(s)) ELSE x, o, v)
  <2>1. CASE i = 1
    <3>1. \A j \in DOMAIN t : o \notin t[j].objs
      <4> SUFFICES ASSUME NEW j \in DOMAIN t PROVE o \notin t[j].objs
        OBVIOUS
      <4>1. j \in Nat \ {0} /\ j + 1 \in DOMAIN s /\ t[j] = s[j + 1]
        BY <1>2
      <4>2. i < j + 1
        BY <2>1, <4>1
      <4> QED BY <1>4, <4>1, <4>2
    <3> QED BY <1>2, <1>4, <2>1, <3>1 DEF Shows, Touches
  <2>2. CASE i # 1
    <3>1. i - 1 \in DOMAIN t /\ t[i - 1] = s[i] /\ i \in Nat
      BY <1>2, <2>2
    <3>2. \A j \in DOMAIN t : i - 1 < j => o \notin t[j].objs
      <4> SUFFICES ASSUME NEW j \in DOMAIN t, i - 1 < j PROVE o \notin t[j].objs
        OBVIOUS
      <4>1. j \in Nat \ {0} /\ j + 1 \in DOMAIN s /\ t[j] = s[j + 1]
        BY <1>2
      <4>2. i < j + 1
        BY <3>1, <4>1
      <4> QED BY <1>4, <4>1, <4>2
    <3> QED BY <1>4, <3>1, <3>2 DEF Shows
  <2> QED BY <2>1, <2>2
<1> QED BY <1>1, <1>3, <1>4 DEF Shows

LEMMA ShowsPrepend ==
  ASSUME NEW S, NEW s \in Seq(S), NEW m \in S, NEW o, o \notin m.objs, NEW x, NEW v, Shows(s, x, o, v)
  PROVE  Shows(<<m>> \o s, x, o, v)
<1>1. PICK t : t = <<m>> \o s
  OBVIOUS
<1>2. /\ DOMAIN s \subseteq Nat \ {0} /\ DOMAIN t \subseteq Nat
      /\ \A i \in DOMAIN s : i + 1 \in DOMAIN t /\ t[i + 1] = s[i]
      /\ \A i \in DOMAIN t : (i = 1 /\ t[i] = m) \/ (i - 1 \in DOMAIN s /\ t[i] = s[i - 1])
  BY <1>1, Prepended
<1>3. CASE v = x /\ ~ Touches(s, o)
  BY <1>1, <1>3, TouchesPrepend DEF Shows
<1>4. ASSUME NEW i \in DOMAIN s, o \in s[i].objs, v = Left(s[i]),
             \A j \in DOMAIN s : i < j => o \notin s[j].objs
      PROVE  Shows(t, x, o, v)
  <2>1. i + 1 \in DOMAIN t /\ t[i + 1] = s[i] /\ i \in Nat
    BY <1>2
  <2>2. ASSUME NEW j \in DOMAIN t, i + 1 < j
        PROVE  o \notin t[j].objs
    <3>1. j \in Nat /\ j # 1
      BY <1>2, <2>1, <2>2
    <3>2. j - 1 \in DOMAIN s /\ t[j] = s[j - 1] /\ i < j - 1
      BY <1>2, <2>1, <2>2, <3>1
    <3> QED BY <1>4, <3>2
  <2> QED BY <1>4, <2>1, <2>2 DEF Shows
<1> QED BY <1>1, <1>3, <1>4 DEF Shows

\* A frame about o decides, whatever there was.
LEMMA ShowsNew ==
  ASSUME NEW S, NEW s \in Seq(S), NEW m \in S, NEW o \in m.objs, NEW x
  PROVE  Shows(Append(s, m), x, o, Left(m)) /\ Touches(Append(s, m), o)
<1>1. PICK t, k : t = Append(s, m) /\ k = Len(s) + 1
  OBVIOUS
<1>2. DOMAIN t = 1 .. k /\ k \in 1 .. k /\ t[k] = m
  BY <1>1, Appended
<1>3. \A j \in DOMAIN t : ~ (k < j)
  BY <1>2
<1>4. Shows(t, x, o, Left(m)) /\ Touches(t, o)
  BY <1>2, <1>3 DEF Shows, Touches
<1> QED BY <1>1, <1>4

\* What a replay leaves does not depend on the scene it starts from, if it is about o.
LEMMA ShowsOver ==
  ASSUME NEW s, NEW o, NEW x, NEW y, NEW v, Shows(s, x, o, v), Touches(s, o) \/ y = x
  PROVE  Shows(s, y, o, v)
BY DEF Shows

LEMMA ShowsRebuilt ==
  ASSUME NEW S, NEW s \in Seq(S), NEW o \in Objects, NEW v, Shows(s, 0, o, v)
  PROVE  Rebuilt(s)[o] = v
<1> DEFINE about == {i \in DOMAIN s : o \in s[i].objs}
<1>1. Rebuilt(s)[o] = IF about = {} THEN 0 ELSE Left(s[Max(about)])
  BY DEF Rebuilt
<1>2. CASE v = 0 /\ ~ Touches(s, o)
  BY <1>1, <1>2 DEF Touches
<1>3. ASSUME NEW i \in DOMAIN s, o \in s[i].objs, v = Left(s[i]),
             \A j \in DOMAIN s : i < j => o \notin s[j].objs
      PROVE  Rebuilt(s)[o] = v
  <2>1. i \in about /\ DOMAIN s \subseteq Nat
    BY <1>3
  <2>2. \A j \in about : j \in Nat /\ ~ (i < j)
    BY <1>3, <2>1
  <2>3. \A j \in about : i >= j
    BY <2>1, <2>2
  <2>4. \A k \in about : (\A j \in about : k >= j) => k = i
    BY <2>1, <2>2
  <2> HIDE DEF about
  <2>5. Max(about) = i
    BY <2>1, <2>3, <2>4 DEF Max
  <2> QED BY <1>1, <1>3, <2>1, <2>5
<1> QED BY <1>2, <1>3 DEF Shows

-----------------------------------------------------------------------------
(* What the in-memory log says of an object. *)

\* An op that is recorded decides what the log says of its objects.
LEMMA RecordedAbout ==
  ASSUME NEW S, NEW l \in Seq(S), NEW m \in S, NEW o \in m.objs
  PROVE  /\ Shows(Recorded(l, m), 0, o, Left(m))
         /\ m.type # "clear" => Touches(Recorded(l, m), o)
<1>1. CASE m.type = "clear"
  <2>1. Recorded(l, m) = <<>> /\ Left(m) = 0
    BY <1>1 DEF Recorded, Left
  <2> QED BY <1>1, <2>1 DEF Shows, Touches
<1>2. CASE m.type # "clear"
  <2>1. Recorded(l, m) = Append(l, m)
    BY <1>2 DEF Recorded
  <2> QED BY <1>2, <2>1, ShowsNew
<1> QED BY <1>1, <1>2

\* An op about other objects changes nothing of what the log says of o.
LEMMA RecordedBesides ==
  ASSUME NEW S, NEW l \in Seq(S), NEW m \in S, NEW o, o \notin m.objs, m.type # "clear"
  PROVE  /\ Recorded(l, m) = Append(l, m)
         /\ Touches(Recorded(l, m), o) <=> Touches(l, o)
         /\ \A x, v : Shows(l, x, o, v) => Shows(Recorded(l, m), x, o, v)
<1>1. Recorded(l, m) = Append(l, m)
  BY DEF Recorded
<1>2. Touches(Append(l, m), o) <=> Touches(l, o)
  BY TouchesAppend
<1>3. \A x, v : Shows(l, x, o, v) => Shows(Append(l, m), x, o, v)
  BY ShowsAppend
<1> QED BY <1>1, <1>2, <1>3
===============================================================================
