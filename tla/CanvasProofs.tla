----------------------------- MODULE CanvasProofs -----------------------------
(***************************************************************************)
(* Canvas, for any objects, any number of changes and any overlap of       *)
(* pointers, keys and remote ops: the types, and that what nobody holds is *)
(* at the peers as it is in the scene.  The invariant is about one object  *)
(* at a time: unless it is excused, what a gesture holds is the            *)
(* object in the scene, so that sending what is in hand sends the scene.   *)
(***************************************************************************)
EXTENDS Canvas, TLAPS

-----------------------------------------------------------------------------
(* Boards, and what the operations on them do to one object. *)

Boards == [{"scene", "hand", "sent", "latest"} -> [Objects -> Nat]]

\* Versions are counted from what is latest.
Orderly(b) ==
  /\ b \in Boards
  /\ \A o \in Objects : /\ b["scene"][o] <= b["latest"][o] /\ b["hand"][o] <= b["latest"][o]
                        /\ b["sent"][o] <= b["latest"][o]

\* b and r have the same of o.
Same(b, r, o) ==
  /\ r["scene"][o] = b["scene"][o] /\ r["hand"][o] = b["hand"][o]
  /\ r["sent"][o] = b["sent"][o] /\ r["latest"][o] = b["latest"][o]

LEMMA BoardOf ==
  ASSUME NEW b \in Boards
  PROVE  /\ b["scene"] \in [Objects -> Nat] /\ b["hand"] \in [Objects -> Nat]
         /\ b["sent"] \in [Objects -> Nat] /\ b["latest"] \in [Objects -> Nat]
         /\ \A o \in Objects : /\ b["scene"][o] \in Nat /\ b["hand"][o] \in Nat
                               /\ b["sent"][o] \in Nat /\ b["latest"][o] \in Nat
BY DEF Boards

LEMMA ChangeShownDoes ==
  ASSUME NEW b, Orderly(b), NEW S \in SUBSET On(b), NEW r, r = ChangeShown(b, S)
  PROVE  /\ Orderly(r)
         /\ \A o \in Objects \ S : Same(b, r, o)
         /\ \A o \in S : /\ r["latest"][o] = b["latest"][o] + 1 /\ r["scene"][o] = b["latest"][o] + 1
                         /\ r["sent"][o] = b["sent"][o]
                         /\ r["hand"][o] = IF b["hand"][o] = b["scene"][o] THEN b["latest"][o] + 1 ELSE b["hand"][o]
                         /\ r["hand"][o] = 0 <=> b["hand"][o] = 0
<1>1. b \in Boards /\ S \subseteq Objects /\ \A o \in S : b["scene"][o] # 0
  BY DEF Orderly, On
<1>2. /\ r["scene"] = [o \in Objects |-> IF o \in S /\ b["scene"][o] = b["scene"][o]
                                         THEN b["latest"][o] + 1 ELSE b["scene"][o]]
      /\ r["hand"] = [o \in Objects |-> IF o \in S /\ b["hand"][o] = b["scene"][o]
                                        THEN b["latest"][o] + 1 ELSE b["hand"][o]]
      /\ r["latest"] = [o \in Objects |-> IF o \in S THEN b["latest"][o] + 1 ELSE b["latest"][o]]
      /\ r["sent"] = b["sent"]
      /\ DOMAIN r = {"scene", "hand", "sent", "latest"}
      /\ r = [k \in {"scene", "hand", "sent", "latest"} |-> r[k]]
  BY <1>1 DEF ChangeShown, Boards
<1>3. \A o \in Objects : /\ b["scene"][o] \in Nat /\ b["hand"][o] \in Nat
                         /\ b["sent"][o] \in Nat /\ b["latest"][o] \in Nat
  BY <1>1, BoardOf
<1>4. /\ r["scene"] \in [Objects -> Nat] /\ r["hand"] \in [Objects -> Nat]
      /\ r["sent"] \in [Objects -> Nat] /\ r["latest"] \in [Objects -> Nat]
  BY <1>1, <1>2, <1>3, BoardOf
<1>5. r \in Boards
  BY <1>2, <1>4 DEF Boards
<1>6. \A o \in Objects \ S : Same(b, r, o)
  BY <1>2 DEF Same
<1>7. \A o \in S : /\ r["latest"][o] = b["latest"][o] + 1 /\ r["scene"][o] = b["latest"][o] + 1
                   /\ r["sent"][o] = b["sent"][o]
                   /\ r["hand"][o] = IF b["hand"][o] = b["scene"][o] THEN b["latest"][o] + 1 ELSE b["hand"][o]
  BY <1>1, <1>2
<1>8. \A o \in S : r["hand"][o] = 0 <=> b["hand"][o] = 0
  BY <1>1, <1>3, <1>7
<1>9. Orderly(r)
  BY <1>1, <1>3, <1>5, <1>6, <1>7 DEF Orderly, Same
<1> QED BY <1>6, <1>7, <1>8, <1>9

LEMMA ChangeHandDoes ==
  ASSUME NEW b, Orderly(b), NEW o \in Objects, NEW r, r = ChangeHand(b, o)
  PROVE  /\ Orderly(r) /\ \A p \in Objects \ {o} : Same(b, r, p)
         /\ r["hand"][o] = b["latest"][o] + 1 /\ r["latest"][o] = b["latest"][o] + 1
         /\ r["sent"][o] = b["sent"][o]
         /\ r["scene"][o] = IF b["scene"][o] = b["hand"][o] THEN b["latest"][o] + 1 ELSE b["scene"][o]
<1> DEFINE v == b["latest"][o] + 1
<1>1. b \in Boards
  BY DEF Orderly
<1>2. /\ r["hand"] = [b["hand"] EXCEPT ![o] = v] /\ r["latest"] = [b["latest"] EXCEPT ![o] = v]
      /\ r["sent"] = b["sent"]
      /\ r["scene"] = [b["scene"] EXCEPT ![o] = IF b["scene"][o] = b["hand"][o] THEN v ELSE b["scene"][o]]
      /\ r = [k \in {"scene", "hand", "sent", "latest"} |-> r[k]]
  BY <1>1 DEF ChangeHand, Boards
<1>3. \A p \in Objects : /\ b["scene"][p] \in Nat /\ b["hand"][p] \in Nat
                         /\ b["sent"][p] \in Nat /\ b["latest"][p] \in Nat
  BY <1>1, BoardOf
<1>4. v \in Nat
  BY <1>3
<1> HIDE DEF v
<1>5. /\ r["scene"] \in [Objects -> Nat] /\ r["hand"] \in [Objects -> Nat]
      /\ r["sent"] \in [Objects -> Nat] /\ r["latest"] \in [Objects -> Nat]
  BY <1>1, <1>2, <1>3, <1>4, BoardOf
<1>6. r \in Boards
  BY <1>2, <1>5 DEF Boards
<1>7. \A p \in Objects \ {o} : Same(b, r, p)
  BY <1>1, <1>2, BoardOf DEF Same
<1>8. /\ r["hand"][o] = v /\ r["latest"][o] = v /\ r["sent"][o] = b["sent"][o]
      /\ r["scene"][o] = IF b["scene"][o] = b["hand"][o] THEN v ELSE b["scene"][o]
  BY <1>1, <1>2, BoardOf
<1>9. Orderly(r)
  BY <1>3, <1>6, <1>7, <1>8 DEF Orderly, Same, v
<1> QED BY <1>7, <1>8, <1>9 DEF v

\* Another version of o, here and at the peers.
LEMMA ReplaceDoes ==
  ASSUME NEW b, Orderly(b), NEW o \in Objects, NEW r, r = Replace(b, o)
  PROVE  /\ Orderly(r) /\ \A p \in Objects \ {o} : Same(b, r, p)
         /\ r["scene"][o] = b["latest"][o] + 1 /\ r["sent"][o] = b["latest"][o] + 1
         /\ r["latest"][o] = b["latest"][o] + 1 /\ r["hand"][o] = b["hand"][o]
<1> DEFINE v == b["latest"][o] + 1
<1>1. b \in Boards
  BY DEF Orderly
<1>2. /\ r["scene"] = [b["scene"] EXCEPT ![o] = v] /\ r["latest"] = [b["latest"] EXCEPT ![o] = v]
      /\ r["sent"] = [b["sent"] EXCEPT ![o] = v] /\ r["hand"] = b["hand"]
      /\ r = [k \in {"scene", "hand", "sent", "latest"} |-> r[k]]
  BY <1>1 DEF Replace, Boards
<1>3. \A p \in Objects : /\ b["scene"][p] \in Nat /\ b["hand"][p] \in Nat
                         /\ b["sent"][p] \in Nat /\ b["latest"][p] \in Nat
  BY <1>1, BoardOf
<1>4. v \in Nat
  BY <1>3
<1> HIDE DEF v
<1>5. /\ r["scene"] \in [Objects -> Nat] /\ r["hand"] \in [Objects -> Nat]
      /\ r["sent"] \in [Objects -> Nat] /\ r["latest"] \in [Objects -> Nat]
  BY <1>1, <1>2, <1>4, BoardOf
<1>6. r \in Boards
  BY <1>2, <1>5 DEF Boards
<1>7. \A p \in Objects \ {o} : Same(b, r, p)
  BY <1>1, <1>2, BoardOf DEF Same
<1>8. r["scene"][o] = v /\ r["latest"][o] = v /\ r["sent"][o] = v /\ r["hand"][o] = b["hand"][o]
  BY <1>1, <1>2, BoardOf
<1>9. Orderly(r)
  BY <1>3, <1>6, <1>7, <1>8 DEF Orderly, Same, v
<1> QED BY <1>7, <1>8, <1>9 DEF v

LEMMA CreateDoes ==
  ASSUME NEW b, Orderly(b), NEW o \in Objects, b["latest"][o] = 0, NEW r, r = Create(b, o)
  PROVE  /\ Orderly(r) /\ \A p \in Objects \ {o} : Same(b, r, p)
         /\ r["scene"][o] = 1 /\ r["latest"][o] = 1 /\ r["hand"][o] = 0 /\ r["sent"][o] = 0
<1>1. b \in Boards
  BY DEF Orderly
<1>2. /\ r["scene"] = [b["scene"] EXCEPT ![o] = 1] /\ r["latest"] = [b["latest"] EXCEPT ![o] = 1]
      /\ r["sent"] = b["sent"] /\ r["hand"] = b["hand"]
      /\ r = [k \in {"scene", "hand", "sent", "latest"} |-> r[k]]
  BY <1>1 DEF Create, Boards
<1>3. \A p \in Objects : /\ b["scene"][p] \in Nat /\ b["hand"][p] \in Nat
                         /\ b["sent"][p] \in Nat /\ b["latest"][p] \in Nat
  BY <1>1, BoardOf
<1>4. /\ r["scene"] \in [Objects -> Nat] /\ r["hand"] \in [Objects -> Nat]
      /\ r["sent"] \in [Objects -> Nat] /\ r["latest"] \in [Objects -> Nat]
  BY <1>1, <1>2, BoardOf
<1>5. r \in Boards
  BY <1>2, <1>4 DEF Boards
<1>6. \A p \in Objects \ {o} : Same(b, r, p)
  BY <1>1, <1>2, BoardOf DEF Same
<1>7. b["hand"][o] = 0 /\ b["sent"][o] = 0
  BY <1>3 DEF Orderly
<1>8. r["scene"][o] = 1 /\ r["latest"][o] = 1 /\ r["hand"][o] = 0 /\ r["sent"][o] = 0
  BY <1>1, <1>2, <1>7, BoardOf
<1>9. Orderly(r)
  BY <1>3, <1>5, <1>6, <1>8 DEF Orderly, Same
<1> QED BY <1>6, <1>8, <1>9

LEMMA BroadcastDoes ==
  ASSUME NEW b, Orderly(b), NEW S \in SUBSET Objects, NEW from \in {"scene", "hand"}, NEW r, r = Broadcast(b, S, from)
  PROVE  /\ Orderly(r) /\ \A o \in Objects \ S : Same(b, r, o)
         /\ \A o \in S : /\ r["sent"][o] = b[from][o] /\ r["scene"][o] = b["scene"][o]
                         /\ r["hand"][o] = b["hand"][o] /\ r["latest"][o] = b["latest"][o]
<1>1. b \in Boards
  BY DEF Orderly
<1>2. /\ r["sent"] = [o \in Objects |-> IF o \in S THEN b[from][o] ELSE b["sent"][o]]
      /\ r["scene"] = b["scene"] /\ r["hand"] = b["hand"] /\ r["latest"] = b["latest"]
      /\ r = [k \in {"scene", "hand", "sent", "latest"} |-> r[k]]
  BY <1>1 DEF Broadcast, Boards
<1>3. \A o \in Objects : /\ b[from][o] \in Nat /\ b["sent"][o] \in Nat
                         /\ b[from][o] <= b["latest"][o]
  BY <1>1, BoardOf DEF Orderly
<1>4. r["sent"] \in [Objects -> Nat]
  BY <1>2, <1>3
<1>5. r \in Boards
  BY <1>1, <1>2, <1>4 DEF Boards
<1>6. \A o \in Objects \ S : Same(b, r, o)
  BY <1>2 DEF Same
<1>7. \A o \in S : r["sent"][o] = b[from][o]
  BY <1>2
<1>8. Orderly(r)
  BY <1>2, <1>3, <1>5 DEF Orderly
<1> QED BY <1>2, <1>6, <1>7, <1>8

LEMMA EraseDoes ==
  ASSUME NEW b, Orderly(b), NEW S \in SUBSET Objects, NEW r, r = Erase(b, S)
  PROVE  /\ Orderly(r) /\ \A o \in Objects \ S : Same(b, r, o)
         /\ \A o \in S : /\ r["scene"][o] = 0 /\ r["sent"][o] = 0
                         /\ r["hand"][o] = b["hand"][o] /\ r["latest"][o] = b["latest"][o]
<1>1. b \in Boards
  BY DEF Orderly
<1>2. /\ r["scene"] = [o \in Objects |-> IF o \in S THEN 0 ELSE b["scene"][o]]
      /\ r["sent"] = [o \in Objects |-> IF o \in S THEN 0 ELSE b["sent"][o]]
      /\ r["hand"] = b["hand"] /\ r["latest"] = b["latest"]
      /\ r = [k \in {"scene", "hand", "sent", "latest"} |-> r[k]]
  BY <1>1 DEF Erase, Without, Boards
<1>3. r["scene"] \in [Objects -> Nat] /\ r["sent"] \in [Objects -> Nat]
  BY <1>1, <1>2, BoardOf
<1>4. r \in Boards
  BY <1>1, <1>2, <1>3 DEF Boards
<1>5. \A o \in Objects \ S : Same(b, r, o)
  BY <1>2 DEF Same
<1>6. \A o \in S : /\ r["scene"][o] = 0 /\ r["sent"][o] = 0
                   /\ r["hand"][o] = b["hand"][o] /\ r["latest"][o] = b["latest"][o]
  BY <1>2
<1>7. \A o \in Objects : 0 <= b["latest"][o]
  BY <1>1, BoardOf
<1>8. Orderly(r)
  BY <1>2, <1>4, <1>7 DEF Orderly
<1> QED BY <1>5, <1>6, <1>8

-----------------------------------------------------------------------------
(* The invariant. *)

Typing ==
  /\ Orderly(board) /\ \A o \in Objects : board["latest"][o] <= MaxChanges
  /\ action \in {"none", "pan", "create", "move", "endpoint", "erase"}
  /\ target \in Objects \union {NoObject}
  /\ moved \in BOOLEAN
  /\ erased \subseteq Objects
  /\ selected \in Objects \union {NoObject}
  /\ editing \in [id : Objects \union {NoObject}, isNew : BOOLEAN]
  /\ torn \subseteq Objects /\ unbound \subseteq Connectors

\* Drags hold objects, the one they drag among them; an endpoint drag holds no other.
Holding ==
  /\ \A o \in Objects : board["hand"][o] # 0 => action \in {"move", "endpoint"}
  /\ action \in {"move", "endpoint"} => target \in Objects /\ board["hand"][target] # 0
  /\ action = "endpoint" => \A o \in Objects : board["hand"][o] # 0 => o = target

\* Nobody else has heard of a draft, and no gesture holds it.
Drafted ==
  /\ action = "create" => target \in Objects /\ board["latest"][target] = 0
  /\ editing.isNew => /\ editing.id \in Objects /\ board["latest"][editing.id] # 0
                      /\ board["sent"][editing.id] = 0 /\ board["hand"][editing.id] = 0

\* What ChangesAreRelayed makes an exception of.
Excused == torn \union unbound

\* Of any other o: what is in hand is in the scene, and what is not was sent.
Whole(o) == o \notin Excused =>
  /\ board["hand"][o] # 0 => board["hand"][o] = board["scene"][o]
  /\ board["hand"][o] = 0 /\ o \notin Drafts => board["scene"][o] = board["sent"][o]
  /\ action = "move" /\ ~ moved /\ target = o => board["scene"][o] = board["sent"][o]

IInv == Typing /\ Holding /\ Drafted /\ \A o \in Objects : Whole(o)

LEMMA IInvInit == Init => IInv
<1> SUFFICES ASSUME Init PROVE IInv
  OBVIOUS
<1>1. board \in Boards /\ \A o \in Objects : /\ board["scene"][o] = 0 /\ board["hand"][o] = 0
                                             /\ board["sent"][o] = 0 /\ board["latest"][o] = 0
  BY DEF Init, Boards
<1>2. Orderly(board) /\ \A o \in Objects : board["latest"][o] <= MaxChanges
  BY <1>1, MaxChangesNat DEF Orderly
<1>3. Typing
  BY <1>2 DEF Init, Typing, Closed
<1>4. Holding /\ Drafted /\ \A o \in Objects : Whole(o)
  BY <1>1 DEF Init, Holding, Drafted, Whole, Closed
<1> QED BY <1>3, <1>4 DEF IInv

\* What is not excused after a step was not before, nor by what the step tears or unbinds.
LEMMA TornOrWhole ==
  ASSUME NEW S, NEW U, Tear(S, U), NEW o \in Objects, o \in Excused \/ o \in S \/ o \in U
  PROVE  Whole(o)'
BY DEF Tear, Unsettled, Whole, Excused

LEMMA TearTypes ==
  ASSUME Typing, NEW S \in SUBSET Objects, NEW U \in SUBSET Connectors, Tear(S, U)
  PROVE  /\ torn' \subseteq Objects /\ unbound' \subseteq Connectors
         /\ \A o \in Objects : board'["latest"][o] <= MaxChanges
BY DEF Tear, Unsettled, Typing

-----------------------------------------------------------------------------
(* Most steps leave the gesture alone and keep what was sent sent. *)

Steady(b, r, o) ==
  /\ r["hand"][o] = 0 <=> b["hand"][o] = 0
  /\ b["scene"][o] = b["sent"][o] => r["scene"][o] = r["sent"][o]

LEMMA SameIsSteady == ASSUME NEW b, NEW r, NEW o, Same(b, r, o) PROVE Steady(b, r, o)
BY DEF Same, Steady

LEMMA SteadyStep ==
  ASSUME IInv, Done, Orderly(board'), \A o \in Objects : Steady(board, board', o),
         UNCHANGED <<action, target, moved>>, erased' \subseteq Objects,
         selected' \in Objects \union {NoObject},
         editing' \in [id : Objects \union {NoObject}, isNew : BOOLEAN],
         action = "create" => board'["latest"][target] = 0,
         editing'.isNew => editing' = editing /\ board'["sent"][editing.id] = 0 /\ board'["latest"][editing.id] # 0,
         editing.isNew /\ ~ editing'.isNew => board'["scene"][editing.id] = board'["sent"][editing.id]
  PROVE  IInv'
<1> DEFINE S == Pulled
<1>1. S \in SUBSET Objects /\ Tear(S, {})
  BY DEF Done, Pulled, InHand
<1>2. Typing'
  <2>1. torn' \subseteq Objects /\ unbound' \subseteq Connectors /\ \A o \in Objects : board'["latest"][o] <= MaxChanges
    BY <1>1, TearTypes DEF IInv
  <2> QED BY <2>1 DEF IInv, Typing
<1>3. \A o \in Objects : board'["hand"][o] = 0 <=> board["hand"][o] = 0
  BY DEF Steady
<1>4. Holding'
  BY <1>3 DEF IInv, Holding
<1>5. Drafted'
  BY <1>3 DEF IInv, Drafted
<1>6. ASSUME NEW o \in Objects PROVE Whole(o)'
  <2>1. CASE o \in Excused \/ o \in S
    BY <1>1, <2>1, TornOrWhole
  <2>2. CASE o \notin Excused /\ o \notin S
    <3>1. board'["hand"][o] # 0 => board'["hand"][o] = board'["scene"][o]
      BY <1>3, <2>2 DEF Pulled, InHand
    <3>2. ASSUME board'["hand"][o] = 0, o \notin Drafts' PROVE board'["scene"][o] = board'["sent"][o]
      <4>1. CASE o \in Drafts
        BY <3>2, <4>1 DEF Drafts
      <4>2. CASE o \notin Drafts
        BY <1>3, <2>2, <3>2, <4>2 DEF IInv, Whole, Steady
      <4> QED BY <4>1, <4>2
    <3>3. action = "move" /\ ~ moved /\ target = o => board'["scene"][o] = board'["sent"][o]
      BY <2>2 DEF IInv, Whole, Steady
    <3> QED BY <3>1, <3>2, <3>3 DEF Whole
  <2> QED BY <2>1, <2>2
<1> QED BY <1>2, <1>4, <1>5, <1>6 DEF IInv

\* The editor's commit: an edited object is sent as it is in the scene, or it is gone.
LEMMA CommitDoes ==
  ASSUME IInv, NEW b \in Commits
  PROVE  /\ Orderly(b) /\ \A o \in Objects : Steady(board, b, o)
         /\ \A o \in Objects : board["latest"][o] = 0 <=> b["latest"][o] = 0
         /\ editing.isNew => b["scene"][editing.id] = b["sent"][editing.id]
<1>1. PICK empty \in BOOLEAN : b = Committed(board, empty)
  BY DEF Commits
<1>2. Orderly(board) /\ editing.id \in Objects \union {NoObject}
  BY DEF IInv, Typing
<1>3. \A o \in Objects : Same(board, board, o)
  BY DEF Same
<1>4. CASE editing.id = NoObject
  <2>1. b = board
    BY <1>1, <1>4 DEF Committed
  <2> QED BY <1>2, <1>3, <1>4, <2>1, SameIsSteady, NoObjectIsNone DEF IInv, Drafted
<1>5. CASE editing.id # NoObject
  <2> DEFINE o == editing.id
  <2>1. o \in Objects
    BY <1>2, <1>5
  <2>2. /\ board \in Boards
        /\ \A p \in Objects : /\ board["scene"][p] \in Nat /\ board["hand"][p] \in Nat
                              /\ board["sent"][p] \in Nat /\ board["latest"][p] \in Nat
    BY <1>2, BoardOf DEF Orderly
  <2> HIDE DEF o
  <2>3. CASE board["scene"][o] = 0
    <3>1. b = board
      BY <1>1, <1>5, <2>3 DEF Committed, o
    <3> QED BY <1>2, <1>3, <2>3, <3>1, SameIsSteady DEF IInv, Drafted, o
  <2>4. CASE board["scene"][o] # 0 /\ b = [board EXCEPT !["scene"][o] = 0] /\ editing.isNew
    <3>1. /\ b["scene"] = [board["scene"] EXCEPT ![o] = 0] /\ b["sent"] = board["sent"]
          /\ b["hand"] = board["hand"] /\ b["latest"] = board["latest"]
          /\ b = [k \in {"scene", "hand", "sent", "latest"} |-> b[k]]
      BY <2>2, <2>4 DEF Boards
    <3>2. b["scene"] \in [Objects -> Nat]
      BY <2>1, <2>2, <3>1, BoardOf
    <3>3. b \in Boards
      BY <2>2, <3>1, <3>2 DEF Boards
    <3>4. b["scene"][o] = 0 /\ \A p \in Objects \ {o} : b["scene"][p] = board["scene"][p]
      BY <2>1, <2>2, <3>1, BoardOf
    <3>5. Orderly(b)
      BY <1>2, <2>2, <3>1, <3>3, <3>4 DEF Orderly
    <3>6. board["sent"][o] = 0
      BY <2>4 DEF IInv, Drafted, o
    <3>7. \A p \in Objects : Steady(board, b, p)
      BY <3>1, <3>4, <3>6 DEF Steady
    <3> QED BY <3>1, <3>4, <3>5, <3>6, <3>7 DEF o
  <2>5. CASE b = Erase(board, {o})
    <3>1. /\ Orderly(b) /\ \A p \in Objects \ {o} : Same(board, b, p)
          /\ b["scene"][o] = 0 /\ b["sent"][o] = 0
          /\ b["hand"][o] = board["hand"][o] /\ b["latest"][o] = board["latest"][o]
      BY <1>2, <2>1, <2>5, EraseDoes
    <3> QED BY <3>1 DEF Same, Steady, o
  <2>6. CASE board["scene"][o] # 0 /\ b = Broadcast(ChangeShown(board, {o}), {o}, "scene")
    <3>1. PICK q : q = ChangeShown(board, {o})
      OBVIOUS
    <3>2. {o} \in SUBSET On(board)
      BY <2>1, <2>6 DEF On
    <3>3. /\ Orderly(q) /\ \A p \in Objects \ {o} : Same(board, q, p)
          /\ q["latest"][o] = board["latest"][o] + 1
          /\ q["hand"][o] = 0 <=> board["hand"][o] = 0
      BY <1>2, <3>1, <3>2, ChangeShownDoes
    <3>4. /\ Orderly(b) /\ \A p \in Objects \ {o} : Same(q, b, p)
          /\ b["sent"][o] = q["scene"][o] /\ b["scene"][o] = q["scene"][o]
          /\ b["hand"][o] = q["hand"][o] /\ b["latest"][o] = q["latest"][o]
      <4>1. {o} \in SUBSET Objects /\ "scene" \in {"scene", "hand"} /\ b = Broadcast(q, {o}, "scene")
        BY <2>1, <2>6, <3>1
      <4> QED BY <3>3, <4>1, BroadcastDoes
    <3>5. \A p \in Objects : Steady(board, b, p)
      BY <3>3, <3>4 DEF Same, Steady
    <3>6. board["latest"][o] # 0 /\ b["latest"][o] # 0
      BY <1>2, <2>1, <2>2, <2>6, <3>3, <3>4 DEF Orderly
    <3>7. \A p \in Objects : board["latest"][p] = 0 <=> b["latest"][p] = 0
      BY <3>3, <3>4, <3>6 DEF Same
    <3> QED BY <3>4, <3>5, <3>7 DEF o
  <2> QED BY <1>1, <1>5, <2>3, <2>4, <2>5, <2>6 DEF Committed, o
<1> QED BY <1>4, <1>5

-----------------------------------------------------------------------------
(* The steps. *)

LEMMA ClosedEditor ==
  ASSUME editing' = Closed
  PROVE  editing' \in [id : Objects \union {NoObject}, isNew : BOOLEAN] /\ ~ editing'.isNew
BY DEF Closed

LEMMA CommitKeeps ==
  ASSUME IInv, board' \in Commits, editing' = Closed, UNCHANGED gesture,
         selected' \in {selected, NoObject}, Done
  PROVE  IInv'
<1>1. /\ Orderly(board') /\ \A o \in Objects : Steady(board, board', o)
      /\ \A o \in Objects : board["latest"][o] = 0 <=> board'["latest"][o] = 0
      /\ editing.isNew => board'["scene"][editing.id] = board'["sent"][editing.id]
  BY CommitDoes
<1>2. action = "create" => board'["latest"][target] = 0
  BY <1>1 DEF IInv, Drafted
<1>3. UNCHANGED <<action, target, moved>> /\ erased' \subseteq Objects /\ selected' \in Objects \union {NoObject}
  BY DEF gesture, IInv, Typing
<1> QED BY <1>1, <1>2, <1>3, ClosedEditor, SteadyStep

LEMMA EraseKeeps ==
  ASSUME IInv, NEW S \in SUBSET Objects, board' = Erase(board, S), UNCHANGED <<action, target, moved, editing>>,
         erased' \subseteq Objects, selected' \in Objects \union {NoObject}, Done
  PROVE  IInv'
<1>1. /\ Orderly(board') /\ \A o \in Objects \ S : Same(board, board', o)
      /\ \A o \in S : /\ board'["scene"][o] = 0 /\ board'["sent"][o] = 0
                      /\ board'["hand"][o] = board["hand"][o] /\ board'["latest"][o] = board["latest"][o]
  BY EraseDoes DEF IInv, Typing
<1>2. \A o \in Objects : Steady(board, board', o) /\ board'["latest"][o] = board["latest"][o]
  BY <1>1 DEF Same, Steady
<1>3. \A o \in Objects : board["sent"][o] = 0 => board'["sent"][o] = 0
  BY <1>1 DEF Same
<1>4. action = "create" => board'["latest"][target] = 0
  BY <1>2 DEF IInv, Drafted
<1>5. editing'.isNew => editing' = editing /\ board'["sent"][editing.id] = 0 /\ board'["latest"][editing.id] # 0
  BY <1>2, <1>3 DEF IInv, Drafted
<1>6. editing' \in [id : Objects \union {NoObject}, isNew : BOOLEAN]
  BY DEF IInv, Typing
<1> QED BY <1>1, <1>2, <1>4, <1>5, <1>6, SteadyStep

LEMMA ReorderKeeps == ASSUME IInv, ReorderSelected PROVE IInv'
<1>1. selected \in Objects /\ {selected} \in SUBSET On(board) /\ {selected} \in SUBSET Objects
  BY DEF ReorderSelected, On
<1>2. PICK q : q = ChangeShown(board, {selected})
  OBVIOUS
<1>3. /\ Orderly(q) /\ \A p \in Objects \ {selected} : Same(board, q, p)
      /\ q["hand"][selected] = 0 <=> board["hand"][selected] = 0
  BY <1>1, <1>2, ChangeShownDoes DEF IInv, Typing
<1>4. /\ Orderly(board') /\ \A p \in Objects \ {selected} : Same(q, board', p)
      /\ board'["sent"][selected] = q["scene"][selected] /\ board'["scene"][selected] = q["scene"][selected]
      /\ board'["hand"][selected] = q["hand"][selected]
  <2>1. board' = Broadcast(q, {selected}, "scene") /\ "scene" \in {"scene", "hand"}
    BY <1>2 DEF ReorderSelected
  <2> QED BY <1>1, <1>3, <2>1, BroadcastDoes
<1>5. \A o \in Objects : Steady(board, board', o)
  BY <1>3, <1>4 DEF Same, Steady
<1>6. \A o \in Objects \ {selected} : board'["latest"][o] = board["latest"][o]
  BY <1>3, <1>4 DEF Same
<1>7. action = "create" => selected # target
  <2>1. board["scene"][selected] # 0 /\ board["latest"][selected] # 0
    BY <1>1, BoardOf DEF On, IInv, Typing, Orderly
  <2> QED BY <2>1 DEF IInv, Drafted
<1>8. action = "create" => board'["latest"][target] = 0
  BY <1>6, <1>7 DEF IInv, Drafted
<1>9. /\ UNCHANGED <<action, target, moved, editing, selected>> /\ erased' \subseteq Objects
      /\ selected \in Objects \union {NoObject} /\ editing' \in [id : Objects \union {NoObject}, isNew : BOOLEAN]
      /\ ~ editing.isNew /\ Done
  BY DEF ReorderSelected, gesture, Closed, IInv, Typing
<1> QED BY <1>4, <1>5, <1>8, <1>9, SteadyStep

\* Tools and the opening of an editor leave the board alone.
LEMMA AloneKeeps ==
  ASSUME IInv, UNCHANGED <<board, gesture>>, selected' \in Objects \union {NoObject}, ~ editing.isNew,
         editing' \in [id : Objects \union {NoObject}, isNew : {FALSE}], Done
  PROVE  IInv'
<1>1. Orderly(board') /\ \A o \in Objects : Steady(board, board', o)
  BY DEF IInv, Typing, Steady
<1>2. UNCHANGED <<action, target, moved>> /\ erased' \subseteq Objects
  BY DEF gesture, IInv, Typing
<1>3. action = "create" => board'["latest"][target] = 0
  BY DEF IInv, Drafted
<1>4. editing' \in [id : Objects \union {NoObject}, isNew : BOOLEAN] /\ ~ editing'.isNew
  OBVIOUS
<1> QED BY <1>1, <1>2, <1>3, <1>4, SteadyStep

LEMMA BeginEditKeeps == ASSUME IInv, BeginEdit PROVE IInv'
<1>1. PICK o \in Objects : /\ editing' = [id |-> o, isNew |-> FALSE]
                           /\ selected' \in IF o \in Shapes THEN {selected, o} ELSE {selected}
  BY DEF BeginEdit, On
<1>2. selected' \in Objects \union {NoObject}
  BY <1>1 DEF IInv, Typing
<1>3. ~ editing.isNew /\ UNCHANGED <<board, gesture>> /\ Done
  BY DEF BeginEdit, Closed
<1> QED BY <1>1, <1>2, <1>3, AloneKeeps

LEMMA ChangeToolKeeps == ASSUME IInv, ChangeTool PROVE IInv'
<1>1. ~ editing.isNew /\ UNCHANGED <<board, gesture>> /\ selected' \in Objects \union {NoObject} /\ Done
  BY DEF ChangeTool, Closed
<1>2. editing' = Closed /\ Closed \in [id : Objects \union {NoObject}, isNew : {FALSE}]
  BY DEF ChangeTool, Closed
<1> QED BY <1>1, <1>2, AloneKeeps

LEMMA ApplyAddKeeps == ASSUME IInv, ApplyAdd PROVE IInv'
<1>1. PICK o \in Objects \ Drafts : board' = Replace(board, o)
  BY DEF ApplyAdd
<1>2. /\ Orderly(board') /\ \A p \in Objects \ {o} : Same(board, board', p)
      /\ board'["scene"][o] = board'["sent"][o] /\ board'["hand"][o] = board["hand"][o]
  <2>1. o \in Objects /\ Orderly(board)
    BY DEF IInv, Typing
  <2>2. PICK r : r = Replace(board, o)
    OBVIOUS
  <2>3. /\ Orderly(r) /\ \A p \in Objects \ {o} : Same(board, r, p)
        /\ r["scene"][o] = board["latest"][o] + 1 /\ r["sent"][o] = board["latest"][o] + 1
        /\ r["hand"][o] = board["hand"][o]
    BY <2>1, <2>2, ReplaceDoes
  <2> QED BY <1>1, <2>2, <2>3
<1>3. \A p \in Objects : Steady(board, board', p)
  BY <1>2 DEF Same, Steady
<1>4. action = "create" => board'["latest"][target] = 0
  BY <1>1, <1>2 DEF Drafts, IInv, Drafted, Same
<1>5. editing.isNew => board'["sent"][editing.id] = 0 /\ board'["latest"][editing.id] # 0
  BY <1>1, <1>2 DEF Drafts, IInv, Drafted, Same
<1>6. /\ UNCHANGED <<action, target, moved, editing, selected>> /\ erased' \subseteq Objects
      /\ selected \in Objects \union {NoObject} /\ editing' \in [id : Objects \union {NoObject}, isNew : BOOLEAN]
      /\ Done
  BY DEF ApplyAdd, gesture, IInv, Typing
<1> QED BY <1>2, <1>3, <1>4, <1>5, <1>6, SteadyStep

LEMMA NewTextKeeps == ASSUME IInv, NewText PROVE IInv'
<1> DEFINE S == Pulled
<1>1. PICK o \in Unused \intersect Texts : /\ board' = Create(board, o) /\ selected' = o
                                           /\ editing' = [id |-> o, isNew |-> TRUE]
  BY DEF NewText
<1>2. /\ ~ editing.isNew /\ UNCHANGED <<action, target, moved, erased>> /\ S \in SUBSET Objects /\ Tear(S, {})
  BY DEF NewText, Done, Pulled, gesture, Closed, InHand
<1>3. o \in Objects /\ o # target /\ board["latest"][o] = 0
  BY <1>1 DEF Unused
<1>4. /\ Orderly(board') /\ \A p \in Objects \ {o} : Same(board, board', p)
      /\ board'["latest"][o] = 1 /\ board'["hand"][o] = 0 /\ board'["sent"][o] = 0
  BY <1>1, <1>3, CreateDoes DEF IInv, Typing
<1>5. board["hand"][o] = 0
  BY <1>3, BoardOf DEF IInv, Typing, Orderly
<1>6. \A p \in Objects : board'["hand"][p] = board["hand"][p]
  BY <1>4, <1>5 DEF Same
<1>7. Typing'
  <2>1. torn' \subseteq Objects /\ unbound' \subseteq Connectors /\ \A p \in Objects : board'["latest"][p] <= MaxChanges
    BY <1>2, TearTypes DEF IInv
  <2>2. editing' \in [id : Objects \union {NoObject}, isNew : BOOLEAN]
    BY <1>1, <1>3
  <2> QED BY <1>1, <1>2, <1>3, <1>4, <2>1, <2>2 DEF IInv, Typing
<1>8. Holding'
  BY <1>2, <1>6 DEF IInv, Holding
<1>9. Drafted'
  <2>1. action = "create" => target \in Objects /\ board'["latest"][target] = 0
    BY <1>3, <1>4 DEF IInv, Drafted, Same
  <2> QED BY <1>1, <1>2, <1>3, <1>4, <2>1 DEF Drafted
<1>10. ASSUME NEW p \in Objects PROVE Whole(p)'
  <2>1. CASE p \in Excused \/ p \in S
    BY <1>2, <2>1, TornOrWhole
  <2>2. CASE p = o
    BY <1>1, <1>2, <1>3, <1>4, <2>2 DEF Whole, Drafts
  <2>3. CASE p # o /\ p \notin Excused
    <3>1. p \notin Drafts' => p \notin Drafts
      BY <1>2 DEF Drafts
    <3> QED BY <1>2, <1>4, <2>3, <3>1 DEF IInv, Whole, Same
  <2> QED BY <2>1, <2>2, <2>3
<1> QED BY <1>7, <1>8, <1>9, <1>10 DEF IInv

\* A drag goes on, with a move noted or the connector it drags excused.
LEMMA DragKeeps ==
  ASSUME IInv, action \in {"move", "endpoint"}, board' = ChangeHand(board, target), moved' \in BOOLEAN,
         UNCHANGED <<action, target, erased, selected, editing>>,
         NEW U \in SUBSET Connectors, Tear(Pulled, U), target \in U \/ (action = "move" => moved')
  PROVE  IInv'
<1>1. Pulled \in SUBSET Objects
  BY DEF Pulled, InHand
<1>2. target \in Objects /\ board["hand"][target] # 0 /\ Orderly(board)
  BY DEF IInv, Typing, Holding
<1>3. /\ Orderly(board') /\ \A p \in Objects \ {target} : Same(board, board', p)
      /\ board'["hand"][target] = board["latest"][target] + 1
  BY <1>2, ChangeHandDoes
<1>4. board["latest"][target] \in Nat /\ board'["hand"][target] # 0
  BY <1>2, <1>3, BoardOf DEF Orderly
<1>5. Typing'
  <2>1. torn' \subseteq Objects /\ unbound' \subseteq Connectors /\ \A p \in Objects : board'["latest"][p] <= MaxChanges
    BY <1>1, TearTypes DEF IInv
  <2> QED BY <1>3, <2>1 DEF IInv, Typing
<1>6. Holding'
  BY <1>2, <1>3, <1>4 DEF IInv, Holding, Same
<1>7. Drafted'
  BY <1>2, <1>3 DEF IInv, Drafted, Same
<1>8. ASSUME NEW p \in Objects PROVE Whole(p)'
  <2>1. CASE p \in Excused \/ p \in Pulled \/ p \in U
    BY <2>1, TornOrWhole
  <2>2. CASE p = target /\ p \notin Pulled /\ p \notin U
    BY <1>2, <1>4, <2>2 DEF Whole, Pulled, InHand
  <2>3. CASE p # target /\ p \notin Excused
    <3>1. p \notin Drafts' => p \notin Drafts
      BY DEF Drafts
    <3> QED BY <1>3, <2>3, <3>1 DEF IInv, Whole, Same
  <2> QED BY <2>1, <2>2, <2>3
<1> QED BY <1>5, <1>6, <1>7, <1>8 DEF IInv

LEMMA PointerMoveKeeps == ASSUME IInv, PointerMove \/ PointerMoveInPlace PROVE IInv'
<1>1. {} \in SUBSET Connectors /\ moved \in BOOLEAN
  BY DEF IInv, Typing
<1>2. CASE PointerMove
  <2>1. /\ action \in {"move", "endpoint"} /\ board' = ChangeHand(board, target) /\ Tear(Pulled, {})
        /\ UNCHANGED <<action, target, erased, selected, editing>> /\ moved' = (moved \/ action = "move")
    BY <1>2 DEF PointerMove, Done
  <2>2. moved' \in BOOLEAN /\ (action = "move" => moved')
    BY <1>1, <2>1
  <2> QED BY <1>1, <2>1, <2>2, DragKeeps
<1>3. CASE PointerMoveInPlace
  <2>1. /\ action \in {"move", "endpoint"} /\ board' = ChangeHand(board, target) /\ Tear(Pulled, {target})
        /\ UNCHANGED <<action, target, moved, erased, selected, editing>> /\ {target} \in SUBSET Connectors
    BY <1>3 DEF PointerMoveInPlace
  <2>2. moved' \in BOOLEAN
    BY <1>1, <2>1
  <2> QED BY <2>1, <2>2, DragKeeps
<1> QED BY <1>2, <1>3

\* A gesture that starts takes what it holds out of the scene; none does at the end of one.
Taking(b, S) == [b EXCEPT !["hand"] = [p \in Objects |-> IF p \in S THEN b["scene"][p] ELSE 0]]

LEMMA StartDoes ==
  ASSUME NEW b, Orderly(b), NEW S \in SUBSET Objects, NEW r, r = Taking(b, S)
  PROVE  /\ Orderly(r)
         /\ \A p \in Objects : /\ r["hand"][p] = IF p \in S THEN b["scene"][p] ELSE 0
                               /\ r["scene"][p] = b["scene"][p] /\ r["sent"][p] = b["sent"][p]
                               /\ r["latest"][p] = b["latest"][p]
<1>1. b \in Boards
  BY DEF Orderly
<1>2. /\ r["hand"] = [p \in Objects |-> IF p \in S THEN b["scene"][p] ELSE 0]
      /\ r["scene"] = b["scene"] /\ r["sent"] = b["sent"] /\ r["latest"] = b["latest"]
      /\ r = [k \in {"scene", "hand", "sent", "latest"} |-> r[k]]
  BY <1>1 DEF Taking, Boards
<1>3. r["hand"] \in [Objects -> Nat]
  BY <1>1, <1>2, BoardOf
<1>4. r \in Boards
  BY <1>1, <1>2, <1>3 DEF Boards
<1>5. \A p \in Objects : 0 <= b["latest"][p]
  BY <1>1, BoardOf
<1>6. Orderly(r)
  BY <1>2, <1>4, <1>5 DEF Orderly
<1> QED BY <1>2, <1>6

\* What is let go of was sent, or is as it was before it was taken.
LEMMA ReleasedFacts ==
  ASSUME IInv, action # "none"
  PROVE  /\ Released \in SUBSET Objects /\ \A p \in Released : board["hand"][p] # 0
         /\ \A p \in Objects \ Released : board["hand"][p] # 0 => action = "move" /\ ~ moved /\ target = p
<1>1. CASE action = "move"
  BY <1>1 DEF Released, InHand
<1>2. CASE action = "endpoint"
  BY <1>2 DEF Released, IInv, Holding
<1>3. CASE action \notin {"move", "endpoint"}
  BY <1>3 DEF Released, IInv, Holding
<1> QED BY <1>1, <1>2, <1>3

LEMMA PointerUpKeeps == ASSUME IInv, PointerUp PROVE IInv'
<1> DEFINE S == Pulled
<1>1. PICK c : c = Broadcast(board, Released, "hand")
  OBVIOUS
<1>2. /\ action # "none" /\ erased' = {} /\ UNCHANGED <<selected, editing>> /\ S \in SUBSET Objects /\ Tear(S, {})
      /\ \/ Start(c, "none", NoObject, {})
         \/ /\ action = "create"
            /\ Start(Broadcast(Create(c, target), {target}, "scene"), "none", NoObject, {})
  BY <1>1 DEF PointerUp, Done, Pulled, InHand
<1>3. /\ Released \in SUBSET Objects /\ \A p \in Released : board["hand"][p] # 0
      /\ \A p \in Objects \ Released : board["hand"][p] # 0 => action = "move" /\ ~ moved /\ target = p
  BY <1>2, ReleasedFacts
<1>4. /\ Orderly(c) /\ \A p \in Objects \ Released : Same(board, c, p)
      /\ \A p \in Released : /\ c["sent"][p] = board["hand"][p] /\ c["scene"][p] = board["scene"][p]
                             /\ c["latest"][p] = board["latest"][p]
  <2>1. Orderly(board) /\ "hand" \in {"scene", "hand"}
    BY DEF IInv, Typing
  <2> QED BY <1>1, <1>3, <2>1, BroadcastDoes
\* b is the board when the gesture ends; it has what it created.
<1>5. PICK b : /\ Orderly(b) /\ Start(b, "none", NoObject, {})
               /\ \A p \in Objects : \/ Same(c, b, p)
                                     \/ action = "create" /\ p = target /\ b["scene"][p] = b["sent"][p]
  <2>1. CASE Start(c, "none", NoObject, {})
    BY <1>4, <2>1 DEF Same
  <2>2. CASE action = "create" /\ Start(Broadcast(Create(c, target), {target}, "scene"), "none", NoObject, {})
    <3>1. PICK d, b : d = Create(c, target) /\ b = Broadcast(d, {target}, "scene")
      OBVIOUS
    <3>2. target \in Objects /\ c["latest"][target] = 0
      BY <1>4, <2>2 DEF IInv, Drafted, Same
    <3>3. Orderly(d) /\ \A p \in Objects \ {target} : Same(c, d, p)
      BY <1>4, <3>1, <3>2, CreateDoes
    <3>4. {target} \in SUBSET Objects /\ "scene" \in {"scene", "hand"}
      BY <3>2
    <3>5. /\ Orderly(b) /\ \A p \in Objects \ {target} : Same(d, b, p)
          /\ b["sent"][target] = d["scene"][target] /\ b["scene"][target] = d["scene"][target]
      BY <3>1, <3>3, <3>4, BroadcastDoes
    <3>6. \A p \in Objects \ {target} : Same(c, b, p)
      BY <3>3, <3>5 DEF Same
    <3> QED BY <2>2, <3>1, <3>5, <3>6
  <2> QED BY <1>2, <2>1, <2>2
<1>6. /\ Orderly(board') /\ action' = "none" /\ target' = NoObject /\ moved' = FALSE
      /\ \A p \in Objects : /\ board'["hand"][p] = 0 /\ board'["scene"][p] = b["scene"][p]
                            /\ board'["sent"][p] = b["sent"][p] /\ board'["latest"][p] = b["latest"][p]
  <2>1. /\ board' = Taking(b, {})
        /\ action' = "none" /\ target' = NoObject /\ moved' = FALSE
    BY <1>5 DEF Start, Taking
  <2>2. PICK r : r = board'
    OBVIOUS
  <2>3. {} \in SUBSET Objects
    OBVIOUS
  <2>4. /\ Orderly(r)
        /\ \A p \in Objects : /\ r["hand"][p] = IF p \in {} THEN b["scene"][p] ELSE 0
                              /\ r["scene"][p] = b["scene"][p] /\ r["sent"][p] = b["sent"][p]
                              /\ r["latest"][p] = b["latest"][p]
    BY <1>5, <2>1, <2>2, <2>3, StartDoes
  <2> QED BY <2>1, <2>2, <2>4
<1>7. Typing'
  <2>1. torn' \subseteq Objects /\ unbound' \subseteq Connectors /\ \A p \in Objects : board'["latest"][p] <= MaxChanges
    BY <1>2, TearTypes DEF IInv
  <2> QED BY <1>2, <1>6, <2>1 DEF IInv, Typing
<1>8. Holding'
  BY <1>6 DEF Holding
<1>9. Drafted'
  <2> SUFFICES ASSUME editing.isNew
               PROVE  /\ editing.id \in Objects /\ board'["latest"][editing.id] # 0
                      /\ board'["sent"][editing.id] = 0
    BY <1>2, <1>6 DEF Drafted
  <2>1. /\ editing.id \in Objects /\ board["latest"][editing.id] # 0
        /\ board["sent"][editing.id] = 0 /\ board["hand"][editing.id] = 0
        /\ action = "create" => editing.id # target
    BY DEF IInv, Drafted
  <2>2. Same(board, c, editing.id) /\ Same(c, b, editing.id)
    BY <1>3, <1>4, <1>5, <2>1
  <2> QED BY <1>6, <2>1, <2>2 DEF Same
<1>10. ASSUME NEW p \in Objects PROVE Whole(p)'
  <2>1. CASE p \in Excused
    BY <1>2, <2>1, TornOrWhole
  <2>2. CASE p \notin Excused
    <3> SUFFICES ASSUME p \notin Drafts' PROVE b["scene"][p] = b["sent"][p]
      BY <1>6 DEF Whole
    <3>1. CASE action = "create" /\ p = target
      <4>1. board["latest"][p] = 0 /\ board["hand"][p] = 0 /\ board["scene"][p] = 0 /\ board["sent"][p] = 0
        BY <3>1, BoardOf DEF IInv, Typing, Drafted, Orderly
      <4>2. Same(board, c, p)
        BY <1>3, <1>4, <4>1
      <4> QED BY <1>5, <4>1, <4>2 DEF Same
    <3>2. CASE ~ (action = "create" /\ p = target)
      <4>1. Same(c, b, p)
        BY <1>5, <3>2
      <4>2. p \notin Drafts
        BY <1>2, <3>2 DEF Drafts
      <4>3. CASE p \in Released
        BY <1>3, <1>4, <2>2, <4>1, <4>3 DEF IInv, Whole, Same
      <4>4. CASE p \notin Released
        <5>1. board["scene"][p] = board["sent"][p]
          BY <1>3, <2>2, <4>2, <4>4 DEF IInv, Whole
        <5> QED BY <1>4, <4>1, <4>4, <5>1 DEF Same
      <4> QED BY <4>3, <4>4
    <3> QED BY <3>1, <3>2
  <2> QED BY <2>1, <2>2
<1> QED BY <1>7, <1>8, <1>9, <1>10 DEF IInv

\* When a gesture starts, what no earlier one held is at the peers, editors and drafts included.
LEMMA Settled ==
  ASSUME IInv, NEW b \in Commits, NEW o \in Objects, o \notin Excused, o \notin InHand
  PROVE  b["scene"][o] = b["sent"][o]
<1>1. /\ Orderly(b) /\ Steady(board, b, o) /\ (board["latest"][o] = 0 => b["latest"][o] = 0)
      /\ editing.isNew => b["scene"][editing.id] = b["sent"][editing.id]
  BY CommitDoes
<1>2. board["hand"][o] = 0
  BY DEF InHand
<1>3. CASE action = "create" /\ o = target
  <2>1. b["latest"][o] = 0
    BY <1>1, <1>3 DEF IInv, Drafted
  <2> QED BY <1>1, <2>1, BoardOf DEF Orderly
<1>4. CASE editing.isNew /\ o = editing.id
  BY <1>1, <1>4
<1>5. CASE o \notin Drafts
  BY <1>1, <1>2, <1>5 DEF IInv, Whole, Steady
<1> QED BY <1>3, <1>4, <1>5 DEF Drafts

\* The start of a gesture, given what it does to the board and what it holds.
LEMMA DownStep ==
  ASSUME IInv, Tear(InHand, {}), editing' = Closed, Orderly(board'),
         action' \in {"pan", "create", "move", "endpoint", "erase"}, target' \in Objects \union {NoObject},
         moved' = FALSE, erased' \subseteq Objects, selected' \in Objects \union {NoObject},
         Holding',
         action' = "create" => target' \in Objects /\ board'["latest"][target'] = 0,
         \A o \in Objects :
           /\ board'["hand"][o] \in {0, board'["scene"][o]}
           /\ o \notin Excused /\ o \notin InHand /\ (board'["hand"][o] = 0 \/ target' = o) =>
                board'["scene"][o] = board'["sent"][o]
  PROVE  IInv'
<1>1. InHand \in SUBSET Objects
  BY DEF InHand
<1>2. Typing'
  <2>1. torn' \subseteq Objects /\ unbound' \subseteq Connectors /\ \A p \in Objects : board'["latest"][p] <= MaxChanges
    BY <1>1, TearTypes DEF IInv
  <2>2. editing' \in [id : Objects \union {NoObject}, isNew : BOOLEAN]
    BY ClosedEditor
  <2> QED BY <2>1, <2>2 DEF IInv, Typing
<1>3. Drafted'
  BY ClosedEditor DEF Drafted
<1>4. ASSUME NEW o \in Objects PROVE Whole(o)'
  <2>1. CASE o \in Excused \/ o \in InHand
    BY <2>1, TornOrWhole
  <2>2. CASE o \notin Excused /\ o \notin InHand
    BY <2>2 DEF Whole
  <2> QED BY <2>1, <2>2
<1> QED BY <1>2, <1>3, <1>4 DEF IInv

LEMMA DownEmptyKeeps ==
  ASSUME IInv, Tear(InHand, {}), editing' = Closed, NEW b \in Commits, NEW r, Orderly(r),
         NEW kind \in {"pan", "create", "erase"}, NEW o \in Objects \union {NoObject}, Start(r, kind, o, {}),
         kind = "create" => o \in Objects /\ r["latest"][o] = 0,
         \A p \in Objects : b["scene"][p] = b["sent"][p] => r["scene"][p] = r["sent"][p],
         erased' \subseteq Objects, selected' = selected
  PROVE  IInv'
<1>1. {} \in SUBSET Objects /\ action' = kind /\ target' = o /\ moved' = FALSE
  BY DEF Start
<1>2. /\ Orderly(board')
      /\ \A p \in Objects : /\ board'["hand"][p] = 0 /\ board'["scene"][p] = r["scene"][p]
                            /\ board'["sent"][p] = r["sent"][p] /\ board'["latest"][p] = r["latest"][p]
  <2>1. board' = Taking(r, {})
    BY DEF Start, Taking
  <2>2. PICK q : q = board'
    OBVIOUS
  <2>3. /\ Orderly(q)
        /\ \A p \in Objects : /\ q["hand"][p] = IF p \in {} THEN r["scene"][p] ELSE 0
                              /\ q["scene"][p] = r["scene"][p] /\ q["sent"][p] = r["sent"][p]
                              /\ q["latest"][p] = r["latest"][p]
    BY <1>1, <2>1, <2>2, StartDoes
  <2> QED BY <2>2, <2>3
<1>3. Holding'
  BY <1>1, <1>2 DEF Holding
<1>4. \A p \in Objects : p \notin Excused /\ p \notin InHand => board'["scene"][p] = board'["sent"][p]
  BY <1>2, Settled
<1>5. action' = "create" => target' \in Objects /\ board'["latest"][target'] = 0
  BY <1>1, <1>2
<1>6. selected' \in Objects \union {NoObject}
  BY DEF IInv, Typing
<1>7. \A p \in Objects : board'["hand"][p] \in {0, board'["scene"][p]}
  BY <1>2
<1> QED BY <1>1, <1>2, <1>3, <1>4, <1>5, <1>6, <1>7, DownStep

\* The start of a drag of o that holds S: the rest of S were rebound and o was not.
LEMMA DownHoldKeeps ==
  ASSUME IInv, Tear(InHand, {}), editing' = Closed, NEW b \in Commits, NEW r, Orderly(r),
         NEW kind \in {"move", "endpoint"}, NEW o \in Objects, NEW S \in SUBSET Objects, o \in S,
         Start(r, kind, o, S), kind = "endpoint" => S = {o},
         \A p \in S : r["scene"][p] # 0,
         \A p \in Objects : p \notin S \/ p = o =>
           (b["scene"][p] = b["sent"][p] => r["scene"][p] = r["sent"][p]),
         erased' \subseteq Objects, selected' \in Objects \union {NoObject}
  PROVE  IInv'
<1>1. action' = kind /\ target' = o /\ moved' = FALSE
  BY DEF Start
<1>2. /\ Orderly(board')
      /\ \A p \in Objects : /\ board'["hand"][p] = IF p \in S THEN r["scene"][p] ELSE 0
                            /\ board'["scene"][p] = r["scene"][p] /\ board'["sent"][p] = r["sent"][p]
  <2>1. board' = Taking(r, S)
    BY DEF Start, Taking
  <2>2. PICK q : q = board'
    OBVIOUS
  <2>3. /\ Orderly(q)
        /\ \A p \in Objects : /\ q["hand"][p] = IF p \in S THEN r["scene"][p] ELSE 0
                              /\ q["scene"][p] = r["scene"][p] /\ q["sent"][p] = r["sent"][p]
    BY <2>1, <2>2, StartDoes
  <2> QED BY <2>2, <2>3
<1>3. \A p \in Objects : board'["hand"][p] # 0 <=> p \in S
  BY <1>2
<1>4. Holding'
  BY <1>1, <1>3 DEF Holding
<1>5. ASSUME NEW p \in Objects, p \notin Excused, p \notin InHand, board'["hand"][p] = 0 \/ target' = p
      PROVE  board'["scene"][p] = board'["sent"][p]
  <2>1. b["scene"][p] = b["sent"][p]
    BY <1>5, Settled
  <2>2. p \notin S \/ p = o
    BY <1>1, <1>3, <1>5
  <2> QED BY <1>2, <2>1, <2>2
<1>6. \A p \in Objects : board'["hand"][p] \in {0, board'["scene"][p]}
  BY <1>2
<1> QED BY <1>1, <1>2, <1>4, <1>5, <1>6, DownStep

LEMMA PointerDownKeeps == ASSUME IInv, PointerDown PROVE IInv'
<1>1. PICK b \in Commits : \/ PointerDownPan(b) \/ PointerDownCreate(b) \/ PointerDownMove(b)
                           \/ PointerDownEndpoint(b) \/ PointerDownErase(b)
  BY DEF PointerDown
<1>2. editing' = Closed /\ Tear(InHand, {})
  BY DEF PointerDown
<1>3. Orderly(b) /\ \A o \in Objects : board["latest"][o] = 0 => b["latest"][o] = 0
  BY CommitDoes
<1>4. erased \subseteq Objects /\ selected \in Objects \union {NoObject}
  BY DEF IInv, Typing
<1>5. CASE PointerDownPan(b)
  <2>1. Start(b, "pan", NoObject, {}) /\ selected' = selected /\ erased' \subseteq Objects
    BY <1>4, <1>5 DEF PointerDownPan
  <2> QED BY <1>2, <1>3, <2>1, DownEmptyKeeps
<1>6. CASE PointerDownCreate(b)
  <2>1. PICK o \in Unused : Start(b, "create", o, {}) /\ selected' = selected /\ erased' \subseteq Objects
    BY <1>4, <1>6 DEF PointerDownCreate
  <2>2. o \in Objects /\ b["latest"][o] = 0
    BY <1>3 DEF Unused
  <2> QED BY <1>2, <1>3, <2>1, <2>2, DownEmptyKeeps
<1>7. CASE PointerDownErase(b)
  <2>1. PICK hits \in SUBSET On(b) : /\ Start(Erase(b, hits), "erase", NoObject, {}) /\ erased' = hits
                                     /\ selected' = selected
    BY <1>7 DEF PointerDownErase
  <2>2. PICK r : r = Erase(b, hits)
    OBVIOUS
  <2>3. hits \in SUBSET Objects
    BY DEF On
  <2>4. /\ Orderly(r) /\ \A p \in Objects \ hits : Same(b, r, p)
        /\ \A p \in hits : r["scene"][p] = 0 /\ r["sent"][p] = 0
    BY <1>3, <2>2, <2>3, EraseDoes
  <2>5. \A p \in Objects : b["scene"][p] = b["sent"][p] => r["scene"][p] = r["sent"][p]
    BY <2>4 DEF Same
  <2>6. Start(r, "erase", NoObject, {}) /\ erased' \subseteq Objects
    BY <2>1, <2>2, <2>3
  <2> QED BY <1>2, <2>1, <2>4, <2>5, <2>6, DownEmptyKeeps
<1>8. CASE PointerDownEndpoint(b)
  <2>1. /\ Start(b, "endpoint", selected, {selected}) /\ selected' = selected /\ erased' \subseteq Objects
        /\ selected \in Objects /\ b["scene"][selected] # 0
    BY <1>4, <1>8 DEF PointerDownEndpoint, On
  <2>2. {selected} \in SUBSET Objects /\ \A p \in {selected} : b["scene"][p] # 0
    BY <2>1
  <2> QED BY <1>2, <1>3, <1>4, <2>1, <2>2, DownHoldKeeps
<1>9. CASE PointerDownMove(b)
  <2>1. PICK o \in On(b), rebound \in SUBSET (Connectors \intersect On(b)) :
          /\ rebound # {} => o \in Shapes
          /\ Start(ChangeShown(b, rebound), "move", o, {o} \union rebound)
          /\ selected' = o /\ erased' = erased
    BY <1>9 DEF PointerDownMove
  <2>2. PICK r, S : r = ChangeShown(b, rebound) /\ S = {o} \union rebound
    OBVIOUS
  <2>3. o \in Objects /\ b["scene"][o] # 0 /\ S \in SUBSET Objects /\ o \in S
    BY <2>2 DEF On
  <2>4. o \notin rebound
    BY <2>1, KindsDisjoint
  <2>5. rebound \in SUBSET On(b) /\ rebound \in SUBSET Objects
    BY DEF On
  <2>6. /\ Orderly(r) /\ \A p \in Objects \ rebound : Same(b, r, p)
        /\ \A p \in rebound : r["scene"][p] = b["latest"][p] + 1
    BY <1>3, <2>2, <2>5, ChangeShownDoes
  <2>7. \A p \in S : r["scene"][p] # 0
    <3>1. \A p \in rebound : b["latest"][p] \in Nat
      BY <1>3, <2>5, BoardOf DEF Orderly
    <3> QED BY <2>2, <2>3, <2>4, <2>6, <3>1 DEF Same
  <2>8. \A p \in Objects : p \notin S \/ p = o =>
          (b["scene"][p] = b["sent"][p] => r["scene"][p] = r["sent"][p])
    BY <2>2, <2>4, <2>6 DEF Same
  <2>9. Start(r, "move", o, S) /\ selected' \in Objects \union {NoObject} /\ erased' \subseteq Objects
    BY <1>4, <2>1, <2>2, <2>3
  <2> QED BY <1>2, <2>3, <2>6, <2>7, <2>8, <2>9, DownHoldKeeps
<1> QED BY <1>1, <1>5, <1>6, <1>7, <1>8, <1>9

LEMMA EraseMoreKeeps == ASSUME IInv, EraseMore PROVE IInv'
<1>1. PICK hits \in SUBSET (On(board) \ erased) \ {{}} : /\ board' = Erase(board, hits)
                                                         /\ erased' = erased \union hits
  BY DEF EraseMore
<1>2. /\ hits \in SUBSET Objects /\ erased' \subseteq Objects /\ selected' \in Objects \union {NoObject}
      /\ UNCHANGED <<action, target, moved, editing>> /\ Done
  BY <1>1 DEF EraseMore, On, IInv, Typing
<1> QED BY <1>1, <1>2, EraseKeeps

LEMMA ErasingKeeps == ASSUME IInv, DeleteSelected \/ Clear \/ ApplyErase PROVE IInv'
<1>1. PICK S \in SUBSET Objects : board' = Erase(board, S)
  <2>1. CASE DeleteSelected
    BY <2>1 DEF DeleteSelected, IInv, Typing
  <2>2. CASE Clear
    BY <2>2 DEF Clear
  <2>3. CASE ApplyErase
    BY <2>3 DEF ApplyErase
  <2> QED BY <2>1, <2>2, <2>3
<1>2. UNCHANGED gesture /\ editing' = editing /\ selected' \in {selected, NoObject} /\ Done
  BY DEF DeleteSelected, Clear, ApplyErase
<1>3. /\ UNCHANGED <<action, target, moved, editing>> /\ erased' \subseteq Objects
      /\ selected' \in Objects \union {NoObject}
  BY <1>2 DEF gesture, IInv, Typing
<1> QED BY <1>1, <1>2, <1>3, EraseKeeps

-----------------------------------------------------------------------------
(* The invariant and what it says. *)

LEMMA Inductive == IInv /\ [Next]_canvasVars => IInv'
<1> SUFFICES ASSUME IInv, [Next]_canvasVars PROVE IInv'
  OBVIOUS
<1>1. CASE PointerDownIdle \/ CommitEdit
  <2>1. board' \in Commits /\ editing' = Closed /\ UNCHANGED gesture /\ selected' \in {selected, NoObject} /\ Done
    BY <1>1 DEF PointerDownIdle, CommitEdit
  <2> QED BY <2>1, CommitKeeps
<1>2. CASE UNCHANGED canvasVars
  <2>1. Typing' /\ Holding' /\ Drafted'
    BY <1>2 DEF IInv, Typing, Holding, Drafted, canvasVars
  <2>2. \A o \in Objects : Whole(o)'
    BY <1>2 DEF IInv, Whole, Drafts, Excused, canvasVars
  <2> QED BY <2>1, <2>2 DEF IInv
<1>3. PointerDown \/ PointerMove \/ PointerMoveInPlace \/ EraseMore \/ PointerUp => IInv'
  BY PointerDownKeeps, PointerMoveKeeps, EraseMoreKeeps, PointerUpKeeps
<1>4. DeleteSelected \/ ReorderSelected \/ Clear \/ ChangeTool => IInv'
  BY ErasingKeeps, ReorderKeeps, ChangeToolKeeps
<1>5. BeginEdit \/ NewText \/ ApplyAdd \/ ApplyErase => IInv'
  BY BeginEditKeeps, NewTextKeeps, ApplyAddKeeps, ErasingKeeps
<1> QED BY <1>1, <1>2, <1>3, <1>4, <1>5 DEF Next

LEMMA ImpliesTypeOK == IInv => TypeOK
<1> SUFFICES ASSUME IInv PROVE TypeOK
  OBVIOUS
<1>1. Orderly(board) /\ \A o \in Objects : board["latest"][o] <= MaxChanges
  BY DEF IInv, Typing
<1>2. \A o \in Objects : /\ board["scene"][o] \in 0 .. MaxChanges /\ board["hand"][o] \in 0 .. MaxChanges
                         /\ board["sent"][o] \in 0 .. MaxChanges /\ board["latest"][o] \in 0 .. MaxChanges
  BY <1>1, BoardOf, MaxChangesNat DEF Orderly
<1>3. board \in [{"scene", "hand", "sent", "latest"} -> [Objects -> 0 .. MaxChanges]]
  <2>1. board \in Boards
    BY <1>1 DEF Orderly
  <2>2. /\ board["scene"] \in [Objects -> 0 .. MaxChanges] /\ board["hand"] \in [Objects -> 0 .. MaxChanges]
        /\ board["sent"] \in [Objects -> 0 .. MaxChanges] /\ board["latest"] \in [Objects -> 0 .. MaxChanges]
    BY <1>2, <2>1, BoardOf
  <2> QED BY <2>1, <2>2 DEF Boards
<1>4. \A k \in {"scene", "hand", "sent"}, o \in Objects : board[k][o] <= board["latest"][o]
  BY <1>1 DEF Orderly
<1>5. InHand # {} => action \in {"move", "endpoint"} /\ target \in InHand
  BY DEF InHand, IInv, Holding
<1> QED BY <1>3, <1>4, <1>5 DEF IInv, Typing, TypeOK

LEMMA ImpliesRelayed == IInv => ChangesAreRelayed
BY DEF IInv, Whole, InHand, Excused, ChangesAreRelayed

\* The scene, the gesture, the selection and the editor have the shape TypeOK gives.
THEOREM TypeCorrect == Spec => []TypeOK
<1>1. Init => IInv
  BY IInvInit
<1>2. IInv /\ [Next]_canvasVars => IInv'
  BY Inductive
<1>3. IInv => TypeOK
  BY ImpliesTypeOK
<1> QED BY <1>1, <1>2, <1>3, PTL DEF Spec

(***************************************************************************)
(* For any objects and any number of changes, whatever pointers, keys and  *)
(* remote ops fall into a gesture: an object that is not in hand, not a    *)
(* draft, not torn and not a connector that a drag unbound in place is at  *)
(* the peers as it is in the scene.                                        *)
(***************************************************************************)
THEOREM AlwaysRelayed == Spec => []ChangesAreRelayed
<1>1. Init => IInv
  BY IInvInit
<1>2. IInv /\ [Next]_canvasVars => IInv'
  BY Inductive
<1>3. IInv => ChangesAreRelayed
  BY ImpliesRelayed
<1> QED BY <1>1, <1>2, <1>3, PTL DEF Spec
===============================================================================
