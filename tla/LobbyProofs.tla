------------------------------ MODULE LobbyProofs ------------------------------
(***************************************************************************)
(* The control plane, from the registry to the lobby, for any boards,      *)
(* objects, faults and number of requests.                                 *)
(*                                                                         *)
(* Registry: a board and its drawing are deleted at one stroke as far as   *)
(* its clients can see, and a deletion that succeeded leaves nothing of    *)
(* the drawing.  The inductive invariant is Sound: rows belong to boards   *)
(* that have been registered, so that no new board finds any; and what a   *)
(* deleted board still has came late.                                      *)
(*                                                                         *)
(* GraphQL: whatever is requested, the registry is asked only for what it  *)
(* allows, so that what holds of it holds of the whole, and each entity is *)
(* in its slot.  The invariant is Requested.                               *)
(*                                                                         *)
(* Lobby: the optimistic list tells the truth about the page's deletions.  *)
(* The invariant is Paged; Inv is all of it.                               *)
(***************************************************************************)
EXTENDS Lobby, FiniteSetTheorems, TLAPS

Distinct(s) == \A i, j \in DOMAIN s : i # j => s[i] # s[j]

Shape ==
  /\ backend \in {"memory", "postgres"}
  /\ listed \in Seq(Ids) /\ Distinct(listed)
  /\ Boards \subseteq known /\ known \subseteq Ids
  /\ rows \subseteq known \X Objects /\ queue \subseteq known \X Objects

Sound == Shape /\ DeleteTakesTheDrawing

-----------------------------------------------------------------------------
\* An element of one sequence after another.
LEMMA ConcatAt ==
  ASSUME NEW S, NEW u \in Seq(S), NEW v \in Seq(S), NEW i \in 1 .. Len(u) + Len(v)
  PROVE  (u \o v)[i] = IF i <= Len(u) THEN u[i] ELSE v[i - Len(u)]
OBVIOUS

LEMMA IsASequence ==
  ASSUME NEW S, NEW n \in Nat, NEW s \in [1 .. n -> S]
  PROVE  s \in Seq(S)
OBVIOUS

\* Taking a board off the list takes it off once, keeps the others and their distinctness.
LEMMA WithoutElement ==
  ASSUME NEW S, NEW s \in Seq(S), Distinct(s), NEW b
  PROVE  /\ Without(s, b) \in Seq(S) /\ Distinct(Without(s, b))
         /\ ToSet(Without(s, b)) = ToSet(s) \ {b}
<1>1. CASE b \notin ToSet(s)
  BY <1>1 DEF Without
<1>2. CASE b \in ToSet(s)
  <2> DEFINE k == CHOOSE i \in DOMAIN s : s[i] = b
             w == RemoveAt(s, k)
  <2>1. k \in 1 .. Len(s) /\ s[k] = b
    BY <1>2 DEF ToSet
  <2> HIDE DEF k
  <2>2. /\ w \in Seq(S) /\ Len(w) = Len(s) - 1
        /\ \A i \in 1 .. Len(w) : w[i] = IF i < k THEN s[i] ELSE s[i + 1]
    <3> DEFINE before == SubSeq(s, 1, k - 1)
               after == SubSeq(s, k + 1, Len(s))
    <3>1. /\ before \in Seq(S) /\ Len(before) = k - 1
          /\ \A i \in 1 .. k - 1 : before[i] = s[i]
      BY <2>1
    <3>2. /\ after \in Seq(S) /\ Len(after) = Len(s) - k
          /\ \A i \in 1 .. Len(s) - k : after[i] = s[k + i]
      BY <2>1
    <3>3. w = before \o after
      BY DEF RemoveAt
    <3> HIDE DEF before, after, w
    <3>4. w \in Seq(S) /\ Len(w) = Len(s) - 1
      BY <2>1, <3>1, <3>2, <3>3
    <3>5. ASSUME NEW i \in 1 .. Len(w)
          PROVE  w[i] = IF i < k THEN before[i] ELSE after[i - (k - 1)]
      <4>1. i \in 1 .. Len(before) + Len(after)
        BY <2>1, <3>1, <3>2, <3>4
      <4>2. w[i] = IF i <= Len(before) THEN before[i] ELSE after[i - Len(before)]
        BY <3>1, <3>2, <3>3, <4>1, ConcatAt
      <4>3. i <= k - 1 <=> i < k
        BY <2>1, <4>1
      <4> QED BY <3>1, <4>2, <4>3
    <3>6. ASSUME NEW i \in 1 .. Len(w), ~(i < k)
          PROVE  i - (k - 1) \in 1 .. Len(s) - k /\ k + (i - (k - 1)) = i + 1
      BY <2>1, <3>4, <3>6
    <3> QED BY <2>1, <3>1, <3>2, <3>4, <3>5, <3>6
  <2> HIDE DEF w
  <2>3. Distinct(w)
    <3> SUFFICES ASSUME NEW i \in 1 .. Len(w), NEW j \in 1 .. Len(w), i # j
                 PROVE  w[i] # w[j]
      BY <2>2 DEF Distinct
    <3> DEFINE at(n) == IF n < k THEN n ELSE n + 1
    <3>1. at(i) \in 1 .. Len(s) /\ at(j) \in 1 .. Len(s) /\ at(i) # at(j)
      BY <2>1, <2>2
    <3>2. w[i] = s[at(i)] /\ w[j] = s[at(j)]
      BY <2>2
    <3> HIDE DEF at
    <3>3. DOMAIN s = 1 .. Len(s)
      OBVIOUS
    <3> QED BY <3>1, <3>2, <3>3 DEF Distinct
  <2>4. b \notin ToSet(w)
    <3> SUFFICES ASSUME NEW i \in 1 .. Len(w), w[i] = b PROVE FALSE
      BY <2>2 DEF ToSet
    <3> DEFINE at == IF i < k THEN i ELSE i + 1
    <3>1. at \in 1 .. Len(s) /\ at # k
      BY <2>1, <2>2
    <3>2. s[at] = s[k]
      BY <2>1, <2>2
    <3> HIDE DEF at
    <3>3. DOMAIN s = 1 .. Len(s)
      OBVIOUS
    <3> QED BY <2>1, <3>1, <3>2, <3>3 DEF Distinct
  <2>5. ToSet(w) \subseteq ToSet(s)
    BY <2>1, <2>2 DEF ToSet
  <2>6. ASSUME NEW x \in ToSet(s), x # b PROVE x \in ToSet(w)
    <3>1. PICK i \in 1 .. Len(s) : s[i] = x
      BY <2>6 DEF ToSet
    <3>2. CASE i < k
      BY <3>1, <3>2, <2>1, <2>2 DEF ToSet
    <3>3. CASE i > k
      <4>1. i - 1 \in 1 .. Len(w) /\ w[i - 1] = x
        BY <3>1, <3>3, <2>1, <2>2
      <4> QED BY <4>1, <2>2 DEF ToSet
    <3>4. i # k
      BY <3>1, <2>1, <2>6
    <3> QED BY <3>2, <3>3, <3>4, <2>1
  <2>7. Without(s, b) = w
    BY <1>2 DEF Without, w, k
  <2> QED BY <2>2, <2>3, <2>4, <2>5, <2>6, <2>7
<1> QED BY <1>1, <1>2

\* Putting a board in front that is not on the list.
LEMMA InFront ==
  ASSUME NEW S, NEW s \in Seq(S), Distinct(s), NEW b \in S, b \notin ToSet(s)
  PROVE  /\ <<b>> \o s \in Seq(S) /\ Distinct(<<b>> \o s)
         /\ ToSet(<<b>> \o s) = ToSet(s) \union {b}
<1> DEFINE w == <<b>> \o s
<1>1. /\ w \in Seq(S) /\ Len(w) = Len(s) + 1
      /\ \A i \in 1 .. Len(w) : w[i] = IF i = 1 THEN b ELSE s[i - 1]
  OBVIOUS
<1>2. \A i \in 1 .. Len(s) : w[i + 1] = s[i]
  BY <1>1
<1>3. w[1] = b /\ 1 \in 1 .. Len(w)
  BY <1>1
<1> HIDE DEF w
<1>4. Distinct(w)
  <2> SUFFICES ASSUME NEW i \in 1 .. Len(w), NEW j \in 1 .. Len(w), i # j
               PROVE  w[i] # w[j]
    BY <1>1 DEF Distinct
  <2>1. \A n \in 1 .. Len(w) : n # 1 => w[n] = s[n - 1] /\ n - 1 \in DOMAIN s
    <3>1. DOMAIN s = 1 .. Len(s) /\ Len(s) \in Nat
      OBVIOUS
    <3> QED BY <1>1, <3>1
  <2>2. CASE i = 1 \/ j = 1
    BY <1>3, <2>1, <2>2 DEF ToSet
  <2>3. CASE i # 1 /\ j # 1
    <3>1. i - 1 # j - 1
      OBVIOUS
    <3> QED BY <2>1, <2>3, <3>1 DEF Distinct
  <2> QED BY <2>2, <2>3
<1>5. ToSet(w) \subseteq ToSet(s) \union {b}
  BY <1>1 DEF ToSet
<1>6. ASSUME NEW x \in ToSet(s) PROVE x \in ToSet(w)
  <2>1. PICK i \in 1 .. Len(s) : s[i] = x
    BY DEF ToSet
  <2>2. i + 1 \in 1 .. Len(w) /\ w[i + 1] = x
    BY <2>1, <1>1, <1>2
  <2>3. DOMAIN w = 1 .. Len(w)
    BY <1>1
  <2> QED BY <2>2, <2>3 DEF ToSet
<1>7. b \in ToSet(w)
  BY <1>1, <1>3 DEF ToSet
<1> QED BY <1>1, <1>4, <1>5, <1>6, <1>7 DEF w

-----------------------------------------------------------------------------
\* The invariant holds at the start and is kept by every step.
LEMMA SoundInit == RegistryInit => Sound
<1> SUFFICES ASSUME RegistryInit PROVE Sound
  OBVIOUS
<1>1. listed \in Seq(Ids) /\ Distinct(listed)
  BY DEF RegistryInit, Distinct
<1>2. Boards \subseteq Ids
  BY <1>1 DEF Boards, ToSet
<1> QED
  BY <1>1, <1>2 DEF RegistryInit, Sound, Shape, DeleteTakesTheDrawing

\* A row is written: of a deleted board it is a late one.
LEMMA InsertSound ==
  ASSUME Sound, NEW x \in known \X Objects, Insert(x), UNCHANGED gone
  PROVE  rows' \subseteq known \X Objects /\ DeleteTakesTheDrawing'
  BY DEF Insert, Sound, Shape, DeleteTakesTheDrawing, Of

\* The rows of one board are deleted, those of others stay.
LEMMA DeleteRowsSound ==
  ASSUME Sound, NEW b, DeleteRows(b)
  PROVE  /\ rows' \subseteq known \X Objects
         /\ Of(b)' = {} /\ \A c : c # b => Of(c)' = Of(c)
         /\ \A c \in gone \union {b} : Of(c)' \subseteq late'
  BY DEF DeleteRows, Sound, Shape, DeleteTakesTheDrawing, Of

LEMMA SoundDraw ==
  ASSUME Sound, NEW x \in Ids \X Objects, Draw(x)
  PROVE  Sound'
<1>1. x \in known \X Objects
  BY DEF Draw
<1>2. CASE Insert(x) /\ UNCHANGED queue
  BY <1>1, <1>2, InsertSound DEF Draw, Sound, Shape, Boards, Distinct
<1>3. CASE queue' = queue \union {x} /\ UNCHANGED <<rows, late>>
  BY <1>1, <1>3 DEF Draw, Sound, Shape, Boards, Distinct, DeleteTakesTheDrawing, Of
<1> QED
  BY <1>2, <1>3 DEF Draw

LEMMA SoundFlush ==
  ASSUME Sound, NEW x \in Ids \X Objects, Flush(x)
  PROVE  Sound' /\ Boards' = Boards
<1>1. x \in known \X Objects /\ x[1] \in Ids
  BY DEF Flush, Sound, Shape
<1>2. rows' \subseteq known \X Objects /\ DeleteTakesTheDrawing'
  BY <1>1, InsertSound DEF Flush
<1>3. listed' \in Seq(Ids) /\ Distinct(listed') /\ ToSet(listed') = ToSet(listed)
  <2>1. CASE x[1] \in Boards
    <3> DEFINE rest == Without(listed, x[1])
    <3>1. rest \in Seq(Ids) /\ Distinct(rest) /\ ToSet(rest) = ToSet(listed) \ {x[1]}
      BY WithoutElement DEF Sound, Shape
    <3> HIDE DEF rest
    <3>2. /\ <<x[1]>> \o rest \in Seq(Ids) /\ Distinct(<<x[1]>> \o rest)
          /\ ToSet(<<x[1]>> \o rest) = ToSet(rest) \union {x[1]}
      BY <1>1, <3>1, InFront
    <3>3. listed' = <<x[1]>> \o rest
      BY <2>1 DEF Flush, rest
    <3> QED BY <2>1, <3>1, <3>2, <3>3 DEF Boards
  <2>2. CASE x[1] \notin Boards
    BY <2>2 DEF Flush, Sound, Shape
  <2> QED BY <2>1, <2>2
<1> QED
  BY <1>1, <1>2, <1>3 DEF Flush, Sound, Shape, Boards

LEMMA SoundCreate ==
  ASSUME Sound, NEW b \in Ids \ known, NEW ok \in BOOLEAN, CreateBoard(b, ok)
  PROVE  Sound'
<1>1. DeleteTakesTheDrawing'
  BY DEF CreateBoard, Sound, DeleteTakesTheDrawing, Of
<1>2. CASE listed' = <<b>> \o listed /\ known' = known \union {b}
  <2>1. /\ listed' \in Seq(Ids) /\ Distinct(listed')
        /\ ToSet(listed') = ToSet(listed) \union {b}
    BY <1>2, InFront DEF Sound, Shape, Boards
  <2> QED BY <1>1, <1>2, <2>1 DEF CreateBoard, Sound, Shape, Boards
<1>3. CASE UNCHANGED <<listed, known>>
  BY <1>1, <1>3 DEF CreateBoard, Sound, Shape, Boards, Distinct
<1> QED
  BY <1>2, <1>3 DEF CreateBoard

\* A board's entry goes.
LEMMA DeleteEntrySound ==
  ASSUME Sound, NEW b, DeleteEntry(b)
  PROVE  listed' \in Seq(Ids) /\ Distinct(listed') /\ Boards' = Boards \ {b}
  BY WithoutElement DEF DeleteEntry, Sound, Shape, Boards

LEMMA SoundBegins ==
  ASSUME Sound, NEW b \in Ids, NEW ok \in BOOLEAN, DeleteBoardBegins(b, ok)
  PROVE  Sound'
<1>1. DeleteTakesTheDrawing'
  BY DEF DeleteBoardBegins, Sound, DeleteTakesTheDrawing, Of
<1>2. CASE DeleteEntry(b)
  BY <1>1, <1>2, DeleteEntrySound DEF DeleteBoardBegins, Sound, Shape
<1>3. CASE UNCHANGED listed
  BY <1>1, <1>3 DEF DeleteBoardBegins, Sound, Shape, Boards, Distinct
<1> QED
  BY <1>2, <1>3 DEF DeleteBoardBegins

LEMMA SoundEnds ==
  ASSUME Sound, NEW b \in Ids, NEW ok \in BOOLEAN, DeleteBoardEnds(b, ok)
  PROVE  Sound'
<1>1. listed' \in Seq(Ids) /\ Distinct(listed') /\ Boards' \subseteq Boards
  BY DeleteEntrySound DEF DeleteBoardEnds, Sound, Shape, Boards
<1>2. rows' \subseteq known \X Objects /\ DeleteTakesTheDrawing'
  <2>1. CASE DeleteRows(b)
    BY <2>1, DeleteRowsSound DEF DeleteBoardEnds, DeleteTakesTheDrawing
  <2>2. CASE ~ok /\ UNCHANGED <<rows, late>>
    BY <2>2 DEF DeleteBoardEnds, Sound, Shape, DeleteTakesTheDrawing, Of
  <2> QED BY <2>1, <2>2 DEF DeleteBoardEnds
<1> QED
  BY <1>1, <1>2 DEF DeleteBoardEnds, Sound, Shape

LEMMA SoundNext == Sound /\ [RegistryNext]_regVars => Sound'
<1> SUFFICES ASSUME Sound, [RegistryNext]_regVars PROVE Sound'
  OBVIOUS
<1>1. CASE UNCHANGED regVars
  BY <1>1 DEF regVars, Sound, Shape, Boards, Distinct, DeleteTakesTheDrawing, Of
<1> QED
  BY <1>1, SoundDraw, SoundFlush, SoundCreate, SoundBegins, SoundEnds DEF RegistryNext

THEOREM AlwaysSound == RegistrySpec => []Sound
  BY SoundInit, SoundNext, PTL DEF RegistrySpec

(***************************************************************************)
(* When deleteBoard has answered true the log has nothing of the board but *)
(* what came later (boards.go:144-150), whatever other deletions and the   *)
(* writer do meanwhile.                                                    *)
(***************************************************************************)
THEOREM DeletionIsComplete == RegistrySpec => []DeleteTakesTheDrawing
<1>1. Sound => DeleteTakesTheDrawing
  BY DEF Sound
<1> QED
  BY <1>1, AlwaysSound, PTL

-----------------------------------------------------------------------------
\* What a client can see of the drawings.
Drawn == [b \in Ids |-> IF b \in Boards THEN {x[2] : x \in Of(b)} ELSE {}]

LEMMA Unseen ==
  ASSUME Boards' = Boards, \A b \in Boards : Of(b)' = Of(b)
  PROVE  UNCHANGED <<Boards, Drawn>>
  BY DEF Drawn

\* A row more is an object more on its board, if the board is there.
LEMMA InsertShows ==
  ASSUME Sound, NEW x \in Ids \X Objects, Insert(x), Boards' = Boards
  PROVE  Promise!Next \/ UNCHANGED <<Boards, Drawn>>
<1>1. \A b : Of(b)' = IF b = x[1] THEN Of(b) \union {x} ELSE Of(b)
  BY DEF Insert, Of
<1>2. CASE x[1] \in Boards
  <2>1. Drawn' = [Drawn EXCEPT ![x[1]] = @ \union {x[2]}]
    BY <1>1, <1>2 DEF Drawn
  <2>2. Promise!Draw(x[1], x[2])
    BY <1>2, <2>1 DEF Promise!Draw, Drawn
  <2> QED BY <2>2 DEF Promise!Next
<1>3. CASE x[1] \notin Boards
  BY <1>1, <1>3, Unseen
<1> QED BY <1>2, <1>3

\* A board that leaves the list takes its drawing with it.
LEMMA EntryShows ==
  ASSUME NEW b \in Ids, Boards' = Boards \ {b}, \A c : c # b => Of(c)' = Of(c)
  PROVE  Promise!Next
<1>1. Drawn' = [Drawn EXCEPT ![b] = {}]
  BY DEF Drawn
<1>2. Promise!Delete(b)
  BY <1>1 DEF Promise!Delete, Drawn
<1> QED BY <1>2 DEF Promise!Next

\* The initial states map to initial states.
LEMMA DirectoryInit == RegistryInit => Promise!Init
<1> SUFFICES ASSUME RegistryInit PROVE Promise!Init
  OBVIOUS
<1>1. Boards \subseteq Ids
  BY SoundInit DEF Sound, Shape
<1>2. \A b : Of(b) = {}
  BY DEF RegistryInit, Of
<1> QED BY <1>1, <1>2 DEF Promise!Init

LEMMA DirectoryCreate ==
  ASSUME Sound, NEW b \in Ids \ known, NEW ok \in BOOLEAN, CreateBoard(b, ok)
  PROVE  Promise!Next \/ UNCHANGED <<Boards, Drawn>>
<1>1. \A c : Of(c)' = Of(c)
  BY DEF CreateBoard, Of
<1>2. CASE listed' = <<b>> \o listed
  <2>1. b \notin Boards /\ Of(b) = {}
    BY DEF Sound, Shape, Of
  <2>2. Boards' = Boards \union {b}
    BY <1>2, <2>1, InFront DEF Sound, Shape, Boards
  <2>3. Drawn' = Drawn
    BY <1>1, <2>1, <2>2 DEF Drawn
  <2>4. Promise!Create(b)
    BY <2>1, <2>2, <2>3 DEF Promise!Create, Drawn
  <2> QED BY <2>4 DEF Promise!Next
<1>3. CASE UNCHANGED listed
  BY <1>1, <1>3, Unseen DEF Boards
<1> QED BY <1>2, <1>3 DEF CreateBoard

LEMMA DirectoryBegins ==
  ASSUME Sound, NEW b \in Ids, NEW ok \in BOOLEAN, DeleteBoardBegins(b, ok)
  PROVE  Promise!Next \/ UNCHANGED <<Boards, Drawn>>
<1>1. \A c : Of(c)' = Of(c)
  BY DEF DeleteBoardBegins, Of
<1>2. CASE DeleteEntry(b)
  BY <1>1, <1>2, DeleteEntrySound, EntryShows
<1>3. CASE UNCHANGED listed
  BY <1>1, <1>3, Unseen DEF Boards
<1> QED BY <1>2, <1>3 DEF DeleteBoardBegins

LEMMA DirectoryEnds ==
  ASSUME Sound, NEW b \in Ids, NEW ok \in BOOLEAN, DeleteBoardEnds(b, ok),
         backend = "memory" \/ b \notin Boards
  PROVE  Promise!Next \/ UNCHANGED <<Boards, Drawn>>
<1>1. \A c : c # b => Of(c)' = Of(c)
  <2>1. CASE DeleteRows(b)
    BY <2>1, DeleteRowsSound
  <2>2. CASE UNCHANGED rows
    BY <2>2 DEF Of
  <2> QED BY <2>1, <2>2 DEF DeleteBoardEnds
<1>2. CASE backend = "memory"
  <2>1. DeleteEntry(b)
    BY <1>2 DEF DeleteBoardEnds
  <2> QED BY <1>1, <2>1, DeleteEntrySound, EntryShows
<1>3. CASE backend # "memory"
  <2>1. b \notin Boards /\ Boards' = Boards
    BY <1>3 DEF DeleteBoardEnds, Boards
  <2> QED BY <1>1, <2>1, Unseen
<1> QED BY <1>2, <1>3

LEMMA DirectoryNext ==
  Sound /\ [RegistryNext]_regVars => Promise!Next \/ UNCHANGED <<Boards, Drawn>>
<1> SUFFICES ASSUME Sound, [RegistryNext]_regVars
             PROVE  Promise!Next \/ UNCHANGED <<Boards, Drawn>>
  OBVIOUS
<1>1. CASE UNCHANGED regVars
  BY <1>1, Unseen DEF regVars, Boards, Of
<1>2. ASSUME NEW x \in Ids \X Objects, Draw(x)
      PROVE  Promise!Next \/ UNCHANGED <<Boards, Drawn>>
  <2>1. Boards' = Boards
    BY <1>2 DEF Draw, Boards
  <2>2. CASE Insert(x)
    BY <2>1, <2>2, InsertShows
  <2>3. CASE UNCHANGED rows
    BY <2>1, <2>3, Unseen DEF Of
  <2> QED BY <1>2, <2>2, <2>3 DEF Draw
<1>3. ASSUME NEW x \in Ids \X Objects, Flush(x)
      PROVE  Promise!Next \/ UNCHANGED <<Boards, Drawn>>
  BY <1>3, SoundFlush, InsertShows DEF Flush
<1> QED
  BY <1>1, <1>2, <1>3, DirectoryCreate, DirectoryBegins, DirectoryEnds DEF RegistryNext

(***************************************************************************)
(* Deleting a board, in two statements that may fail and interleave with   *)
(* the writer's (boards.go:144-150), looks like one step to everybody who  *)
(* asks the registry; so does every other operation.                       *)
(***************************************************************************)
THEOREM RegistryImplementsDirectory == RegistrySpec => ImplementsDirectory
<1>1. Sound /\ [RegistryNext]_regVars => [Promise!Next]_Promise!dirVars
  BY DirectoryNext DEF Promise!dirVars, Drawn
<1> QED
  BY <1>1, DirectoryInit, AlwaysSound, PTL DEF RegistrySpec, ImplementsDirectory, Promise!Spec

-----------------------------------------------------------------------------
(* The requests under way. *)

\* What calls can be made: up to four, with what arguments, and which in a query or a mutation.
Callable(d) ==
  /\ DOMAIN d.calls \subseteq 1 .. 4 /\ (d = Idle \/ 1 \in DOMAIN d.calls)
  /\ \A k \in DOMAIN d.calls :
    LET call == d.calls[k] IN
    /\ call.f \in {"createBoard", "deleteBoard"} <=> d.op = "Mutation"
    /\ call.f \in {"board", "deleteBoard"} => \E b \in Ids : call.arg = <<Rep("Board", b)>>
    /\ call.f = "createBoard" /\ call.arg # <<>> => k = 1 /\ \E b \in Ids : call = CreateCall(b)
    /\ call.f = "_entities" => \A i \in DOMAIN call.arg :
         call.arg[i].id = NoId \/ (call.arg[i].type = "Board" /\ call.arg[i].id \in Ids)

\* Request r is still to create board b.
Creating(r, b) ==
  1 \in DOMAIN doc[r].calls /\ doc[r].calls[1] = CreateCall(b) /\ <<1, 1>> \notin DOMAIN done[r]

IdsOf(infos) == [i \in DOMAIN infos |-> infos[i].id]

\* What the resolvers have returned for work t is for its argument.
Outcomes(r, t) ==
  LET call == doc[r].calls[t[1]]
      outcome == done[r][t]
  IN  /\ call.f = "boards" => /\ IdsOf(outcome.infos) \in Seq(Ids) /\ Distinct(IdsOf(outcome.infos))
                              /\ ToSet(IdsOf(outcome.infos)) \subseteq known
      /\ call.f = "_entities" =>
           /\ outcome.infos # <<>> => outcome.infos[1].id = call.arg[t[2]].id
           /\ outcome.ok /\ call.arg[t[2]].id \in steady[r] => outcome.infos # <<>>

Slots ==
  /\ DOMAIN doc = Requests /\ DOMAIN done = Requests /\ DOMAIN steady = Requests
  /\ started \in 0 .. MaxRequests
Asking == \A r \in Requests : Callable(doc[r])
Deletes ==
  \A r \in Requests : \A k \in DOMAIN doc[r].calls :
    doc[r].calls[k].f = "deleteBoard" => doc[r].calls[k].arg[1].id \in known
Creates ==
  \A r \in Requests, b \in Ids :
    Creating(r, b) => b \notin known /\ \A q \in Requests : Creating(q, b) => q = r
Halves ==
  /\ half \subseteq Requests /\ (backend = "memory" => half = {})
  /\ \A r \in half : \E t \in Todo(r, "deleteBoard") : ArgId(r, t) \notin Boards
Returns ==
  \A r \in Requests : DOMAIN done[r] \subseteq Work(doc[r]) /\ \A t \in DOMAIN done[r] : Outcomes(r, t)
Steady == \A r \in Requests : steady[r] \subseteq Boards
Tidy == gone \subseteq known /\ late \subseteq rows /\ (backend = "memory" => queue = {})

Requested ==
  Sound /\ Slots /\ Asking /\ Deletes /\ Creates /\ Halves /\ Returns /\ Steady /\ Tidy

-----------------------------------------------------------------------------
(* The page. *)

On(s) == ToSet(s.ids)
Listing(s) == s = Showing(s.ids) /\ s.ids \in Seq(Ids) /\ Distinct(s.ids) /\ On(s) \subseteq known

\* What the page waits for, and that the request for it is under way.
Waits(r) ==
  LET w == pending[r] IN
  \/ w = Nothing
  \/ /\ page /\ doc[r] # Idle
     /\ \/ w = Wait("load", NoId, NotLoaded) /\ doc[r] = ListDoc
        \/ w = Wait("create", w.id, NotLoaded) /\ doc[r] = CreateDoc(w.id)
        \/ w = Wait("delete", w.id, w.prev) /\ doc[r] = DeleteDoc(w.id) /\ w.id \in Ids
           /\ Listing(w.prev)

Waiting == DOMAIN pending = Requests /\ \A r \in Requests : Waits(r)
OneAtATime ==
  \A kind \in {"load", "create"} : \A r, q \in Requests :
    pending[r].kind = kind /\ pending[q].kind = kind => r = q
Busy == busy \in BOOLEAN /\ (busy <=> \E r \in Requests : pending[r].kind = "create")
Opened ==
  /\ page \in BOOLEAN
  /\ boards = NotLoaded \/ (page /\ Listing(boards))
  /\ boards = NotLoaded => told = {} /\ crossed = {} /\ Deleting = {}
  /\ \A r \in Requests : pending[r].kind = "load" => boards = NotLoaded

\* A rollback restores what is shown now, but for the board itself and those crossed.
Rollback(r) ==
  LET b == pending[r].id
      prev == On(pending[r].prev)
  IN  /\ b \in prev /\ (b \in On(boards) => b \in crossed)
      /\ \A q \in Deleting : q # r => b \in crossed
      /\ On(boards) \subseteq prev \union crossed
      /\ prev \subseteq On(boards) \union {b} \union crossed
      /\ told \intersect prev \subseteq crossed
Rollbacks == \A r \in Deleting : Rollback(r)
Told == told \intersect On(boards) \subseteq crossed

Paged == Waiting /\ OneAtATime /\ Busy /\ Opened /\ Rollbacks /\ Told

-----------------------------------------------------------------------------
(* The registry is asked only for what it allows. *)

\* Work is for a call of the request, and its number within the call is one of those of WorkOf.
LEMMA WorkIs ==
  ASSUME NEW d, NEW t \in Work(d)
  PROVE  t = <<t[1], t[2]>> /\ t[1] \in DOMAIN d.calls /\ t[2] \in WorkOf(d.calls[t[1]])
BY DEF Work

LEMMA TodoIs ==
  ASSUME NEW r, NEW f, NEW t \in Todo(r, f)
  PROVE  /\ t \in Work(doc[r]) /\ t \notin DOMAIN done[r]
         /\ t = <<t[1], t[2]>> /\ t[1] \in DOMAIN doc[r].calls /\ doc[r].calls[t[1]].f = f
         /\ t[2] \in WorkOf(doc[r].calls[t[1]])
BY WorkIs DEF Todo

\* A mutation resolves one field at a time.
LEMMA TodoAlone ==
  ASSUME NEW r, Callable(doc[r]), NEW f \in {"createBoard", "deleteBoard"}, NEW t \in Todo(r, f),
         NEW g, NEW u \in Todo(r, g)
  PROVE  t[1] = u[1] /\ f = g
<1>1. /\ t[1] \in DOMAIN doc[r].calls /\ doc[r].calls[t[1]].f = f
      /\ u[1] \in DOMAIN doc[r].calls /\ doc[r].calls[u[1]].f = g
      /\ t \notin DOMAIN done[r] /\ u \notin DOMAIN done[r]
      /\ t \in Work(doc[r]) /\ u \in Work(doc[r])
  BY TodoIs
<1>2. doc[r].op = "Mutation" /\ t[1] \in Nat /\ u[1] \in Nat
  BY <1>1 DEF Callable
<1>3. ~(t[1] < u[1]) /\ ~(u[1] < t[1])
  BY <1>1, <1>2 DEF Todo
<1> QED BY <1>1, <1>2, <1>3

\* The one field of a deletion.
LEMMA DeleteTodo ==
  ASSUME NEW r, Callable(doc[r]), NEW t \in Todo(r, "deleteBoard")
  PROVE  /\ ArgId(r, t) \in Ids /\ ArgId(r, t) = doc[r].calls[t[1]].arg[1].id
         /\ Todo(r, "deleteBoard") = {t}
<1>1. \A u \in Todo(r, "deleteBoard") : u = <<u[1], 1>>
  BY TodoIs DEF WorkOf
<1>2. \A u \in Todo(r, "deleteBoard") : u[1] = t[1]
  BY TodoAlone
<1>3. t[1] \in DOMAIN doc[r].calls /\ doc[r].calls[t[1]].f = "deleteBoard"
  BY TodoIs
<1>4. PICK b \in Ids : doc[r].calls[t[1]].arg = <<Rep("Board", b)>>
  BY <1>3 DEF Callable
<1>5. ArgId(r, t) = b /\ t[2] = 1
  BY <1>1, <1>4 DEF ArgId, Rep
<1>6. Todo(r, "deleteBoard") = {t}
  BY <1>1, <1>2
<1> QED BY <1>4, <1>5, <1>6 DEF ArgId

\* The one field of a creation.
LEMMA CreateTodo ==
  ASSUME NEW r, Callable(doc[r]), NEW t \in Todo(r, "createBoard")
  PROVE  t = <<1, 1>> /\ ArgId(r, t) \in Ids /\ Creating(r, ArgId(r, t))
<1>1. /\ t[1] \in DOMAIN doc[r].calls /\ doc[r].calls[t[1]].f = "createBoard"
      /\ t[2] \in DOMAIN doc[r].calls[t[1]].arg
      /\ t = <<t[1], t[2]>> /\ t \notin DOMAIN done[r]
  BY TodoIs DEF WorkOf
<1>2. PICK b \in Ids : t[1] = 1 /\ doc[r].calls[1] = CreateCall(b)
  <2>1. doc[r].calls[t[1]].arg # <<>>
    BY <1>1
  <2> DEFINE call == doc[r].calls[t[1]]
  <2>2. call.f = "createBoard" /\ call.arg # <<>> => t[1] = 1 /\ \E b \in Ids : call = CreateCall(b)
    BY <1>1 DEF Callable
  <2> QED BY <1>1, <2>1, <2>2
<1>3. doc[r].calls[1].arg = <<Rep("Board", b)>>
  BY <1>2 DEF CreateCall, Call
<1>4. t[2] = 1 /\ doc[r].calls[1].arg[1].id = b
  BY <1>1, <1>2, <1>3 DEF Rep
<1>5. ArgId(r, t) = b /\ t = <<1, 1>>
  BY <1>1, <1>2, <1>4 DEF ArgId
<1> QED BY <1>1, <1>2, <1>5 DEF Creating

LEMMA CreatesInOrder ==
  ASSUME Requested, NEW r \in Requests, ResolveCreate(r)
  PROVE  RegistryNext
<1>1. PICK t \in Todo(r, "createBoard"), ok \in BOOLEAN : CreateBoard(ArgId(r, t), ok)
  BY DEF ResolveCreate
<1>2. Callable(doc[r])
  BY DEF Requested, Asking
<1>3. ArgId(r, t) \in Ids /\ Creating(r, ArgId(r, t))
  BY <1>2, CreateTodo
<1>4. ArgId(r, t) \in Ids \ known
  BY <1>3 DEF Requested, Creates
<1> QED BY <1>1, <1>4 DEF RegistryNext

LEMMA DeletesInOrder ==
  ASSUME Requested, NEW r \in Requests, ResolveDelete(r)
  PROVE  RegistryNext
<1>1. PICK t \in Todo(r, "deleteBoard"), ok \in BOOLEAN :
        \/ backend = "postgres" /\ DeleteBoardBegins(ArgId(r, t), ok)
        \/ ~(backend = "postgres" /\ r \notin half) /\ DeleteBoardEnds(ArgId(r, t), ok)
  BY DEF ResolveDelete
<1>2. Callable(doc[r])
  BY DEF Requested, Asking
<1>3. ArgId(r, t) \in Ids /\ Todo(r, "deleteBoard") = {t}
  BY <1>2, DeleteTodo
<1>4. CASE DeleteBoardBegins(ArgId(r, t), ok)
  BY <1>3, <1>4 DEF RegistryNext
<1>5. CASE ~(backend = "postgres" /\ r \notin half) /\ DeleteBoardEnds(ArgId(r, t), ok)
  <2>1. backend = "memory" \/ r \in half
    BY <1>5 DEF Requested, Sound, Shape
  <2>2. r \in half => ArgId(r, t) \notin Boards
    BY <1>3 DEF Requested, Halves
  <2> QED BY <1>3, <1>5, <2>1, <2>2 DEF RegistryNext
<1> QED BY <1>1, <1>4, <1>5

LEMMA WorkInOrder ==
  ASSUME Requested, NEW r \in Requests, Resolve(r)
  PROVE  [RegistryNext]_regVars
BY CreatesInOrder, DeletesInOrder
   DEF Resolve, ResolveBoards, ResolveBoard, ResolveEntity

LEMMA StepInOrder ==
  ASSUME Requested, [Next]_vars
  PROVE  [RegistryNext]_regVars
<1>1. CASE UNCHANGED vars
  BY <1>1 DEF vars
<1>2. CASE Step
  <2>1. ASSUME NEW r \in Requests, NEW d, Start(r, d) PROVE UNCHANGED regVars
    BY <2>1 DEF Start
  <2>2. ASSUME NEW r \in Requests, Mount(r) \/ Create(r) \/ (\E b \in Ids : Del(r, b)) \/ Other(r)
        PROVE  UNCHANGED regVars
    BY <2>1, <2>2 DEF Mount, Create, Del, Other, Fetch
  <2>3. ASSUME NEW r \in Requests, Arrives(r) \/ Lost(r) PROVE UNCHANGED regVars
    BY <2>3 DEF Arrives, Lost, Answers
  <2>4. ASSUME Drawing PROVE RegistryNext
    BY <2>4 DEF Drawing, RegistryNext
  <2> QED BY <1>2, <2>2, <2>3, <2>4, WorkInOrder DEF Step, Working
<1> QED BY <1>1, <1>2 DEF Next

\* What one step may do to the registry: ids stay known, and only a new one is registered.
LEMMA RegistryGrows ==
  ASSUME Sound, [RegistryNext]_regVars
  PROVE  /\ known \subseteq known' /\ backend' = backend
         /\ Boards' \ Boards \subseteq known' \ known
<1>1. CASE UNCHANGED regVars
  BY <1>1 DEF regVars, Boards
<1>2. ASSUME NEW x \in Ids \X Objects, Draw(x) \/ Flush(x)
      PROVE  known' = known /\ backend' = backend /\ Boards' = Boards
  BY <1>2, SoundFlush DEF Draw, Flush, Boards
<1>3. ASSUME NEW b \in Ids \ known, NEW ok \in BOOLEAN, CreateBoard(b, ok)
      PROVE  /\ known \subseteq known' /\ backend' = backend
             /\ Boards' \ Boards \subseteq known' \ known
  <2>1. CASE listed' = <<b>> \o listed /\ known' = known \union {b}
    <3>1. Boards' = Boards \union {b}
      BY <2>1, InFront DEF Sound, Shape, Boards
    <3> QED BY <1>3, <2>1, <3>1 DEF CreateBoard
  <2>2. CASE UNCHANGED <<listed, known>>
    BY <1>3, <2>2 DEF CreateBoard, Boards
  <2> QED BY <1>3, <2>1, <2>2 DEF CreateBoard
<1>4. ASSUME NEW b \in Ids, NEW ok \in BOOLEAN, DeleteBoardBegins(b, ok) \/ DeleteBoardEnds(b, ok)
      PROVE  known' = known /\ backend' = backend /\ Boards' \subseteq Boards
  BY <1>4, DeleteEntrySound DEF DeleteBoardBegins, DeleteBoardEnds, Boards
<1> QED BY <1>1, <1>2, <1>3, <1>4 DEF RegistryNext

LEMMA LateGrows ==
  ASSUME [RegistryNext]_regVars, late \subseteq rows, backend = "memory" => queue = {}
  PROVE  late' \subseteq rows' /\ (backend = "memory" => queue' = {})
<1>1. CASE UNCHANGED regVars
  BY <1>1 DEF regVars
<1>2. ASSUME NEW x \in Ids \X Objects, Draw(x) \/ Flush(x)
      PROVE  late' \subseteq rows' /\ (backend = "memory" => queue' = {})
  BY <1>2 DEF Draw, Flush, Insert
<1>3. ASSUME NEW b \in Ids, NEW ok \in BOOLEAN,
             CreateBoard(b, ok) \/ DeleteBoardBegins(b, ok) \/ DeleteBoardEnds(b, ok)
      PROVE  late' \subseteq rows' /\ (backend = "memory" => queue' = {})
  BY <1>3 DEF CreateBoard, DeleteBoardBegins, DeleteBoardEnds, DeleteRows
<1> QED BY <1>1, <1>2, <1>3 DEF RegistryNext

\* What a resolver returns is added to what has been returned.
LEMMA ReturnDoes ==
  ASSUME Slots, NEW r \in Requests, NEW t, t \notin DOMAIN done[r], NEW o, Return(r, t, o)
  PROVE  /\ DOMAIN done' = Requests
         /\ \A q \in Requests : q # r => done'[q] = done[q]
         /\ DOMAIN done'[r] = DOMAIN done[r] \union {t}
         /\ \A u \in DOMAIN done[r] : done'[r][u] = done[r][u]
         /\ done'[r][t] = o
BY DEF Return, Slots

\* A request watches boards that are registered, and while it runs ever fewer.
LEMMA WatchDoes ==
  ASSUME Watch
  PROVE  /\ DOMAIN steady' = Requests
         /\ \A q \in Requests : /\ steady'[q] \subseteq Boards'
                                /\ doc'[q] = doc[q] => steady'[q] \subseteq steady[q]
<1>1. DOMAIN steady' = Requests
  BY DEF Watch
<1> SUFFICES ASSUME NEW q \in Requests
             PROVE  /\ steady'[q] \subseteq Boards'
                    /\ doc'[q] = doc[q] => steady'[q] \subseteq steady[q]
  BY <1>1
<1>2. steady'[q] = CASE doc'[q] = Idle \/ doc'[q].calls[1].f # "_entities" -> {}
      [] doc[q] = Idle /\ doc'[q] # Idle /\ doc'[q].calls[1].f = "_entities" -> ToSet(listed')
      [] OTHER -> steady[q] \intersect ToSet(listed')
  BY DEF Watch
<1>3. CASE doc'[q] = Idle \/ doc'[q].calls[1].f # "_entities"
  BY <1>2, <1>3
<1>4. CASE doc[q] = Idle /\ doc'[q] # Idle /\ doc'[q].calls[1].f = "_entities"
  BY <1>2, <1>4 DEF Boards
<1>5. CASE ~(doc'[q] = Idle \/ doc'[q].calls[1].f # "_entities") /\ doc[q] # Idle
  BY <1>2, <1>5 DEF Boards
<1> QED BY <1>3, <1>4, <1>5

\* What was returned stays true of a request that goes on.
LEMMA OutcomesStay ==
  ASSUME NEW r \in Requests, NEW t, Outcomes(r, t), doc'[r] = doc[r], done'[r][t] = done[r][t],
         steady'[r] \subseteq steady[r], known \subseteq known'
  PROVE  Outcomes(r, t)'
BY DEF Outcomes

\* A request that is not touched has the same to do.
LEMMA TodoStays ==
  ASSUME NEW r, doc'[r] = doc[r], done'[r] = done[r], NEW f
  PROVE  /\ Todo(r, f)' = Todo(r, f) /\ \A t : ArgId(r, t)' = ArgId(r, t)
         /\ \A b : Creating(r, b)' <=> Creating(r, b)
BY DEF Todo, ArgId, Creating

\* A board that is being deleted, its entry gone, does not come back.
LEMMA HalfStays ==
  ASSUME Requested, [RegistryNext]_regVars, NEW r \in half, doc'[r] = doc[r], done'[r] = done[r]
  PROVE  \E t \in Todo(r, "deleteBoard")' : ArgId(r, t)' \notin Boards'
<1>1. PICK t \in Todo(r, "deleteBoard") : ArgId(r, t) \notin Boards
  BY DEF Requested, Halves
<1>2. r \in Requests /\ Callable(doc[r])
  BY DEF Requested, Halves, Asking
<1>3. ArgId(r, t) \in known
  <2>1. ArgId(r, t) = doc[r].calls[t[1]].arg[1].id
    BY <1>2, DeleteTodo
  <2>2. t[1] \in DOMAIN doc[r].calls /\ doc[r].calls[t[1]].f = "deleteBoard"
    BY TodoIs
  <2> QED BY <1>2, <2>1, <2>2 DEF Requested, Deletes
<1>4. ArgId(r, t) \notin Boards'
  BY <1>1, <1>3, RegistryGrows DEF Requested
<1>5. Todo(r, "deleteBoard")' = Todo(r, "deleteBoard") /\ ArgId(r, t)' = ArgId(r, t)
  BY TodoStays
<1> QED BY <1>1, <1>4, <1>5

\* What every step keeps, whatever becomes of the requests.
LEMMA KeepsRegistry ==
  ASSUME Requested, [RegistryNext]_regVars, Watch, gone' \subseteq known'
  PROVE  Sound' /\ Steady' /\ Tidy' /\ DOMAIN steady' = Requests
<1>1. Sound' /\ backend' = backend
  BY SoundNext, RegistryGrows DEF Requested
<1>2. Steady' /\ DOMAIN steady' = Requests
  BY WatchDoes DEF Steady
<1>3. Tidy'
  BY <1>1, LateGrows DEF Requested, Tidy
<1> QED BY <1>1, <1>2, <1>3

\* And what is kept as long as no request moves on.
LEMMA KeepsUntouched ==
  ASSUME Requested, [RegistryNext]_regVars, Watch, gone' \subseteq known',
         known' = known, UNCHANGED <<started, doc, done>>, Halves'
  PROVE  Requested'
<1>1. Sound' /\ Steady' /\ Tidy' /\ DOMAIN steady' = Requests
  BY KeepsRegistry
<1>2. Slots' /\ Asking' /\ Deletes'
  BY <1>1 DEF Requested, Slots, Asking, Deletes
<1>3. Creates'
  BY TodoStays DEF Requested, Creates
<1>4. Returns'
  <2>1. ASSUME NEW r \in Requests, NEW t \in DOMAIN done[r] PROVE Outcomes(r, t)'
    BY <2>1, OutcomesStay, WatchDoes DEF Requested, Returns
  <2> QED BY <2>1 DEF Requested, Returns
<1> QED BY <1>1, <1>2, <1>3, <1>4 DEF Requested

LEMMA KeepsQuietly ==
  ASSUME Requested, [RegistryNext]_regVars, Watch, gone' \subseteq known',
         known' = known, UNCHANGED <<started, doc, done, half>>
  PROVE  Requested'
<1>1. Halves'
  BY HalfStays, RegistryGrows DEF Requested, Halves
<1> QED BY <1>1, KeepsUntouched

\* A request may ask: for deletions of boards there were, for the creation of a new one.
MayAsk(d) ==
  /\ Callable(d)
  /\ \A k \in DOMAIN d.calls : d.calls[k].f = "deleteBoard" => d.calls[k].arg[1].id \in known
  /\ \A b \in Ids : 1 \in DOMAIN d.calls /\ d.calls[1] = CreateCall(b) => b \in Fresh

\* A request that has not begun has nothing to do and has done nothing.
LEMMA IdleDoes ==
  ASSUME Requested, NEW r \in Requests, doc[r] = Idle
  PROVE  DOMAIN done[r] = {} /\ r \notin half
<1>1. DOMAIN doc[r].calls = {}
  BY DEF Idle, Query
<1>2. Work(doc[r]) = {}
  BY <1>1 DEF Work
<1>3. Todo(r, "deleteBoard") = {}
  BY <1>2 DEF Todo
<1> QED BY <1>2, <1>3 DEF Requested, Returns, Halves

\* The ids of boards that are to be created are asked for.
LEMMA CreatingAsks ==
  ASSUME NEW r \in Requests, NEW b, Creating(r, b)
  PROVE  Asked(b)
<1>1. doc[r].calls[1].arg = <<Rep("Board", b)>> /\ 1 \in DOMAIN doc[r].calls
  BY DEF Creating, CreateCall, Call
<1>2. 1 \in DOMAIN doc[r].calls[1].arg /\ doc[r].calls[1].arg[1].id = b
  BY <1>1 DEF Rep
<1> QED BY <1>1, <1>2 DEF Asked

LEMMA KeepsStart ==
  ASSUME Requested, NEW r \in Requests, NEW d, Start(r, d), MayAsk(d), Watch
  PROVE  Requested'
<1>1. /\ DOMAIN doc' = Requests /\ doc'[r] = d
      /\ \A q \in Requests : q # r => doc'[q] = doc[q]
      /\ UNCHANGED <<regVars, done, half>> /\ doc[r] = Idle
  BY DEF Start, Requested, Slots
<1>2. Sound' /\ Steady' /\ Tidy' /\ DOMAIN steady' = Requests
  BY <1>1, KeepsRegistry DEF regVars, Requested, Tidy
<1>3. Slots'
  BY <1>1, <1>2, MaxRequestsNat DEF Requested, Slots, Start
<1>4. Asking'
  BY <1>1 DEF Requested, Asking, MayAsk
<1>5. Deletes'
  <2>1. known' = known
    BY <1>1 DEF regVars
  <2> SUFFICES ASSUME NEW q \in Requests, NEW k \in DOMAIN doc'[q].calls,
                      doc'[q].calls[k].f = "deleteBoard"
               PROVE  doc'[q].calls[k].arg[1].id \in known
    BY <2>1 DEF Deletes
  <2>2. CASE q = r
    BY <1>1, <2>2 DEF MayAsk
  <2>3. CASE q # r
    BY <1>1, <2>3 DEF Requested, Deletes
  <2> QED BY <2>2, <2>3
<1>6. Creates'
  <2> SUFFICES ASSUME NEW q \in Requests, NEW b \in Ids, Creating(q, b)'
               PROVE  b \notin known' /\ \A p \in Requests : Creating(p, b)' => p = q
    BY DEF Creates
  <2>1. known' = known
    BY <1>1 DEF regVars
  <2>2. \A p \in Requests : p # r => (Creating(p, b)' <=> Creating(p, b))
    BY <1>1 DEF Creating
  <2>3. Creating(r, b)' => b \in Fresh
    BY <1>1 DEF Creating, MayAsk
  <2>4. b \in Fresh => b \notin known /\ \A p \in Requests : ~Creating(p, b)
    BY CreatingAsks DEF Fresh
  <2> QED BY <2>1, <2>2, <2>3, <2>4 DEF Requested, Creates
<1>7. Halves'
  <2>1. r \notin half
    BY <1>1, IdleDoes
  <2>2. ASSUME NEW q \in half
        PROVE  \E t \in Todo(q, "deleteBoard")' : ArgId(q, t)' \notin Boards'
    <3>1. doc'[q] = doc[q] /\ done'[q] = done[q]
      BY <1>1, <2>1 DEF Requested, Halves
    <3> QED BY <1>1, <3>1, HalfStays
  <2> QED BY <1>1, <2>2 DEF Requested, Halves, regVars
<1>8. Returns'
  <2>1. DOMAIN done[r] = {}
    BY <1>1, IdleDoes
  <2> SUFFICES ASSUME NEW q \in Requests
               PROVE  /\ DOMAIN done[q] \subseteq Work(doc'[q])
                      /\ \A t \in DOMAIN done[q] : Outcomes(q, t)'
    BY <1>1 DEF Returns
  <2>2. CASE q = r
    BY <2>1, <2>2
  <2>3. CASE q # r
    <3>1. doc'[q] = doc[q] /\ done'[q] = done[q] /\ steady'[q] \subseteq steady[q]
      BY <1>1, <2>3, WatchDoes
    <3> QED BY <1>1, <3>1, OutcomesStay DEF Requested, Returns, regVars
  <2> QED BY <2>2, <2>3
<1> QED BY <1>2, <1>3, <1>4, <1>5, <1>6, <1>7, <1>8 DEF Requested

LEMMA KeepsAnswer ==
  ASSUME Requested, NEW r \in Requests, Answers(r), Watch
  PROVE  Requested'
<1>1. /\ DOMAIN doc' = Requests /\ doc'[r] = Idle /\ DOMAIN done' = Requests /\ done'[r] = <<>>
      /\ \A q \in Requests : q # r => doc'[q] = doc[q] /\ done'[q] = done[q]
      /\ UNCHANGED <<regVars, started, half>>
  BY DEF Answers, Requested, Slots
<1>2. Sound' /\ Steady' /\ Tidy' /\ DOMAIN steady' = Requests
  BY <1>1, KeepsRegistry DEF regVars, Requested, Tidy
<1>3. DOMAIN doc'[r].calls = {} /\ DOMAIN done'[r] = {}
  BY <1>1 DEF Idle, Query
<1>4. Slots'
  BY <1>1, <1>2 DEF Requested, Slots
<1>5. Asking'
  <2>1. Callable(doc'[r])
    BY <1>1, <1>3 DEF Callable
  <2>2. \A q \in Requests : q # r => Callable(doc'[q])
    BY <1>1 DEF Requested, Asking
  <2> QED BY <2>1, <2>2 DEF Asking
<1>6. Deletes'
  <2>1. known' = known
    BY <1>1 DEF regVars
  <2> SUFFICES ASSUME NEW q \in Requests, NEW k \in DOMAIN doc'[q].calls,
                      doc'[q].calls[k].f = "deleteBoard"
               PROVE  doc'[q].calls[k].arg[1].id \in known
    BY <2>1 DEF Deletes
  <2>2. q # r
    BY <1>3
  <2> QED BY <1>1, <2>2 DEF Requested, Deletes
<1>7. Creates'
  <2>1. known' = known
    BY <1>1 DEF regVars
  <2>2. \A q \in Requests, b \in Ids : Creating(q, b)' => Creating(q, b)
    BY <1>1, <1>3 DEF Creating
  <2> QED BY <2>1, <2>2 DEF Requested, Creates
<1>8. Halves'
  <2>1. r \notin half
    <3>1. Todo(r, "deleteBoard") = {}
      BY DEF Answers, Todo
    <3> QED BY <3>1 DEF Requested, Halves
  <2>2. ASSUME NEW q \in half
        PROVE  \E t \in Todo(q, "deleteBoard")' : ArgId(q, t)' \notin Boards'
    <3>1. doc'[q] = doc[q] /\ done'[q] = done[q]
      BY <1>1, <2>1 DEF Requested, Halves
    <3> QED BY <1>1, <3>1, HalfStays
  <2> QED BY <1>1, <2>2 DEF Requested, Halves, regVars
<1>9. Returns'
  <2> SUFFICES ASSUME NEW q \in Requests
               PROVE  /\ DOMAIN done'[q] \subseteq Work(doc'[q])
                      /\ \A t \in DOMAIN done'[q] : Outcomes(q, t)'
    BY DEF Returns
  <2>1. CASE q = r
    BY <1>3, <2>1
  <2>2. CASE q # r
    <3>1. doc'[q] = doc[q] /\ done'[q] = done[q] /\ steady'[q] \subseteq steady[q]
      BY <1>1, <2>2, WatchDoes
    <3> QED BY <1>1, <3>1, OutcomesStay DEF Requested, Returns, regVars
  <2> QED BY <2>1, <2>2
<1> QED BY <1>2, <1>4, <1>5, <1>6, <1>7, <1>8, <1>9 DEF Requested

LEMMA KeepsReturn ==
  ASSUME Requested, NEW r \in Requests, NEW f, NEW t \in Todo(r, f), NEW o, Return(r, t, o),
         [RegistryNext]_regVars, UNCHANGED <<started, doc>>, half' = half \ {r}, Watch,
         gone' \subseteq known', Outcomes(r, t)',
         \A b \in known' \ known : t = <<1, 1>> /\ Creating(r, b)
  PROVE  Requested'
<1>1. Sound' /\ Steady' /\ Tidy' /\ DOMAIN steady' = Requests
  BY KeepsRegistry
<1>2. t \in Work(doc[r]) /\ t \notin DOMAIN done[r]
  BY TodoIs
<1>3. /\ DOMAIN done' = Requests
      /\ \A q \in Requests : q # r => done'[q] = done[q]
      /\ DOMAIN done'[r] = DOMAIN done[r] \union {t}
      /\ \A u \in DOMAIN done[r] : done'[r][u] = done[r][u]
  BY <1>2, ReturnDoes DEF Requested
<1>4. known \subseteq known' /\ backend' = backend
  BY RegistryGrows DEF Requested
<1>5. Slots' /\ Asking' /\ Deletes'
  BY <1>1, <1>3, <1>4 DEF Requested, Slots, Asking, Deletes
<1>6. Creates'
  <2> SUFFICES ASSUME NEW q \in Requests, NEW b \in Ids, Creating(q, b)'
               PROVE  b \notin known' /\ \A p \in Requests : Creating(p, b)' => p = q
    BY DEF Creates
  <2>1. \A p \in Requests : Creating(p, b)' => Creating(p, b)
    BY <1>3 DEF Creating
  <2>2. b \notin known /\ \A p \in Requests : Creating(p, b) => p = q
    BY <2>1 DEF Requested, Creates
  <2>3. b \notin known'
    <3> SUFFICES ASSUME b \in known' PROVE FALSE
      OBVIOUS
    <3>1. t = <<1, 1>> /\ q = r
      BY <2>2
    <3> QED BY <1>3, <3>1 DEF Creating
  <2> QED BY <2>1, <2>2, <2>3
<1>7. Halves'
  <2>1. ASSUME NEW q \in half \ {r}
        PROVE  \E u \in Todo(q, "deleteBoard")' : ArgId(q, u)' \notin Boards'
    <3>1. doc'[q] = doc[q] /\ done'[q] = done[q]
      BY <1>3 DEF Requested, Halves
    <3> QED BY <3>1, HalfStays
  <2> QED BY <1>4, <2>1 DEF Requested, Halves
<1>8. Returns'
  <2> SUFFICES ASSUME NEW q \in Requests
               PROVE  /\ DOMAIN done'[q] \subseteq Work(doc'[q])
                      /\ \A u \in DOMAIN done'[q] : Outcomes(q, u)'
    BY DEF Returns
  <2>1. doc'[q] = doc[q] /\ steady'[q] \subseteq steady[q]
    BY WatchDoes
  <2>2. DOMAIN done[q] \subseteq Work(doc[q]) /\ \A u \in DOMAIN done[q] : Outcomes(q, u)
    BY DEF Requested, Returns
  <2>3. \A u \in DOMAIN done[q] : u \in DOMAIN done'[q] /\ done'[q][u] = done[q][u]
    BY <1>3
  <2>4. \A u \in DOMAIN done[q] : Outcomes(q, u)'
    BY <1>4, <2>1, <2>2, <2>3, OutcomesStay
  <2>5. DOMAIN done'[q] \subseteq DOMAIN done[q] \union {t} /\ (t \in DOMAIN done'[q] => t \in DOMAIN done[q] \/ q = r)
    BY <1>3
  <2> QED BY <1>2, <2>1, <2>2, <2>4, <2>5
<1> QED BY <1>1, <1>5, <1>6, <1>7, <1>8 DEF Requested

\* A deletion that is half done waits for nothing else of its request.
LEMMA HalfAlone ==
  ASSUME Requested, NEW r \in half, NEW g, Todo(r, g) # {}
  PROVE  g = "deleteBoard"
<1>1. PICK t \in Todo(r, "deleteBoard") : TRUE
  BY DEF Requested, Halves
<1>2. Callable(doc[r])
  BY DEF Requested, Halves, Asking
<1> QED BY <1>1, <1>2, TodoAlone

LEMMA KeepsResolveBoards ==
  ASSUME Requested, NEW r \in Requests, ResolveBoards(r), UNCHANGED <<started, doc>>, Watch
  PROVE  Requested'
<1>1. PICK t \in Todo(r, "boards"), ok \in BOOLEAN :
        /\ Return(r, t, Outcome(ok, IF ok THEN ListBoards ELSE <<>>))
        /\ UNCHANGED <<regVars, half>>
  BY DEF ResolveBoards
<1> DEFINE infos == IF ok THEN ListBoards ELSE <<>>
           o == Outcome(ok, infos)
<1>2. /\ IdsOf(infos) \in Seq(Ids) /\ Distinct(IdsOf(infos))
      /\ ToSet(IdsOf(infos)) \subseteq known
  <2>1. listed \in Seq(Ids) /\ Distinct(listed)
    BY DEF Requested, Sound, Shape
  <2>2. CASE ok
    <3>1. DOMAIN ListBoards = DOMAIN listed /\ \A i \in DOMAIN listed : ListBoards[i].id = listed[i]
      BY DEF ListBoards, Info
    <3>2. IdsOf(ListBoards) = [i \in DOMAIN listed |-> listed[i]]
      BY <3>1 DEF IdsOf
    <3>3. IdsOf(ListBoards) = listed
      BY <2>1, <3>2
    <3>4. ToSet(listed) \subseteq known
      BY DEF Requested, Sound, Shape, Boards
    <3> QED BY <2>1, <2>2, <3>3, <3>4
  <2>3. CASE ~ok
    <3>1. DOMAIN infos = 1 .. 0
      BY <2>3
    <3>2. IdsOf(infos) = [i \in 1 .. 0 |-> infos[i].id]
      BY <3>1 DEF IdsOf
    <3> DEFINE none == [i \in 1 .. 0 |-> infos[i].id]
    <3> HIDE DEF infos
    <3>3. none \in [1 .. 0 -> Ids] /\ DOMAIN none = 1 .. 0
      OBVIOUS
    <3>4. none \in Seq(Ids)
      BY <3>3, IsASequence
    <3> QED BY <3>2, <3>3, <3>4 DEF Distinct, ToSet
  <2> QED BY <2>2, <2>3
<1>3. o.infos = infos
  BY DEF Outcome
<1> HIDE DEF infos, o
<1>4. Return(r, t, o)
  BY <1>1 DEF o, infos
<1>5. t \notin DOMAIN done[r] /\ doc[r].calls[t[1]].f = "boards"
  BY TodoIs
<1>6. done'[r][t] = o
  BY <1>4, <1>5, ReturnDoes DEF Requested
<1>7. Outcomes(r, t)'
  <2>1. known' = known
    BY <1>1 DEF regVars
  <2> QED BY <1>2, <1>3, <1>5, <1>6, <2>1 DEF Outcomes
<1>8. half' = half \ {r}
  BY <1>1, HalfAlone
<1>9. [RegistryNext]_regVars /\ gone' \subseteq known' /\ known' = known
  BY <1>1 DEF regVars, Requested, Tidy
<1> QED BY <1>4, <1>7, <1>8, <1>9, KeepsReturn

LEMMA KeepsResolveBoard ==
  ASSUME Requested, NEW r \in Requests, ResolveBoard(r), UNCHANGED <<started, doc>>, Watch
  PROVE  Requested'
<1>1. PICK t \in Todo(r, "board") : \E o : Return(r, t, o) /\ UNCHANGED <<regVars, half>>
  BY DEF ResolveBoard
<1> PICK o : Return(r, t, o)
  BY <1>1
<1>2. Outcomes(r, t)'
  <2>1. doc[r].calls[t[1]].f = "board"
    BY TodoIs
  <2> QED BY <2>1 DEF Outcomes
<1>3. half' = half \ {r}
  BY <1>1, HalfAlone
<1>4. [RegistryNext]_regVars /\ gone' \subseteq known' /\ known' = known
  BY <1>1 DEF regVars, Requested, Tidy
<1> QED BY <1>1, <1>2, <1>3, <1>4, KeepsReturn

\* An entity is the board asked for; one that is watched is found.
LEMMA KeepsResolveEntity ==
  ASSUME Requested, NEW r \in Requests, ResolveEntity(r), UNCHANGED <<started, doc>>, Watch
  PROVE  Requested'
<1>1. PICK t \in Todo(r, "_entities"), ok \in BOOLEAN :
        /\ Return(r, t, Outcome(ok, IF ArgId(r, t) = NoId THEN <<>> ELSE GetBoard(ArgId(r, t), ok)))
        /\ UNCHANGED <<regVars, half>>
  BY DEF ResolveEntity
<1> DEFINE b == ArgId(r, t)
           infos == IF b = NoId THEN <<>> ELSE GetBoard(b, ok)
           o == Outcome(ok, infos)
<1>2. infos # <<>> => infos[1].id = b
  BY DEF GetBoard, Info
<1>3. ok /\ b \in Boards /\ b # NoId => infos # <<>>
  BY DEF GetBoard
<1>4. Boards \subseteq Ids
  BY DEF Requested, Sound, Shape
<1>5. o.infos = infos /\ o.ok = ok
  BY DEF Outcome
<1>6. b = doc[r].calls[t[1]].arg[t[2]].id
  BY DEF ArgId
<1> HIDE DEF infos, o, b
<1>7. Return(r, t, o)
  BY <1>1 DEF o, infos, b
<1>8. t \notin DOMAIN done[r] /\ doc[r].calls[t[1]].f = "_entities"
  BY TodoIs
<1>9. done'[r][t] = o
  BY <1>7, <1>8, ReturnDoes DEF Requested
<1>10. steady'[r] \subseteq Boards
  BY <1>1, WatchDoes DEF regVars, Boards
<1>11. Outcomes(r, t)'
  BY <1>2, <1>3, <1>4, <1>5, <1>6, <1>8, <1>9, <1>10, NoIdIsNone DEF Outcomes
<1>12. half' = half \ {r}
  BY <1>1, HalfAlone
<1>13. [RegistryNext]_regVars /\ gone' \subseteq known' /\ known' = known
  BY <1>1 DEF regVars, Requested, Tidy
<1> QED BY <1>7, <1>11, <1>12, <1>13, KeepsReturn

LEMMA KeepsResolveCreate ==
  ASSUME Requested, NEW r \in Requests, ResolveCreate(r), UNCHANGED <<started, doc>>, Watch
  PROVE  Requested'
<1>1. PICK t \in Todo(r, "createBoard"), ok \in BOOLEAN :
        CreateBoard(ArgId(r, t), ok) /\ (\E o : Return(r, t, o)) /\ UNCHANGED half
  BY DEF ResolveCreate
<1> PICK o : Return(r, t, o)
  BY <1>1
<1>2. Outcomes(r, t)'
  <2>1. doc[r].calls[t[1]].f = "createBoard"
    BY TodoIs
  <2> QED BY <2>1 DEF Outcomes
<1>3. half' = half \ {r}
  BY <1>1, HalfAlone
<1>4. t = <<1, 1>> /\ Creating(r, ArgId(r, t))
  BY CreateTodo DEF Requested, Asking
<1>5. known' \subseteq known \union {ArgId(r, t)} /\ known \subseteq known' /\ gone' = gone
  BY <1>1 DEF CreateBoard
<1>6. [RegistryNext]_regVars /\ gone' \subseteq known'
  BY <1>5, CreatesInOrder DEF Requested, Tidy
<1> QED BY <1>1, <1>2, <1>3, <1>4, <1>5, <1>6, KeepsReturn

LEMMA KeepsResolveDelete ==
  ASSUME Requested, NEW r \in Requests, ResolveDelete(r), UNCHANGED <<started, doc>>, Watch
  PROVE  Requested'
<1>1. [RegistryNext]_regVars
  BY DeletesInOrder
<1>2. PICK t \in Todo(r, "deleteBoard"), ok \in BOOLEAN :
        \/ /\ backend = "postgres" /\ r \notin half /\ ok /\ DeleteBoardBegins(ArgId(r, t), ok)
           /\ half' = half \union {r} /\ UNCHANGED done
        \/ /\ backend = "postgres" /\ r \notin half /\ DeleteBoardBegins(ArgId(r, t), ok)
           /\ Return(r, t, Outcome(FALSE, <<>>)) /\ UNCHANGED half
        \/ /\ DeleteBoardEnds(ArgId(r, t), ok)
           /\ Return(r, t, Outcome(ok, <<>>)) /\ half' = half \ {r}
  BY DEF ResolveDelete
<1> DEFINE b == ArgId(r, t)
<1>3. Callable(doc[r])
  BY DEF Requested, Asking
<1>4. t \notin DOMAIN done[r] /\ t[1] \in DOMAIN doc[r].calls /\ doc[r].calls[t[1]].f = "deleteBoard"
  BY TodoIs
<1>5. b \in known /\ Todo(r, "deleteBoard") = {t}
  BY <1>3, <1>4, DeleteTodo DEF Requested, Deletes
<1>6. Outcomes(r, t)'
  BY <1>4 DEF Outcomes
<1> HIDE DEF b
<1>7. CASE /\ backend = "postgres" /\ r \notin half /\ ok /\ DeleteBoardBegins(b, ok)
           /\ half' = half \union {r} /\ UNCHANGED done
  <2>1. known' = known /\ gone' \subseteq known' /\ backend' = backend
    BY <1>7 DEF DeleteBoardBegins, Requested, Tidy
  <2>2. Boards' = Boards \ {b}
    BY <1>7, DeleteEntrySound DEF DeleteBoardBegins, Requested
  <2>3. ASSUME NEW q \in half'
        PROVE  \E u \in Todo(q, "deleteBoard")' : ArgId(q, u)' \notin Boards'
    <3>1. CASE q = r
      <4>1. t \in Todo(r, "deleteBoard")' /\ ArgId(r, t)' = b
        BY <1>5, <1>7, TodoStays DEF b
      <4> QED BY <2>2, <3>1, <4>1
    <3>2. CASE q \in half
      BY <1>1, <1>7, <3>2, HalfStays
    <3> QED BY <1>7, <2>3, <3>1, <3>2
  <2>4. Halves'
    BY <1>7, <2>1, <2>3 DEF Requested, Halves
  <2> QED BY <1>1, <1>7, <2>1, <2>4, KeepsUntouched
<1>8. CASE /\ r \notin half /\ DeleteBoardBegins(b, ok)
           /\ Return(r, t, Outcome(FALSE, <<>>)) /\ UNCHANGED half
  <2>1. known' = known /\ gone' \subseteq known' /\ half' = half \ {r}
    BY <1>8 DEF DeleteBoardBegins, Requested, Tidy
  <2> QED BY <1>1, <1>6, <1>8, <2>1, KeepsReturn
<1>9. CASE DeleteBoardEnds(b, ok) /\ Return(r, t, Outcome(ok, <<>>)) /\ half' = half \ {r}
  <2>1. known' = known /\ gone' \subseteq known'
    BY <1>5, <1>9 DEF DeleteBoardEnds, Requested, Tidy
  <2> QED BY <1>1, <1>6, <1>9, <2>1, KeepsReturn
<1> QED BY <1>2, <1>7, <1>8, <1>9 DEF b

LEMMA KeepsWork ==
  ASSUME Requested, NEW r \in Requests, Working(r), Watch
  PROVE  Requested'
BY KeepsResolveBoards, KeepsResolveBoard, KeepsResolveEntity, KeepsResolveCreate, KeepsResolveDelete
   DEF Working, Resolve

LEMMA KeepsDrawing ==
  ASSUME Requested, Drawing, Watch
  PROVE  Requested'
<1>1. RegistryNext
  BY DEF Drawing, RegistryNext
<1>2. known' = known /\ gone' = gone /\ UNCHANGED <<started, doc, done, half>>
  BY DEF Drawing, Draw, Flush
<1> QED BY <1>1, <1>2, KeepsQuietly DEF Requested, Tidy

\* The registry and the requests are left alone; only Watch looks.
LEMMA KeepsStill ==
  ASSUME Requested, UNCHANGED <<regVars, started, doc, done, half>>, Watch
  PROVE  Requested'
<1>1. known' = known /\ gone' = gone
  BY DEF regVars
<1> QED BY <1>1, KeepsQuietly DEF Requested, Tidy

-----------------------------------------------------------------------------
(* What is asked. *)

LEMMA FixedMayAsk ==
  /\ MayAsk(ListDoc) /\ MayAsk(DescribeDoc)
  /\ \A b \in Ids : MayAsk(LookDoc(b))
<1>1. MayAsk(ListDoc)
  BY DEF MayAsk, Callable, ListDoc, Query, Call, CreateCall
<1>2. MayAsk(DescribeDoc)
  BY DEF MayAsk, Callable, DescribeDoc, Query, Call, CreateCall
<1>3. ASSUME NEW b \in Ids PROVE MayAsk(LookDoc(b))
  BY DEF MayAsk, Callable, LookDoc, BoardCall, Query, Call, CreateCall
<1> QED BY <1>1, <1>2, <1>3

LEMMA CreateMayAsk ==
  ASSUME NEW b \in Fresh
  PROVE  MayAsk(CreateDoc(b))
BY DEF MayAsk, Callable, CreateDoc, CreateCall, Mutation, Call, Rep, Fresh

LEMMA DeleteMayAsk ==
  ASSUME NEW b \in known, known \subseteq Ids
  PROVE  MayAsk(DeleteDoc(b))
BY DEF MayAsk, Callable, DeleteDoc, DeleteCall, Mutation, Call, Rep, CreateCall

LEMMA SeveralMayAsk ==
  ASSUME NEW b \in Fresh, NEW d \in known, known \subseteq Ids
  PROVE  MayAsk(SeveralDoc(b, d))
BY DEF MayAsk, Callable, SeveralDoc, CreateCall, DeleteCall, BlankCall, Mutation, Call, Rep, Fresh

LEMMA EntitiesMayAsk ==
  ASSUME NEW reps \in Reps, known \subseteq Ids, Boards \subseteq Ids
  PROVE  MayAsk(EntitiesDoc(reps))
<1>1. \A i \in DOMAIN reps : reps[i].id = NoId \/ (reps[i].type = "Board" /\ reps[i].id \in Ids)
  <2>1. \A x \in BoardReps(known) \union BoardReps(Boards) : x.type = "Board" /\ x.id \in Ids
    BY DEF BoardReps, Rep
  <2>2. ASSUME NEW x \in Odd PROVE x.id = NoId
    <3>1. PICK type : x = Rep(type, NoId)
      BY DEF Odd
    <3> QED BY <3>1 DEF Rep
  <2>3. DOMAIN reps = {1, 2} /\ \A i \in {1, 2} : reps[i] \in BoardReps(known) \union BoardReps(Boards) \union Odd
    BY DEF Reps
  <2> QED BY <2>1, <2>2, <2>3
<1> QED BY <1>1 DEF MayAsk, Callable, EntitiesDoc, Query, Call, CreateCall

-----------------------------------------------------------------------------
(* What the page shows. *)

\* The kind of what is waited for says which it is.
LEMMA WaitsIs ==
  ASSUME NEW r \in Requests, Waits(r)
  PROVE  /\ pending[r].kind \in {"nothing", "load", "create", "delete"}
         /\ pending[r].kind = "nothing" <=> pending[r] = Nothing
         /\ pending[r] # Nothing => page /\ doc[r] # Idle
         /\ pending[r].kind = "load" => doc[r] = ListDoc
         /\ pending[r].kind = "delete" =>
              /\ doc[r] = DeleteDoc(pending[r].id) /\ pending[r].id \in Ids
              /\ Listing(pending[r].prev)
<1>1. Nothing.kind = "nothing"
  BY DEF Nothing, Wait
<1>2. CASE pending[r] = Nothing
  BY <1>1, <1>2
<1>3. CASE pending[r] = Wait("load", NoId, NotLoaded) /\ doc[r] = ListDoc
  <2>1. pending[r].kind = "load"
    BY <1>3 DEF Wait
  <2> QED BY <1>1, <1>3, <2>1 DEF Waits
<1>4. CASE pending[r] = Wait("create", pending[r].id, NotLoaded)
  <2>1. pending[r].kind = "create"
    BY <1>4 DEF Wait
  <2> QED BY <1>1, <2>1 DEF Waits
<1>5. CASE /\ pending[r] = Wait("delete", pending[r].id, pending[r].prev)
           /\ doc[r] = DeleteDoc(pending[r].id) /\ pending[r].id \in Ids
           /\ Listing(pending[r].prev)
  <2>1. pending[r].kind = "delete"
    BY <1>5 DEF Wait
  <2> QED BY <1>1, <1>5, <2>1 DEF Waits
<1> QED BY <1>2, <1>3, <1>4, <1>5 DEF Waits

\* The page is not concerned by what happens to other requests.
LEMMA PagedStays ==
  ASSUME Paged, UNCHANGED lobbyVars, known \subseteq known',
         \A q \in Requests : pending[q] # Nothing => doc'[q] = doc[q]
  PROVE  Paged'
<1>1. UNCHANGED <<page, boards, busy, pending, told, crossed>>
  BY DEF lobbyVars
<1>2. Waiting'
  <2>1. ASSUME NEW q \in Requests PROVE Waits(q)'
    <3>1. Waits(q)
      BY DEF Paged, Waiting
    <3>2. CASE pending[q] = Nothing
      BY <1>1, <3>2 DEF Waits
    <3>3. CASE pending[q] # Nothing
      <4>1. doc'[q] = doc[q] /\ pending'[q] = pending[q] /\ page' = page
        BY <1>1, <3>3
      <4> QED BY <3>1, <4>1 DEF Waits, Listing
    <3> QED BY <3>2, <3>3
  <2> QED BY <1>1, <2>1 DEF Paged, Waiting
<1>3. Deleting' = Deleting
  BY <1>1 DEF Deleting
<1>4. OneAtATime' /\ Busy' /\ Told'
  BY <1>1 DEF Paged, OneAtATime, Busy, Told, On
<1>5. Opened'
  BY <1>1, <1>3 DEF Paged, Opened, Listing
<1>6. Rollbacks'
  BY <1>1, <1>3 DEF Paged, Rollbacks, Rollback, On
<1> QED BY <1>2, <1>4, <1>5, <1>6 DEF Paged

\* A page that is left waits for nothing.
LEMMA PagedLeaves ==
  ASSUME Leave
  PROVE  Paged'
<1>1. \A q \in Requests : pending'[q] = Nothing /\ pending'[q].kind = "nothing"
  BY DEF Leave, Nothing, Wait
<1>2. Deleting' = {}
  BY <1>1 DEF Deleting
<1>3. Waiting'
  BY <1>1 DEF Waiting, Waits, Leave
<1>4. OneAtATime' /\ Busy'
  BY <1>1 DEF OneAtATime, Busy, Leave
<1>5. Opened'
  BY <1>1, <1>2 DEF Opened, Leave
<1>6. Rollbacks' /\ Told'
  BY <1>2 DEF Rollbacks, Told, Leave
<1> QED BY <1>3, <1>4, <1>5, <1>6 DEF Paged

\* A list that is shown is not the one that has not come yet.
LEMMA ListingIsLoaded ==
  ASSUME NEW s, Listing(s)
  PROVE  s # NotLoaded /\ s.loaded
BY DEF Listing, NotLoaded, Showing

\* The next actions end a wait: what is kept whatever the list becomes.
LEMMA EndsWaiting ==
  ASSUME Paged, NEW r \in Requests, pending' = [pending EXCEPT ![r] = Nothing], UNCHANGED page,
         known \subseteq known', \A q \in Requests : q # r => doc'[q] = doc[q]
  PROVE  /\ \A q \in Requests : q # r => pending'[q] = pending[q]
         /\ pending'[r] = Nothing /\ pending'[r].kind = "nothing"
         /\ Deleting' = Deleting \ {r}
         /\ Waiting' /\ OneAtATime'
<1>1. /\ DOMAIN pending' = Requests
      /\ \A q \in Requests : q # r => pending'[q] = pending[q]
      /\ pending'[r] = Nothing /\ pending'[r].kind = "nothing"
  BY DEF Paged, Waiting, Nothing, Wait
<1>2. Deleting' = Deleting \ {r}
  BY <1>1 DEF Deleting
<1>3. Waiting'
  <2>1. ASSUME NEW q \in Requests PROVE Waits(q)'
    <3>1. CASE q = r
      BY <1>1, <3>1 DEF Waits
    <3>2. CASE q # r
      <4>1. Waits(q) /\ pending'[q] = pending[q] /\ doc'[q] = doc[q]
        BY <1>1, <3>2 DEF Paged, Waiting
      <4> QED BY <4>1 DEF Waits, Listing
    <3> QED BY <3>1, <3>2
  <2> QED BY <1>1, <2>1 DEF Waiting
<1>4. OneAtATime'
  BY <1>1 DEF Paged, OneAtATime
<1> QED BY <1>1, <1>2, <1>3, <1>4

LEMMA PagedFails ==
  ASSUME Paged, NEW r \in Requests, pending[r] # Nothing, Fails(r),
         known \subseteq known', \A q \in Requests : q # r => doc'[q] = doc[q]
  PROVE  Paged'
<1> DEFINE w == pending[r]
<1>1. /\ boards' = IF w.kind = "delete" THEN w.prev ELSE boards
      /\ busy' = (busy /\ w.kind # "create")
      /\ pending' = [pending EXCEPT ![r] = Nothing]
      /\ UNCHANGED <<page, told, crossed>>
  BY DEF Fails
<1>2. /\ \A q \in Requests : q # r => pending'[q] = pending[q]
      /\ pending'[r] = Nothing /\ pending'[r].kind = "nothing"
      /\ Deleting' = Deleting \ {r}
      /\ Waiting' /\ OneAtATime'
  BY <1>1, EndsWaiting
<1>3. Waits(r) /\ page
  BY WaitsIs DEF Paged, Waiting
<1>4. Busy'
  <2>1. \A q \in Requests : pending'[q].kind = "create" => pending[q].kind = "create" /\ q # r
    BY <1>2
  <2>2. CASE w.kind = "create"
    BY <1>1, <2>1, <2>2 DEF Paged, Busy, OneAtATime
  <2>3. CASE w.kind # "create"
    <3>1. busy' = busy
      BY <1>1, <2>3 DEF Paged, Busy
    <3> QED BY <1>2, <2>1, <2>3, <3>1 DEF Paged, Busy
  <2> QED BY <2>2, <2>3
<1>5. CASE w.kind # "delete"
  <2>1. Deleting' = Deleting /\ boards' = boards
    BY <1>1, <1>2, <1>5 DEF Deleting
  <2>2. Opened'
    BY <1>1, <1>2, <2>1 DEF Paged, Opened, Listing
  <2>3. Rollbacks'
    <3> SUFFICES ASSUME NEW q \in Deleting PROVE Rollback(q)'
      BY <2>1 DEF Rollbacks
    <3>1. Rollback(q) /\ pending'[q] = pending[q]
      BY <1>2, <1>5 DEF Paged, Rollbacks, Deleting
    <3> QED BY <1>1, <2>1, <3>1 DEF Rollback
  <2>4. Told'
    BY <1>1, <2>1 DEF Paged, Told
  <2> QED BY <1>2, <1>4, <2>2, <2>3, <2>4 DEF Paged
<1>6. CASE w.kind = "delete"
  <2>1. r \in Deleting /\ Rollback(r) /\ boards' = w.prev /\ Listing(w.prev)
    BY <1>1, <1>3, <1>6, WaitsIs DEF Paged, Rollbacks, Deleting
  <2>2. Opened'
    <3>1. \A q \in Requests : pending'[q].kind # "load"
      BY <1>2, <2>1 DEF Paged, Opened
    <3>2. boards' # NotLoaded
      BY <2>1, ListingIsLoaded
    <3>3. boards' = NotLoaded \/ (page' /\ Listing(boards)')
      BY <1>1, <1>3, <2>1 DEF Listing
    <3> QED BY <1>1, <3>1, <3>2, <3>3 DEF Paged, Opened
  <2>3. Rollbacks'
    <3> SUFFICES ASSUME NEW q \in Deleting, q # r PROVE Rollback(q)'
      BY <1>2 DEF Rollbacks
    <3>1. Rollback(q) /\ pending'[q] = pending[q]
      BY <1>2 DEF Paged, Rollbacks, Deleting
    <3>2. pending[r].id \in crossed /\ pending[q].id \in crossed
      BY <2>1, <3>1 DEF Rollback
    <3>3. /\ On(boards') \subseteq On(pending[q].prev) \union crossed
          /\ On(pending[q].prev) \subseteq On(boards') \union {pending[q].id} \union crossed
      BY <2>1, <3>1, <3>2 DEF Rollback
    <3> QED BY <1>1, <1>2, <3>1, <3>2, <3>3 DEF Rollback
  <2>4. Told'
    BY <1>1, <2>1 DEF Told, Rollback
  <2> QED BY <1>2, <1>4, <2>2, <2>3, <2>4 DEF Paged
<1> QED BY <1>5, <1>6

\* A fetch begins a wait, for a request that nobody waited for.
LEMMA BeginsWaiting ==
  ASSUME Paged, Slots, NEW r \in Requests, NEW d, NEW w, Fetch(r, d, w)
  PROVE  /\ doc[r] = Idle /\ doc'[r] = d
         /\ \A q \in Requests : q # r => pending'[q] = pending[q] /\ doc'[q] = doc[q]
         /\ DOMAIN pending' = Requests /\ pending[r] = Nothing /\ pending'[r] = w
         /\ known' = known
         /\ (page => page') /\ Waits(r)' => Waiting'
<1>1. /\ doc[r] = Idle /\ doc'[r] = d
      /\ \A q \in Requests : q # r => doc'[q] = doc[q]
      /\ known' = known
  BY DEF Fetch, Start, Slots, regVars
<1>2. /\ DOMAIN pending' = Requests /\ pending'[r] = w
      /\ \A q \in Requests : q # r => pending'[q] = pending[q]
  BY DEF Fetch, Paged, Waiting
<1>3. pending[r] = Nothing
  BY <1>1, WaitsIs DEF Paged, Waiting
<1>4. ASSUME page => page', Waits(r)' PROVE Waiting'
  <2>1. ASSUME NEW q \in Requests, q # r PROVE Waits(q)'
    <3>1. Waits(q) /\ pending'[q] = pending[q] /\ doc'[q] = doc[q]
      BY <1>1, <1>2, <2>1 DEF Paged, Waiting
    <3>2. CASE pending[q] = Nothing
      BY <3>1, <3>2 DEF Waits
    <3>3. CASE pending[q] # Nothing
      <4>1. page'
        BY <1>4, <3>1, <3>3 DEF Waits
      <4> QED BY <1>1, <3>1, <3>3, <4>1 DEF Waits, Listing
    <3> QED BY <3>2, <3>3
  <2> QED BY <1>2, <1>4, <2>1 DEF Waiting
<1> QED BY <1>1, <1>2, <1>3, <1>4

LEMMA PagedMount ==
  ASSUME Paged, Slots, NEW r \in Requests, Mount(r)
  PROVE  Paged'
<1> DEFINE w == Wait("load", NoId, NotLoaded)
<1>1. /\ ~page /\ page' = TRUE /\ Fetch(r, ListDoc, w)
      /\ UNCHANGED <<boards, busy, told, crossed>>
  BY DEF Mount
<1>2. w.kind = "load"
  BY DEF Wait
<1> HIDE DEF w
<1>3. /\ doc'[r] = ListDoc
      /\ \A q \in Requests : q # r => pending'[q] = pending[q]
      /\ pending'[r] = w /\ ((page => page') /\ Waits(r)' => Waiting')
  BY <1>1, BeginsWaiting
<1>4. \A q \in Requests : pending[q] = Nothing /\ pending[q].kind = "nothing"
  BY <1>1, WaitsIs DEF Paged, Waiting
<1>5. Waiting'
  <2>1. ListDoc # Idle
    BY DEF ListDoc, Idle, Query, Call
  <2>2. Waits(r)'
    BY <1>1, <1>3, <2>1 DEF Waits, w
  <2> QED BY <1>1, <1>3, <2>2
<1>6. \A q \in Requests : q # r => pending'[q].kind = "nothing"
  BY <1>3, <1>4
<1>7. Deleting' = {}
  BY <1>2, <1>3, <1>6 DEF Deleting
<1>8. OneAtATime'
  BY <1>6 DEF OneAtATime
<1>9. Busy'
  BY <1>1, <1>2, <1>3, <1>4, <1>6 DEF Paged, Busy
<1>10. Opened'
  BY <1>1, <1>7 DEF Paged, Opened
<1>11. Rollbacks' /\ Told'
  BY <1>1, <1>7 DEF Paged, Opened, Rollbacks, Told
<1> QED BY <1>5, <1>8, <1>9, <1>10, <1>11 DEF Paged

LEMMA PagedCreate ==
  ASSUME Paged, Slots, NEW r \in Requests, Create(r)
  PROVE  Paged'
<1>1. PICK b \in Fresh : Fetch(r, CreateDoc(b), Wait("create", b, NotLoaded))
  BY DEF Create
<1> DEFINE w == Wait("create", b, NotLoaded)
<1>2. w.kind = "create" /\ w = Wait("create", w.id, NotLoaded) /\ w.id = b
  BY DEF Wait
<1>3. /\ page /\ ~busy /\ busy' = TRUE /\ Fetch(r, CreateDoc(b), w)
      /\ UNCHANGED <<page, boards, told, crossed>>
  BY <1>1 DEF Create
<1> HIDE DEF w
<1>4. /\ doc'[r] = CreateDoc(b)
      /\ \A q \in Requests : q # r => pending'[q] = pending[q]
      /\ pending[r] = Nothing /\ pending'[r] = w /\ known' = known
      /\ ((page => page') /\ Waits(r)' => Waiting')
  BY <1>3, BeginsWaiting
<1>5. Waiting'
  <2>1. CreateDoc(b) # Idle
    BY DEF CreateDoc, Mutation, Idle, Query
  <2>2. Waits(r)'
    BY <1>2, <1>3, <1>4, <2>1 DEF Waits
  <2> QED BY <1>3, <1>4, <2>2
<1>6. \A q \in Requests : pending[q].kind # "create"
  BY <1>3 DEF Paged, Busy
<1>7. pending[r].kind = "nothing"
  BY <1>4 DEF Nothing, Wait
<1>8. Deleting' = Deleting
  BY <1>2, <1>4, <1>7 DEF Deleting
<1>9. OneAtATime'
  BY <1>2, <1>4, <1>6 DEF Paged, OneAtATime
<1>10. Busy'
  BY <1>2, <1>3, <1>4 DEF Busy
<1>11. Opened'
  BY <1>2, <1>3, <1>4, <1>8 DEF Paged, Opened, Listing
<1>12. Rollbacks'
  <2> SUFFICES ASSUME NEW q \in Deleting PROVE Rollback(q)'
    BY <1>8 DEF Rollbacks
  <2>1. Rollback(q) /\ pending'[q] = pending[q]
    BY <1>4, <1>7 DEF Paged, Rollbacks, Deleting
  <2> QED BY <1>3, <1>8, <2>1 DEF Rollback
<1>13. Told'
  BY <1>3 DEF Paged, Told
<1> QED BY <1>5, <1>9, <1>10, <1>11, <1>12, <1>13 DEF Paged

\* What del does: the board goes from the list, and the list is remembered.
LEMMA PagedDel ==
  ASSUME Paged, Slots, NEW r \in Requests, NEW b \in Ids, Del(r, b)
  PROVE  Paged'
<1> DEFINE w == Wait("delete", b, boards)
           rest == Without(boards.ids, b)
<1>1. w.kind = "delete" /\ w = Wait("delete", w.id, w.prev) /\ w.id = b /\ w.prev = boards
  BY DEF Wait
<1>2. /\ page /\ boards.loaded /\ b \in On(boards) /\ Fetch(r, DeleteDoc(b), w)
      /\ boards' = Showing(rest)
      /\ crossed' = crossed \union
           (IF Deleting = {} THEN {} ELSE {b} \union {pending[q].id : q \in Deleting})
      /\ UNCHANGED <<page, busy, told>>
  BY DEF Del, On
<1> HIDE DEF w
<1>3. Listing(boards)
  BY <1>2 DEF Paged, Opened, NotLoaded
<1>4. rest \in Seq(Ids) /\ Distinct(rest) /\ ToSet(rest) = On(boards) \ {b}
  BY <1>3, WithoutElement DEF Listing, On
<1> HIDE DEF rest
<1>5. On(boards') = On(boards) \ {b} /\ Listing(boards')
  BY <1>2, <1>3, <1>4 DEF Listing, On, Showing
<1>6. /\ doc'[r] = DeleteDoc(b) /\ known' = known
      /\ \A q \in Requests : q # r => pending'[q] = pending[q]
      /\ pending[r] = Nothing /\ pending'[r] = w
      /\ ((page => page') /\ Waits(r)' => Waiting')
  BY <1>2, BeginsWaiting
<1>7. Waiting'
  <2>1. DeleteDoc(b) # Idle
    BY DEF DeleteDoc, Mutation, Idle, Query
  <2>2. Waits(r)'
    BY <1>1, <1>2, <1>3, <1>6, <2>1 DEF Waits, Listing
  <2> QED BY <1>2, <1>6, <2>2
<1>8. pending[r].kind = "nothing"
  BY <1>6 DEF Nothing, Wait
<1>9. Deleting' = Deleting \union {r} /\ r \notin Deleting
  BY <1>1, <1>6, <1>8 DEF Deleting
<1>10. OneAtATime'
  BY <1>1, <1>6 DEF Paged, OneAtATime
<1>11. Busy'
  BY <1>1, <1>2, <1>6, <1>8 DEF Paged, Busy
<1>12. Opened'
  <2>1. boards # NotLoaded /\ boards' # NotLoaded
    BY <1>3, <1>5, ListingIsLoaded
  <2>2. \A q \in Requests : pending'[q].kind # "load"
    BY <1>1, <1>6, <2>1 DEF Paged, Opened
  <2> QED BY <1>2, <1>5, <1>6, <2>1, <2>2 DEF Paged, Opened, Listing
<1>13. ASSUME NEW q \in Deleting PROVE b \in crossed' /\ pending[q].id \in crossed'
  BY <1>2
<1>14. crossed \subseteq crossed'
  BY <1>2
<1>15. Rollbacks'
  <2> SUFFICES ASSUME NEW q \in Deleting' PROVE Rollback(q)'
    BY DEF Rollbacks
  <2>1. CASE q = r
    <3>1. pending'[q].id = b /\ On(pending'[q].prev) = On(boards)
      BY <1>1, <1>6, <2>1
    <3>2. told \intersect On(boards) \subseteq crossed
      BY DEF Paged, Told
    <3>3. \A p \in Deleting' : p # q => b \in crossed'
      BY <1>9, <1>13, <2>1
    <3> QED BY <1>2, <1>5, <1>14, <3>1, <3>2, <3>3 DEF Rollback
  <2>2. CASE q # r
    <3>1. q \in Deleting /\ pending'[q] = pending[q]
      BY <1>6, <1>9, <2>2 DEF Deleting
    <3>2. Rollback(q)
      BY <3>1 DEF Paged, Rollbacks
    <3>3. b \in crossed' /\ pending[q].id \in crossed'
      BY <1>13, <3>1
    <3> QED BY <1>2, <1>5, <1>14, <3>1, <3>2, <3>3 DEF Rollback
  <2> QED BY <2>1, <2>2
<1>16. Told'
  BY <1>2, <1>5, <1>14 DEF Paged, Told
<1> QED BY <1>7, <1>10, <1>11, <1>12, <1>15, <1>16 DEF Paged

\* The answer to ListDoc without an error is the list the registry returned.
LEMMA ListAnswered ==
  ASSUME Requested, NEW r \in Requests, doc[r] = ListDoc, DOMAIN done[r] = Work(doc[r]),
         ~Failed(doc[r], done[r])
  PROVE  LET list == Result(doc[r], done[r], 1).v IN
         Listing(Showing([i \in DOMAIN list |-> list[i].v.id]))
<1> DEFINE call == Call("boards", <<>>)
           outcome == done[r][<<1, 1>>]
           infos == outcome.infos
           list == Result(doc[r], done[r], 1).v
           ids == [i \in DOMAIN list |-> list[i].v.id]
<1>1. DOMAIN doc[r].calls = {1} /\ doc[r].calls[1] = call /\ call.f = "boards"
  BY DEF ListDoc, Query, Call
<1> HIDE DEF call
<1>2. WorkOf(call) = {1}
  BY <1>1 DEF WorkOf
<1>3. <<1, 1>> \in DOMAIN done[r]
  <2>1. <<1, 1>> \in {1} \X WorkOf(doc[r].calls[1])
    BY <1>1, <1>2
  <2> QED BY <1>1, <2>1 DEF Work
<1>4. Outcomes(r, <<1, 1>>)
  BY <1>3 DEF Requested, Returns
<1>5. IdsOf(infos) \in Seq(Ids) /\ Distinct(IdsOf(infos)) /\ ToSet(IdsOf(infos)) \subseteq known
  BY <1>1, <1>4 DEF Outcomes
<1> DEFINE result == Result(doc[r], done[r], 1)
           items == [i \in DOMAIN infos |-> Object("Board", infos[i])]
<1>6. result = IF outcome.ok THEN List(items) ELSE Error
  <2> DEFINE outcomes == [i \in {1} |-> done[r][<<1, i>>]]
  <2>1. result = Returned(call, outcomes)
    BY <1>1, <1>2 DEF Result
  <2>2. outcomes[1] = outcome
    OBVIOUS
  <2> HIDE DEF outcomes, outcome, infos, result
  <2>3. Returned(call, outcomes) =
          IF outcomes[1].ok
          THEN List([i \in DOMAIN outcomes[1].infos |-> Object("Board", outcomes[1].infos[i])])
          ELSE Error
    BY <1>1 DEF Returned
  <2> QED BY <2>1, <2>2, <2>3 DEF infos
<1>7. result.k # "error"
  BY <1>1 DEF Failed
<1> HIDE DEF outcome, infos, list, items
<1>8. list = items
  <2> HIDE DEF result
  <2>1. Error.k = "error" /\ List(items).v = items
    BY DEF Error, List, Raw
  <2>2. result = List(items)
    BY <1>6, <1>7, <2>1
  <2>3. list = result.v
    BY DEF list, result
  <2> QED BY <2>1, <2>2, <2>3
<1>9. DOMAIN list = DOMAIN infos /\ \A i \in DOMAIN infos : list[i].v.id = infos[i].id
  BY <1>8 DEF items, Object, Raw
<1>10. ids = IdsOf(infos)
  BY <1>9 DEF IdsOf
<1> HIDE DEF ids
<1>11. Listing(Showing(ids))
  BY <1>5, <1>10 DEF Listing, Showing, On
<1> QED BY <1>11 DEF ids, list

\* The first list comes.
LEMMA PagedLoads ==
  ASSUME Paged, NEW r \in Requests, pending[r].kind = "load", NEW ids,
         Listing(Showing(ids)), boards' = Showing(ids), UNCHANGED <<page, busy, told, crossed>>,
         pending' = [pending EXCEPT ![r] = Nothing],
         known' = known, \A q \in Requests : q # r => doc'[q] = doc[q]
  PROVE  Paged'
<1>1. /\ \A q \in Requests : q # r => pending'[q] = pending[q]
      /\ pending'[r].kind = "nothing"
      /\ Deleting' = Deleting \ {r}
      /\ Waiting' /\ OneAtATime'
  BY EndsWaiting
<1>2. boards = NotLoaded /\ told = {} /\ crossed = {} /\ Deleting' = {}
  BY <1>1 DEF Paged, Opened
<1>3. page
  <2>1. Waits(r)
    BY DEF Paged, Waiting
  <2> QED BY <2>1, WaitsIs
<1>4. \A q \in Requests : pending'[q].kind # "load"
  BY <1>1 DEF Paged, OneAtATime
<1>5. Busy'
  BY <1>1 DEF Paged, Busy
<1>6. Opened'
  BY <1>2, <1>3, <1>4 DEF Opened, Listing
<1>7. Rollbacks' /\ Told'
  BY <1>2 DEF Rollbacks, Told
<1> QED BY <1>1, <1>5, <1>6, <1>7 DEF Paged

\* A deletion is confirmed; what other deletions may restore is crossed.
LEMMA PagedDeleted ==
  ASSUME Paged, NEW r \in Deleting, told' = told \union {pending[r].id},
         UNCHANGED <<page, boards, busy, crossed>>,
         pending' = [pending EXCEPT ![r] = Nothing],
         known' = known, \A q \in Requests : q # r => doc'[q] = doc[q]
  PROVE  Paged'
<1>0. r \in Requests /\ pending[r].kind = "delete" /\ Rollback(r)
  BY DEF Deleting, Paged, Rollbacks
<1>1. /\ \A q \in Requests : q # r => pending'[q] = pending[q]
      /\ pending'[r].kind = "nothing"
      /\ Deleting' = Deleting \ {r}
      /\ Waiting' /\ OneAtATime'
  BY <1>0, EndsWaiting
<1>2. boards # NotLoaded
  BY DEF Paged, Opened
<1>3. Busy'
  BY <1>0, <1>1 DEF Paged, Busy
<1>4. Opened'
  BY <1>1, <1>2 DEF Paged, Opened, Listing
<1>5. Rollbacks'
  <2> SUFFICES ASSUME NEW q \in Deleting, q # r PROVE Rollback(q)'
    BY <1>1 DEF Rollbacks
  <2>1. Rollback(q) /\ pending'[q] = pending[q]
    BY <1>1 DEF Paged, Rollbacks, Deleting
  <2>2. pending[r].id \in crossed
    BY <1>0 DEF Rollback
  <2> QED BY <1>1, <2>1, <2>2 DEF Rollback
<1>6. Told'
  BY <1>0 DEF Paged, Told, Rollback
<1> QED BY <1>1, <1>3, <1>4, <1>5, <1>6 DEF Paged

LEMMA PagedSucceeds ==
  ASSUME Requested, Paged, NEW r \in Requests, Answers(r), pending[r] # Nothing,
         ~Failed(doc[r], done[r]), Succeeds(r)
  PROVE  Paged'
<1>1. Waits(r)
  BY DEF Paged, Waiting
<1>2. \A q \in Requests : q # r => doc'[q] = doc[q]
  BY DEF Answers, Requested, Slots
<1>3. known' = known
  BY DEF Answers, regVars
<1>4. CASE pending[r].kind = "create"
  BY <1>4, PagedLeaves DEF Succeeds
<1>5. CASE pending[r].kind = "load"
  <2> DEFINE list == Result(doc[r], done[r], 1).v
             ids == [i \in DOMAIN list |-> list[i].v.id]
  <2>1. doc[r] = ListDoc
    BY <1>1, <1>5, WaitsIs
  <2>2. Listing(Showing(ids))
    BY <2>1, ListAnswered DEF Answers
  <2>3. /\ boards' = Showing(ids) /\ UNCHANGED <<page, busy, told, crossed>>
        /\ pending' = [pending EXCEPT ![r] = Nothing]
    BY <1>5 DEF Succeeds
  <2> HIDE DEF ids
  <2> QED BY <1>2, <1>3, <1>5, <2>2, <2>3, PagedLoads
<1>6. CASE pending[r].kind = "delete"
  <2>1. /\ told' = told \union {pending[r].id} /\ UNCHANGED <<page, boards, busy, crossed>>
        /\ pending' = [pending EXCEPT ![r] = Nothing]
    BY <1>6 DEF Succeeds
  <2>2. r \in Deleting
    BY <1>6 DEF Deleting
  <2> QED BY <1>2, <1>3, <2>1, <2>2, PagedDeleted
<1> QED BY <1>1, <1>4, <1>5, <1>6, WaitsIs

-----------------------------------------------------------------------------
(* The whole. *)

LEMMA LobbyStarts == LobbyInit => Requested /\ Paged
<1> SUFFICES ASSUME LobbyInit PROVE Requested /\ Paged
  OBVIOUS
<1>1. Sound /\ Tidy
  <2>1. Sound
    BY SoundInit DEF LobbyInit, GraphQLInit
  <2> QED BY <2>1 DEF LobbyInit, GraphQLInit, RegistryInit, Tidy
<1>2. /\ \A r \in Requests : doc[r] = Idle /\ done[r] = <<>> /\ steady[r] = {}
      /\ half = {} /\ Slots
  BY MaxRequestsNat DEF LobbyInit, GraphQLInit, Slots
<1>3. DOMAIN Idle.calls = {} /\ DOMAIN <<>> = {}
  BY DEF Idle, Query
<1>4. Asking /\ Deletes /\ Creates /\ Halves /\ Returns /\ Steady
  BY <1>2, <1>3 DEF Asking, Callable, Deletes, Creates, Creating, Halves, Returns, Steady
<1>5. \A r \in Requests : pending[r] = Nothing /\ pending[r].kind = "nothing"
  BY DEF LobbyInit, Nothing, Wait
<1>6. Deleting = {}
  BY <1>5 DEF Deleting
<1>7. Waiting /\ OneAtATime /\ Busy
  BY <1>5 DEF LobbyInit, Waiting, Waits, OneAtATime, Busy
<1>8. Opened
  <2>1. page => Listing(boards)
    BY <1>1 DEF LobbyInit, Sound, Shape, Boards, Listing, Showing, On
  <2> QED BY <1>5, <1>6, <2>1 DEF LobbyInit, Opened
<1>9. Rollbacks /\ Told
  BY <1>6 DEF Rollbacks, Told, LobbyInit
<1> QED BY <1>1, <1>2, <1>4, <1>7, <1>8, <1>9 DEF Requested, Paged

\* The requests of other clients are such as may be made.
LEMMA KeepsOther ==
  ASSUME Requested, NEW r \in Requests, Other(r), Watch
  PROVE  Requested'
<1>1. known \subseteq Ids /\ Boards \subseteq Ids
  BY DEF Requested, Sound, Shape
<1>2. ASSUME NEW d, Start(r, d), MayAsk(d) PROVE Requested'
  BY <1>2, KeepsStart
<1> QED
  BY <1>1, <1>2, FixedMayAsk, EntitiesMayAsk, CreateMayAsk, DeleteMayAsk, SeveralMayAsk DEF Other

LEMMA KeepsPage ==
  ASSUME Requested, Paged, NEW r \in Requests, Watch,
         Mount(r) \/ Create(r) \/ \E b \in Ids : Del(r, b)
  PROVE  Requested'
<1>1. CASE Mount(r)
  BY <1>1, FixedMayAsk, KeepsStart DEF Mount, Fetch
<1>2. CASE Create(r)
  <2>1. PICK b \in Fresh : Start(r, CreateDoc(b))
    BY <1>2 DEF Create, Fetch
  <2> QED BY <2>1, CreateMayAsk, KeepsStart
<1>3. ASSUME NEW b \in Ids, Del(r, b) PROVE Requested'
  <2>1. Start(r, DeleteDoc(b)) /\ boards.loaded /\ b \in ToSet(boards.ids)
    BY <1>3 DEF Del, Fetch
  <2>2. b \in known /\ known \subseteq Ids
    BY <2>1 DEF Paged, Opened, NotLoaded, Listing, On, Requested, Sound, Shape
  <2> QED BY <2>1, <2>2, DeleteMayAsk, KeepsStart
<1> QED BY <1>1, <1>2, <1>3

LEMMA KeepsArrival ==
  ASSUME Requested, Paged, NEW r \in Requests, Arrives(r) \/ Lost(r), Watch
  PROVE  Requested'
BY KeepsAnswer, KeepsStill DEF Arrives, Lost

\* No step does anything to the requests but what keeps them in order.
LEMMA RequestedNext ==
  ASSUME Requested, Paged, [Next]_vars
  PROVE  Requested'
<1>1. CASE UNCHANGED vars
  <2>1. UNCHANGED <<backend, listed, known, rows, gone, late, queue, started, doc, done, half, steady>>
    BY <1>1 DEF vars, regVars, gqlVars
  <2>2. Sound'
    BY <1>1, SoundNext DEF vars, Requested
  <2>3. Slots' /\ Asking' /\ Deletes' /\ Tidy'
    BY <2>1 DEF Requested, Slots, Asking, Deletes, Tidy
  <2>4. Creates'
    BY <2>1 DEF Requested, Creates, Creating
  <2>5. Halves'
    <3>1. \A r \in half : \E t \in Todo(r, "deleteBoard")' : ArgId(r, t)' \notin Boards'
      BY <1>1, <2>1, HalfStays DEF vars
    <3> QED BY <2>1, <3>1 DEF Requested, Halves
  <2>6. Returns'
    BY <2>1 DEF Requested, Returns, Outcomes
  <2>7. Steady'
    BY <2>1 DEF Requested, Steady, Boards
  <2> QED BY <2>2, <2>3, <2>4, <2>5, <2>6, <2>7 DEF Requested
<1>2. CASE Step /\ Watch
  <2>1. ASSUME NEW r \in Requests,
               \/ Mount(r) \/ Create(r) \/ (\E b \in Ids : Del(r, b)) \/ Other(r)
               \/ Working(r) \/ Arrives(r) \/ Lost(r)
        PROVE  Requested'
    BY <1>2, <2>1, KeepsPage, KeepsOther, KeepsWork, KeepsArrival
  <2>2. ASSUME UNCHANGED <<regVars, started, doc, done, half>> PROVE Requested'
    BY <1>2, <2>2, KeepsStill
  <2> QED BY <1>2, <2>1, <2>2, KeepsDrawing DEF Step
<1> QED BY <1>1, <1>2 DEF Next

\* Nor to the page but what keeps its list true to its deletions.
LEMMA PagedNext ==
  ASSUME Requested, Paged, [Next]_vars
  PROVE  Paged'
<1>1. known \subseteq known'
  BY StepInOrder, RegistryGrows DEF Requested
<1>2. Slots
  BY DEF Requested
<1>3. CASE UNCHANGED vars
  BY <1>1, <1>3, PagedStays DEF vars, gqlVars
<1>4. ASSUME NEW r \in Requests, Other(r) PROVE Paged'
  <2>1. UNCHANGED lobbyVars /\ doc[r] = Idle /\ \A q \in Requests : q # r => doc'[q] = doc[q]
    BY <1>2, <1>4 DEF Other, Start, Slots
  <2>2. pending[r] = Nothing
    BY <2>1, WaitsIs DEF Paged, Waiting
  <2> QED BY <1>1, <2>1, <2>2, PagedStays
<1>5. ASSUME NEW r \in Requests, Arrives(r) PROVE Paged'
  <2>1. \A q \in Requests : q # r => doc'[q] = doc[q]
    BY <1>2, <1>5 DEF Arrives, Answers, Slots
  <2>2. CASE pending[r] = Nothing
    <3>1. UNCHANGED lobbyVars
      BY <1>5, <2>2 DEF Arrives
    <3> QED BY <1>1, <2>1, <2>2, <3>1, PagedStays
  <2>3. CASE pending[r] # Nothing /\ Failed(doc[r], done[r])
    <3>1. Fails(r)
      BY <1>5, <2>3 DEF Arrives
    <3> QED BY <1>1, <2>1, <2>3, <3>1, PagedFails
  <2>4. CASE pending[r] # Nothing /\ ~Failed(doc[r], done[r])
    <3>1. Answers(r) /\ Succeeds(r)
      BY <1>5, <2>4 DEF Arrives
    <3> QED BY <2>4, <3>1, PagedSucceeds
  <2> QED BY <2>2, <2>3, <2>4
<1>6. ASSUME NEW r \in Requests, Lost(r) PROVE Paged'
  BY <1>1, <1>6, PagedFails DEF Lost
<1>7. ASSUME NEW r \in Requests, Working(r), UNCHANGED lobbyVars PROVE Paged'
  BY <1>1, <1>7, PagedStays DEF Working
<1>8. ASSUME Drawing, UNCHANGED lobbyVars PROVE Paged'
  BY <1>1, <1>8, PagedStays DEF Drawing
<1>9. CASE Step
  BY <1>2, <1>4, <1>5, <1>6, <1>7, <1>8, <1>9, PagedMount, PagedCreate, PagedDel, PagedLeaves
     DEF Step
<1> QED BY <1>3, <1>9 DEF Next

Inv == Requested /\ Paged

LEMMA InvNext == Inv /\ [Next]_vars => Inv'
  BY RequestedNext, PagedNext DEF Inv

(***************************************************************************)
(* Whatever the page, other clients, the resolvers and the writer do: a    *)
(* request asks for what may be asked and gets answers for its arguments,  *)
(* and the page's list differs from what it remembers only by the board it *)
(* is deleting and by those whose deletions cross.                         *)
(***************************************************************************)
THEOREM AlwaysInv == Spec => []Inv
<1>1. LobbyInit => Inv
  BY LobbyStarts DEF Inv
<1> QED BY <1>1, InvNext, PTL DEF Spec

-----------------------------------------------------------------------------
(* What follows. *)

\* A list without repetitions is as long as the set of what is on it.
LEMMA DistinctCount ==
  ASSUME NEW S, NEW s \in Seq(S), Distinct(s)
  PROVE  Len(s) = Cardinality(ToSet(s))
<1>1. /\ DOMAIN s = 1 .. Len(s) /\ Len(s) \in Nat
  OBVIOUS
<1>2. s \in Bijection(1 .. Len(s), ToSet(s))
  <2>1. s \in [1 .. Len(s) -> ToSet(s)]
    BY <1>1 DEF ToSet
  <2>2. \A x \in ToSet(s) : \E i \in 1 .. Len(s) : s[i] = x
    BY <1>1 DEF ToSet
  <2>3. \A i, j \in 1 .. Len(s) : s[i] = s[j] => i = j
    BY <1>1 DEF Distinct
  <2> QED BY <2>1, <2>2, <2>3 DEF Bijection, Injection, IsInjective, Surjection
<1>3. ExistsBijection(1 .. Len(s), ToSet(s))
  BY <1>2 DEF ExistsBijection
<1> QED BY <1>1, <1>3, FS_CountingElements

LEMMA InvTypeOK == Inv => TypeOK
<1> SUFFICES ASSUME Inv PROVE TypeOK
  OBVIOUS
<1> USE DEF Inv
<1>1. /\ backend \in {"memory", "postgres"}
      /\ known \subseteq Ids /\ Boards \subseteq known
      /\ rows \union queue \subseteq known \X Objects
  BY DEF Requested, Sound, Shape
<1>2. Len(listed) = Cardinality(Boards)
  BY DistinctCount DEF Requested, Sound, Shape, Boards
<1>3. /\ gone \subseteq known /\ late \subseteq rows
      /\ backend = "memory" => queue = {} /\ half = {}
      /\ started \in 0 .. MaxRequests
  BY DEF Requested, Tidy, Halves, Slots
<1>4. ASSUME NEW r \in Requests
      PROVE  /\ DOMAIN done[r] \subseteq Work(doc[r])
             /\ r \in half => Todo(r, "deleteBoard") # {}
             /\ pending[r] # Nothing => page /\ doc[r] # Idle
  <2>1. Waits(r)
    BY DEF Paged, Waiting
  <2> QED BY <2>1, WaitsIs DEF Requested, Returns, Halves
<1>5. Len(boards.ids) = Cardinality(ToSet(boards.ids))
  <2>1. CASE Listing(boards)
    BY <2>1, DistinctCount DEF Listing
  <2>2. CASE boards = NotLoaded
    <3>1. boards.ids = <<>>
      BY <2>2 DEF NotLoaded
    <3>2. <<>> \in Seq(Ids) /\ Distinct(<<>>)
      BY DEF Distinct
    <3> QED BY <3>1, <3>2, DistinctCount
  <2> QED BY <2>1, <2>2 DEF Paged, Opened
<1>6. busy <=> \E r \in Requests : pending[r].kind = "create"
  BY DEF Paged, Busy
<1> QED BY <1>1, <1>2, <1>3, <1>4, <1>5, <1>6 DEF TypeOK

(***************************************************************************)
(* The state keeps its shape: no list has a board twice, a board in the    *)
(* middle of a deletion has a request deleting it, the page waits only for *)
(* requests that run, and for a creation exactly while it says it is busy. *)
(***************************************************************************)
THEOREM LobbyType == Spec => []TypeOK
  BY AlwaysInv, InvTypeOK, PTL

(***************************************************************************)
(* All the clients together ask the registry for nothing but what it       *)
(* allows (boards.go:144-150, schema.resolvers.go): the request layer      *)
(* implements the registry's own specification.                            *)
(***************************************************************************)
THEOREM RequestsAreInOrder == Spec => RegistrySpec /\ StatementsInOrder
<1>1. Inv /\ [Next]_vars => [RegistryNext]_regVars
  BY StepInOrder DEF Inv
<1>2. LobbyInit => RegistryInit
  BY DEF LobbyInit, GraphQLInit
<1> QED BY <1>1, <1>2, AlwaysInv, PTL DEF Spec, RegistrySpec, StatementsInOrder

(***************************************************************************)
(* So deletions are complete and look like one step to every client of the *)
(* running control plane, with requests, resolvers and lost answers        *)
(* interleaving as they may.                                               *)
(***************************************************************************)
THEOREM LobbyImplementsDirectory == Spec => ImplementsDirectory /\ []DeleteTakesTheDrawing
  BY RequestsAreInOrder, RegistryImplementsDirectory, DeletionIsComplete, PTL

-----------------------------------------------------------------------------
\* A request leaves its slot by being answered, with all that was to be resolved.
LEMMA AnsweredIsDone ==
  ASSUME Inv, [Next]_vars, NEW r \in Requests, Answering(r)
  PROVE  DOMAIN done[r] = Work(doc[r]) /\ doc[r] # Idle
<1>1. doc[r] # Idle /\ doc'[r] # doc[r]
  BY DEF Answering
<1>2. DOMAIN doc = Requests
  BY DEF Inv, Requested, Slots
<1>3. ~UNCHANGED doc
  BY <1>1
<1>4. ASSUME NEW q \in Requests, NEW d, Start(q, d) PROVE FALSE
  BY <1>1, <1>2, <1>4 DEF Start
<1>5. ASSUME NEW q \in Requests, Answers(q) PROVE q = r
  BY <1>1, <1>2, <1>5 DEF Answers
<1>6. \E q \in Requests : Answers(q)
  <2>1. Step
    BY <1>3 DEF Next, vars, gqlVars
  <2>2. \A q \in Requests : ~Mount(q) /\ ~Create(q) /\ (\A b \in Ids : ~Del(q, b)) /\ ~Other(q)
    BY <1>4 DEF Mount, Create, Del, Other, Fetch
  <2> QED BY <1>3, <2>1, <2>2 DEF Step, Working, Drawing, Lost, Arrives
<1> QED BY <1>1, <1>5, <1>6 DEF Answers

\* What _entities returned for one representation.
LEMMA SlotOf ==
  ASSUME Inv, NEW r \in Requests, doc[r] # Idle, doc[r].calls[1].f = "_entities",
         ~Spoilt(doc[r].calls[1]), DOMAIN done[r] = Work(doc[r]),
         NEW i \in DOMAIN doc[r].calls[1].arg
  PROVE  LET call == doc[r].calls[1]
             slot == Result(doc[r], done[r], 1).v[i]
         IN  /\ slot.k = "object" => call.arg[i].type = "Board" /\ slot.v.id = call.arg[i].id
             /\ call.arg[i].id \in steady[r] /\ done[r][<<1, i>>].ok => slot.k = "object"
<1> DEFINE call == doc[r].calls[1]
           rep == call.arg[i]
           infos == done[r][<<1, i>>].infos
           outcomes == [j \in WorkOf(call) |-> done[r][<<1, j>>]]
           slots == Result(doc[r], done[r], 1).v
           found == i \in Grouped(call) /\ rep.type = "Board" /\ rep.id # NoId
<1>1. Callable(doc[r]) /\ 1 \in DOMAIN doc[r].calls
  BY DEF Inv, Requested, Asking, Callable
<1>2. rep.id = NoId \/ (rep.type = "Board" /\ rep.id \in Ids)
  BY <1>1 DEF Callable
<1>3. WorkOf(call) = Grouped(call)
  BY DEF WorkOf
<1>4. slots[i] = IF found THEN BoardOrNil(outcomes[i].infos) ELSE Error
  <2>1. Result(doc[r], done[r], 1) = EntityList(call, outcomes)
    BY DEF Result, Returned
  <2> HIDE DEF outcomes, call
  <2>2. EntityList(call, outcomes).v = [j \in DOMAIN call.arg |->
          IF j \in Grouped(call) /\ call.arg[j].type = "Board" /\ call.arg[j].id # NoId
          THEN BoardOrNil(outcomes[j].infos) ELSE Error]
    BY DEF EntityList, List, Raw
  <2>3. i \in DOMAIN call.arg
    BY DEF call
  <2> QED BY <2>1, <2>2, <2>3
<1>5. found => outcomes[i].infos = infos
  BY <1>3
<1>6. found => <<1, i>> \in DOMAIN done[r]
  <2> SUFFICES ASSUME found PROVE <<1, i>> \in Work(doc[r])
    OBVIOUS
  <2>1. <<1, i>> \in {1} \X WorkOf(doc[r].calls[1])
    BY <1>3
  <2> QED BY <1>1, <2>1 DEF Work
<1>7. found => Outcomes(r, <<1, i>>)
  BY <1>6 DEF Inv, Requested, Returns
<1>8. found => /\ infos # <<>> => infos[1].id = rep.id
               /\ done[r][<<1, i>>].ok /\ rep.id \in steady[r] => infos # <<>>
  BY <1>7 DEF Outcomes
<1>9. rep.id \in steady[r] => found
  <2> SUFFICES ASSUME rep.id \in steady[r] PROVE found
    OBVIOUS
  <2>1. rep.id \in Ids
    BY DEF Inv, Requested, Steady, Sound, Shape
  <2>2. rep.type = "Board" /\ rep.id # NoId
    BY <1>2, <2>1, NoIdIsNone
  <2> QED BY <2>2 DEF Grouped
<1>10. Nil.k = "null" /\ Error.k = "error"
  BY DEF Nil, Error, Raw
<1>11. infos # <<>> => BoardOrNil(infos).k = "object" /\ BoardOrNil(infos).v = infos[1]
  BY DEF BoardOrNil, Object, Raw
<1>12. infos = <<>> => BoardOrNil(infos) = Nil
  BY DEF BoardOrNil
<1>13. found => slots[i] = BoardOrNil(infos)
  BY <1>4, <1>5
<1>14. ~found => slots[i] = Error
  BY <1>4
<1>15. found => rep.type = "Board"
  OBVIOUS
<1> HIDE DEF found, infos, rep, slots
<1>16. slots[i].k = "object" => rep.type = "Board" /\ slots[i].v.id = rep.id
  BY <1>8, <1>10, <1>11, <1>12, <1>13, <1>14, <1>15
<1>17. rep.id \in steady[r] /\ done[r][<<1, i>>].ok => slots[i].k = "object"
  BY <1>8, <1>9, <1>11, <1>13
<1> QED BY <1>16, <1>17 DEF rep, slots

(***************************************************************************)
(* A federation router gets every board in the slot of its own             *)
(* representation, and every board that was there all the while            *)
(* (federation.go:39-133), whatever the goroutines' order and whatever     *)
(* fails beside it.                                                        *)
(***************************************************************************)
THEOREM EntitiesComeBySlot == Spec => EntitiesBySlot
<1> DEFINE BySlot ==
      \A r \in Requests :
        LET call == doc[r].calls[1]
            slots == Result(doc[r], done[r], 1).v
        IN  Answering(r) /\ call.f = "_entities" /\ ~Spoilt(call) =>
              \A i \in DOMAIN call.arg :
                /\ slots[i].k = "object" =>
                     call.arg[i].type = "Board" /\ slots[i].v.id = call.arg[i].id
                /\ call.arg[i].id \in steady[r] /\ done[r][<<1, i>>].ok => slots[i].k = "object"
<1>1. Inv /\ [Next]_vars => [BySlot]_<<regVars, gqlVars>>
  BY AnsweredIsDone, SlotOf
<1>2. EntitiesBySlot <=> [][BySlot]_<<regVars, gqlVars>>
  BY DEF EntitiesBySlot
<1> HIDE DEF BySlot
<1> QED BY <1>1, <1>2, AlwaysInv, PTL DEF Spec

-----------------------------------------------------------------------------
(* One step of the page, as DeletionsShowTruly judges it. *)

Truly == StaysAway /\ GoesForADeletion /\ ComesBack

LEMMA TrulyGone ==
  ASSUME ~page'
  PROVE  Truly
BY DEF Truly, StaysAway, GoesForADeletion, ComesBack

\* The list stays, and no deletion ends but by succeeding.
LEMMA TrulyQuiet ==
  ASSUME Paged', UNCHANGED <<boards, crossed>>,
         \A r \in Deleting : pending'[r] = Nothing => pending[r].id \in told'
  PROVE  Truly
<1>1. told' \intersect ToSet(boards'.ids) \subseteq crossed
  BY DEF Paged, Told, On
<1> QED BY <1>1 DEF Truly, StaysAway, GoesForADeletion, ComesBack

LEMMA DeletingWaits ==
  ASSUME NEW r \in Deleting
  PROVE  r \in Requests /\ pending[r].kind = "delete" /\ pending[r] # Nothing
BY DEF Deleting, Nothing, Wait

LEMMA TrulyDel ==
  ASSUME Paged, Slots, NEW r \in Requests, NEW b \in Ids, Del(r, b)
  PROVE  Truly
<1> DEFINE w == Wait("delete", b, boards)
<1>1. /\ Fetch(r, DeleteDoc(b), w) /\ boards' = Showing(Without(boards.ids, b))
      /\ boards.loaded /\ UNCHANGED told
  BY DEF Del
<1> HIDE DEF w
<1>2. Listing(boards)
  BY <1>1 DEF Paged, Opened, NotLoaded
<1>3. ToSet(boards'.ids) = ToSet(boards.ids) \ {b}
  BY <1>1, <1>2, WithoutElement DEF Listing, Showing
<1>4. /\ pending[r] = Nothing /\ pending'[r] = w
      /\ \A q \in Requests : q # r => pending'[q] = pending[q]
  BY <1>1, BeginsWaiting
<1>5. StaysAway
  BY <1>3 DEF StaysAway, Paged, Told, On
<1>6. GoesForADeletion
  BY <1>3, <1>4 DEF GoesForADeletion, w
<1>7. ComesBack
  BY <1>4, DeletingWaits DEF ComesBack
<1> QED BY <1>5, <1>6, <1>7 DEF Truly

LEMMA TrulyFails ==
  ASSUME Paged, Paged', NEW r \in Requests, pending[r] # Nothing, Fails(r)
  PROVE  Truly
<1>1. /\ \A q \in Requests : q # r => pending'[q] = pending[q]
      /\ UNCHANGED <<page, told, crossed>>
      /\ boards' = IF pending[r].kind = "delete" THEN pending[r].prev ELSE boards
  BY DEF Fails, Paged, Waiting
<1>2. CASE pending[r].kind # "delete"
  BY <1>1, <1>2, TrulyQuiet, DeletingWaits
<1>3. CASE pending[r].kind = "delete"
  <2>1. Rollback(r) /\ boards' = pending[r].prev
    BY <1>1, <1>3 DEF Paged, Rollbacks, Deleting
  <2>2. StaysAway
    BY <1>1, <2>1 DEF StaysAway, Rollback, On
  <2>3. GoesForADeletion
    BY <2>1 DEF GoesForADeletion, Rollback, On
  <2>4. ComesBack
    BY <1>1, <2>1, DeletingWaits DEF ComesBack, Rollback, On
  <2> QED BY <2>2, <2>3, <2>4 DEF Truly
<1> QED BY <1>2, <1>3

LEMMA TrulySucceeds ==
  ASSUME Paged, Paged', NEW r \in Requests, pending[r] # Nothing, Succeeds(r)
  PROVE  Truly
<1>1. CASE pending[r].kind = "create"
  <2>1. ~page'
    BY <1>1 DEF Succeeds, Leave
  <2> QED BY <2>1, TrulyGone
<1>2. CASE pending[r].kind # "create"
  <2>1. /\ pending' = [pending EXCEPT ![r] = Nothing] /\ UNCHANGED crossed
        /\ pending[r].kind # "load" => boards' = boards
        /\ told' = IF pending[r].kind = "delete" THEN told \union {pending[r].id} ELSE told
    BY <1>2 DEF Succeeds
  <2>2. \A q \in Requests : q # r => pending'[q] = pending[q]
    BY <2>1 DEF Paged, Waiting
  <2>3. CASE pending[r].kind = "load"
    <3>1. boards.ids = <<>> /\ told = {} /\ Deleting = {}
      BY <2>3 DEF Paged, Opened, NotLoaded
    <3>2. ToSet(boards.ids) = {}
      BY <3>1 DEF ToSet
    <3> QED BY <3>1, <3>2 DEF Truly, StaysAway, GoesForADeletion, ComesBack
  <2>4. CASE pending[r].kind # "load"
    <3>1. \A q \in Deleting : pending'[q] = Nothing => pending[q].id \in told'
      BY <2>1, <2>2, DeletingWaits
    <3> QED BY <2>1, <2>4, <3>1, TrulyQuiet
  <2> QED BY <2>3, <2>4
<1> QED BY <1>1, <1>2

LEMMA TrulyNext ==
  ASSUME Inv, [Next]_vars
  PROVE  Truly
<1>1. Paged /\ Slots /\ Paged'
  BY PagedNext DEF Inv, Requested
<1>2. ASSUME UNCHANGED lobbyVars PROVE Truly
  BY <1>1, <1>2, TrulyQuiet, DeletingWaits DEF lobbyVars
<1>3. ASSUME NEW r \in Requests, Mount(r) \/ Create(r) PROVE Truly
  <2>1. PICK d, w : Fetch(r, d, w)
    BY <1>3 DEF Mount, Create
  <2>2. UNCHANGED <<boards, crossed>>
    BY <1>3 DEF Mount, Create
  <2>3. pending[r] = Nothing /\ \A q \in Requests : q # r => pending'[q] = pending[q]
    BY <1>1, <2>1, BeginsWaiting
  <2>4. \A q \in Deleting : pending'[q] # Nothing
    BY <2>3, DeletingWaits
  <2> QED BY <1>1, <2>2, <2>4, TrulyQuiet
<1>4. ASSUME NEW r \in Requests, Arrives(r) PROVE Truly
  BY <1>1, <1>2, <1>4, TrulyFails, TrulySucceeds DEF Arrives
<1>5. ASSUME NEW r \in Requests, Lost(r) PROVE Truly
  BY <1>1, <1>5, TrulyFails DEF Lost
<1>6. ASSUME Leave PROVE Truly
  <2>1. ~page'
    BY <1>6 DEF Leave
  <2> QED BY <2>1, TrulyGone
<1>7. ASSUME NEW r \in Requests, Other(r) PROVE Truly
  BY <1>2, <1>7 DEF Other
<1>8. CASE Step
  BY <1>1, <1>2, <1>3, <1>4, <1>5, <1>6, <1>7, <1>8, TrulyDel DEF Step
<1>9. CASE UNCHANGED vars
  BY <1>2, <1>9 DEF vars
<1> QED BY <1>8, <1>9 DEF Next

(***************************************************************************)
(* Whatever is deleted while it shows its list optimistically              *)
(* (Lobby.tsx:48-58), the page is true to its own deletions, but for those *)
(* that cross, for any number of boards and of requests at a time.         *)
(***************************************************************************)
THEOREM LobbyShowsTruly == Spec => DeletionsShowTruly
<1>1. Inv /\ [Next]_vars => [Truly]_vars
  BY TrulyNext
<1>2. DeletionsShowTruly <=> [][Truly]_vars
  BY DEF DeletionsShowTruly, Truly
<1> HIDE DEF Truly
<1> QED BY <1>1, <1>2, AlwaysInv, PTL DEF Spec

===============================================================================
