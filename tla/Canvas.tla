-------------------------------- MODULE Canvas --------------------------------
(***************************************************************************)
(* The canvas of one browser (web/src/components/BoardCanvas.tsx): the     *)
(* scene it shows, the gesture in progress, the text being edited, and     *)
(* what it sends, while the ops of other browsers arrive between any two   *)
(* events.                                                                 *)
(*                                                                         *)
(* A gesture keeps references to the objects it started on; applyAdd puts  *)
(* a new object in the scene instead of changing the old one, so an object *)
(* in hand may no longer be the one on the board.  Contents are abstracted *)
(* to a version number per object id: equal versions are the same object.  *)
(***************************************************************************)
EXTENDS Naturals, FiniteSets

CONSTANTS Shapes, Connectors, Texts,   \* object ids, by kind
          NoObject,                    \* null
          Overlaps,                    \* which happen during a gesture: "keys", "pointer", "remote"
          MaxChanges                   \* bound on the versions of an object

Objects == Shapes \union Connectors \union Texts

ASSUME KindsDisjoint == /\ Shapes \intersect (Connectors \union Texts) = {}
                        /\ Connectors \intersect Texts = {}
ASSUME NoObjectIsNone == NoObject \notin Objects
ASSUME MaxChangesNat == MaxChanges \in Nat

VARIABLES
  board,      \* per object id, 0 for none: the versions in the scene, in hand, as sent, the latest
  action,     \* action.current, "none" for null; "create" is draw, shape and connector
  target,     \* move.current.obj, endDrag.current.c or temp.current
  moved,      \* move.current.moved
  erased,     \* ids this erase gesture has hit; emptied when it ends, since the next one replaces it
  selected,   \* selected.current
  editing,    \* the id and isNew of the text editor; NoObject for the id if it is closed
  torn,       \* history: objects that were replaced, removed or let go of while in hand
  unbound     \* history: connectors that a drag without displacement took off their shapes

gesture == <<action, target, moved, erased>>
canvasVars == <<board, action, target, moved, erased, selected, editing, torn, unbound>>

Closed == [id |-> NoObject, isNew |-> FALSE]

Init ==
  /\ board = [k \in {"scene", "hand", "sent", "latest"} |-> [o \in Objects |-> 0]]
  /\ action = "none" /\ target = NoObject /\ moved = FALSE
  /\ erased = {} /\ selected = NoObject
  /\ editing = Closed
  /\ torn = {} /\ unbound = {}

-----------------------------------------------------------------------------
(* What happens to the board.  "sent" is the scene of a peer that has      *)
(* applied all ops of this browser and of the others.                      *)

On(b) == {o \in Objects : b["scene"][o] # 0}
InHand == {o \in Objects : board["hand"][o] # 0}

\* The objects of S, found in the scene, are changed in place.
ChangeShown(b, S) ==
  LET next(f) == [o \in Objects |-> IF o \in S /\ f[o] = b["scene"][o]
                                     THEN b["latest"][o] + 1 ELSE f[o]]
  IN  [b EXCEPT !["scene"] = next(@), !["hand"] = next(@),
                !["latest"] = [o \in Objects |-> IF o \in S THEN @[o] + 1 ELSE @[o]]]

\* The object in hand is changed, and with it the scene if that still holds it.
ChangeHand(b, o) ==
  LET v == b["latest"][o] + 1 IN
  [b EXCEPT !["hand"][o] = v, !["latest"][o] = v,
            !["scene"][o] = IF @ = b["hand"][o] THEN v ELSE @]

\* Another object under that id, as applyAdd puts it here and at the peers.
Replace(b, o) ==
  LET v == b["latest"][o] + 1 IN
  [b EXCEPT !["scene"][o] = v, !["sent"][o] = v, !["latest"][o] = v]

Create(b, o) == [b EXCEPT !["scene"][o] = 1, !["latest"][o] = 1]
Broadcast(b, S, from) ==
  [b EXCEPT !["sent"] = [o \in Objects |-> IF o \in S THEN b[from][o] ELSE @[o]]]
Without(f, S) == [o \in Objects |-> IF o \in S THEN 0 ELSE f[o]]
Erase(b, S) == [b EXCEPT !["scene"] = Without(@, S), !["sent"] = Without(@, S)]

\* The ids newObjectId may still draw.
Unused == {o \in Objects \ {target} : board["latest"][o] = 0}

\* What this browser has begun and not sent: a new stroke, shape or connector, a new text.
Drafts ==
  (IF editing.isNew THEN {editing.id} ELSE {}) \union (IF action = "create" THEN {target} ELSE {})

\* commitEdit: it looks the object up again; an empty text goes, unsent if it was new.
Committed(b, empty) ==
  LET o == editing.id IN
  IF o = NoObject THEN b
  ELSE IF b["scene"][o] = 0 THEN b
  ELSE IF o \in Texts /\ empty
    THEN IF editing.isNew THEN [b EXCEPT !["scene"][o] = 0] ELSE Erase(b, {o})
  ELSE Broadcast(ChangeShown(b, {o}), {o}, "scene")

Commits == {Committed(board, empty) : empty \in BOOLEAN}

\* The end of every action.  History: an object in hand is torn when a new gesture
\* forgets it or the scene no longer holds it; that and being unbound are over once
\* it was let go and is as sent.
Unsettled(S) == {o \in S : board'["hand"][o] # 0 \/ board'["scene"][o] # board'["sent"][o]}
Tear(S, U) ==
  /\ torn' = Unsettled(torn \union S)
  /\ unbound' = Unsettled(unbound \union U)
  /\ \A o \in Objects : board'["latest"][o] <= MaxChanges

Pulled == {o \in InHand : board'["hand"][o] \notin {0, board'["scene"][o]}}
Done == Tear(Pulled, {})

-----------------------------------------------------------------------------
(* The pointer. *)

\* Only a second finger can go down, click or open an editor during a gesture.
Free == action = "none" \/ "pointer" \in Overlaps

\* A new gesture takes hold of S and forgets an old one.
Start(b, kind, o, S) ==
  /\ board' = [b EXCEPT !["hand"] = [p \in Objects |-> IF p \in S THEN b["scene"][p] ELSE 0]]
  /\ action' = kind /\ target' = o /\ moved' = FALSE

\* The text tool, or the select tool with nothing under the pointer.
PointerDownIdle ==
  /\ Free
  /\ board' \in Commits
  /\ editing' = Closed
  /\ selected' \in {selected, NoObject}
  /\ UNCHANGED gesture
  /\ Done

\* A pan, or a new stroke, shape or connector, which stays out of the scene for now.
PointerDownPan(b) == Start(b, "pan", NoObject, {}) /\ UNCHANGED <<selected, erased>>

PointerDownCreate(b) ==
  /\ selected = NoObject
  /\ \E o \in Unused : Start(b, "create", o, {})
  /\ UNCHANGED <<selected, erased>>

\* beginMove: a grabbed shape binds the loose connector ends that sit on it.
PointerDownMove(b) ==
  \E o \in On(b), rebound \in SUBSET (Connectors \intersect On(b)) :
    /\ rebound # {} => o \in Shapes
    /\ Start(ChangeShown(b, rebound), "move", o, {o} \union rebound)
    /\ selected' = o
    /\ UNCHANGED erased

PointerDownEndpoint(b) ==
  /\ selected \in Connectors \intersect On(b)
  /\ Start(b, "endpoint", selected, {selected})
  /\ UNCHANGED <<selected, erased>>

PointerDownErase(b) ==
  /\ selected = NoObject
  /\ \E hits \in SUBSET On(b) : Start(Erase(b, hits), "erase", NoObject, {}) /\ erased' = hits
  /\ UNCHANGED selected

\* An open editor is committed first, as its text is: empty or not.
PointerDown ==
  /\ Free
  /\ \E b \in Commits :
       \/ PointerDownPan(b) \/ PointerDownCreate(b) \/ PointerDownMove(b)
       \/ PointerDownEndpoint(b) \/ PointerDownErase(b)
  /\ editing' = Closed
  /\ Tear(InHand, {})

\* applyMove and the endpoint drag change the object in hand, whatever became of it.
PointerMove ==
  /\ action \in {"move", "endpoint"}
  /\ board' = ChangeHand(board, target)
  /\ moved' = (moved \/ action = "move")
  /\ UNCHANGED <<action, target, erased, selected, editing>>
  /\ Done

\* applyMove with the pointer where the drag began: shapes, texts and strokes stay as
\* they are, a connector loses what its ends were bound to, and no move is noted.
PointerMoveInPlace ==
  /\ action = "move" /\ target \in Connectors
  /\ board' = ChangeHand(board, target)
  /\ UNCHANGED <<action, target, moved, erased, selected, editing>>
  /\ Tear(Pulled, {target})

\* eraseAt, further on: what this gesture has erased it does not erase again.
EraseMore ==
  /\ action = "erase"
  /\ \E hits \in SUBSET (On(board) \ erased) \ {{}} :
       board' = Erase(board, hits) /\ erased' = erased \union hits
  /\ UNCHANGED <<action, target, moved, selected, editing>>
  /\ Done

\* Slip: what was rebound is sent only with a shape that moved.
ReleasedWithMove ==
  CASE action = "move" -> IF moved THEN InHand ELSE {}
    [] action = "endpoint" -> {target}
    [] OTHER -> {}

\* What pointerup sends: the object if it moved, and rebound connectors in any case.
Released ==
  CASE action = "move" -> IF moved THEN InHand ELSE InHand \ {target}
    [] action = "endpoint" -> {target}
    [] OTHER -> {}

\* Slip: what was in hand stays in hand.
PointerUpKeepsHold ==
  /\ action # "none"
  /\ board' = Broadcast(board, Released, "hand")
  /\ action' = "none" /\ target' = NoObject /\ moved' = FALSE
  /\ erased' = {}
  /\ UNCHANGED <<selected, editing>>
  /\ Done

\* pointerup and pointercancel; a new object is committed if it is large enough.
PointerUp ==
  /\ action # "none"
  /\ LET b == Broadcast(board, Released, "hand") IN
     \/ Start(b, "none", NoObject, {})
     \/ /\ action = "create"
        /\ Start(Broadcast(Create(b, target), {target}, "scene"), "none", NoObject, {})
  /\ erased' = {}
  /\ UNCHANGED <<selected, editing>>
  /\ Done

-----------------------------------------------------------------------------
(* Keyboard, toolbar and text editor. *)

Keys == action = "none" \/ "keys" \in Overlaps

DeleteSelected ==
  /\ Keys /\ editing = Closed /\ selected # NoObject
  /\ board' = Erase(board, {selected})
  /\ selected' = NoObject
  /\ UNCHANGED <<gesture, editing>>
  /\ Done

\* reorderSelected changes the z of the object the scene has now, and sends it.
ReorderSelected ==
  /\ Keys /\ editing = Closed /\ selected \in On(board)
  /\ board' = Broadcast(ChangeShown(board, {selected}), {selected}, "scene")
  /\ UNCHANGED <<gesture, selected, editing>>
  /\ Done

\* The toolbar's Clear: canvas.clear and sendClear.
Clear ==
  /\ Keys /\ editing = Closed
  /\ board' = Erase(board, Objects)
  /\ selected' = NoObject
  /\ UNCHANGED <<gesture, editing>>
  /\ Done

\* Another tool is chosen.
ChangeTool ==
  /\ Keys /\ editing = Closed /\ selected # NoObject
  /\ selected' = NoObject
  /\ UNCHANGED <<board, gesture, editing>>
  /\ Done

\* A double click on a shape or text, or a click of the text tool on a shape, which selects it.
BeginEdit ==
  /\ Free /\ editing = Closed
  /\ \E o \in On(board) \ Connectors :
       /\ editing' = [id |-> o, isNew |-> FALSE]
       /\ selected' \in IF o \in Shapes THEN {selected, o} ELSE {selected}
  /\ UNCHANGED <<board, gesture>>
  /\ Done

\* A click of the text tool elsewhere: the new text is in the scene and not yet sent.
NewText ==
  /\ Free /\ editing = Closed
  /\ \E o \in Unused \intersect Texts :
       /\ board' = Create(board, o)
       /\ editing' = [id |-> o, isNew |-> TRUE]
       /\ selected' = o
  /\ UNCHANGED gesture
  /\ Done

\* Enter, Escape, or the editor loses the focus.
CommitEdit ==
  /\ editing # Closed
  /\ board' \in Commits
  /\ editing' = Closed
  /\ UNCHANGED <<gesture, selected>>
  /\ Done

-----------------------------------------------------------------------------
(* Ops of other browsers. *)

Remote == action = "none" \/ "remote" \in Overlaps

\* An object that is new, moved, re-ordered, relabelled or brought back; nobody knows a draft.
ApplyAdd ==
  /\ Remote
  /\ \E o \in Objects \ Drafts : board' = Replace(board, o)
  /\ UNCHANGED <<gesture, selected, editing>>
  /\ Done

\* An erase, or all of it: a clear.
ApplyErase ==
  /\ Remote
  /\ \E S \in {{o} : o \in Objects \ Drafts} \union {Objects} :
       /\ board' = Erase(board, S)
       /\ selected' = IF selected \in S THEN NoObject ELSE selected
  /\ UNCHANGED <<gesture, editing>>
  /\ Done

Next ==
  \/ PointerDownIdle \/ PointerDown \/ PointerMove \/ PointerMoveInPlace \/ EraseMore \/ PointerUp
  \/ DeleteSelected \/ ReorderSelected \/ Clear \/ ChangeTool
  \/ BeginEdit \/ NewText \/ CommitEdit
  \/ ApplyAdd \/ ApplyErase

Spec == Init /\ [][Next]_canvasVars

-----------------------------------------------------------------------------
\* The state has the shape of the code's; only a drag holds objects, and only old versions.
TypeOK ==
  /\ board \in [{"scene", "hand", "sent", "latest"} -> [Objects -> 0 .. MaxChanges]]
  /\ \A k \in {"scene", "hand", "sent"}, o \in Objects : board[k][o] <= board["latest"][o]
  /\ action \in {"none", "pan", "create", "move", "endpoint", "erase"}
  /\ InHand # {} => action \in {"move", "endpoint"} /\ target \in InHand
  /\ target \in Objects \union {NoObject}
  /\ moved \in BOOLEAN
  /\ erased \subseteq Objects
  /\ selected \in Objects \union {NoObject}
  /\ editing \in [id : Objects \union {NoObject}, isNew : BOOLEAN]
  /\ torn \subseteq Objects /\ unbound \subseteq Connectors

(***************************************************************************)
(* "Every change is an id'd operation ..., relayed to peers"               *)
(* (README.md:26-27), as far as it goes: the peers have what is here after *)
(* any drag, rebinding, re-ordering, edit or erasure, and whatever arrived *)
(* meanwhile, but for what was pulled from under a gesture and for         *)
(* connectors that a drag unbound without moving them.                     *)
(***************************************************************************)
ChangesAreRelayed ==
  \A o \in Objects \ (InHand \union Drafts \union torn \union unbound) :
    board["scene"][o] = board["sent"][o]
===============================================================================
