------------------------------- MODULE Registry -------------------------------
(***************************************************************************)
(* The board registry behind GraphQL (internal/store/boards.go), in the    *)
(* two forms main can choose: the maps of the memory recorder, or the      *)
(* tables boards and board_ops, with the recorder's writer between a       *)
(* drawing and its rows (PostgresRecorder has it in detail).  Every        *)
(* statement, and every critical section of the memory recorder, is one    *)
(* step.  Clears are left out.                                             *)
(***************************************************************************)
EXTENDS Naturals, Sequences, FiniteSets, SequencesExt

CONSTANTS Ids,       \* board ids; newBoardID never gives one twice
          Objects,   \* objects that can be drawn
          MaxDrawn,  \* bound on the objects drawn at a time
          Faults     \* which of "statement", "network" can go wrong

ASSUME MaxDrawnNat == MaxDrawn \in Nat

VARIABLES
  backend,   \* "memory" or "postgres"
  listed,    \* the registered boards, in the order ListBoards returns them
  known,     \* the boards that have ever been registered
  rows,      \* the <<board, object>> of the op log
  queue,     \* those the writer has not inserted yet
  gone,      \* boards some DeleteBoard has deleted without an error
  late       \* rows inserted after their board had gone

regVars == <<backend, listed, known, rows, queue, gone, late>>

Without(s, b) == IF b \in ToSet(s) THEN RemoveAt(s, CHOOSE i \in DOMAIN s : s[i] = b) ELSE s

Boards == ToSet(listed)
Of(b) == {x \in rows : x[1] = b}

\* main: Postgres may have boards of an earlier life; memory starts empty.
RegistryInit ==
  /\ backend \in {"memory", "postgres"}
  /\ listed \in {s \in UNION {[1 .. n -> Ids] : n \in 0 .. Cardinality(Ids)} :
                   /\ \A i, j \in DOMAIN s : i # j => s[i] # s[j]
                   /\ backend = "memory" => s = <<>>}
  /\ known = Boards
  /\ rows = {} /\ queue = {} /\ gone = {} /\ late = {}

Insert(x) ==
  /\ rows' = rows \union {x}
  /\ late' = IF x[1] \in gone THEN late \union {x} ELSE late

\* Recorder.Record of an add: nobody asks whether the board still is registered.
Draw(x) ==
  /\ x[1] \in known /\ x \notin rows \union queue
  /\ Cardinality(rows \union queue) < MaxDrawn
  /\ \/ /\ backend = "memory"
        /\ Insert(x)
        /\ UNCHANGED queue
     \/ /\ backend = "postgres"
        /\ queue' = queue \union {x}
        /\ UNCHANGED <<rows, late>>
  /\ UNCHANGED <<backend, listed, known, gone>>

\* The writer inserts what it has of a board, which makes the board the most recently active.
Flush(x) ==
  /\ x \in queue
  /\ queue' = queue \ {x}
  /\ Insert(x)
  /\ listed' = IF x[1] \in Boards THEN <<x[1]>> \o Without(listed, x[1]) ELSE listed
  /\ UNCHANGED <<backend, known, gone>>

-----------------------------------------------------------------------------
(* The registry's methods.  A statement that fails (ok is FALSE) may have  *)
(* been executed all the same.                                             *)

MayFail(ok) == ok \/ (backend = "postgres" /\ "statement" \in Faults)

CreateBoard(b, ok) ==
  /\ MayFail(ok)
  /\ \/ /\ listed' = <<b>> \o listed
        /\ known' = known \union {b}
     \/ ~ok /\ UNCHANGED <<listed, known>>
  /\ UNCHANGED <<backend, rows, queue, gone, late>>

DeleteEntry(b) == listed' = Without(listed, b)
DeleteRows(b) == /\ rows' = rows \ Of(b)
                 /\ late' = late \ Of(b)

\* Slip: the drawing goes first.
DeleteBoardBeginsWithRows(b, ok) ==
  /\ backend = "postgres" /\ MayFail(ok)
  /\ DeleteRows(b) \/ (~ok /\ UNCHANGED <<rows, late>>)
  /\ UNCHANGED <<backend, listed, known, queue, gone>>

\* The first statement of DeleteBoard.
DeleteBoardBegins(b, ok) ==
  /\ backend = "postgres" /\ MayFail(ok)
  /\ DeleteEntry(b) \/ (~ok /\ UNCHANGED listed)
  /\ UNCHANGED <<backend, known, rows, queue, gone, late>>

\* Slip: only the first statement is waited for, the second is never executed.
DeleteBoardEndsUnexecuted(b, ok) ==
  /\ MayFail(ok)
  /\ DeleteEntry(b)
  /\ gone' = IF ok THEN gone \union {b} ELSE gone
  /\ UNCHANGED <<backend, known, rows, queue, late>>

\* The second statement; the memory recorder does both at once.
DeleteBoardEnds(b, ok) ==
  /\ MayFail(ok)
  /\ DeleteRows(b) \/ (~ok /\ UNCHANGED <<rows, late>>)
  /\ IF backend = "memory" THEN DeleteEntry(b) ELSE UNCHANGED listed
  /\ gone' = IF ok THEN gone \union {b} ELSE gone
  /\ UNCHANGED <<backend, known, queue>>

\* countObjectsLocked and boardSelect; only Postgres knows when a board was last active.
Info(b) ==
  [id |-> b, count |-> Cardinality(Of(b)), active |-> backend = "postgres" /\ Of(b) # {}]

\* Any failure is taken for a board that is not there.
GetBoard(b, ok) == IF ok /\ b \in Boards THEN <<Info(b)>> ELSE <<>>

ListBoards == [i \in DOMAIN listed |-> Info(listed[i])]

\* Everything that may happen to the registry; the second statement of DeleteBoard follows
\* the first.
RegistryNext ==
  \/ \E x \in Ids \X Objects : Draw(x) \/ Flush(x)
  \/ \E b \in Ids \ known, ok \in BOOLEAN : CreateBoard(b, ok)
  \/ \E b \in Ids, ok \in BOOLEAN : DeleteBoardBegins(b, ok)
  \/ \E b \in Ids, ok \in BOOLEAN :
       (backend = "memory" \/ b \notin Boards) /\ DeleteBoardEnds(b, ok)

RegistrySpec == RegistryInit /\ [][RegistryNext]_regVars

-----------------------------------------------------------------------------
(***************************************************************************)
(* Seen through the registry, where a drawing without its board is not     *)
(* there, DeleteBoard is one step however its statements interleave with   *)
(* the writer's and whichever of them fails (boards.go:144-150): a board   *)
(* never loses its drawing and stays.                                      *)
(***************************************************************************)
Promise == INSTANCE Directory WITH
  listed <- Boards,
  drawing <- [b \in Ids |-> IF b \in Boards THEN {x[2] : x \in Of(b)} ELSE {}]

ImplementsDirectory == Promise!Spec

(***************************************************************************)
(* "Delete a board and its drawing. Returns true." (schema.graphqls:30):   *)
(* once that is the answer, the log has nothing of the board but what was  *)
(* written since, by browsers still on it or by a queue that was not       *)
(* empty.                                                                  *)
(***************************************************************************)
DeleteTakesTheDrawing == \A b \in gone : Of(b) \subseteq late

(***************************************************************************)
(* What the requests of all clients do to the registry is what it allows:  *)
(* no id is given twice, and no drawing is deleted before its board's      *)
(* entry is known to have gone (boards.go:144-150): an error of the first  *)
(* statement ends the deletion.                                            *)
(***************************************************************************)
StatementsInOrder == [][RegistryNext]_regVars
=============================================================================
