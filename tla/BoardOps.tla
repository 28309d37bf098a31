------------------------------- MODULE BoardOps -------------------------------
(***************************************************************************)
(* The durable ops of a board (web/src/lib/protocol.ts), what they do to a *)
(* scene (BoardCanvas.tsx) and what the in-memory log keeps of them        *)
(* (internal/store/store.go).  n names the edit: adding an id that is      *)
(* there replaces the object.                                              *)
(***************************************************************************)
EXTENDS Naturals, Sequences, SequencesExt

CONSTANT Objects    \* object ids

Ops(ns) == [type : {"add", "erase", "clear"}, objs : SUBSET Objects, n : ns]

\* A scene: the edit that put each object there, 0 for none.
Blank == [o \in Objects |-> 0]

\* What an op leaves of an object it is about.
Left(op) == IF op.type = "add" THEN op.n ELSE 0

\* A scene after an op, at its author's or at a receiver's.
Apply(scene, op) == [o \in Objects |-> IF o \in op.objs THEN Left(op) ELSE scene[o]]

\* What a browser showing a scene can do next: add or replace one object, erase some, clear.
Edits(scene, n) ==
  LET shown == {o \in Objects : scene[o] # 0} IN
  {[type |-> "add", objs |-> {o}, n |-> n] : o \in Objects}
    \union {[type |-> "erase", objs |-> S, n |-> n] : S \in SUBSET shown \ {{}}}
    \union {[type |-> "clear", objs |-> Objects, n |-> n]}

\* Slip: a clear is taken for an op that needs no record and the log keeps what it wiped.
RecordedKeepsCleared(log, op) == IF op.type = "clear" THEN log ELSE Append(log, op)

\* MemoryRecorder.Record of a durable op.
Recorded(log, op) == IF op.type = "clear" THEN <<>> ELSE Append(log, op)

(***************************************************************************)
(* The board a replay of the log builds from nothing: of every object what *)
(* the last op about it left, which is what FoldLeft(Apply, Blank, log)    *)
(* computes (MCSession compares the two).                                  *)
(***************************************************************************)
Rebuilt(log) ==
  [o \in Objects |-> LET about == {i \in DOMAIN log : o \in log[i].objs} IN
                     IF about = {} THEN 0 ELSE Left(log[Max(about)])]
===============================================================================
