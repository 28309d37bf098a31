------------------------------ MODULE Directory ------------------------------
(***************************************************************************)
(* What the control plane promises: named boards, each with its drawing,   *)
(* created empty, drawn on, and deleted at one stroke together with what   *)
(* is on them ("Delete a board and its drawing", schema.graphqls:30).      *)
(***************************************************************************)
CONSTANTS Ids, Objects

VARIABLES listed,    \* the boards there are
          drawing    \* drawing[b]: the objects on board b

dirVars == <<listed, drawing>>

Init ==
  /\ listed \subseteq Ids
  /\ drawing = [b \in Ids |-> {}]

Create(b) ==
  /\ b \notin listed
  /\ listed' = listed \union {b}
  /\ UNCHANGED drawing

Draw(b, o) ==
  /\ b \in listed
  /\ drawing' = [drawing EXCEPT ![b] = @ \union {o}]
  /\ UNCHANGED listed

Delete(b) ==
  /\ listed' = listed \ {b}
  /\ drawing' = [drawing EXCEPT ![b] = {}]

Next == \E b \in Ids : Create(b) \/ Delete(b) \/ \E o \in Objects : Draw(b, o)

Spec == Init /\ [][Next]_dirVars
=============================================================================
