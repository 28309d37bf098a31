------------------------------ MODULE MCSession ------------------------------
(* TLC instance of Session. *)
EXTENDS Session

\* Rebuilt is the replay op by op, for every log of up to three ops.
ASSUME RebuiltIsReplay ==
  \A k \in 0 .. 3 : \A l \in [1 .. k -> Ops(1 .. MaxEdits)] :
    FoldLeft(Apply, Blank, l) = Rebuilt(l)
=============================================================================
