-------------------------- MODULE MCRequestWorkflow --------------------------
(* Small instances of RequestWorkflow for TLC. *)
EXTENDS RequestWorkflow, TLC

CONSTANTS s1, s2, i1, i2, i3

TwoAndOne == i1 :> s1 @@ i2 :> s1 @@ i3 :> s2
BothOfOne == i1 :> s1 @@ i2 :> s1

\* Handlers are interchangeable; used by the run without liveness.
HandlerSymmetry == Permutations(Handlers)
==============================================================================
