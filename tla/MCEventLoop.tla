---------------------------- MODULE MCEventLoop ----------------------------
(* EventLoop for TLC: sets of inputs to choose from, and symmetry.         *)
EXTENDS EventLoop, TLC

Symmetry == Permutations(Conn)
=============================================================================
