---------------------------- MODULE MCControlSync ----------------------------
(* Instances of ControlSync for TLC.                                       *)
EXTENDS ControlSync, TLC

Symmetry == UNION {Permutations(S) : S \in {Requests, Ackers, Sockets, Watchers, Controls}}
=============================================================================
