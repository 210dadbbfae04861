--------------------------- MODULE MCLateWrites ----------------------------
(***************************************************************************)
(* A takeover needs two replicas; one provider that moves at will reports  *)
(* every order of observations.  Two branches from the first block:        *)
(*                                                                         *)
(*      g0 -- a1                                                           *)
(*        \-- b1                                                           *)
(***************************************************************************)
EXTENDS LateWrites, TLC

CONSTANTS g0, a1, b1

MCBlocks == {g0, a1, b1}

MCNumber == (g0 :> 0) @@ (a1 :> 1) @@ (b1 :> 1)

MCParent == (g0 :> NoBlock) @@ (a1 :> g0) @@ (b1 :> g0)

MCAnc == (g0 :> {g0}) @@ (a1 :> {a1, g0}) @@ (b1 :> {b1, g0})

\* A restarted process in the same container has the same hostname and pid.
MCOwnerOf == [r \in Replicas |-> "host-1"]

MCSymmetry == Permutations(Replicas)
=============================================================================
