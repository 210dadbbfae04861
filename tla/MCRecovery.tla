----------------------------- MODULE MCRecovery ----------------------------
(***************************************************************************)
(* Disagreement needs two providers.  Two branches with two blocks of the  *)
(* same height, and a header x whose number does not follow its parent's:  *)
(*                                                                         *)
(*      g0 -- a1 -- a2                                                     *)
(*        \-- b1                                                           *)
(*        \-- x (number 2)                                                 *)
(*                                                                         *)
(* Both providers have imported more than g0, and p1 alone serves x.  They *)
(* are free otherwise, under the fence too.                                *)
(***************************************************************************)
EXTENDS Recovery, TLC

CONSTANTS g0, a1, a2, b1, x, p1

MCBlocks == {g0, a1, a2, b1, x}

MCNumber == (g0 :> 0) @@ (a1 :> 1) @@ (a2 :> 2) @@ (b1 :> 1) @@ (x :> 2)

MCParent == (g0 :> NoBlock) @@ (a1 :> g0) @@ (a2 :> a1) @@ (b1 :> g0) @@ (x :> g0)

MCAnc == (g0 :> {g0}) @@ (a1 :> {a1, g0}) @@ (a2 :> {a2, a1, g0})
         @@ (b1 :> {b1, g0}) @@ (x :> {x, g0})

MCOwnerOf == [r \in Replicas |-> "host-1"]

Served == \A p \in Providers : view[p] \in {a1, a2, b1} \cup (IF p = p1 THEN {x} ELSE {})

MCInit == RecoveryInit /\ Served

MCNext == Next /\ Record /\ Served'

MCSpec == MCInit /\ [][MCNext]_<<vars, historyVars>> /\ Fairness
=============================================================================
