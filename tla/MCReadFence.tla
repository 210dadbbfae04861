---------------------------- MODULE MCReadFence ----------------------------
(***************************************************************************)
(* One batch with an item of every kind, over two branches that can be     *)
(* left and entered again:                                                 *)
(*                                                                         *)
(*      g0 -- a1 -- a2                                                     *)
(*        \-- b1 -- b2                                                     *)
(***************************************************************************)
EXTENDS ReadFence, TLC

CONSTANTS g0, a1, a2, b1, b2

MCBlocks == {g0, a1, a2, b1, b2}

MCNumber == (g0 :> 0) @@ (a1 :> 1) @@ (a2 :> 2) @@ (b1 :> 1) @@ (b2 :> 2)

MCParent == (g0 :> NoBlock) @@ (a1 :> g0) @@ (a2 :> a1) @@ (b1 :> g0) @@ (b2 :> b1)

MCAnc == (g0 :> {g0}) @@ (a1 :> {a1, g0}) @@ (a2 :> {a2, a1, g0})
         @@ (b1 :> {b1, g0}) @@ (b2 :> {b2, b1, g0})

\* The kind of an item is its name.
MCKind == [i \in Items |-> i]

MCHeight == [i \in Items |-> IF i = "number" THEN 1 ELSE 0]

MCHash == [i \in Items |-> a1]
=============================================================================
