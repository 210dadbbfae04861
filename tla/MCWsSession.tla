---------------------------- MODULE MCWsSession ----------------------------
(***************************************************************************)
(* A branch long enough for a head to be skipped over, and one block that  *)
(* replaces another:                                                       *)
(*                                                                         *)
(*      g0 -- a1 -- a2 -- a3                                               *)
(*              \-- b2                                                     *)
(***************************************************************************)
EXTENDS WsSession, TLC

CONSTANTS g0, a1, a2, a3, b2

MCBlocks == {g0, a1, a2, a3, b2}

MCNumber == (g0 :> 0) @@ (a1 :> 1) @@ (a2 :> 2) @@ (a3 :> 3) @@ (b2 :> 2)

MCParent == (g0 :> NoBlock) @@ (a1 :> g0) @@ (a2 :> a1) @@ (a3 :> a2) @@ (b2 :> a1)

MCAnc == (g0 :> {g0}) @@ (a1 :> {a1, g0}) @@ (a2 :> {a2, a1, g0})
         @@ (a3 :> {a3, a2, a1, g0}) @@ (b2 :> {b2, a1, g0})

\* A closed session reads and sends nothing: nothing more can go wrong in it.
\* The last request is one subscription too many, made at the first head, which
\* then rests.
Bounded ==
    /\ open
    /\ requests = MaxRequests => UNCHANGED head
    /\ requests < MaxRequests /\ requests' = MaxRequests =>
           Subscribe /\ Cardinality(subs) = SubLimit /\ Len(log) = 1

MCSpec == Init /\ [][Next /\ Bounded]_vars

MCSymmetry == Permutations(Subs)
=============================================================================
