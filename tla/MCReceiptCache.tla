--------------------------- MODULE MCReceiptCache ---------------------------
(***************************************************************************)
(* Two branches; the transaction is in the first block of one and in the   *)
(* second of the other.                                                    *)
(*                                                                         *)
(*      a1* -- a2 -- a3                                                    *)
(*      b1 --- b2*                                                         *)
(***************************************************************************)
EXTENDS ReceiptCache, TLC

CONSTANTS a1, a2, a3, b1, b2

\* Requests and providers are interchangeable; no liveness property is checked.
MCSymmetry == Permutations(Requests) \cup Permutations(Providers)

MCBlocks == {a1, a2, a3, b1, b2}
MCNumber == (a1 :> 1) @@ (b1 :> 1) @@ (a2 :> 2) @@ (b2 :> 2) @@ (a3 :> 3)
MCParent == (a1 :> NoBlock) @@ (b1 :> NoBlock) @@ (a2 :> a1) @@ (b2 :> b1) @@ (a3 :> a2)
MCAnc == (a1 :> {a1}) @@ (b1 :> {b1}) @@ (a2 :> {a1, a2}) @@ (b2 :> {b1, b2})
         @@ (a3 :> {a1, a2, a3})

MCInclusion == {a1, b2}
=============================================================================
