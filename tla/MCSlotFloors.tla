---------------------------- MODULE MCSlotFloors ----------------------------
(***************************************************************************)
(* Two replicas, up to two commitments and a read of each.                 *)
(***************************************************************************)
EXTENDS SlotFloors, TLC

CONSTANTS r1, r2, q1, q2

MCCommitmentOf == [q \in Reads |-> IF q = q1 THEN "processed" ELSE "finalized"]

MCSymmetry == Permutations({r1, r2})
=============================================================================
