--------------------------- MODULE AcceptedHead ----------------------------
(***************************************************************************)
(* What the head store and its coordinators promise the gateways together: *)
(* the accepted head of a chain, its reorg epoch and the recovery fence.   *)
(*                                                                         *)
(* While the fence is down the head only moves to its descendants and the  *)
(* epoch stands still.  Raising the fence starts a new epoch and moves     *)
(* nothing; only lowering it may change the branch.                        *)
(***************************************************************************)
EXTENDS BlockTree

CONSTANT NoHead

VARIABLE head  \* NoHead, or the accepted head

AcceptedHeads == [block : Blocks, epoch : Nat, pending : BOOLEAN, generation : Nat]

Init == head = NoHead

\* The generation counts the different heads ever accepted.
MovedTo(b) == [block |-> b, epoch |-> head.epoch, pending |-> FALSE,
               generation |-> IF b = head.block THEN head.generation
                              ELSE head.generation + 1]

\* The first head of a chain without any.
First(b) ==
    /\ head = NoHead
    /\ head' = [block |-> b, epoch |-> 0, pending |-> FALSE, generation |-> 1]

\* Ordinary head advancement.
Advance(b) ==
    /\ head # NoHead /\ ~head.pending
    /\ Extends(head.block, b)
    /\ head' = MovedTo(b)

\* A reorg is recorded before anything is done about it.
Fence ==
    /\ head # NoHead /\ ~head.pending
    /\ head' = [head EXCEPT !.epoch = @ + 1, !.pending = TRUE]

\* Verified recovery, onto the same or any other branch.
Recover(b) ==
    /\ head # NoHead /\ head.pending
    /\ head' = MovedTo(b)

Next == Fence \/ \E b \in Blocks : First(b) \/ Advance(b) \/ Recover(b)

Spec == Init /\ [][Next]_head
=============================================================================
