---------------------------- MODULE SlotPromise ----------------------------
(***************************************************************************)
(* What the proxy promises the readers of a Solana chain: every commitment *)
(* has a slot floor that all replicas share and that never goes down, and  *)
(* a read is answered from a slot at or above the floor it found.          *)
(***************************************************************************)
EXTENDS Integers

CONSTANTS Commitments, Reads, CommitmentOf

VARIABLES
    floor,   \* floor[c]: the accepted slot of c; NoFloor before the first
    lowest,  \* lowest[q]: the slot read q needs at least; NoFloor before it begins
    answer   \* answer[q]: the slot it was answered from; NoFloor before it is

NoFloor == -1

Init ==
    /\ floor = [c \in Commitments |-> NoFloor]
    /\ lowest = [q \in Reads |-> NoFloor]
    /\ answer = [q \in Reads |-> NoFloor]

Raise(c, s) ==
    /\ s > floor[c]
    /\ floor' = [floor EXCEPT ![c] = s]
    /\ UNCHANGED <<lowest, answer>>

\* A read begins.  Its caller may ask for more than the floor.
Begin(q, s) ==
    /\ floor[CommitmentOf[q]] # NoFloor /\ lowest[q] = NoFloor
    /\ s >= floor[CommitmentOf[q]]
    /\ lowest' = [lowest EXCEPT ![q] = s]
    /\ UNCHANGED <<floor, answer>>

Answer(q, s) ==
    /\ lowest[q] # NoFloor /\ answer[q] = NoFloor
    /\ s >= lowest[q]
    /\ answer' = [answer EXCEPT ![q] = s]
    /\ UNCHANGED <<floor, lowest>>

Next ==
    \/ \E c \in Commitments : Raise(c, floor'[c])
    \/ \E q \in Reads : Begin(q, lowest'[q]) \/ Answer(q, answer'[q])

Spec == Init /\ [][Next]_<<floor, lowest, answer>>
=============================================================================
