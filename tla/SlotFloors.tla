----------------------------- MODULE SlotFloors -----------------------------
(***************************************************************************)
(* A Solana chain: the replicas compete for the lease, the leader polls    *)
(* every commitment and publishes the slots it sees, and gateways answer   *)
(* reads from slots at or above the published floor.  Providers may lag,   *)
(* and several backends may answer for one of them, so any slot the chain  *)
(* has reached can be reported and answered from.                          *)
(*                                                                         *)
(* The Redis client repeats a write it has no answer to, and so does the   *)
(* next poll; the given-up attempt may reach Redis later: when the lease   *)
(* is another one's or, if SameTerm, while it is still its own.            *)
(***************************************************************************)
EXTENDS Integers, FiniteSetsExt

CONSTANTS
    Commitments,   \* processed, confirmed, finalized
    Replicas,      \* proxy processes
    Reads,         \* reads of the gateways
    CommitmentOf,  \* CommitmentOf[q]: the commitment read q asks for
    SameTerm,      \* a delayed write may reach Redis within its own term
    MaxSlot,       \* bound on the slots of the chain
    MaxFence,      \* bound on leadership terms
    MaxFaults      \* bound on writes without an answer

ASSUME SlotAssumption ==
    /\ CommitmentOf \in [Reads -> Commitments]
    /\ SameTerm \in BOOLEAN
    /\ {MaxSlot, MaxFence, MaxFaults} \subseteq Nat

VARIABLES
    tip,     \* tip[c]: the slot the chain has reached at commitment c
    faults,  \* writes without an answer so far
    fence,   \* the counter behind the fencing tokens
    leader,  \* the token in the leader key, 0 if the key is absent
    floors,  \* floors[c]: the accepted slot of commitment c, or NoFloor
    token,   \* token[r]: the token r leads with, 0 if it follows
    cand,    \* cand[r]: the observation r is about to publish
    late,    \* delayed writes
    need,    \* need[q]: the minContextSlot of read q once admitted
    slot     \* slot[q]: the slot its answer came from

storeVars == <<fence, leader, floors>>
replicaVars == <<token, cand>>
readVars == <<need, slot>>
vars == <<tip, faults, storeVars, replicaVars, late, readVars>>

NoFloor == -1
Slots == 0..MaxSlot
Nothing == [commitment |-> "none", slot |-> NoFloor]

Init ==
    /\ tip = [c \in Commitments |-> 0]
    /\ faults = 0
    /\ fence = 0
    /\ leader = 0
    /\ floors = [c \in Commitments |-> NoFloor]
    /\ token = [r \in Replicas |-> 0]
    /\ cand = [r \in Replicas |-> Nothing]
    /\ late = {}
    /\ need = [q \in Reads |-> NoFloor]
    /\ slot = [q \in Reads |-> NoFloor]

NewSlot(c) ==
    /\ tip[c] < MaxSlot
    /\ tip' = [tip EXCEPT ![c] = @ + 1]
    /\ UNCHANGED <<faults, storeVars, replicaVars, late, readVars>>

-----------------------------------------------------------------------------
(* The lease. *)

Acquire(r) ==
    /\ token[r] = 0
    /\ leader = 0 /\ fence < MaxFence
    /\ fence' = fence + 1
    /\ leader' = fence + 1
    /\ token' = [token EXCEPT ![r] = fence + 1]
    /\ UNCHANGED <<tip, faults, floors, cand, late, readVars>>

Expire ==
    /\ leader # 0
    /\ leader' = 0
    /\ UNCHANGED <<tip, faults, fence, floors, replicaVars, late, readVars>>

\* A renewal was refused or failed, or the process stops: runLeader returns and
\* the lease is released if it is still held.
Leave(r) ==
    /\ token[r] # 0
    /\ leader' = IF leader = token[r] THEN 0 ELSE leader
    /\ token' = [token EXCEPT ![r] = 0]
    /\ cand' = [cand EXCEPT ![r] = Nothing]
    /\ UNCHANGED <<tip, faults, fence, floors, late, readVars>>

-----------------------------------------------------------------------------
(* The leader's poll and consider. *)

SelectFreshest(answers) == Max(answers)

\* A lagging observation cannot lower a promised floor.
Admissible(current, observed) == observed >= current

\* A poll of c is answered, and its freshest slot considered against a snapshot.
Consider(r, c, answers) ==
    /\ token[r] # 0 /\ cand[r] = Nothing
    /\ Admissible(floors[c], SelectFreshest(answers))
    /\ cand' = [cand EXCEPT ![r] = [commitment |-> c, slot |-> SelectFreshest(answers)]]
    /\ UNCHANGED <<tip, faults, storeVars, token, late, readVars>>

\* Mutant of PublishScript: no check of the lease.
PublishUnchecked(t, w) == floors' = [floors EXCEPT ![w.commitment] = w.slot]

\* publishScript: only the token is compared, there is no epoch to check.
PublishScript(t, w) ==
    floors' = IF leader = t THEN [floors EXCEPT ![w.commitment] = w.slot] ELSE floors

Publish(r) ==
    /\ cand[r] # Nothing
    /\ PublishScript(token[r], cand[r])
    /\ token' = [token EXCEPT ![r] = IF leader = @ THEN @ ELSE 0]
    /\ cand' = [cand EXCEPT ![r] = Nothing]
    /\ UNCHANGED <<tip, faults, fence, leader, late, readVars>>

\* The write was made or not, and there is no answer: r goes on leading.
Unanswered(r) ==
    /\ cand[r] # Nothing
    /\ faults < MaxFaults /\ faults' = faults + 1
    /\ PublishScript(token[r], cand[r]) \/ UNCHANGED floors
    /\ late' = late \cup {[token |-> token[r], write |-> cand[r]]}
    /\ cand' = [cand EXCEPT ![r] = Nothing]
    /\ UNCHANGED <<tip, fence, leader, token, readVars>>

Arrive(w) ==
    /\ SameTerm \/ leader # w.token
    /\ PublishScript(w.token, w.write)
    /\ late' = late \ {w}
    /\ UNCHANGED <<tip, faults, fence, leader, replicaVars, readVars>>

-----------------------------------------------------------------------------
(* A read in a gateway. *)

\* transformSolanaRequest: the caller can ask for more, not for less.
Floor(accepted, asked) == Max({accepted, asked})

Admit(q, asked) ==
    /\ need[q] = NoFloor
    /\ floors[CommitmentOf[q]] # NoFloor
    /\ need' = [need EXCEPT ![q] = Floor(floors[CommitmentOf[q]], asked)]
    /\ UNCHANGED <<tip, faults, storeVars, replicaVars, late, slot>>

\* verifySolanaContext, or the slot of a getSlot or getEpochInfo answer: what is
\* below the floor is not answered, the next provider is tried.
Respond(q, s) ==
    /\ need[q] # NoFloor /\ slot[q] = NoFloor
    /\ s <= tip[CommitmentOf[q]] /\ s >= need[q]
    /\ slot' = [slot EXCEPT ![q] = s]
    /\ UNCHANGED <<tip, faults, storeVars, replicaVars, late, need>>

-----------------------------------------------------------------------------
Next ==
    \/ \E c \in Commitments : NewSlot(c)
    \/ Expire
    \/ \E r \in Replicas : Acquire(r) \/ Leave(r) \/ Publish(r) \/ Unanswered(r)
    \/ \E r \in Replicas, c \in Commitments :
          \E answers \in (SUBSET (0..tip[c])) \ {{}} : Consider(r, c, answers)
    \/ \E w \in late : Arrive(w)
    \/ \E q \in Reads, s \in Slots : Admit(q, s) \/ Respond(q, s)

Spec == Init /\ [][Next]_vars

-----------------------------------------------------------------------------
TypeOK ==
    /\ tip \in [Commitments -> Slots]
    /\ faults \in 0..MaxFaults
    /\ fence \in 0..MaxFence /\ leader \in 0..fence
    /\ floors \in [Commitments -> Slots \cup {NoFloor}]
    /\ \A c \in Commitments : floors[c] <= tip[c]
    /\ token \in [Replicas -> 0..fence]
    /\ need \in [Reads -> Slots \cup {NoFloor}] /\ slot \in [Reads -> Slots \cup {NoFloor}]

Promise == INSTANCE SlotPromise WITH floor <- floors, lowest <- need, answer <- slot

(***************************************************************************)
(* "Solana accepted slot floors do not decrease.  Context-bearing          *)
(* responses below the requested floor are rejected": replicas and         *)
(* gateways implement SlotPromise, across leaders, for each commitment on  *)
(* its own, whatever the providers answer and however late a write of an   *)
(* earlier leader arrives.                                                 *)
(***************************************************************************)
KeepsPromise == Promise!Spec
=============================================================================
