-------------------------- MODULE SlotFloorsProofs --------------------------
(***************************************************************************)
(* Why accepted Solana slots never go down, for any number of replicas,    *)
(* commitments, reads, slots, terms and late writes of earlier terms.      *)
(***************************************************************************)
EXTENDS SlotFloors, WellFoundedInduction, TLAPS

-----------------------------------------------------------------------------
(* The largest of a set *)

LEMMA LeastNat ==
    ASSUME NEW T \in SUBSET Nat, T # {}
    PROVE  \E n \in T : \A m \in T : n <= m
<1> DEFINE R == OpToRel(<, Nat)
<1>1. IsWellFoundedOn(R, Nat)
  BY NatLessThanWellFounded, Zenon
<1>2. PICK n \in T : \A m \in T : ~(<<m, n>> \in R)
  <2> HIDE DEF R
  <2> QED
    BY <1>1, WFMin, Zenon
<1>3. \A m \in T : ~(m < n)
  BY <1>2 DEF OpToRel
<1> QED
  BY <1>3

\* selectFreshest returns one of the slots that were reported: the largest is
\* the one whose distance to the tip is least.
LEMMA FreshestIsReported ==
    ASSUME NEW n \in Nat, NEW S \in SUBSET (0..n), S # {}
    PROVE  SelectFreshest(S) \in S
<1> DEFINE T == {n - s : s \in S}
<1>1. T \in SUBSET Nat /\ T # {}
  <2>1. \A s \in S : n - s \in Nat
    OBVIOUS
  <2> QED
    BY <2>1
<1>2. PICK d \in T : \A m \in T : d <= m
  <2> HIDE DEF T
  <2> QED
    BY <1>1, LeastNat
<1>3. PICK s \in S : d = n - s
  BY <1>2
<1>4. \A y \in S : s >= y
  <2> TAKE y \in S
  <2>1. n - s <= n - y
    BY <1>2, <1>3
  <2> QED
    BY <2>1
<1> QED
  BY <1>3, <1>4 DEF SelectFreshest, Max

\* The caller can ask for more than the floor, not for less.
LEMMA FloorIsAbove ==
    ASSUME NEW accepted \in Int, NEW asked \in Int
    PROVE  Floor(accepted, asked) \in {accepted, asked} /\ Floor(accepted, asked) >= accepted
<1>1. \E x \in {accepted, asked} : \A y \in {accepted, asked} : x >= y
  OBVIOUS
<1> QED
  BY <1>1 DEF Floor, Max

-----------------------------------------------------------------------------
(* The invariant *)

Observation == [commitment : Commitments, slot : Nat]

Types ==
    /\ tip \in [Commitments -> Nat]
    /\ fence \in Nat /\ leader \in Nat
    /\ floors \in [Commitments -> Int]
    /\ token \in [Replicas -> Nat]
    /\ cand \in [Replicas -> Observation \cup {Nothing}]
    /\ need \in [Reads -> Int] /\ slot \in [Reads -> Int]

\* No token is ahead of the counter, and no two replicas hold the same one.
TokensDistinct ==
    /\ leader <= fence
    /\ \A r \in Replicas : token[r] <= fence
    /\ \A r, s \in Replicas : token[r] # 0 /\ token[r] = token[s] => r = s

(***************************************************************************)
(* An observation was admissible when it was compared with the floor; it   *)
(* still is as long as its replica holds the lease, for nobody else can    *)
(* have moved the floor.  consider does not compare again.                 *)
(***************************************************************************)
CandidatesAdmissible ==
    \A r \in Replicas : cand[r] # Nothing =>
        /\ token[r] # 0
        /\ leader = token[r] => cand[r].slot >= floors[cand[r].commitment]

SlotInv == Types /\ TokensDistinct /\ CandidatesAdmissible

\* A publish under the lease raises the floor or confirms it.
LEMMA PublishRaises ==
    ASSUME SlotInv, NEW r \in Replicas, cand[r] # Nothing,
           PublishScript(token[r], cand[r]), UNCHANGED <<need, slot>>
    PROVE  /\ floors' \in [Commitments -> Int]
           /\ floors' # floors => leader = token[r]
           /\ [Promise!Next]_<<floors, need, slot>>
<1> DEFINE c == cand[r].commitment
           s == cand[r].slot
<1>1. c \in Commitments /\ s \in Nat /\ floors \in [Commitments -> Int]
  BY DEF SlotInv, Types, Observation
<1>2. CASE leader # token[r]
  BY <1>1, <1>2 DEF PublishScript
<1>3. CASE leader = token[r]
  <2>1. floors' = [floors EXCEPT ![c] = s] /\ s >= floors[c]
    BY <1>3 DEF PublishScript, SlotInv, CandidatesAdmissible
  <2>2. floors' \in [Commitments -> Int] /\ floors'[c] = s
    BY <1>1, <2>1
  <2>3. CASE s = floors[c]
    BY <1>1, <1>3, <2>1, <2>2, <2>3
  <2>4. CASE s > floors[c]
    <3>1. Promise!Raise(c, floors'[c])
      BY <2>1, <2>2, <2>4 DEF Promise!Raise
    <3> QED
      BY <1>1, <1>3, <2>2, <3>1 DEF Promise!Next
  <2> QED
    BY <1>1, <2>1, <2>3, <2>4
<1> QED
  BY <1>2, <1>3

\* Writes leave tokens and lease alone; r forgets its observation.
LEMMA WritePreserves ==
    ASSUME SlotInv, NEW r \in Replicas, cand[r] # Nothing,
           PublishScript(token[r], cand[r]) \/ UNCHANGED floors,
           cand' = [cand EXCEPT ![r] = Nothing],
           token' \in {token, [token EXCEPT ![r] = 0]},
           UNCHANGED <<tip, fence, leader, need, slot>>
    PROVE  SlotInv' /\ [Promise!Next]_<<floors, need, slot>>
<1>1. /\ floors' \in [Commitments -> Int]
      /\ floors' # floors => leader = token[r]
      /\ [Promise!Next]_<<floors, need, slot>>
  BY PublishRaises DEF SlotInv, Types
<1>2. Types'
  BY <1>1 DEF SlotInv, Types
<1>3. TokensDistinct'
  BY DEF SlotInv, Types, TokensDistinct
<1>4. ASSUME NEW q \in Replicas, cand'[q] # Nothing
      PROVE  /\ token'[q] # 0
             /\ leader' = token'[q] => cand'[q].slot >= floors'[cand'[q].commitment]
  <2>1. q # r /\ cand'[q] = cand[q] /\ token'[q] = token[q]
    BY <1>4 DEF SlotInv, Types
  <2>2. leader = token[q] => floors' = floors
    BY <1>1, <1>4, <2>1 DEF SlotInv, TokensDistinct, CandidatesAdmissible
  <2> QED
    BY <1>4, <2>1, <2>2 DEF SlotInv, CandidatesAdmissible
<1> QED
  BY <1>1, <1>2, <1>3, <1>4 DEF SlotInv, CandidatesAdmissible

LEMMA ConsiderPreserves ==
    ASSUME SlotInv, NEW r \in Replicas, NEW c \in Commitments,
           NEW answers \in (SUBSET (0..tip[c])) \ {{}}, Consider(r, c, answers)
    PROVE  SlotInv' /\ UNCHANGED <<floors, need, slot>>
<1> DEFINE s == SelectFreshest(answers)
           o == [commitment |-> c, slot |-> s]
<1>1. s \in Nat
  <2>1. tip[c] \in Nat /\ answers \in SUBSET (0..tip[c]) /\ answers # {}
    BY DEF SlotInv, Types
  <2>2. s \in answers
    BY <2>1, FreshestIsReported
  <2>3. \A i \in answers : i \in Nat
    BY <2>1
  <2> QED
    BY <2>2, <2>3
<1>2. /\ token[r] # 0 /\ s >= floors[c] /\ cand' = [cand EXCEPT ![r] = o]
      /\ UNCHANGED <<tip, fence, leader, floors, token, need, slot>>
  BY DEF Consider, Admissible, storeVars, readVars
<1> HIDE DEF s
<1>3. o \in Observation
  BY <1>1 DEF Observation
<1>4. Types' /\ TokensDistinct'
  BY <1>2, <1>3 DEF SlotInv, Types, TokensDistinct
<1>5. CandidatesAdmissible'
  <2> SUFFICES ASSUME NEW q \in Replicas, cand'[q] # Nothing
               PROVE  /\ token'[q] # 0
                      /\ leader' = token'[q] => cand'[q].slot >= floors'[cand'[q].commitment]
    BY DEF CandidatesAdmissible
  <2>1. CASE q = r
    BY <1>2, <2>1 DEF SlotInv, Types
  <2>2. CASE q # r
    BY <1>2, <2>2 DEF SlotInv, Types, CandidatesAdmissible
  <2> QED
    BY <2>1, <2>2
<1> QED
  BY <1>2, <1>4, <1>5 DEF SlotInv

LEMMA LeasePreserves ==
    ASSUME SlotInv, Expire \/ \E r \in Replicas : Acquire(r) \/ Leave(r)
    PROVE  SlotInv' /\ UNCHANGED <<floors, need, slot>>
<1>1. UNCHANGED <<tip, floors, need, slot>>
  BY DEF Expire, Acquire, Leave, readVars
<1>2. CASE Expire
  <2>1. leader' = 0 /\ UNCHANGED <<fence, token, cand>>
    BY <1>2 DEF Expire, replicaVars
  <2> QED
    BY <1>1, <2>1 DEF SlotInv, Types, TokensDistinct, CandidatesAdmissible
<1>3. ASSUME NEW r \in Replicas, Acquire(r) PROVE SlotInv'
  <2>1. /\ token[r] = 0 /\ fence' = fence + 1 /\ leader' = fence + 1
        /\ token' = [token EXCEPT ![r] = fence + 1] /\ cand' = cand
    BY <1>3 DEF Acquire
  <2>2. Types'
    BY <1>1, <2>1 DEF SlotInv, Types
  <2>3. TokensDistinct'
    BY <2>1 DEF SlotInv, Types, TokensDistinct
  <2>4. ASSUME NEW q \in Replicas, cand'[q] # Nothing
        PROVE  token'[q] # 0 /\ leader' # token'[q]
    <3>1. q # r /\ token'[q] = token[q] /\ token[q] # 0
      BY <2>1, <2>4 DEF SlotInv, Types, CandidatesAdmissible
    <3> QED
      BY <2>1, <3>1 DEF SlotInv, Types, TokensDistinct
  <2> QED
    BY <2>2, <2>3, <2>4 DEF SlotInv, CandidatesAdmissible
<1>4. ASSUME NEW r \in Replicas, Leave(r) PROVE SlotInv'
  <2>1. /\ leader' \in {leader, 0} /\ fence' = fence
        /\ token' = [token EXCEPT ![r] = 0] /\ cand' = [cand EXCEPT ![r] = Nothing]
    BY <1>4 DEF Leave
  <2>2. Types'
    BY <1>1, <2>1 DEF SlotInv, Types
  <2>3. TokensDistinct'
    BY <2>1 DEF SlotInv, Types, TokensDistinct
  <2>4. ASSUME NEW q \in Replicas, cand'[q] # Nothing
        PROVE  /\ token'[q] # 0
               /\ leader' = token'[q] => cand'[q].slot >= floors'[cand'[q].commitment]
    <3>1. q # r /\ token'[q] = token[q] /\ cand'[q] = cand[q]
      BY <2>1, <2>4 DEF SlotInv, Types
    <3> QED
      BY <1>1, <2>1, <2>4, <3>1 DEF SlotInv, CandidatesAdmissible
  <2> QED
    BY <2>2, <2>3, <2>4 DEF SlotInv, CandidatesAdmissible
<1> QED
  BY <1>1, <1>2, <1>3, <1>4

LEMMA ReadPreserves ==
    ASSUME SlotInv, NEW q \in Reads, NEW s \in Slots, Admit(q, s) \/ Respond(q, s)
    PROVE  SlotInv' /\ Promise!Next
<1>1. UNCHANGED <<tip, fence, leader, floors, token, cand>>
  BY DEF Admit, Respond, storeVars, replicaVars
<1>2. CommitmentOf[q] \in Commitments /\ s \in Int /\ floors[CommitmentOf[q]] \in Int
  BY SlotAssumption DEF Slots, SlotInv, Types
<1>3. CASE Admit(q, s)
  <2> DEFINE f == Floor(floors[CommitmentOf[q]], s)
  <2>1. f \in Int /\ f >= floors[CommitmentOf[q]]
    BY <1>2, FloorIsAbove
  <2>2. /\ need[q] = NoFloor /\ floors[CommitmentOf[q]] # NoFloor
        /\ need' = [need EXCEPT ![q] = f] /\ slot' = slot
    BY <1>3 DEF Admit
  <2> HIDE DEF f
  <2>3. need' \in [Reads -> Int] /\ need'[q] = f
    BY <2>1, <2>2 DEF SlotInv, Types
  <2>4. Promise!Begin(q, need'[q])
    BY <1>1, <2>1, <2>2, <2>3 DEF Promise!Begin, Promise!NoFloor, NoFloor
  <2> QED
    BY <1>1, <2>2, <2>3, <2>4
       DEF Promise!Next, SlotInv, Types, TokensDistinct, CandidatesAdmissible
<1>4. CASE Respond(q, s)
  <2>1. /\ need[q] # NoFloor /\ slot[q] = NoFloor /\ s >= need[q]
        /\ slot' = [slot EXCEPT ![q] = s] /\ need' = need
    BY <1>4 DEF Respond
  <2>2. slot' \in [Reads -> Int] /\ slot'[q] = s
    BY <1>2, <2>1 DEF SlotInv, Types
  <2>3. Promise!Answer(q, slot'[q])
    BY <1>1, <2>1, <2>2 DEF Promise!Answer, Promise!NoFloor, NoFloor
  <2> QED
    BY <1>1, <2>1, <2>2, <2>3
       DEF Promise!Next, SlotInv, Types, TokensDistinct, CandidatesAdmissible
<1> QED
  BY <1>3, <1>4

LEMMA NextPreserves ==
    ASSUME SameTerm = FALSE, SlotInv, [Next]_vars
    PROVE  SlotInv' /\ [Promise!Next]_<<floors, need, slot>>
<1>1. CASE UNCHANGED vars
  BY <1>1 DEF vars, storeVars, replicaVars, readVars, SlotInv, Types, TokensDistinct,
              CandidatesAdmissible
<1>2. ASSUME NEW c \in Commitments, NewSlot(c)
      PROVE  SlotInv' /\ UNCHANGED <<floors, need, slot>>
  <2>1. /\ tip' = [tip EXCEPT ![c] = @ + 1]
        /\ UNCHANGED <<fence, leader, floors, token, cand, need, slot>>
    BY <1>2 DEF NewSlot, storeVars, replicaVars, readVars
  <2> QED
    BY <2>1 DEF SlotInv, Types, TokensDistinct, CandidatesAdmissible
<1>3. ASSUME NEW r \in Replicas, Publish(r) \/ Unanswered(r)
      PROVE  SlotInv' /\ [Promise!Next]_<<floors, need, slot>>
  <2>1. /\ cand[r] # Nothing
        /\ PublishScript(token[r], cand[r]) \/ UNCHANGED floors
        /\ cand' = [cand EXCEPT ![r] = Nothing]
        /\ UNCHANGED <<tip, fence, leader, need, slot>>
    BY <1>3 DEF Publish, Unanswered, readVars
  <2>2. token' \in {token, [token EXCEPT ![r] = 0]}
    BY <1>3 DEF Publish, Unanswered, SlotInv, Types
  <2> QED
    BY <2>1, <2>2, WritePreserves
<1>4. ASSUME NEW w \in late, Arrive(w) PROVE SlotInv' /\ UNCHANGED <<floors, need, slot>>
  <2>1. UNCHANGED <<tip, fence, leader, floors, token, cand, need, slot>>
    BY <1>4 DEF Arrive, PublishScript, replicaVars, readVars
  <2> QED
    BY <2>1 DEF SlotInv, Types, TokensDistinct, CandidatesAdmissible
<1> QED
  BY <1>1, <1>2, <1>3, <1>4, LeasePreserves, ConsiderPreserves, ReadPreserves DEF Next

(***************************************************************************)
(* Unless a delayed write overtakes a later one of its own term, replicas  *)
(* and gateways implement SlotPromise: no floor ever goes down, and every  *)
(* read is answered from a slot at or above the floor it found.            *)
(***************************************************************************)
THEOREM ImplementsSlotPromise ==
    ASSUME SameTerm = FALSE
    PROVE  Spec => KeepsPromise
<1>1. Init => SlotInv /\ Promise!Init
  <2> SUFFICES ASSUME Init PROVE SlotInv /\ Promise!Init
    OBVIOUS
  <2>1. Types
    BY DEF Init, Types, NoFloor
  <2> QED
    BY <2>1 DEF Init, SlotInv, TokensDistinct, CandidatesAdmissible, Promise!Init, NoFloor,
                Promise!NoFloor
<1>2. SlotInv /\ [Next]_vars => SlotInv' /\ [Promise!Next]_<<floors, need, slot>>
  BY NextPreserves
<1> QED
  BY <1>1, <1>2, PTL DEF Spec, KeepsPromise, Promise!Spec

-----------------------------------------------------------------------------
(* Attempts that arrive at any time. *)

\* Everything that may still be written was reported by a provider.
Reached(w) == w.commitment \in Commitments /\ w.slot \in 0..tip[w.commitment]

ReachedInv ==
    /\ TypeOK
    /\ cand \in [Replicas -> Observation \cup {Nothing}]
    /\ \A r \in Replicas : cand[r] # Nothing => Reached(cand[r])
    /\ \A w \in late : Reached(w.write)

\* What was reached stays reached, and a publish of it is a floor of the chain's.
LEMMA PublishReached ==
    ASSUME ReachedInv, NEW t, NEW w, Reached(w), PublishScript(t, w), UNCHANGED tip
    PROVE  /\ floors' \in [Commitments -> Slots \cup {NoFloor}]
           /\ \A c \in Commitments : floors'[c] <= tip'[c]
<1>1. /\ tip \in [Commitments -> Slots] /\ floors \in [Commitments -> Slots \cup {NoFloor}]
      /\ \A c \in Commitments : floors[c] <= tip[c]
  BY DEF ReachedInv, TypeOK
<1>2. w.commitment \in Commitments /\ w.slot \in Slots /\ w.slot <= tip[w.commitment]
  BY <1>1, SlotAssumption DEF Reached, Slots
<1> QED
  BY <1>1, <1>2 DEF PublishScript

LEMMA ReachedPreserved ==
    ASSUME ReachedInv, [Next]_vars
    PROVE  ReachedInv'
<1>1. CASE UNCHANGED vars
  BY <1>1 DEF vars, storeVars, replicaVars, readVars, ReachedInv, TypeOK, Reached
<1>2. ASSUME NEW c \in Commitments, NewSlot(c) PROVE ReachedInv'
  <2>1. /\ tip[c] < MaxSlot /\ tip' = [tip EXCEPT ![c] = @ + 1]
        /\ UNCHANGED <<faults, fence, leader, floors, token, cand, late, need, slot>>
    BY <1>2 DEF NewSlot, storeVars, replicaVars, readVars
  <2>2. tip' \in [Commitments -> Slots] /\ \A d \in Commitments : tip[d] <= tip'[d]
    BY <2>1, SlotAssumption DEF ReachedInv, TypeOK, Slots
  <2>3. \A w : Reached(w) => Reached(w)'
    BY <2>2 DEF ReachedInv, TypeOK, Reached, Slots
  <2>4. \A d \in Commitments : floors'[d] <= tip'[d]
    BY <2>1, <2>2, SlotAssumption DEF ReachedInv, TypeOK, Slots, NoFloor
  <2> QED
    BY <2>1, <2>2, <2>3, <2>4 DEF ReachedInv, TypeOK
<1>3. ASSUME Expire \/ \E r \in Replicas : Acquire(r) \/ Leave(r) PROVE ReachedInv'
  <2>1. UNCHANGED <<tip, faults, floors, late, need, slot>>
    BY <1>3 DEF Expire, Acquire, Leave, readVars
  <2>2. /\ fence' \in 0..MaxFence /\ leader' \in 0..fence' /\ token' \in [Replicas -> 0..fence']
        /\ cand' \in [Replicas -> Observation \cup {Nothing}]
        /\ \A r \in Replicas : cand'[r] \in {cand[r], Nothing}
    <3>1. CASE Expire
      BY <3>1 DEF Expire, replicaVars, ReachedInv, TypeOK
    <3>2. ASSUME NEW r \in Replicas, Acquire(r)
          PROVE  /\ fence' \in 0..MaxFence /\ leader' \in 0..fence'
                 /\ token' \in [Replicas -> 0..fence'] /\ cand' = cand
                 /\ cand' \in [Replicas -> Observation \cup {Nothing}]
      BY <3>2, SlotAssumption DEF Acquire, ReachedInv, TypeOK
    <3>3. ASSUME NEW r \in Replicas, Leave(r)
          PROVE  /\ fence' \in 0..MaxFence /\ leader' \in 0..fence'
                 /\ token' \in [Replicas -> 0..fence']
                 /\ cand' \in [Replicas -> Observation \cup {Nothing}]
                 /\ \A q \in Replicas : cand'[q] \in {cand[q], Nothing}
      <4>1. fence' = fence /\ leader' \in {leader, 0} /\ token' = [token EXCEPT ![r] = 0]
            /\ cand' = [cand EXCEPT ![r] = Nothing]
        BY <3>3 DEF Leave
      <4> QED
        BY <4>1 DEF ReachedInv, TypeOK
    <3> QED
      BY <1>3, <3>1, <3>2, <3>3
  <2> QED
    BY <2>1, <2>2 DEF ReachedInv, TypeOK, Reached
<1>4. ASSUME NEW r \in Replicas, NEW c \in Commitments,
             NEW answers \in (SUBSET (0..tip[c])) \ {{}}, Consider(r, c, answers)
      PROVE  ReachedInv'
  <2>1. tip[c] \in Nat
    BY SlotAssumption DEF ReachedInv, TypeOK, Slots
  <2>2. SelectFreshest(answers) \in 0..tip[c]
    BY <2>1, FreshestIsReported
  <2>3. /\ cand' = [cand EXCEPT ![r] = [commitment |-> c, slot |-> SelectFreshest(answers)]]
        /\ UNCHANGED <<tip, faults, fence, leader, floors, token, late, need, slot>>
    BY <1>4 DEF Consider, storeVars, readVars
  <2>4. /\ cand' \in [Replicas -> Observation \cup {Nothing}]
        /\ \A q \in Replicas : cand'[q] # Nothing => Reached(cand'[q])
    <3>1. [commitment |-> c, slot |-> SelectFreshest(answers)] \in Observation
      BY <2>1, <2>2 DEF Observation
    <3>2. Reached([commitment |-> c, slot |-> SelectFreshest(answers)])
      BY <2>2 DEF Reached
    <3> QED
      BY <2>3, <3>1, <3>2 DEF ReachedInv
  <2> QED
    BY <2>3, <2>4 DEF ReachedInv, TypeOK, Reached
<1>5. ASSUME NEW r \in Replicas, Publish(r) \/ Unanswered(r) PROVE ReachedInv'
  <2>1. /\ cand[r] # Nothing /\ Reached(cand[r])
        /\ PublishScript(token[r], cand[r]) \/ UNCHANGED floors
        /\ cand' = [cand EXCEPT ![r] = Nothing]
        /\ late' \subseteq late \cup {[token |-> token[r], write |-> cand[r]]}
        /\ UNCHANGED <<tip, fence, leader, need, slot>>
    BY <1>5 DEF Publish, Unanswered, readVars, ReachedInv
  <2>2. faults' \in 0..MaxFaults /\ token' \in [Replicas -> 0..fence]
    BY <1>5, SlotAssumption DEF Publish, Unanswered, ReachedInv, TypeOK
  <2>3. /\ floors' \in [Commitments -> Slots \cup {NoFloor}]
        /\ \A c \in Commitments : floors'[c] <= tip'[c]
    BY <2>1, PublishReached DEF ReachedInv, TypeOK
  <2>4. TypeOK'
    BY <2>1, <2>2, <2>3 DEF ReachedInv, TypeOK
  <2>5. /\ cand' \in [Replicas -> Observation \cup {Nothing}]
        /\ \A q \in Replicas : cand'[q] # Nothing => Reached(cand[q])'
    BY <2>1 DEF ReachedInv, Reached
  <2>6. \A w \in late' : Reached(w.write)'
    BY <2>1 DEF ReachedInv, Reached
  <2> QED
    BY <2>4, <2>5, <2>6 DEF ReachedInv, Reached
<1>6. ASSUME NEW w \in late, Arrive(w) PROVE ReachedInv'
  <2>1. /\ PublishScript(w.token, w.write) /\ Reached(w.write) /\ late' \subseteq late
        /\ UNCHANGED <<tip, faults, fence, leader, token, cand, need, slot>>
    BY <1>6 DEF Arrive, replicaVars, readVars, ReachedInv
  <2>2. /\ floors' \in [Commitments -> Slots \cup {NoFloor}]
        /\ \A c \in Commitments : floors'[c] <= tip'[c]
    BY <2>1, PublishReached
  <2> QED
    BY <2>1, <2>2 DEF ReachedInv, TypeOK, Reached
<1>7. ASSUME NEW q \in Reads, NEW s \in Slots, Admit(q, s) \/ Respond(q, s) PROVE ReachedInv'
  <2>1. UNCHANGED <<tip, faults, fence, leader, floors, token, cand, late>>
    BY <1>7 DEF Admit, Respond, storeVars, replicaVars
  <2>2. CommitmentOf[q] \in Commitments /\ floors[CommitmentOf[q]] \in Slots \cup {NoFloor}
    BY SlotAssumption DEF ReachedInv, TypeOK
  <2>3. Floor(floors[CommitmentOf[q]], s) \in {floors[CommitmentOf[q]], s}
    BY <2>2, FloorIsAbove, SlotAssumption DEF Slots, NoFloor
  <2>4. /\ need' \in [Reads -> Slots \cup {NoFloor}]
        /\ slot' \in [Reads -> Slots \cup {NoFloor}]
    BY <1>7, <2>2, <2>3 DEF Admit, Respond, ReachedInv, TypeOK
  <2> QED
    BY <2>1, <2>4 DEF ReachedInv, TypeOK, Reached
<1> QED
  BY <1>1, <1>2, <1>3, <1>4, <1>5, <1>6, <1>7 DEF Next

(***************************************************************************)
(* Whatever SameTerm says: a late write can lower a floor, but no floor is *)
(* ever above the slots the chain has reached, so that a read which asks   *)
(* for no more than the floor can be answered.                             *)
(***************************************************************************)
THEOREM FloorsAreReachable == Spec => []TypeOK
<1>1. Init => ReachedInv
  BY SlotAssumption DEF Init, ReachedInv, TypeOK, Slots, NoFloor
<1>2. ReachedInv /\ [Next]_vars => ReachedInv'
  BY ReachedPreserved
<1>3. ReachedInv => TypeOK
  BY DEF ReachedInv
<1> QED
  BY <1>1, <1>2, <1>3, PTL DEF Spec
=============================================================================
