------------------------- MODULE CoordinatorProofs -------------------------
(***************************************************************************)
(* Why at most one branch is accepted in an epoch, and how the reorg fence *)
(* goes up and comes down, for any number of replicas, providers, blocks,  *)
(* leadership terms, faults and abandoned writes: which late writes can    *)
(* lower the fence (LateWrites) and on which evidence the coordinators do  *)
(* (Recovery).  And why the gateways may rely on it (Proxy): what is       *)
(* proved of a batch, of receipts and of a session under AcceptedHead      *)
(* holds over these coordinators.                                          *)
(***************************************************************************)
EXTENDS Proxy, Recovery, TLAPS

(***************************************************************************)
(* Fencing tokens: none is ahead of the counter and no two replicas hold   *)
(* the same one, even if they share an owner name.                         *)
(***************************************************************************)
TokensDistinct ==
    /\ leader # NoToken => leader.fence <= fence
    /\ \A r \in Replicas : token[r] # NoToken => token[r].fence <= fence
    /\ \A r, s \in Replicas : token[r] # NoToken /\ token[r] = token[s] => r = s

(***************************************************************************)
(* What consider has established about cand and cur when it gets to a      *)
(* phase.                                                                  *)
(***************************************************************************)
Established(r) ==
    /\ pc[r] = "initial" => cur[r] = NoHead
    /\ pc[r] = "validate" => cur[r] # NoHead
    /\ pc[r] \in {"beginFork", "beginFail"} => cur[r] # NoHead /\ ~cur[r].pending
    /\ pc[r] = "beginFork" => Sound(cand[r])
    /\ pc[r] = "evidence" => /\ cur[r] # NoHead /\ cur[r].pending
                             /\ Sound(cand[r]) \/ cand[r] = cur[r].block
    /\ pc[r] = "publish" => \/ cur[r] = NoHead /\ Sound(cand[r])
                            \/ cur[r] # NoHead /\ cand[r] = cur[r].block
                            \/ cur[r] # NoHead /\ cur[r].pending /\ Sound(cand[r])
                            \/ cur[r] # NoHead /\ Extends(cur[r].block, cand[r]) /\ Sound(cand[r])

\* The generation counter is the generation of the stored head.
GenerationStored ==
    /\ head = NoHead => generation = 0
    /\ head # NoHead => head.generation = generation

IInv ==
    /\ TypeOK
    /\ TokensDistinct
    /\ LeaseholderSeesStoredHead
    /\ \A r \in Replicas : Established(r)
    /\ GenerationStored
    /\ AcceptedHeadIsSound

-----------------------------------------------------------------------------
\* r is the only replica whose state changes.
OnlyChanges(r) ==
    \A s \in Replicas \ {r} :
        pc'[s] = pc[s] /\ token'[s] = token[s] /\ cand'[s] = cand[s] /\ cur'[s] = cur[s]

(***************************************************************************)
(* A step of one replica preserves the invariant if it leaves that replica *)
(* in order and changes the stored head only under the lease.  This is     *)
(* where the distinct tokens are used: nobody else is the leaseholder.     *)
(***************************************************************************)
LEMMA ReplicaStep ==
    ASSUME IInv, TypeOK', NEW r \in Replicas, OnlyChanges(r),
           token'[r] \in {token[r], NoToken},
           leader' \in {leader, NoToken}, fence' = fence,
           head' # head => leader = token[r] /\ token[r] # NoToken,
           pc'[r] \in Considering /\ leader' = token'[r] => cur'[r] = head',
           Established(r)', GenerationStored', AcceptedHeadIsSound'
    PROVE  IInv'
<1>1. TokensDistinct'
  <2>1. leader' # NoToken => leader'.fence <= fence'
    BY DEF IInv, TokensDistinct
  <2>2. ASSUME NEW s \in Replicas, token'[s] # NoToken PROVE token'[s] = token[s]
    BY <2>2 DEF OnlyChanges
  <2> QED
    BY <2>1, <2>2 DEF IInv, TokensDistinct
<1>2. LeaseholderSeesStoredHead'
  <2> SUFFICES ASSUME NEW s \in Replicas, pc'[s] \in Considering, leader' = token'[s]
               PROVE  cur'[s] = head'
    BY DEF LeaseholderSeesStoredHead
  <2>1. CASE s = r
    BY <2>1
  <2>2. CASE s # r
    <3>1. /\ pc[s] \in Considering /\ cur'[s] = cur[s]
          /\ token'[s] = token[s] /\ token[s] # NoToken
      BY <2>2 DEF OnlyChanges, IInv, TypeOK, Considering
    <3>2. leader = token[s]
      BY <3>1
    <3>3. head' = head
      BY <2>2, <3>1, <3>2 DEF IInv, TokensDistinct
    <3> QED
      BY <3>1, <3>2, <3>3 DEF IInv, LeaseholderSeesStoredHead
  <2> QED
    BY <2>1, <2>2
<1>3. ASSUME NEW s \in Replicas PROVE Established(s)'
  <2>1. CASE s = r
    BY <2>1
  <2>2. CASE s # r
    BY <2>2 DEF OnlyChanges, IInv, Established, Sound, Extends, Linked
  <2> QED
    BY <2>1, <2>2
<1> QED
  BY <1>1, <1>2, <1>3 DEF IInv

(***************************************************************************)
(* What Continue and Drop, the two ways a step of consider ends, leave.    *)
(***************************************************************************)
LEMMA ContinueStep ==
    ASSUME TypeOK, NEW r \in Replicas, pc[r] # "follower",
           NEW next \in Considering \cup {"idle"}, NEW b \in Blocks,
           NEW h \in HeadRecord \cup {NoHead},
           Continue(r, next, b, h),
           StoreTypeOK', view' = view, faults' \in Nat, token' = token,
           buffered' \in [Replicas -> SUBSET Blocks]
    PROVE  /\ TypeOK' /\ OnlyChanges(r) /\ pc'[r] = next /\ token'[r] = token[r]
           /\ next # "idle" => cand'[r] = b /\ cur'[r] = h
<1>1. /\ pc' \in [Replicas -> Phases]
      /\ cand' \in [Replicas -> Blocks \cup {NoBlock}]
      /\ cur' \in [Replicas -> HeadRecord \cup {NoHead}]
  BY DEF Continue, TypeOK, Phases
<1>2. answers' \in [Replicas -> [Providers -> Answers]]
  BY DEF Continue, TypeOK, Answers, Silent
<1>3. /\ pc'[r] = next
      /\ cand'[r] = IF next = "idle" THEN NoBlock ELSE b
      /\ cur'[r] = IF next = "idle" THEN NoHead ELSE h
  BY DEF Continue, TypeOK
<1>4. OnlyChanges(r)
  BY DEF Continue, TypeOK, OnlyChanges
<1>5. ASSUME NEW s \in Replicas
      PROVE  /\ (token[s] = NoToken)' <=> (pc[s] = "follower")'
             /\ (cand[s] = NoBlock)' <=> (pc[s] \notin Considering)'
             /\ pc'[s] \notin Considering => cur'[s] = NoHead
  BY <1>3, <1>4, HeaderAssumption DEF OnlyChanges, TypeOK, Considering
<1> QED
  BY <1>1, <1>2, <1>3, <1>4, <1>5 DEF TypeOK

LEMMA DropStep ==
    ASSUME TypeOK, NEW r \in Replicas, NEW next \in {"leaving", "follower"},
           Drop(r, next), StoreTypeOK', view' = view, faults' \in Nat,
           \/ next = "leaving" /\ pc[r] # "follower" /\ token' = token
           \/ next = "follower" /\ token' = [token EXCEPT ![r] = NoToken]
    PROVE  TypeOK' /\ OnlyChanges(r) /\ pc'[r] = next /\ token'[r] \in {token[r], NoToken}
<1>1. /\ pc' \in [Replicas -> Phases]
      /\ token' \in [Replicas -> Token \cup {NoToken}]
      /\ buffered' \in [Replicas -> SUBSET Blocks]
      /\ cand' \in [Replicas -> Blocks \cup {NoBlock}]
      /\ cur' \in [Replicas -> HeadRecord \cup {NoHead}]
  BY DEF Drop, TypeOK, Phases
<1>2. answers' \in [Replicas -> [Providers -> Answers]]
  BY DEF Drop, TypeOK, Answers, Silent
<1>3. /\ pc'[r] = next /\ cand'[r] = NoBlock /\ cur'[r] = NoHead
      /\ token'[r] = IF next = "leaving" THEN token[r] ELSE NoToken
      /\ next = "leaving" => pc[r] # "follower"
  BY DEF Drop, TypeOK
<1>4. OnlyChanges(r)
  BY DEF Drop, TypeOK, OnlyChanges
<1>5. ASSUME NEW s \in Replicas
      PROVE  /\ (token[s] = NoToken)' <=> (pc[s] = "follower")'
             /\ (cand[s] = NoBlock)' <=> (pc[s] \notin Considering)'
             /\ pc'[s] \notin Considering => cur'[s] = NoHead
  BY <1>3, <1>4 DEF OnlyChanges, TypeOK, Considering
<1> QED
  BY <1>1, <1>2, <1>3, <1>4, <1>5 DEF TypeOK

-----------------------------------------------------------------------------
(* Steps that begin or end a term. *)

\* A new token is unlike every token handed out before.
LEMMA NewToken ==
    ASSUME IInv, NEW o \in Owners, AcquireScript(o)
    PROVE  /\ StoreTypeOK'
           /\ leader' = NextToken(o) /\ leader' \in Token /\ leader' # NoToken
           /\ fence' = fence + 1 /\ leader'.fence = fence'
           /\ UNCHANGED <<head, generation>>
           /\ \A s \in Replicas : token[s] # leader'
<1>1. /\ leader' = NextToken(o) /\ leader' \in Token /\ leader'.fence = fence + 1
      /\ UNCHANGED <<head, generation, events>> /\ fence' = fence + 1
  BY DEF AcquireScript, NextToken, Token, IInv, TypeOK, StoreTypeOK
<1>2. leader' # NoToken
  BY <1>1, StoreAssumption DEF Token
<1>3. ASSUME NEW s \in Replicas PROVE token[s] # leader'
  BY <1>1, <1>2 DEF IInv, TokensDistinct, TypeOK, StoreTypeOK, Token
<1> QED
  BY <1>1, <1>2, <1>3 DEF IInv, TypeOK, StoreTypeOK

LEMMA AcquirePreserves ==
    ASSUME IInv, NEW r \in Replicas, Acquire(r)
    PROVE  IInv'
<1> DEFINE t == leader'
<1>1. /\ StoreTypeOK' /\ t = NextToken(OwnerOf[r]) /\ t \in Token /\ t # NoToken
      /\ fence' = fence + 1 /\ t.fence = fence' /\ UNCHANGED <<head, generation>>
      /\ \A s \in Replicas : token[s] # t
  BY NewToken, CoordinatorAssumption DEF Acquire
<1>2. /\ token' = [token EXCEPT ![r] = t] /\ pc' = [pc EXCEPT ![r] = "idle"]
      /\ pc[r] = "follower" /\ UNCHANGED <<view, faults, buffered, cand, cur, answers>>
  BY <1>1 DEF Acquire, considering
<1> HIDE DEF t
<1>3. TypeOK'
  BY <1>1, <1>2 DEF IInv, TypeOK, Phases, Considering
<1>4. TokensDistinct'
  <2>1. /\ leader' # NoToken => leader'.fence <= fence'
        /\ fence \in Nat
    BY <1>1, <1>3 DEF TypeOK, StoreTypeOK, t, IInv
  <2>2. ASSUME NEW s \in Replicas, s # r PROVE token'[s] = token[s]
    BY <1>2, <2>2 DEF IInv, TypeOK
  <2>3. token'[r] = t
    BY <1>2 DEF IInv, TypeOK
  <2>4. ASSUME NEW s \in Replicas, token'[s] # NoToken PROVE token'[s].fence <= fence'
    <3>1. CASE s = r
      BY <1>1, <2>1, <2>3, <3>1
    <3>2. CASE s # r
      BY <1>1, <2>1, <2>2, <2>4, <3>2 DEF IInv, TokensDistinct, TypeOK, Token
    <3> QED
      BY <3>1, <3>2
  <2>5. ASSUME NEW a \in Replicas, NEW b \in Replicas, token'[a] # NoToken, token'[a] = token'[b]
        PROVE  a = b
    BY <1>1, <2>2, <2>3, <2>5 DEF IInv, TokensDistinct
  <2> QED
    BY <2>1, <2>4, <2>5 DEF TokensDistinct
<1>5. LeaseholderSeesStoredHead'
  BY <1>1, <1>2 DEF IInv, TypeOK, LeaseholderSeesStoredHead, Considering, t
<1>6. ASSUME NEW s \in Replicas PROVE Established(s)'
  <2>1. pc'[s] = IF s = r THEN "idle" ELSE pc[s]
    BY <1>2 DEF IInv, TypeOK
  <2> QED
    BY <1>2, <2>1 DEF IInv, Established, Sound, Extends, Linked
<1>7. GenerationStored' /\ AcceptedHeadIsSound'
  BY <1>1 DEF IInv, GenerationStored, AcceptedHeadIsSound, Sound, Linked
<1> QED
  BY <1>3, <1>4, <1>5, <1>6, <1>7 DEF IInv

\* The store alone changes: the lease is lost, or goes to a token nobody holds.
LEMMA AcquireReplyLostPreserves ==
    ASSUME IInv, NEW r \in Replicas, AcquireReplyLost(r)
    PROVE  IInv'
<1>1. /\ StoreTypeOK' /\ leader' # NoToken /\ leader'.fence = fence'
      /\ fence' = fence + 1 /\ UNCHANGED <<head, generation>>
      /\ \A s \in Replicas : token[s] # leader'
  BY NewToken, CoordinatorAssumption DEF AcquireReplyLost
<1>2. /\ UNCHANGED <<view, pc, token, buffered, cand, cur, answers>>
      /\ faults' \in Nat
  BY DEF AcquireReplyLost, Fault, replicaVars, considering, IInv, TypeOK
<1>3. TypeOK'
  BY <1>1, <1>2 DEF IInv, TypeOK
<1>4. TokensDistinct'
  BY <1>1, <1>2 DEF IInv, TokensDistinct, TypeOK, StoreTypeOK, Token
<1>5. LeaseholderSeesStoredHead'
  BY <1>1, <1>2 DEF LeaseholderSeesStoredHead
<1>6. /\ \A s \in Replicas : Established(s)'
      /\ GenerationStored' /\ AcceptedHeadIsSound'
  BY <1>1, <1>2 DEF IInv, Established, Sound, Extends, Linked, GenerationStored,
                    AcceptedHeadIsSound
<1> QED
  BY <1>3, <1>4, <1>5, <1>6 DEF IInv

LEMMA LeaseExpiresPreserves ==
    ASSUME IInv, LeaseExpires
    PROVE  IInv'
<1>1. /\ leader' = NoToken /\ UNCHANGED <<fence, head, generation, events>>
      /\ UNCHANGED <<view, faults, pc, token, buffered, cand, cur, answers>>
  BY DEF LeaseExpires, Expire, replicaVars, considering
<1>2. TypeOK'
  BY <1>1 DEF IInv, TypeOK, StoreTypeOK
<1>3. TokensDistinct' /\ LeaseholderSeesStoredHead'
  BY <1>1 DEF IInv, TypeOK, TokensDistinct, LeaseholderSeesStoredHead, Considering
<1>4. /\ \A s \in Replicas : Established(s)'
      /\ GenerationStored' /\ AcceptedHeadIsSound'
  BY <1>1 DEF IInv, Established, Sound, Extends, Linked, GenerationStored,
              AcceptedHeadIsSound
<1> QED
  BY <1>2, <1>3, <1>4 DEF IInv

\* The invariants of a store whose head is left alone.
LEMMA SameHead ==
    ASSUME IInv, UNCHANGED <<head, generation>>
    PROVE  GenerationStored' /\ AcceptedHeadIsSound'
BY DEF IInv, GenerationStored, AcceptedHeadIsSound, Sound, Linked

LEMMA LeavingPreserves ==
    ASSUME IInv, NEW r \in Replicas, LeaseLost(r) \/ RenewFails(r) \/ Crash(r)
    PROVE  IInv'
<1>1. /\ UNCHANGED storeVars /\ UNCHANGED view /\ faults' \in Nat
      /\ \E next \in {"leaving", "follower"} :
           /\ Drop(r, next)
           /\ \/ next = "leaving" /\ pc[r] # "follower" /\ token' = token
              \/ next = "follower" /\ token' = [token EXCEPT ![r] = NoToken]
  BY DEF LeaseLost, RenewFails, Crash, Fault, Leading, Considering, IInv, TypeOK
<1>2. StoreTypeOK' /\ UNCHANGED <<leader, fence, head, generation>>
  BY <1>1 DEF storeVars, IInv, TypeOK, StoreTypeOK
<1>3. /\ TypeOK' /\ OnlyChanges(r) /\ pc'[r] \in {"leaving", "follower"}
      /\ token'[r] \in {token[r], NoToken}
  BY <1>1, <1>2, DropStep DEF IInv
<1>4. Established(r)'
  BY <1>3 DEF Established
<1> QED
  BY <1>2, <1>3, <1>4, ReplicaStep, SameHead DEF Considering

LEMMA ReleasePreserves ==
    ASSUME IInv, NEW r \in Replicas, Release(r)
    PROVE  IInv'
<1>1. /\ pc[r] = "leaving" /\ pc' = [pc EXCEPT ![r] = "follower"]
      /\ token' = [token EXCEPT ![r] = NoToken]
      /\ leader' \in {leader, NoToken}
      /\ UNCHANGED <<fence, head, generation, events>>
      /\ UNCHANGED <<view, faults, buffered, cand, cur, answers>>
  BY DEF Release, ReleaseScript, considering
<1>2. TypeOK'
  BY <1>1 DEF IInv, TypeOK, StoreTypeOK, Phases, Considering
<1>3. OnlyChanges(r) /\ pc'[r] = "follower" /\ token'[r] = NoToken
  BY <1>1 DEF OnlyChanges, IInv, TypeOK
<1>4. Established(r)'
  BY <1>3 DEF Established
<1> QED
  BY <1>1, <1>2, <1>3, <1>4, ReplicaStep, SameHead DEF Considering

-----------------------------------------------------------------------------
(* Steps of the providers, and of consider. *)

\* Observations and answers are not part of the argument.
LEMMA ObservationPreserves ==
    ASSUME IInv, UNCHANGED <<storeVars, pc, token, cand, cur>>,
           view' \in [Providers -> Blocks], faults' \in Nat,
           buffered' \in [Replicas -> SUBSET Blocks],
           answers' \in [Replicas -> [Providers -> Answers]]
    PROVE  IInv'
<1>1. TypeOK'
  BY DEF IInv, TypeOK, StoreTypeOK, storeVars
<1> QED
  BY <1>1 DEF IInv, TokensDistinct, LeaseholderSeesStoredHead, Established, Sound, Extends,
              Linked, GenerationStored, AcceptedHeadIsSound, storeVars

(***************************************************************************)
(* A step of consider that leaves the store alone preserves the invariant  *)
(* if the next phase's facts are established, and if the accepted head it  *)
(* goes on with is the one in cur or the one in the store.                 *)
(***************************************************************************)
LEMMA ConsiderStep ==
    ASSUME IInv, NEW r \in Replicas, pc[r] # "follower",
           NEW next \in Considering \cup {"idle"}, NEW b \in Blocks,
           NEW h \in HeadRecord \cup {NoHead},
           Continue(r, next, b, h),
           h = head \/ (h = cur[r] /\ pc[r] \in Considering),
           UNCHANGED <<storeVars, view, token>>, faults' \in Nat,
           buffered' \in [Replicas -> SUBSET Blocks],
           pc'[r] = next /\ (next # "idle" => cand'[r] = b /\ cur'[r] = h) => Established(r)'
    PROVE  IInv'
<1>1. StoreTypeOK' /\ UNCHANGED <<leader, fence, head, generation>>
  BY DEF storeVars, IInv, TypeOK, StoreTypeOK
<1>2. /\ TypeOK' /\ OnlyChanges(r) /\ pc'[r] = next /\ token'[r] = token[r]
      /\ next # "idle" => cand'[r] = b /\ cur'[r] = h
  BY <1>1, ContinueStep DEF IInv
<1>3. next # "idle" /\ leader' = token'[r] => cur'[r] = head'
  BY <1>1, <1>2 DEF IInv, LeaseholderSeesStoredHead
<1>4. pc'[r] \in Considering /\ leader' = token'[r] => cur'[r] = head'
  BY <1>2, <1>3 DEF Considering
<1> QED
  BY <1>1, <1>2, <1>4, ReplicaStep, SameHead

LEMMA ConsiderPreserves ==
    ASSUME IInv, NEW r \in Replicas, Consider(r)
    PROVE  IInv'
<1>1. PICK b \in buffered[r] : /\ buffered' = [buffered EXCEPT ![r] = @ \ {b}]
                               /\ Continue(r, FirstPhase(b), b, head)
  BY DEF Consider
<1>2. b \in Blocks /\ head \in HeadRecord \cup {NoHead} /\ pc[r] # "follower"
  BY <1>1 DEF IInv, TypeOK, StoreTypeOK, Consider
<1>3. FirstPhase(b) \in Considering \cup {"idle"}
  BY <1>2, HeaderAssumption DEF FirstPhase, Considering
<1>4. ASSUME pc'[r] = FirstPhase(b), FirstPhase(b) # "idle" => cand'[r] = b /\ cur'[r] = head
      PROVE  Established(r)'
  BY <1>2, <1>4, HeaderAssumption DEF FirstPhase, Established, Sound
<1>5. /\ UNCHANGED <<storeVars, view, token>> /\ faults' \in Nat
      /\ buffered' \in [Replicas -> SUBSET Blocks]
  BY <1>1 DEF Consider, IInv, TypeOK
<1> QED
  BY <1>1, <1>2, <1>3, <1>4, <1>5, ConsiderStep

LEMMA VerifyInitialParentPreserves ==
    ASSUME IInv, NEW r \in Replicas, VerifyInitialParent(r)
    PROVE  IInv'
<1> DEFINE next == IF Linked(cand[r]) THEN "publish" ELSE "idle"
<1>1. /\ pc[r] = "initial" /\ Continue(r, next, cand[r], cur[r])
      /\ UNCHANGED <<storeVars, view, faults, token, buffered>>
  BY DEF VerifyInitialParent
<1>2. cand[r] \in Blocks /\ cur[r] \in HeadRecord \cup {NoHead} /\ cur[r] = NoHead
  BY <1>1 DEF IInv, TypeOK, Established, Considering
<1>3. ASSUME pc'[r] = next, next # "idle" => cand'[r] = cand[r] /\ cur'[r] = cur[r]
      PROVE  Established(r)'
  BY <1>2, <1>3 DEF Established, Sound, Linked
<1>4. faults' \in Nat /\ buffered' \in [Replicas -> SUBSET Blocks]
  BY <1>1 DEF IInv, TypeOK
<1> QED
  BY <1>1, <1>2, <1>3, <1>4, ConsiderStep DEF Considering

\* The contract of the walk establishes what the next phase relies on.
LEMMA WalkPreserves ==
    ASSUME IInv, NEW r \in Replicas, pc[r] = "validate",
           NEW clean \in BOOLEAN, Walk(r, clean),
           UNCHANGED <<storeVars, view, token, buffered>>, faults' \in Nat
    PROVE  IInv'
<1> DEFINE b == cand[r]
           h == cur[r]
<1>1. b \in Blocks /\ h \in HeadRecord /\ h # NoHead /\ h.pending \in BOOLEAN /\ h.block \in Blocks
  BY DEF IInv, TypeOK, Established, Considering, HeadRecord
<1>2. PICK o \in TransitionOutcomes(h.block, b, clean) :
        Continue(r, IF o.reported /\ ~h.pending
                    THEN IF o.result = "reorg" THEN "beginFork" ELSE "beginFail"
                    ELSE PhaseAfterWalk(o.result, b, h), b, h)
  BY DEF Walk
<1>3. /\ o.reported \in BOOLEAN /\ o.result \in {"same", "reorg", "error"}
      /\ o.result = "same" =>
           /\ ~o.reported
           /\ (Extends(h.block, b) /\ Sound(b)) \/ Number[b] < Number[h.block]
      /\ o.result = "reorg" => o.reported /\ Sound(b)
  BY DEF TransitionOutcomes, Outcome, Lags
<1> DEFINE next == IF o.reported /\ ~h.pending
                    THEN IF o.result = "reorg" THEN "beginFork" ELSE "beginFail"
                    ELSE PhaseAfterWalk(o.result, b, h)
<1>4. next \in Considering \cup {"idle"}
  BY <1>3 DEF PhaseAfterWalk, Considering
<1>5. ASSUME pc'[r] = next, next # "idle" => cand'[r] = b /\ cur'[r] = h
      PROVE  Established(r)'
  <2>1. Number[b] \in Nat /\ Number[h.block] \in Nat
    BY <1>1, HeaderAssumption
  <2>2. CASE o.reported /\ ~h.pending
    BY <1>1, <1>5, <2>2 DEF Established, Sound, Linked, TransitionOutcomes
  <2>3. CASE ~(o.reported /\ ~h.pending)
    BY <1>1, <1>3, <1>5, <2>1, <2>3 DEF Established, PhaseAfterWalk, Sound, Linked, Extends
  <2> QED
    BY <2>2, <2>3
<1>6. buffered' \in [Replicas -> SUBSET Blocks]
  BY DEF IInv, TypeOK
<1> QED
  BY <1>1, <1>2, <1>4, <1>5, <1>6, ConsiderStep DEF Considering

LEMMA HeaderRequestFailsPreserves ==
    ASSUME IInv, NEW r \in Replicas, HeaderRequestFails(r)
    PROVE  IInv'
<1>1. faults' \in Nat /\ UNCHANGED <<storeVars, view, token, buffered>>
  BY DEF HeaderRequestFails, Fault, IInv, TypeOK
<1>2. CASE pc[r] = "initial" /\ Continue(r, "idle", cand[r], cur[r])
  <2>1. cand[r] \in Blocks /\ cur[r] \in HeadRecord \cup {NoHead}
    BY <1>2 DEF IInv, TypeOK, Considering
  <2>2. pc'[r] = "idle" => Established(r)'
    BY DEF Established
  <2>3. buffered' \in [Replicas -> SUBSET Blocks]
    BY <1>1 DEF IInv, TypeOK
  <2> QED
    BY <1>1, <1>2, <2>1, <2>2, <2>3, ConsiderStep DEF Considering
<1>3. CASE pc[r] = "validate" /\ Walk(r, FALSE)
  BY <1>1, <1>3, WalkPreserves
<1> QED
  BY <1>2, <1>3 DEF HeaderRequestFails

LEMMA ConcludeEvidencePreserves ==
    ASSUME IInv, NEW r \in Replicas, ConcludeEvidence(r)
    PROVE  IInv'
<1>1. /\ cand[r] \in Blocks /\ cur[r] \in HeadRecord /\ cur[r] # NoHead
      /\ cur[r].pending /\ cur[r].block \in Blocks
      /\ Sound(cand[r]) \/ cand[r] = cur[r].block
  BY DEF ConcludeEvidence, IInv, TypeOK, Established, Considering, HeadRecord
<1>2. PICK next \in {"publish", "idle"}, b \in {cand[r], cur[r].block} :
        Continue(r, next, b, cur[r])
  BY DEF ConcludeEvidence
<1>3. ASSUME pc'[r] = next, next # "idle" => cand'[r] = b /\ cur'[r] = cur[r]
      PROVE  Established(r)'
  BY <1>1, <1>2, <1>3 DEF Established, Sound, Linked
<1>4. /\ UNCHANGED <<storeVars, view, token>> /\ faults' \in Nat
      /\ buffered' \in [Replicas -> SUBSET Blocks] /\ pc[r] = "evidence"
  BY DEF ConcludeEvidence, IInv, TypeOK
<1> QED
  BY <1>1, <1>2, <1>3, <1>4, ConsiderStep DEF Considering

-----------------------------------------------------------------------------
(* The writes. *)

LEMMA NoHeadIsNoRecord == NoHead \notin HeadRecord
BY StoreAssumption DEF HeadRecord

LEMMA SameRecord ==
    ASSUME NEW g \in HeadRecord, NEW h \in HeadRecord, g.block = h.block,
           g.epoch = h.epoch, g.pending = h.pending, g.generation = h.generation
    PROVE  g = h
BY DEF HeadRecord

LEMMA GuardedRecord ==
    ASSUME NEW h \in HeadRecord, ~h.pending
    PROVE  /\ Guarded(h) = [h EXCEPT !.epoch = @ + 1, !.pending = TRUE]
           /\ Guarded(h) \in HeadRecord /\ Guarded(h).pending
           /\ Guarded(h).block = h.block /\ Guarded(h).generation = h.generation
<1> DEFINE g == [h EXCEPT !.epoch = @ + 1]
<1>1. Guarded(h) = [g EXCEPT !.pending = TRUE]
  BY DEF Guarded
<1>2. g \in HeadRecord /\ g.block = h.block /\ g.generation = h.generation
  BY DEF HeadRecord
<1>3. Guarded(h) = [h EXCEPT !.epoch = @ + 1, !.pending = TRUE]
  BY DEF Guarded
<1> HIDE DEF g
<1> QED
  BY <1>1, <1>2, <1>3 DEF HeadRecord

(***************************************************************************)
(* Guarding an unguarded head under the lease is the abstract Fence; it    *)
(* moves nothing, and without the lease it does nothing.                   *)
(***************************************************************************)
LEMMA BeginReorgWrite ==
    ASSUME IInv, NEW r \in Replicas, pc[r] \in {"beginFork", "beginFail"},
           BeginReorgScript(token[r])
    PROVE  /\ StoreTypeOK' /\ UNCHANGED <<leader, fence, generation>>
           /\ token[r] # NoToken
           /\ head' # head => leader = token[r]
           /\ leader = token[r] => /\ head = cur[r] /\ head # NoHead /\ ~head.pending
                                   /\ head' = Guarded(head) /\ head' # NoHead
                                   /\ head'.pending /\ head'.block = head.block
           /\ GenerationStored' /\ AcceptedHeadIsSound'
           /\ Promise!Fence \/ UNCHANGED head
<1>1. token[r] # NoToken /\ pc[r] \in Considering
  BY DEF IInv, TypeOK, Considering
<1>2. UNCHANGED <<leader, fence, generation, events>>
  BY DEF BeginReorgScript
<1>3. CASE leader # token[r]
  <2>1. UNCHANGED head
    BY <1>3 DEF BeginReorgScript, BeginReorgAccepted
  <2> QED
    BY <1>1, <1>2, <1>3, <2>1, SameHead DEF IInv, TypeOK, StoreTypeOK
<1>4. CASE leader = token[r]
  <2>1. head = cur[r] /\ head # NoHead /\ ~head.pending /\ head \in HeadRecord
    BY <1>1, <1>4 DEF IInv, LeaseholderSeesStoredHead, Established, TypeOK, StoreTypeOK
  <2>2. head' = Guarded(head)
    BY <1>4, <2>1 DEF BeginReorgScript, BeginReorgAccepted
  <2>3. /\ head' \in HeadRecord /\ head'.pending
        /\ head'.block = head.block /\ head'.generation = head.generation
        /\ head' = [head EXCEPT !.epoch = @ + 1, !.pending = TRUE]
    BY <2>1, <2>2, GuardedRecord
  <2>4. head' # NoHead
    BY <2>3, NoHeadIsNoRecord
  <2>5. GenerationStored' /\ AcceptedHeadIsSound'
    BY <1>2, <2>1, <2>3, <2>4 DEF IInv, GenerationStored, AcceptedHeadIsSound, Sound, Linked
  <2> QED
    BY <1>1, <1>2, <1>4, <2>1, <2>2, <2>3, <2>4, <2>5
    DEF IInv, TypeOK, StoreTypeOK, Promise!Fence
<1> QED
  BY <1>3, <1>4

(***************************************************************************)
(* Publication under the lease is the abstract First, Advance or Recover,  *)
(* or changes nothing; without the lease it does nothing.                  *)
(***************************************************************************)
LEMMA PublishWrite ==
    ASSUME IInv, NEW r \in Replicas, pc[r] = "publish",
           PublishScript(token[r], cand[r], AckedEpoch(r))
    PROVE  /\ StoreTypeOK' /\ UNCHANGED <<leader, fence>> /\ token[r] # NoToken
           /\ head' # head => leader = token[r]
           /\ GenerationStored' /\ AcceptedHeadIsSound'
           /\ Promise!Next \/ UNCHANGED head
<1> DEFINE b == cand[r]
<1>1. token[r] # NoToken /\ pc[r] \in Considering /\ b \in Blocks
  BY DEF IInv, TypeOK, Considering
<1>2. CASE leader # token[r]
  <2>1. UNCHANGED storeVars
    BY <1>2 DEF PublishScript, PublishAccepted
  <2> QED
    BY <1>1, <1>2, <2>1, SameHead DEF IInv, TypeOK, StoreTypeOK, storeVars
<1>3. CASE leader = token[r]
  <2>1. head = cur[r] /\ PublishAccepted(token[r], AckedEpoch(r)) /\ AckedEpoch(r) = StoredEpoch
    BY <1>1, <1>3 DEF IInv, LeaseholderSeesStoredHead, PublishAccepted, StoredEpoch, AckedEpoch
  <2>2. generation \in Nat /\ head \in HeadRecord \cup {NoHead} /\ events \subseteq Event
    BY DEF IInv, TypeOK, StoreTypeOK
  <2>3. CASE head # NoHead /\ head.block = b
    <3>1. head' = [head EXCEPT !.pending = FALSE] /\ UNCHANGED <<leader, fence, generation, events>>
      BY <2>1, <2>3 DEF PublishScript
    <3>2. /\ head \in HeadRecord /\ head' \in HeadRecord /\ head' # NoHead
          /\ head'.block = head.block /\ head'.generation = head.generation
      BY <2>2, <2>3, <3>1, StoreAssumption DEF HeadRecord
    <3>3. CASE ~head.pending
      BY <3>1, <3>2, <3>3, <1>1, <1>3, SameHead DEF HeadRecord, IInv, TypeOK, StoreTypeOK
    <3>4. CASE head.pending
      <4>1. head' = Promise!MovedTo(b)
        <5>1. Promise!MovedTo(b) = [block |-> b, epoch |-> head.epoch, pending |-> FALSE,
                                    generation |-> head.generation]
          BY <2>3 DEF Promise!MovedTo
        <5>2. /\ head'.epoch = head.epoch /\ head'.pending = FALSE
              /\ Promise!MovedTo(b) \in HeadRecord
          BY <1>1, <3>1, <3>2, <5>1 DEF HeadRecord
        <5> QED
          BY <2>3, <3>2, <5>1, <5>2, SameRecord
      <4>2. Promise!Recover(b)
        BY <2>3, <3>4, <4>1 DEF Promise!Recover
      <4>3. GenerationStored' /\ AcceptedHeadIsSound'
        BY <2>3, <3>1, <3>2 DEF IInv, GenerationStored, AcceptedHeadIsSound, Sound, Linked
      <4> QED
        BY <1>1, <1>3, <3>1, <3>2, <4>2, <4>3 DEF Promise!Next, IInv, TypeOK, StoreTypeOK
    <3> QED
      BY <3>3, <3>4
  <2>4. CASE ~(head # NoHead /\ head.block = b)
    <3>1. /\ generation' = generation + 1 /\ UNCHANGED <<leader, fence>>
          /\ head' = [block |-> b, epoch |-> StoredEpoch, pending |-> FALSE,
                      generation |-> generation + 1]
          /\ events' = Retained(events \cup {[block |-> b, epoch |-> StoredEpoch,
                                              generation |-> generation + 1]},
                                generation + 1)
      BY <2>1, <2>4 DEF PublishScript
    <3>2. StoredEpoch \in Nat
      BY <2>2 DEF StoredEpoch, HeadRecord
    <3>3. /\ head' \in HeadRecord /\ head' # NoHead /\ head'.block = b
          /\ head'.generation = generation'
      <4>1. head' \in HeadRecord
        BY <1>1, <2>2, <3>1, <3>2 DEF HeadRecord
      <4> QED
        BY <3>1, <4>1, NoHeadIsNoRecord
    <3>4. StoreTypeOK'
      BY <1>1, <2>2, <3>1, <3>2, <3>3 DEF IInv, TypeOK, StoreTypeOK, Retained, Event
    <3>5. Sound(b)
      BY <2>1, <2>4 DEF IInv, Established
    <3>6. GenerationStored' /\ AcceptedHeadIsSound'
      BY <3>3, <3>5 DEF GenerationStored, AcceptedHeadIsSound, Sound, Linked
    <3>7. CASE head = NoHead
      <4>1. Promise!First(b)
        BY <3>1, <3>7 DEF Promise!First, StoredEpoch, IInv, GenerationStored
      <4> QED
        BY <1>1, <1>3, <3>1, <3>4, <3>6, <4>1 DEF Promise!Next
    <3>8. CASE head # NoHead
      <4>1. head' = Promise!MovedTo(b)
        <5>1. head \in HeadRecord /\ head.generation = generation /\ head.block # b
          BY <2>2, <2>4, <3>8 DEF IInv, GenerationStored
        <5> QED
          BY <3>1, <3>8, <5>1 DEF Promise!MovedTo, StoredEpoch
      <4>2. head.pending \/ Extends(head.block, b)
        BY <2>1, <2>4, <3>8 DEF IInv, Established
      <4>3. Promise!Recover(b) \/ Promise!Advance(b)
        BY <3>8, <4>1, <4>2 DEF Promise!Recover, Promise!Advance, Promise!Extends,
                                Promise!Linked, Extends, Linked
      <4> QED
        BY <1>1, <1>3, <3>1, <3>4, <3>6, <4>3 DEF Promise!Next
    <3> QED
      BY <3>7, <3>8
  <2> QED
    BY <2>3, <2>4
<1> QED
  BY <1>2, <1>3

LEMMA BeginReorgPreserves ==
    ASSUME IInv, NEW r \in Replicas, BeginReorg(r)
    PROVE  IInv' /\ (Promise!Fence \/ UNCHANGED head)
<1>1. /\ pc[r] \in {"beginFork", "beginFail"} /\ BeginReorgScript(token[r])
      /\ UNCHANGED <<view, faults, token>> /\ cand[r] \in Blocks
      /\ pc[r] = "beginFork" => Sound(cand[r])
  BY DEF BeginReorg, IInv, TypeOK, Considering, Established
<1>2. /\ StoreTypeOK' /\ UNCHANGED <<leader, fence, generation>> /\ token[r] # NoToken
      /\ head' # head => leader = token[r]
      /\ leader = token[r] => /\ head # NoHead /\ head' = Guarded(head) /\ head' # NoHead
                              /\ head'.pending /\ head'.block = head.block
      /\ GenerationStored' /\ AcceptedHeadIsSound'
      /\ Promise!Fence \/ UNCHANGED head
  BY <1>1, BeginReorgWrite
<1>3. faults' \in Nat
  BY <1>1 DEF IInv, TypeOK
<1>4. CASE leader # token[r]
  <2>1. Drop(r, "leaving") /\ pc[r] # "follower"
    BY <1>1, <1>4 DEF BeginReorg
  <2>2. TypeOK' /\ OnlyChanges(r) /\ pc'[r] = "leaving"
    BY <1>1, <1>2, <1>3, <2>1, DropStep DEF IInv
  <2>3. Established(r)'
    BY <2>2 DEF Established
  <2> QED
    BY <1>1, <1>2, <2>2, <2>3, ReplicaStep DEF Considering
<1>5. CASE leader = token[r]
  <2> DEFINE result == IF pc[r] = "beginFork" THEN "reorg" ELSE "error"
             next == PhaseAfterWalk(result, cand[r], head)
  <2>1. Continue(r, next, cand[r], head') /\ UNCHANGED buffered /\ pc[r] # "follower"
    BY <1>1, <1>2, <1>5 DEF BeginReorg
  <2>2. /\ next \in {"idle", "evidence", "publish"}
        /\ next # "idle" => pc[r] = "beginFork"
    BY DEF PhaseAfterWalk
  <2>3. /\ head' \in HeadRecord \cup {NoHead}
        /\ buffered' \in [Replicas -> SUBSET Blocks]
    BY <1>2, <2>1 DEF StoreTypeOK, IInv, TypeOK
  <2> HIDE DEF next
  <2>4. /\ TypeOK' /\ OnlyChanges(r) /\ pc'[r] = next /\ token'[r] = token[r]
        /\ next # "idle" => cand'[r] = cand[r] /\ cur'[r] = head'
    BY <1>1, <1>2, <1>3, <2>1, <2>2, <2>3, ContinueStep DEF IInv, Considering
  <2>5. Established(r)'
    BY <1>1, <1>2, <1>5, <2>2, <2>4 DEF Established, Sound, Linked
  <2>6. pc'[r] \in Considering => cur'[r] = head'
    BY <2>2, <2>4 DEF Considering
  <2> QED
    BY <1>1, <1>2, <1>5, <2>4, <2>5, <2>6, ReplicaStep
<1> QED
  BY <1>4, <1>5

\* After a write that this replica made or tried, it is idle or leaving.
LEMMA AfterWrite ==
    ASSUME IInv, NEW r \in Replicas, pc[r] \in {"publish", "beginFork", "beginFail"},
           StoreTypeOK', UNCHANGED <<leader, fence>>, token[r] # NoToken,
           head' # head => leader = token[r],
           GenerationStored', AcceptedHeadIsSound',
           UNCHANGED <<view, token>>, faults' \in Nat,
           \/ Drop(r, "leaving")
           \/ Continue(r, "idle", cand[r], cur[r]) /\ UNCHANGED buffered
    PROVE  IInv'
<1>1. /\ cand[r] \in Blocks /\ cur[r] \in HeadRecord \cup {NoHead}
      /\ pc[r] # "follower" /\ buffered \in [Replicas -> SUBSET Blocks]
  BY DEF IInv, TypeOK, Considering
<1>2. TypeOK' /\ OnlyChanges(r) /\ pc'[r] \in {"leaving", "idle"}
  <2>1. CASE Drop(r, "leaving")
    BY <1>1, <2>1, DropStep DEF IInv
  <2>2. CASE Continue(r, "idle", cand[r], cur[r]) /\ UNCHANGED buffered
    BY <1>1, <2>2, ContinueStep DEF IInv
  <2> QED
    BY <2>1, <2>2
<1>3. Established(r)'
  BY <1>2 DEF Established
<1> QED
  BY <1>2, <1>3, ReplicaStep DEF Considering

LEMMA PublishHeadPreserves ==
    ASSUME IInv, NEW r \in Replicas, PublishHead(r)
    PROVE  IInv' /\ (Promise!Next \/ UNCHANGED head)
<1>1. /\ pc[r] = "publish" /\ PublishScript(token[r], cand[r], AckedEpoch(r))
      /\ UNCHANGED <<view, token>> /\ faults' \in Nat
      /\ \/ Drop(r, "leaving")
         \/ Continue(r, "idle", cand[r], cur[r]) /\ UNCHANGED buffered
  BY DEF PublishHead, IInv, TypeOK
<1> QED
  BY <1>1, PublishWrite, AfterWrite

LEMMA WriteFailsPreserves ==
    ASSUME IInv, NEW r \in Replicas, WriteFails(r)
    PROVE  IInv' /\ (Promise!Next \/ UNCHANGED head)
<1>1. /\ UNCHANGED <<view, token, buffered>> /\ faults' \in Nat
      /\ Continue(r, "idle", cand[r], cur[r])
  BY DEF WriteFails, Fault, IInv, TypeOK
<1>2. CASE pc[r] = "publish" /\ PublishScript(token[r], cand[r], AckedEpoch(r))
  BY <1>1, <1>2, PublishWrite, AfterWrite
<1>3. CASE pc[r] \in {"beginFork", "beginFail"} /\ BeginReorgScript(token[r])
  BY <1>1, <1>3, BeginReorgWrite, AfterWrite DEF Promise!Next
<1>4. CASE pc[r] \in {"publish", "beginFork", "beginFail"} /\ UNCHANGED storeVars
  <2>1. StoreTypeOK' /\ UNCHANGED <<leader, fence, head, generation>>
    BY <1>4 DEF storeVars, IInv, TypeOK, StoreTypeOK
  <2>2. token[r] # NoToken
    BY <1>4 DEF IInv, TypeOK
  <2> QED
    BY <1>1, <1>4, <2>1, <2>2, AfterWrite, SameHead
<1> QED
  BY <1>2, <1>3, <1>4 DEF WriteFails

-----------------------------------------------------------------------------
LEMMA InitEstablishes == Init => IInv
<1> SUFFICES ASSUME Init PROVE IInv
  OBVIOUS
<1>1. TypeOK
  BY DEF Init, StoreInit, TypeOK, StoreTypeOK, Phases, Considering, Answers, Silent
<1>2. /\ TokensDistinct /\ LeaseholderSeesStoredHead
      /\ \A r \in Replicas : Established(r)
      /\ GenerationStored /\ AcceptedHeadIsSound
  BY DEF Init, StoreInit, TokensDistinct, LeaseholderSeesStoredHead, Considering, Established,
         GenerationStored, AcceptedHeadIsSound
<1> QED
  BY <1>1, <1>2 DEF IInv

\* Every step keeps the invariant and is a step of AcceptedHead or none.
LEMMA NextPreserves ==
    ASSUME IInv, [Next]_vars
    PROVE  IInv' /\ [Promise!Next]_head
<1>1. CASE UNCHANGED vars
  <2>1. /\ UNCHANGED <<storeVars, pc, token, cand, cur>> /\ UNCHANGED head
        /\ view' \in [Providers -> Blocks] /\ faults' \in Nat
        /\ buffered' \in [Replicas -> SUBSET Blocks]
        /\ answers' \in [Replicas -> [Providers -> Answers]]
    BY <1>1 DEF vars, storeVars, replicaVars, considering, IInv, TypeOK
  <2> QED
    BY <2>1, ObservationPreserves
<1>2. CASE LeaseExpires
  BY <1>2, LeaseExpiresPreserves DEF LeaseExpires, Expire
<1>3. ASSUME NEW p \in Providers, NEW b \in Blocks, ProviderMoves(p, b)
      PROVE  IInv' /\ UNCHANGED head
  <2>1. /\ UNCHANGED <<storeVars, pc, token, cand, cur>> /\ UNCHANGED head
        /\ view' \in [Providers -> Blocks] /\ faults' \in Nat
        /\ buffered' \in [Replicas -> SUBSET Blocks]
        /\ answers' \in [Replicas -> [Providers -> Answers]]
    BY <1>3 DEF ProviderMoves, storeVars, replicaVars, considering, IInv, TypeOK
  <2> QED
    BY <2>1, ObservationPreserves
<1>4. ASSUME NEW r \in Replicas,
             \/ Acquire(r) \/ AcquireReplyLost(r) \/ LeaseLost(r) \/ RenewFails(r)
             \/ Release(r) \/ Crash(r)
      PROVE  IInv' /\ UNCHANGED head
  <2>1. UNCHANGED head
    BY <1>4 DEF Acquire, AcquireReplyLost, AcquireScript, LeaseLost, RenewFails, Release,
                ReleaseScript, Crash, storeVars
  <2> QED
    BY <1>4, <2>1, AcquirePreserves, AcquireReplyLostPreserves, LeavingPreserves, ReleasePreserves
<1>5. ASSUME NEW r \in Replicas,
             \/ Consider(r) \/ VerifyInitialParent(r) \/ ValidateTransition(r)
             \/ HeaderRequestFails(r) \/ ConcludeEvidence(r)
      PROVE  IInv' /\ UNCHANGED head
  <2>1. UNCHANGED head
    BY <1>5 DEF Consider, VerifyInitialParent, ValidateTransition, HeaderRequestFails,
                ConcludeEvidence, storeVars
  <2>2. ASSUME ValidateTransition(r) PROVE IInv'
    <3>1. /\ pc[r] = "validate" /\ Walk(r, TRUE) /\ faults' \in Nat
          /\ UNCHANGED <<storeVars, view, token, buffered>>
      BY <2>2 DEF ValidateTransition, IInv, TypeOK
    <3> QED
      BY <3>1, WalkPreserves
  <2> QED
    BY <1>5, <2>1, <2>2, ConsiderPreserves, VerifyInitialParentPreserves,
       HeaderRequestFailsPreserves, ConcludeEvidencePreserves
<1>6. ASSUME NEW r \in Replicas, BeginReorg(r) \/ PublishHead(r) \/ WriteFails(r)
      PROVE  IInv' /\ (Promise!Next \/ UNCHANGED head)
  BY <1>6, BeginReorgPreserves, PublishHeadPreserves, WriteFailsPreserves DEF Promise!Next
<1>7. ASSUME NEW r \in Replicas, SnapshotFails(r)
      PROVE  IInv' /\ UNCHANGED head
  <2>1. PICK b \in buffered[r] : buffered' = [buffered EXCEPT ![r] = @ \ {b}]
    BY <1>7 DEF SnapshotFails
  <2>2. /\ UNCHANGED <<storeVars, pc, token, cand, cur>> /\ UNCHANGED head
        /\ view' \in [Providers -> Blocks] /\ faults' \in Nat
        /\ buffered' \in [Replicas -> SUBSET Blocks]
        /\ answers' \in [Replicas -> [Providers -> Answers]]
    BY <1>7, <2>1 DEF SnapshotFails, Fault, storeVars, considering, IInv, TypeOK
  <2> QED
    BY <2>2, ObservationPreserves
<1>8. ASSUME NEW r \in Replicas, NEW p \in Providers, Observe(r, p)
      PROVE  IInv' /\ UNCHANGED head
  <2>1. /\ UNCHANGED <<storeVars, pc, token, cand, cur>> /\ UNCHANGED head
        /\ view' \in [Providers -> Blocks] /\ faults' \in Nat
        /\ buffered' \in [Replicas -> SUBSET Blocks]
        /\ answers' \in [Replicas -> [Providers -> Answers]]
    BY <1>8 DEF Observe, storeVars, considering, IInv, TypeOK
  <2> QED
    BY <2>1, ObservationPreserves
<1>9. ASSUME NEW r \in Replicas, NEW p \in Providers, AskProvider(r, p) \/ AskFails(r, p)
      PROVE  IInv' /\ UNCHANGED head
  <2>1. PICK a \in Answers : answers' = [answers EXCEPT ![r][p] = a]
    BY <1>9 DEF AskProvider, AskFails, Answers
  <2>2. answers' \in [Replicas -> [Providers -> Answers]]
    BY <2>1 DEF IInv, TypeOK
  <2>3. /\ UNCHANGED <<storeVars, pc, token, cand, cur>> /\ UNCHANGED head
        /\ view' \in [Providers -> Blocks] /\ faults' \in Nat
        /\ buffered' \in [Replicas -> SUBSET Blocks]
    BY <1>9 DEF AskProvider, AskFails, Fault, storeVars, IInv, TypeOK
  <2> QED
    BY <2>2, <2>3, ObservationPreserves
<1> QED
  BY <1>1, <1>2, <1>3, <1>4, <1>5, <1>6, <1>7, <1>8, <1>9 DEF Next, BoundedStep, HeaderStep

(***************************************************************************)
(* The inductive invariant holds in every reachable state.                 *)
(***************************************************************************)
THEOREM Invariance == Spec => []IInv
BY InitEstablishes, NextPreserves, PTL DEF Spec

(***************************************************************************)
(* Every variable of store and coordinators keeps its type, and a replica  *)
(* has a token, a candidate and an accepted head only in the phases of     *)
(* consider that use them.                                                 *)
(***************************************************************************)
THEOREM TypeCorrect == Spec => []TypeOK
<1>1. IInv => TypeOK
  BY DEF IInv
<1> QED
  BY <1>1, Invariance, PTL

(***************************************************************************)
(* The leaseholder's snapshot is the stored head, for any number of        *)
(* replicas, shared owner names, lost replies and expired leases.          *)
(***************************************************************************)
THEOREM LeaseholderSafe == Spec => []LeaseholderSeesStoredHead
<1>1. IInv => LeaseholderSeesStoredHead
  BY DEF IInv
<1> QED
  BY <1>1, Invariance, PTL

(***************************************************************************)
(* No header whose parent or height does not link up becomes the accepted  *)
(* head, whatever headers the providers serve.                             *)
(***************************************************************************)
THEOREM AcceptedHeadSafe == Spec => []AcceptedHeadIsSound
<1>1. IInv => AcceptedHeadIsSound
  BY DEF IInv
<1> QED
  BY <1>1, Invariance, PTL

(***************************************************************************)
(* Redis scripts and coordinators implement AcceptedHead: the branch is    *)
(* left only under the fence and in a new epoch.                           *)
(***************************************************************************)
THEOREM ImplementsAcceptedHead == Spec => KeepsPromise
<1>1. Init => Promise!Init
  BY DEF Init, StoreInit, Promise!Init
<1>2. IInv /\ [Next]_vars => [Promise!Next]_head
  BY NextPreserves
<1> QED
  BY <1>1, <1>2, Invariance, PTL DEF Spec, KeepsPromise, Promise!Spec

-----------------------------------------------------------------------------
(* Attempts that arrive after their term ended. *)

\* The token check of both scripts turns a write of another term away.
LEMMA LateArrivalStutters ==
    ASSUME SameTerm = FALSE, NEW w, Arrive(w)
    PROVE  UNCHANGED vars
<1>1. leader # w.token /\ UNCHANGED <<view, faults, replicaVars>>
  BY DEF Arrive
<1>2. UNCHANGED storeVars
  BY <1>1 DEF Arrive, PublishScript, PublishAccepted, BeginReorgScript, BeginReorgAccepted,
              storeVars
<1> QED
  BY <1>1, <1>2 DEF vars

\* So no step of the connection's is a new step of the coordinators.
LEMMA LateStep ==
    ASSUME SameTerm = FALSE, [LateNext]_lateVars
    PROVE  [Next]_vars
<1>1. CASE UNCHANGED lateVars
  BY <1>1 DEF lateVars
<1>2. CASE Next /\ UNCHANGED copies
  BY <1>2
<1>3. ASSUME NEW r \in Replicas, Abandon(r) PROVE Next
  BY <1>3 DEF Abandon, Next
<1>4. ASSUME NEW w \in copies, Arrive(w) PROVE UNCHANGED vars
  BY <1>4, LateArrivalStutters
<1> QED
  BY <1>1, <1>2, <1>3, <1>4 DEF LateNext

(***************************************************************************)
(* As long as no attempt overtakes a later write of its own term, a client *)
(* that abandons and repeats its writes changes nothing: every behaviour   *)
(* is one of Coordinator, whose theorems all apply.                        *)
(***************************************************************************)
THEOREM AbandonedWritesAreHarmless ==
    ASSUME SameTerm = FALSE
    PROVE  LateSpec => Spec
<1>1. LateInit => Init
  BY DEF LateInit
<1>2. [LateNext]_lateVars => [Next]_vars
  BY LateStep
<1> QED
  BY <1>1, <1>2, PTL DEF LateSpec, Spec

(***************************************************************************)
(* The promise of AcceptedHead and the leaseholder's snapshot survive      *)
(* writes that are abandoned and arrive after their term.                  *)
(***************************************************************************)
THEOREM PromiseSurvivesLateWrites ==
    ASSUME SameTerm = FALSE
    PROVE  LateSpec => KeepsPromise /\ []LeaseholderSeesStoredHead
BY AbandonedWritesAreHarmless, ImplementsAcceptedHead, LeaseholderSafe, PTL

-----------------------------------------------------------------------------
(* Attempts that arrive at any time. *)

\* Phases in which consider compares its candidate with an accepted head.
Comparing == {"validate", "beginFork", "beginFail", "evidence"}

\* An attempt knows no later epoch than the stored one; if it knows the epoch
\* of the fence that is up, it was sent under that fence.
Dated(w) ==
    w.script = "publish" =>
        /\ w.block \in Blocks /\ w.epoch \in Nat /\ w.epoch <= StoredEpoch
        /\ Fenced /\ w.epoch = StoredEpoch => w.under = StoredEpoch

(***************************************************************************)
(* Even when attempts of the current term overtake each other, which       *)
(* defeats the leaseholder's snapshot, epochs only grow, so that neither a *)
(* snapshot nor an attempt is ahead of the store.                          *)
(***************************************************************************)
LateInv ==
    /\ TypeOK
    /\ \A r \in Replicas : cur[r] # NoHead => head # NoHead /\ cur[r].epoch <= head.epoch
    /\ \A r \in Replicas : pc[r] \in Comparing => cur[r] # NoHead
    /\ \A w \in copies : Dated(w)

\* The stored head stays, or its epoch does not fall and a fence that was down
\* goes up in a new one only.
HeadMoves ==
    \/ head' = head
    \/ /\ head' \in HeadRecord
       /\ head = NoHead => ~head'.pending
       /\ head # NoHead => /\ head.epoch <= head'.epoch
                           /\ head'.pending /\ head'.epoch = head.epoch => head.pending

\* Whatever snapshot a replica has, it had it before or took it now.
SnapshotsMove ==
    \A s \in Replicas : /\ cur'[s] \in {cur[s], NoHead, head, head'}
                        /\ pc'[s] \in Comparing => cur'[s] # NoHead

LEMMA StoredEpochGrows ==
    ASSUME LateInv, HeadMoves
    PROVE  /\ StoredEpoch \in Nat /\ StoredEpoch' \in Nat /\ StoredEpoch <= StoredEpoch'
           /\ Fenced' /\ StoredEpoch' = StoredEpoch => Fenced
           /\ head # NoHead => head' # NoHead /\ head.epoch <= head'.epoch
           /\ head = NoHead => ~Fenced'
BY NoHeadIsNoRecord DEF LateInv, TypeOK, StoreTypeOK, HeadMoves, StoredEpoch, Fenced, HeadRecord

LEMMA OldAttemptsStayDated ==
    ASSUME LateInv, HeadMoves, NEW w, Dated(w)
    PROVE  Dated(w)'
<1> SUFFICES ASSUME w.script = "publish"
             PROVE  /\ w.block \in Blocks /\ w.epoch \in Nat /\ w.epoch <= StoredEpoch'
                    /\ Fenced' /\ w.epoch = StoredEpoch' => w.under = StoredEpoch'
  BY DEF Dated
<1>1. w.block \in Blocks /\ w.epoch \in Nat /\ w.epoch <= StoredEpoch
  BY DEF Dated
<1>2. w.epoch <= StoredEpoch'
  BY <1>1, StoredEpochGrows
<1>3. ASSUME Fenced', w.epoch = StoredEpoch' PROVE w.under = StoredEpoch'
  <2>1. StoredEpoch' = StoredEpoch
    BY <1>1, <1>3, StoredEpochGrows
  <2>2. Fenced
    BY <1>3, <2>1, StoredEpochGrows
  <2> QED
    BY <1>3, <2>1, <2>2 DEF Dated
<1> QED
  BY <1>1, <1>2, <1>3

\* What an attempt says is true when it is sent, also if another copy of it is
\* executed at that moment.
LEMMA NewAttemptIsDated ==
    ASSUME LateInv, NEW r \in Replicas, pc[r] \in {"publish", "beginFork", "beginFail"}
    PROVE  Dated(WriteOf(r))
<1>1. CASE pc[r] = "publish"
  <2>1. /\ WriteOf(r).block = cand[r] /\ WriteOf(r).epoch = AckedEpoch(r)
        /\ WriteOf(r).under = FenceUp
    BY <1>1 DEF WriteOf
  <2>2. cand[r] \in Blocks
    BY <1>1 DEF LateInv, TypeOK, Considering
  <2>3. AckedEpoch(r) \in Nat /\ AckedEpoch(r) <= StoredEpoch
    BY DEF LateInv, TypeOK, StoreTypeOK, AckedEpoch, StoredEpoch, HeadRecord
  <2>4. Fenced => FenceUp = StoredEpoch
    BY DEF Fenced, FenceUp, StoredEpoch
  <2> QED
    BY <2>1, <2>2, <2>3, <2>4 DEF Dated
<1>2. CASE pc[r] # "publish"
  BY <1>2 DEF WriteOf, Dated
<1> QED
  BY <1>1, <1>2

LEMMA LateInvKept ==
    ASSUME LateInv, TypeOK', HeadMoves, SnapshotsMove,
           \A w \in copies' : w \in copies \/ Dated(w)
    PROVE  LateInv'
<1>1. ASSUME NEW r \in Replicas, cur'[r] # NoHead
      PROVE  head' # NoHead /\ cur'[r].epoch <= head'.epoch
  <2>1. CASE cur'[r] = cur[r]
    <3>1. head # NoHead /\ cur[r].epoch <= head.epoch /\ cur[r].epoch \in Nat
          /\ head.epoch \in Nat
      BY <1>1, <2>1 DEF LateInv, TypeOK, StoreTypeOK, HeadRecord
    <3>2. head' # NoHead /\ head.epoch <= head'.epoch /\ head'.epoch \in Nat
      BY <3>1, StoredEpochGrows DEF TypeOK, StoreTypeOK, HeadRecord
    <3> QED
      BY <2>1, <3>1, <3>2
  <2>2. CASE cur'[r] \in {head, head'}
    <3>1. head' # NoHead
      BY <1>1, <2>2, StoredEpochGrows
    <3>2. head'.epoch \in Nat
      BY <3>1 DEF TypeOK, StoreTypeOK, HeadRecord
    <3> QED
      BY <1>1, <2>2, <3>1, <3>2, StoredEpochGrows
  <2> QED
    BY <1>1, <2>1, <2>2 DEF SnapshotsMove
<1>2. \A r \in Replicas : pc'[r] \in Comparing => cur'[r] # NoHead
  BY DEF SnapshotsMove
<1>3. \A w \in copies' : Dated(w)'
  BY OldAttemptsStayDated DEF LateInv
<1> QED
  BY <1>1, <1>2, <1>3 DEF LateInv, Comparing

\* The scripts, whoever runs them.
LEMMA PublishMoves ==
    ASSUME LateInv, NEW t, NEW b \in Blocks, NEW e, PublishScript(t, b, e)
    PROVE  StoreTypeOK' /\ HeadMoves
<1>1. StoreTypeOK /\ StoredEpoch \in Nat
  BY DEF LateInv, TypeOK, StoreTypeOK, StoredEpoch, HeadRecord
<1>2. CASE ~PublishAccepted(t, e)
  BY <1>1, <1>2 DEF PublishScript, storeVars, StoreTypeOK, HeadMoves
<1>3. CASE PublishAccepted(t, e) /\ head # NoHead /\ head.block = b
  <2>1. /\ head' = [head EXCEPT !.pending = FALSE] /\ head \in HeadRecord
        /\ UNCHANGED <<leader, fence, generation, events>>
    BY <1>1, <1>3 DEF PublishScript, StoreTypeOK
  <2>2. head' \in HeadRecord /\ head'.epoch = head.epoch /\ ~head'.pending
    BY <2>1 DEF HeadRecord
  <2>3. HeadMoves
    BY <1>3, <2>1, <2>2 DEF HeadMoves, HeadRecord
  <2> QED
    BY <1>1, <2>1, <2>2, <2>3 DEF StoreTypeOK
<1>4. CASE PublishAccepted(t, e) /\ ~(head # NoHead /\ head.block = b)
  <2>1. /\ generation' = generation + 1 /\ UNCHANGED <<leader, fence>>
        /\ head' = [block |-> b, epoch |-> StoredEpoch, pending |-> FALSE,
                    generation |-> generation + 1]
        /\ events' = Retained(events \cup {[block |-> b, epoch |-> StoredEpoch,
                                            generation |-> generation + 1]},
                              generation + 1)
    BY <1>4 DEF PublishScript, PublishAccepted
  <2>2. head' \in HeadRecord /\ head'.epoch = StoredEpoch /\ ~head'.pending
    BY <1>1, <2>1 DEF HeadRecord, StoreTypeOK
  <2>3. StoreTypeOK'
    BY <1>1, <2>1, <2>2 DEF StoreTypeOK, Retained, Event
  <2>4. HeadMoves
    BY <1>1, <2>2 DEF HeadMoves, StoredEpoch
  <2> QED
    BY <2>3, <2>4
<1> QED
  BY <1>2, <1>3, <1>4

LEMMA BeginReorgMoves ==
    ASSUME LateInv, NEW t, BeginReorgScript(t)
    PROVE  StoreTypeOK' /\ HeadMoves
<1>1. StoreTypeOK /\ UNCHANGED <<leader, fence, generation, events>>
  BY DEF LateInv, TypeOK, BeginReorgScript
<1>2. CASE head' = head
  BY <1>1, <1>2 DEF StoreTypeOK, HeadMoves
<1>3. CASE head' # head
  <2>1. head \in HeadRecord /\ head # NoHead /\ head' = Guarded(head) /\ ~head.pending
    BY <1>1, <1>3 DEF BeginReorgScript, BeginReorgAccepted, StoreTypeOK, Guarded
  <2>2. Guarded(head) \in HeadRecord
    BY <2>1, GuardedRecord
  <2>3. Guarded(head) = [block |-> head.block, epoch |-> head.epoch + 1, pending |-> TRUE,
                         generation |-> head.generation]
    <3>1. Guarded(head) = [head EXCEPT !.epoch = @ + 1, !.pending = TRUE]
      BY <2>1 DEF Guarded
    <3> QED
      BY <2>1, <3>1 DEF HeadRecord
  <2>4. head'.epoch = head.epoch + 1 /\ head.epoch \in Nat
    BY <2>1, <2>3 DEF HeadRecord
  <2> QED
    BY <1>1, <2>1, <2>2, <2>4 DEF StoreTypeOK, HeadMoves
<1> QED
  BY <1>2, <1>3

\* A step of consider by r, whatever it did to the store.
LEMMA ContinueMoves ==
    ASSUME LateInv, NEW r \in Replicas, pc[r] # "follower",
           NEW next \in Considering \cup {"idle"}, NEW b \in Blocks,
           NEW h \in HeadRecord \cup {NoHead}, Continue(r, next, b, h),
           h \in {cur[r], head, head'}, next \in Comparing => h # NoHead,
           StoreTypeOK', view' = view, faults' \in Nat, token' = token,
           buffered' \in [Replicas -> SUBSET Blocks]
    PROVE  TypeOK' /\ SnapshotsMove
<1>1. /\ TypeOK' /\ OnlyChanges(r) /\ pc'[r] = next
      /\ next # "idle" => cur'[r] = h
  BY ContinueStep DEF LateInv
<1>2. next = "idle" => cur'[r] = NoHead
  BY <1>1 DEF TypeOK, Considering
<1> QED
  BY <1>1, <1>2 DEF SnapshotsMove, OnlyChanges, LateInv, Comparing

LEMMA DropMoves ==
    ASSUME LateInv, NEW r \in Replicas, NEW next \in {"leaving", "follower"},
           Drop(r, next), StoreTypeOK', view' = view, faults' \in Nat,
           \/ next = "leaving" /\ pc[r] # "follower" /\ token' = token
           \/ next = "follower" /\ token' = [token EXCEPT ![r] = NoToken]
    PROVE  TypeOK' /\ SnapshotsMove
<1>1. TypeOK' /\ OnlyChanges(r) /\ pc'[r] = next
  BY DropStep DEF LateInv
<1>2. cur'[r] = NoHead
  BY <1>1 DEF TypeOK, Considering
<1> QED
  BY <1>1, <1>2 DEF SnapshotsMove, OnlyChanges, LateInv, Comparing

\* The lease changes hands, or no replica moves at all.
LEMMA LeaseMoves ==
    ASSUME LateInv,
           \/ LeaseExpires
           \/ \E p \in Providers, b \in Blocks : ProviderMoves(p, b)
           \/ \E r \in Replicas :
                \/ Acquire(r) \/ AcquireReplyLost(r) \/ Release(r) \/ SnapshotFails(r)
                \/ \E p \in Providers : Observe(r, p) \/ AskProvider(r, p) \/ AskFails(r, p)
           \/ UNCHANGED vars
    PROVE  TypeOK' /\ HeadMoves /\ SnapshotsMove
<1>1. CASE LeaseExpires \/ UNCHANGED vars
  <2>1. /\ UNCHANGED <<fence, head, generation, events, view, faults, replicaVars>>
        /\ leader' \in {leader, NoToken}
    BY <1>1 DEF LeaseExpires, Expire, vars, storeVars
  <2> QED
    BY <2>1 DEF LateInv, TypeOK, StoreTypeOK, HeadMoves, SnapshotsMove, replicaVars, considering
<1>2. ASSUME NEW p \in Providers, NEW b \in Blocks, ProviderMoves(p, b)
      PROVE  TypeOK' /\ HeadMoves /\ SnapshotsMove
  BY <1>2 DEF ProviderMoves, LateInv, TypeOK, StoreTypeOK, HeadMoves, SnapshotsMove, storeVars,
              replicaVars, considering
<1>3. ASSUME NEW r \in Replicas, Acquire(r) \/ AcquireReplyLost(r)
      PROVE  TypeOK' /\ HeadMoves /\ SnapshotsMove
  <2>1. NextToken(OwnerOf[r]) \in Token
    BY CoordinatorAssumption DEF NextToken, Token, LateInv, TypeOK, StoreTypeOK
  <2>2. StoreTypeOK' /\ head' = head
    BY <1>3, <2>1 DEF Acquire, AcquireReplyLost, AcquireScript, LateInv, TypeOK, StoreTypeOK
  <2>3. CASE AcquireReplyLost(r)
    BY <2>2, <2>3 DEF AcquireReplyLost, Fault, LateInv, TypeOK, HeadMoves, SnapshotsMove,
                      replicaVars, considering
  <2>4. CASE Acquire(r)
    <3>1. /\ pc[r] = "follower" /\ pc' = [pc EXCEPT ![r] = "idle"]
          /\ token' = [token EXCEPT ![r] = NextToken(OwnerOf[r])]
          /\ UNCHANGED <<view, faults, buffered, cand, cur, answers>>
      BY <2>4 DEF Acquire, considering
    <3>2. NextToken(OwnerOf[r]) # NoToken
      BY <2>1, StoreAssumption DEF Token
    <3>3. TypeOK'
      BY <2>1, <2>2, <3>1, <3>2 DEF LateInv, TypeOK, Phases, Considering
    <3> QED
      BY <2>2, <3>1, <3>3 DEF HeadMoves, SnapshotsMove, LateInv, TypeOK, Comparing
  <2> QED
    BY <1>3, <2>3, <2>4
<1>4. ASSUME NEW r \in Replicas, Release(r)
      PROVE  TypeOK' /\ HeadMoves /\ SnapshotsMove
  <2>1. /\ pc[r] = "leaving" /\ pc' = [pc EXCEPT ![r] = "follower"]
        /\ token' = [token EXCEPT ![r] = NoToken] /\ leader' \in {leader, NoToken}
        /\ UNCHANGED <<fence, head, generation, events>>
        /\ UNCHANGED <<view, faults, buffered, cand, cur, answers>>
    BY <1>4 DEF Release, ReleaseScript, considering
  <2>2. TypeOK'
    BY <2>1 DEF LateInv, TypeOK, StoreTypeOK, Phases, Considering
  <2> QED
    BY <2>1, <2>2 DEF HeadMoves, SnapshotsMove, LateInv, TypeOK, Comparing
<1>5. ASSUME NEW r \in Replicas, SnapshotFails(r) \/ \E p \in Providers : Observe(r, p)
      PROVE  TypeOK' /\ HeadMoves /\ SnapshotsMove
  <2>1. /\ UNCHANGED <<storeVars, view, pc, token, considering>> /\ faults' \in Nat
        /\ buffered' \in [Replicas -> SUBSET Blocks]
    BY <1>5 DEF SnapshotFails, Observe, Fault, LateInv, TypeOK
  <2> QED
    BY <2>1 DEF LateInv, TypeOK, StoreTypeOK, HeadMoves, SnapshotsMove, storeVars, considering
<1>6. ASSUME NEW r \in Replicas, NEW p \in Providers, AskProvider(r, p) \/ AskFails(r, p)
      PROVE  TypeOK' /\ HeadMoves /\ SnapshotsMove
  <2>1. PICK a \in Answers : answers' = [answers EXCEPT ![r][p] = a]
    BY <1>6 DEF AskProvider, AskFails, Answers
  <2>2. answers' \in [Replicas -> [Providers -> Answers]]
    BY <2>1 DEF LateInv, TypeOK
  <2>3. /\ UNCHANGED <<storeVars, view, pc, token, buffered, cand, cur>> /\ faults' \in Nat
    BY <1>6 DEF AskProvider, AskFails, Fault, LateInv, TypeOK
  <2> QED
    BY <2>2, <2>3 DEF LateInv, TypeOK, StoreTypeOK, HeadMoves, SnapshotsMove, storeVars
<1> QED
  BY <1>1, <1>2, <1>3, <1>4, <1>5, <1>6

\* The steps of consider, and the ways a term ends.
LEMMA ConsiderMoves ==
    ASSUME LateInv, NEW r \in Replicas,
           \/ LeaseLost(r) \/ RenewFails(r) \/ Crash(r)
           \/ Consider(r) \/ VerifyInitialParent(r) \/ ValidateTransition(r)
           \/ HeaderRequestFails(r) \/ ConcludeEvidence(r)
    PROVE  TypeOK' /\ HeadMoves /\ SnapshotsMove
<1>1. UNCHANGED storeVars /\ UNCHANGED view /\ faults' \in Nat
  <2>1. UNCHANGED storeVars /\ UNCHANGED view
    BY DEF LeaseLost, RenewFails, Crash, Consider, VerifyInitialParent, ValidateTransition,
           HeaderRequestFails, ConcludeEvidence
  <2>2. faults' \in {faults, faults + 1}
    BY DEF LeaseLost, RenewFails, Crash, Consider, VerifyInitialParent, ValidateTransition,
           HeaderRequestFails, ConcludeEvidence, Fault
  <2> QED
    BY <2>1, <2>2 DEF LateInv, TypeOK
<1>2. StoreTypeOK' /\ HeadMoves
  BY <1>1 DEF storeVars, StoreTypeOK, HeadMoves, LateInv, TypeOK
<1>3. CASE LeaseLost(r) \/ RenewFails(r) \/ Crash(r)
  <2>1. \E next \in {"leaving", "follower"} :
          /\ Drop(r, next)
          /\ \/ next = "leaving" /\ pc[r] # "follower" /\ token' = token
             \/ next = "follower" /\ token' = [token EXCEPT ![r] = NoToken]
    BY <1>3 DEF LeaseLost, RenewFails, Crash, Leading, Considering
  <2> QED
    BY <1>1, <1>2, <2>1, DropMoves
<1>4. CASE Consider(r)
  <2>1. PICK b \in buffered[r] : /\ buffered' = [buffered EXCEPT ![r] = @ \ {b}]
                                 /\ Continue(r, FirstPhase(b), b, head)
    BY <1>4 DEF Consider
  <2>2. /\ b \in Blocks /\ head \in HeadRecord \cup {NoHead} /\ pc[r] # "follower"
        /\ token' = token /\ buffered' \in [Replicas -> SUBSET Blocks]
    BY <1>4, <2>1 DEF LateInv, TypeOK, StoreTypeOK, Consider
  <2>3. Number[b] \in Nat
    BY <2>2, HeaderAssumption
  <2>4. FirstPhase(b) \in Considering \cup {"idle"} /\ (FirstPhase(b) \in Comparing => head # NoHead)
    BY <2>3 DEF FirstPhase, Considering, Comparing
  <2> QED
    BY <1>1, <1>2, <2>1, <2>2, <2>4, ContinueMoves
<1>5. CASE \/ VerifyInitialParent(r) \/ ConcludeEvidence(r)
           \/ (HeaderRequestFails(r) /\ pc[r] = "initial")
  <2>1. /\ cand[r] \in Blocks /\ cur[r] \in HeadRecord \cup {NoHead} /\ pc[r] # "follower"
        /\ cur[r] # NoHead => cur[r].block \in Blocks
        /\ pc[r] = "evidence" => cur[r] # NoHead
        /\ token' = token /\ buffered' \in [Replicas -> SUBSET Blocks]
    BY <1>5 DEF VerifyInitialParent, ConcludeEvidence, HeaderRequestFails, LateInv, TypeOK,
                Considering, Comparing, HeadRecord
  <2>2. PICK next \in {"publish", "idle"}, b \in Blocks : Continue(r, next, b, cur[r])
    BY <1>5, <2>1 DEF VerifyInitialParent, ConcludeEvidence, HeaderRequestFails
  <2> QED
    BY <1>1, <1>2, <2>1, <2>2, ContinueMoves DEF Considering, Comparing
<1>6. CASE ValidateTransition(r) \/ (HeaderRequestFails(r) /\ pc[r] = "validate")
  <2>1. /\ pc[r] = "validate" /\ cand[r] \in Blocks /\ cur[r] \in HeadRecord /\ cur[r] # NoHead
        /\ token' = token /\ buffered' \in [Replicas -> SUBSET Blocks]
    BY <1>6 DEF ValidateTransition, HeaderRequestFails, LateInv, TypeOK, Considering, Comparing
  <2>2. PICK clean \in BOOLEAN : Walk(r, clean)
    BY <1>6 DEF ValidateTransition, HeaderRequestFails
  <2>3. PICK o \in Outcome :
          Continue(r, IF o.reported /\ ~cur[r].pending
                      THEN IF o.result = "reorg" THEN "beginFork" ELSE "beginFail"
                      ELSE PhaseAfterWalk(o.result, cand[r], cur[r]),
                   cand[r], cur[r])
    BY <2>2 DEF Walk, TransitionOutcomes
  <2> DEFINE next == IF o.reported /\ ~cur[r].pending
                      THEN IF o.result = "reorg" THEN "beginFork" ELSE "beginFail"
                      ELSE PhaseAfterWalk(o.result, cand[r], cur[r])
  <2>4. next \in Considering \cup {"idle"}
    BY DEF PhaseAfterWalk, Outcome, Considering
  <2>5. Continue(r, next, cand[r], cur[r]) /\ pc[r] # "follower"
    BY <2>1, <2>3
  <2> HIDE DEF next
  <2> QED
    BY <1>1, <1>2, <2>1, <2>4, <2>5, ContinueMoves
<1>7. HeaderRequestFails(r) => pc[r] \in {"initial", "validate"}
  BY DEF HeaderRequestFails
<1> QED
  BY <1>2, <1>3, <1>4, <1>5, <1>6, <1>7

LEMMA WriteMoves ==
    ASSUME LateInv, NEW r \in Replicas, BeginReorg(r) \/ PublishHead(r) \/ WriteFails(r)
    PROVE  TypeOK' /\ HeadMoves /\ SnapshotsMove
<1>1. /\ UNCHANGED <<view, token>> /\ faults' \in Nat
      /\ pc[r] \in {"publish", "beginFork", "beginFail"} /\ pc[r] # "follower"
      /\ cand[r] \in Blocks /\ cur[r] \in HeadRecord \cup {NoHead}
      /\ buffered \in [Replicas -> SUBSET Blocks]
  BY DEF BeginReorg, PublishHead, WriteFails, Fault, LateInv, TypeOK, Considering
<1>2. StoreTypeOK' /\ HeadMoves
  <2>1. CASE UNCHANGED storeVars
    BY <2>1 DEF storeVars, StoreTypeOK, HeadMoves, LateInv, TypeOK
  <2>2. CASE PublishScript(token[r], cand[r], AckedEpoch(r))
    BY <1>1, <2>2, PublishMoves
  <2>3. CASE BeginReorgScript(token[r])
    BY <2>3, BeginReorgMoves
  <2> QED
    BY <2>1, <2>2, <2>3 DEF BeginReorg, PublishHead, WriteFails
<1>3. CASE Drop(r, "leaving")
  BY <1>1, <1>2, <1>3, DropMoves
<1>4. CASE Continue(r, "idle", cand[r], cur[r]) /\ UNCHANGED buffered
  BY <1>1, <1>2, <1>4, ContinueMoves DEF Comparing
<1>5. CASE BeginReorg(r) /\ leader = token[r]
  <2> DEFINE next == PhaseAfterWalk(IF pc[r] = "beginFork" THEN "reorg" ELSE "error",
                                     cand[r], head)
  <2>1. head # NoHead
    BY <1>5 DEF BeginReorg, LateInv, Comparing
  <2>2. head' = Guarded(head)
    BY <1>5, <2>1 DEF BeginReorg, BeginReorgScript, BeginReorgAccepted
  <2>3. head' \in HeadRecord /\ head' # NoHead
    BY <1>2, <2>1, StoredEpochGrows DEF StoreTypeOK
  <2>4. next \in Considering \cup {"idle"}
    BY DEF PhaseAfterWalk, Considering
  <2>5. (Continue(r, next, cand[r], head') /\ UNCHANGED buffered) \/ Drop(r, "leaving")
    BY <1>5, <2>2 DEF BeginReorg
  <2> HIDE DEF next
  <2> QED
    BY <1>1, <1>2, <1>3, <2>3, <2>4, <2>5, ContinueMoves
<1> QED
  BY <1>2, <1>3, <1>4, <1>5 DEF BeginReorg, PublishHead, WriteFails

LEMMA NextMoves ==
    ASSUME LateInv, [Next]_vars
    PROVE  TypeOK' /\ HeadMoves /\ SnapshotsMove
BY LeaseMoves, ConsiderMoves, WriteMoves DEF Next, BoundedStep, HeaderStep

LEMMA LateNextPreserves ==
    ASSUME LateInv, [LateNext]_lateVars
    PROVE  LateInv'
<1>1. CASE UNCHANGED lateVars \/ (Next /\ UNCHANGED copies)
  <2>1. [Next]_vars /\ copies' = copies
    BY <1>1 DEF lateVars
  <2> QED
    BY <2>1, NextMoves, LateInvKept DEF LateInv
<1>2. ASSUME NEW r \in Replicas, Abandon(r) PROVE LateInv'
  <2>1. WriteFails(r) /\ copies' = copies \cup {WriteOf(r)}
        /\ pc[r] \in {"publish", "beginFork", "beginFail"}
    BY <1>2 DEF Abandon, WriteFails
  <2>2. \A w \in copies' : w \in copies \/ Dated(w)
    BY <2>1, NewAttemptIsDated
  <2> QED
    BY <2>1, <2>2, WriteMoves, LateInvKept
<1>3. ASSUME NEW w \in copies, Arrive(w) PROVE LateInv'
  <2>1. UNCHANGED <<view, faults, pc, token, buffered, cand, cur, answers>>
        /\ copies' \subseteq copies
    BY <1>3 DEF Arrive, replicaVars, considering
  <2>2. StoreTypeOK' /\ HeadMoves
    <3>1. CASE w.script = "publish"
      BY <1>3, <3>1, PublishMoves DEF Arrive, LateInv, Dated
    <3>2. CASE w.script # "publish"
      BY <1>3, <3>2, BeginReorgMoves DEF Arrive
    <3> QED
      BY <3>1, <3>2
  <2>3. TypeOK' /\ SnapshotsMove
    BY <2>1, <2>2 DEF LateInv, TypeOK, SnapshotsMove
  <2> QED
    BY <2>1, <2>2, <2>3, LateInvKept
<1> QED
  BY <1>1, <1>2, <1>3 DEF LateNext

(***************************************************************************)
(* However late an attempt arrives, in its own term too, and whatever was  *)
(* written since: if the epoch check lets it through while the fence is    *)
(* up, it was sent under that very fence.                                  *)
(***************************************************************************)
THEOREM FreshWriteSafe == LateSpec => []FenceNeedsFreshWrite
<1>1. LateInit => LateInv
  <2> SUFFICES ASSUME LateInit PROVE LateInv
    OBVIOUS
  <2>1. Init /\ copies = {} /\ TypeOK
    BY InitEstablishes DEF LateInit, IInv
  <2> QED
    BY <2>1 DEF Init, LateInv, Comparing
<1>2. LateInv /\ [LateNext]_lateVars => LateInv'
  BY LateNextPreserves
<1>3. LateInv => FenceNeedsFreshWrite
  <2> SUFFICES ASSUME LateInv, NEW w \in copies, w.script = "publish",
                      PublishAccepted(w.token, w.epoch)
               PROVE  FenceUp \in {0, w.under}
    BY DEF FenceNeedsFreshWrite
  <2> QED
    BY DEF LateInv, Dated, PublishAccepted, FenceUp, Fenced, StoredEpoch
<1> QED
  BY <1>1, <1>2, <1>3, PTL DEF LateSpec

-----------------------------------------------------------------------------
(* On which evidence the coordinators lower the fence. *)

\* The fence of the stored head may come down on b.
Justified(b) ==
    \/ Number[b] > Number[head.block]
    \/ b = head.block /\ agreed # {} /\ Providers \ excused \subseteq agreed
    \/ b # head.block /\ departed # {} /\ Providers \ excused \subseteq departed

\* What provider p answered r has been so since r began to ask.
Recorded(r, p) ==
    /\ answers[r][p] # "none"
    /\ answers[r][p] = "match" => p \in agreed
    /\ answers[r][p] = "differ" => p \in departed
    /\ answers[r][p] = "skipped" => p \in excused

(***************************************************************************)
(* The leaseholder has collected its evidence, and chosen what to publish, *)
(* about the head that is fenced now.                                      *)
(***************************************************************************)
EvidenceHolds(r) ==
    leader = token[r] /\ Fenced =>
        /\ pc[r] = "evidence" => \A p \in Providers : Recorded(r, p)
        /\ pc[r] = "publish" => Justified(cand[r])

EvidenceInv == IInv /\ \A r \in Replicas : EvidenceHolds(r)

\* The record lasts as long as somebody may act on it, and grows as long as
\* somebody asks.
LEMMA HistoryGrows ==
    ASSUME Record, Fenced, Fenced', NEW r \in Replicas,
           pc[r] \in {"evidence", "publish"}, pc'[r] \in {"evidence", "publish"}
    PROVE  /\ agreed \subseteq agreed' /\ departed \subseteq departed' /\ excused \subseteq excused'
           /\ pc'[r] = "evidence" => /\ OnHead' \subseteq agreed' /\ OffHead' \subseteq departed'
                                     /\ Skipped' \subseteq excused'
<1>1. Judging /\ Judging' /\ (pc'[r] = "evidence" => Asking')
  BY DEF Judging, Asking
<1>2. /\ agreed' = agreed \cup (IF Asking' THEN OnHead' ELSE {})
      /\ departed' = departed \cup (IF Asking' THEN OffHead' ELSE {})
      /\ excused' = excused \cup (IF Asking' THEN Skipped' ELSE {})
  BY <1>1 DEF Record, Meanwhile
<1> QED
  BY <1>1, <1>2

\* A replica that does not move keeps its evidence as long as it leads.
LEMMA EvidenceStays ==
    ASSUME EvidenceInv, Record, NEW s \in Replicas,
           pc'[s] = pc[s], token'[s] = token[s], cand'[s] = cand[s], answers'[s] = answers[s],
           token[s] # NoToken /\ leader' = token[s] => leader = token[s] /\ head' = head
    PROVE  EvidenceHolds(s)'
<1> SUFFICES ASSUME leader' = token'[s], Fenced', pc[s] \in {"evidence", "publish"}
             PROVE  /\ pc[s] = "evidence" => \A p \in Providers : Recorded(s, p)'
                    /\ pc[s] = "publish" => Justified(cand[s])'
  BY DEF EvidenceHolds, Justified
<1>1. token[s] # NoToken
  BY DEF EvidenceInv, IInv, TypeOK
<1>2. leader = token[s] /\ head' = head /\ Fenced
  BY <1>1 DEF Fenced
<1>3. EvidenceHolds(s)
  BY DEF EvidenceInv
<1>4. /\ agreed \subseteq agreed' /\ departed \subseteq departed' /\ excused \subseteq excused'
  BY <1>2, HistoryGrows
<1>5. ASSUME pc[s] = "evidence", NEW p \in Providers PROVE Recorded(s, p)'
  BY <1>2, <1>3, <1>4, <1>5 DEF EvidenceHolds, Recorded
<1>6. ASSUME pc[s] = "publish" PROVE Justified(cand[s])'
  <2>1. Justified(cand[s])
    BY <1>2, <1>3, <1>6 DEF EvidenceHolds
  <2> QED
    BY <1>2, <1>4, <2>1 DEF Justified
<1> QED
  BY <1>5, <1>6

\* r moves, and nobody else; what others could write, only the leaseholder does.
LEMMA EvidenceOfOthers ==
    ASSUME EvidenceInv, IInv', Record, NEW r \in Replicas, OnlyChanges(r),
           \A s \in Replicas \ {r} : answers'[s] = answers[s],
           leader' \in {leader, NoToken},
           head' # head => leader = token[r] /\ token[r] # NoToken,
           EvidenceHolds(r)'
    PROVE  EvidenceInv'
<1>1. ASSUME NEW s \in Replicas \ {r} PROVE EvidenceHolds(s)'
  <2>1. /\ pc'[s] = pc[s] /\ token'[s] = token[s] /\ cand'[s] = cand[s]
        /\ answers'[s] = answers[s]
    BY DEF OnlyChanges
  <2>2. token[s] # NoToken /\ leader' = token[s] => leader = token[s] /\ head' = head
    BY DEF EvidenceInv, IInv, TokensDistinct
  <2> QED
    BY <2>1, <2>2, EvidenceStays
<1> QED
  BY <1>1 DEF EvidenceInv

LEMMA ContinueAnswers ==
    ASSUME TypeOK, NEW r \in Replicas, NEW next, NEW b, NEW h, Continue(r, next, b, h)
    PROVE  /\ \A s \in Replicas \ {r} : answers'[s] = answers[s]
           /\ next = "evidence" => \A p \in Providers : answers'[r][p] = "asked"
BY DEF Continue, TypeOK

LEMMA AskedIsRecorded ==
    ASSUME NEW r \in Replicas, \A p \in Providers : answers'[r][p] = "asked"
    PROVE  \A p \in Providers : Recorded(r, p)'
BY DEF Recorded

\* consider goes on without a write: evidence is asked for anew, and what is to
\* be published is justified if the fence is up.
LEMMA EvidenceContinues ==
    ASSUME EvidenceInv, IInv', Record, NEW r \in Replicas, pc[r] # "follower",
           NEW next \in Considering \cup {"idle"}, NEW b \in Blocks,
           NEW h \in HeadRecord \cup {NoHead}, Continue(r, next, b, h),
           UNCHANGED <<storeVars, view, token>>, faults' \in Nat,
           buffered' \in [Replicas -> SUBSET Blocks],
           next = "publish" /\ leader = token[r] /\ Fenced =>
               \/ Number[b] > Number[head.block]
               \/ pc[r] = "evidence" /\ Justified(b)
    PROVE  EvidenceInv'
<1>1. UNCHANGED <<leader, head>> /\ StoreTypeOK'
  BY DEF storeVars, IInv, TypeOK
<1>2. /\ OnlyChanges(r) /\ pc'[r] = next /\ token'[r] = token[r]
      /\ next # "idle" => cand'[r] = b /\ cur'[r] = h
  BY <1>1, ContinueStep DEF EvidenceInv, IInv
<1>3. \A s \in Replicas \ {r} : answers'[s] = answers[s]
  BY ContinueAnswers DEF EvidenceInv, IInv
<1>4. EvidenceHolds(r)'
  <2> SUFFICES ASSUME leader' = token'[r], Fenced'
               PROVE  /\ next = "evidence" => \A p \in Providers : Recorded(r, p)'
                      /\ next = "publish" => Justified(b)'
    BY <1>2 DEF EvidenceHolds, Justified
  <2>1. Fenced /\ leader = token[r]
    BY <1>1, <1>2 DEF Fenced
  <2>2. ASSUME next = "evidence" PROVE \A p \in Providers : Recorded(r, p)'
    BY <2>2, ContinueAnswers, AskedIsRecorded DEF EvidenceInv, IInv
  <2>3. ASSUME next = "publish" PROVE Justified(b)'
    <3>1. CASE Number[b] > Number[head.block]
      BY <1>1, <3>1 DEF Justified
    <3>2. CASE pc[r] = "evidence" /\ Justified(b)
      <4>1. /\ agreed \subseteq agreed' /\ departed \subseteq departed'
            /\ excused \subseteq excused'
        BY <1>2, <2>1, <2>3, <3>2, HistoryGrows
      <4> QED
        BY <1>1, <3>2, <4>1 DEF Justified
    <3> QED
      BY <2>1, <2>3, <3>1, <3>2
  <2> QED
    BY <2>2, <2>3
<1> QED
  BY <1>1, <1>2, <1>3, <1>4, EvidenceOfOthers

LEMMA ConsiderKeepsEvidence ==
    ASSUME EvidenceInv, IInv', Record, NEW r \in Replicas,
           \/ Consider(r) \/ VerifyInitialParent(r) \/ ValidateTransition(r)
           \/ HeaderRequestFails(r)
    PROVE  EvidenceInv'
<1>1. IInv /\ TypeOK
  BY DEF EvidenceInv, IInv
<1>2. /\ UNCHANGED <<storeVars, view, token>>
      /\ buffered' \in [Replicas -> SUBSET Blocks] /\ faults' \in Nat /\ pc[r] # "follower"
  BY DEF Consider, VerifyInitialParent, ValidateTransition, HeaderRequestFails, IInv, TypeOK
<1>3. CASE Consider(r)
  <2>1. PICK b \in buffered[r] : Continue(r, FirstPhase(b), b, head)
    BY <1>3 DEF Consider
  <2>2. b \in Blocks /\ head \in HeadRecord \cup {NoHead} /\ Number[b] \in Nat
    BY <1>1, <2>1, HeaderAssumption DEF TypeOK, StoreTypeOK
  <2>3. FirstPhase(b) \in Considering \cup {"idle"} /\ (FirstPhase(b) = "publish" => ~Fenced)
    BY <2>2 DEF FirstPhase, Considering, Fenced
  <2> QED
    BY <1>2, <2>1, <2>2, <2>3, EvidenceContinues
<1>4. CASE pc[r] = "initial"
  <2>1. /\ cand[r] \in Blocks /\ cur[r] = NoHead
        /\ leader = token[r] => ~Fenced
    BY <1>1, <1>4 DEF IInv, TypeOK, Considering, Established, LeaseholderSeesStoredHead, Fenced
  <2>2. PICK next \in {"publish", "idle"} : Continue(r, next, cand[r], cur[r])
    BY <1>4 DEF Consider, VerifyInitialParent, ValidateTransition, HeaderRequestFails
  <2> QED
    BY <1>2, <2>1, <2>2, EvidenceContinues DEF Considering
<1>5. CASE pc[r] = "validate"
  <2>1. /\ cand[r] \in Blocks /\ cur[r] \in HeadRecord
        /\ leader = token[r] => cur[r] = head
    BY <1>1, <1>5 DEF IInv, TypeOK, Considering, Established, LeaseholderSeesStoredHead
  <2>2. PICK clean \in BOOLEAN : Walk(r, clean)
    BY <1>5 DEF Consider, VerifyInitialParent, ValidateTransition, HeaderRequestFails
  <2>3. PICK o \in Outcome :
          Continue(r, IF o.reported /\ ~cur[r].pending
                      THEN IF o.result = "reorg" THEN "beginFork" ELSE "beginFail"
                      ELSE PhaseAfterWalk(o.result, cand[r], cur[r]),
                   cand[r], cur[r])
    BY <2>2 DEF Walk, TransitionOutcomes
  <2> DEFINE next == IF o.reported /\ ~cur[r].pending
                      THEN IF o.result = "reorg" THEN "beginFork" ELSE "beginFail"
                      ELSE PhaseAfterWalk(o.result, cand[r], cur[r])
  <2>4. Number[cand[r]] \in Nat /\ Number[cur[r].block] \in Nat
    BY <2>1, HeaderAssumption DEF HeadRecord
  <2>5. /\ next \in Considering \cup {"idle"}
        /\ next = "publish" => Number[cand[r]] > Number[cur[r].block]
    BY <2>4 DEF PhaseAfterWalk, Outcome, Considering
  <2>6. Continue(r, next, cand[r], cur[r])
    BY <2>3
  <2> HIDE DEF next
  <2>7. next = "publish" /\ leader = token[r] /\ Fenced => Number[cand[r]] > Number[head.block]
    BY <2>1, <2>5
  <2> QED
    BY <1>2, <2>1, <2>5, <2>6, <2>7, EvidenceContinues
<1> QED
  BY <1>3, <1>4, <1>5 DEF VerifyInitialParent, ValidateTransition, HeaderRequestFails

\* The evidence that was collected justifies what is published on it.
LEMMA ConcludeKeepsEvidence ==
    ASSUME EvidenceInv, IInv', Record, NEW r \in Replicas, ConcludeEvidence(r)
    PROVE  EvidenceInv'
<1>1. /\ IInv /\ TypeOK /\ pc[r] = "evidence" /\ cand[r] \in Blocks /\ cur[r] \in HeadRecord
      /\ cur[r].block \in Blocks
      /\ leader = token[r] => cur[r] = head
      /\ UNCHANGED <<storeVars, view, faults, token, buffered>>
      /\ buffered' \in [Replicas -> SUBSET Blocks] /\ faults' \in Nat
  BY DEF ConcludeEvidence, EvidenceInv, IInv, TypeOK, Considering, Established, HeadRecord,
         LeaseholderSeesStoredHead
<1>2. ASSUME NEW p \in Providers PROVE answers[r][p] \in Answers \ {"asked"}
  BY <1>1 DEF ConcludeEvidence, Said, TypeOK
<1>3. ASSUME leader = token[r], Fenced PROVE \A p \in Providers : Recorded(r, p)
  BY <1>1, <1>3 DEF EvidenceInv, EvidenceHolds
<1>4. ASSUME leader = token[r], Fenced, AllCurrent(r)
      PROVE  agreed # {} /\ Providers \ excused \subseteq agreed
  BY <1>2, <1>3, <1>4 DEF AllCurrent, Said, Recorded, Answers
<1>5. ASSUME leader = token[r], Fenced, Displaced(r)
      PROVE  departed # {} /\ Providers \ excused \subseteq departed
  BY <1>2, <1>3, <1>5 DEF Displaced, Said, Recorded, Answers
<1>6. CASE AllCurrent(r) /\ Continue(r, "publish", cur[r].block, cur[r])
  <2>1. leader = token[r] /\ Fenced => Justified(cur[r].block)
    BY <1>1, <1>4, <1>6 DEF Justified
  <2> QED
    BY <1>1, <1>6, <2>1, EvidenceContinues DEF Considering
<1>7. CASE Displaced(r) /\ cand[r] # cur[r].block /\ Continue(r, "publish", cand[r], cur[r])
  <2>1. leader = token[r] /\ Fenced => Justified(cand[r])
    BY <1>1, <1>5, <1>7 DEF Justified
  <2> QED
    BY <1>1, <1>7, <2>1, EvidenceContinues DEF Considering
<1>8. CASE Continue(r, "idle", cand[r], cur[r])
  BY <1>1, <1>8, EvidenceContinues
<1> QED
  BY <1>6, <1>7, <1>8 DEF ConcludeEvidence

\* A provider's answer is about its chain at that moment.
LEMMA AskKeepsEvidence ==
    ASSUME EvidenceInv, IInv', Record, NEW r \in Replicas, NEW p \in Providers,
           AskProvider(r, p) \/ AskFails(r, p)
    PROVE  EvidenceInv'
<1>1. /\ UNCHANGED <<leader, head, view, pc, token, cand, cur>>
      /\ pc[r] = "evidence" /\ TypeOK
  BY DEF AskProvider, AskFails, storeVars, EvidenceInv, IInv
<1>2. PICK a \in Answers \ {"none"} : answers' = [answers EXCEPT ![r][p] = a]
  BY DEF AskProvider, AskFails, Answers
<1>3. /\ answers'[r][p] = a
      /\ \A q \in Providers \ {p} : answers'[r][q] = answers[r][q]
      /\ \A s \in Replicas \ {r} : answers'[s] = answers[s]
  BY <1>1, <1>2 DEF TypeOK
<1>4. EvidenceHolds(r)'
  <2> SUFFICES ASSUME leader' = token'[r], Fenced'
               PROVE  \A q \in Providers : Recorded(r, q)'
    BY <1>1 DEF EvidenceHolds
  <2>1. leader = token[r] /\ Fenced /\ cur[r] = head
    BY <1>1 DEF Fenced, EvidenceInv, IInv, LeaseholderSeesStoredHead, Considering
  <2>2. /\ agreed \subseteq agreed' /\ departed \subseteq departed' /\ excused \subseteq excused'
        /\ OnHead' \subseteq agreed' /\ OffHead' \subseteq departed' /\ Skipped' \subseteq excused'
    BY <1>1, <2>1, HistoryGrows
  <2>3. ASSUME NEW q \in Providers \ {p} PROVE Recorded(r, q)'
    <3>1. Recorded(r, q)
      BY <1>1, <2>1 DEF EvidenceInv, EvidenceHolds
    <3> QED
      BY <1>3, <2>2, <3>1 DEF Recorded
  <2> DEFINE found == BlockAt(p, Number[head.block])
             said == CASE found = {} -> "uncertain"
                       [] head.block \in found -> "match"
                       [] OTHER -> "differ"
  <2>4. a = said \/ a \in {"skipped", "uncertain"}
    <3>1. ASSUME AskProvider(r, p) PROVE answers' = [answers EXCEPT ![r][p] = said]
      BY <2>1, <3>1 DEF AskProvider
    <3>2. ASSUME AskProvider(r, p) PROVE answers'[r][p] = said
      BY <1>1, <3>1, <3>2 DEF TypeOK
    <3>3. ASSUME AskFails(r, p) PROVE answers'[r][p] \in {"skipped", "uncertain"}
      BY <1>1, <3>3 DEF AskFails, TypeOK
    <3> QED
      BY <1>3, <3>2, <3>3
  <2>5. /\ a = "match" => head.block \in found
        /\ a = "differ" => found # {} /\ head.block \notin found
    BY <2>4
  <2>6. /\ a = "match" => p \in OnHead'
        /\ a = "differ" => p \in OffHead'
    BY <1>1, <2>5 DEF OnHead, OffHead, BlockAt
  <2>7. a = "skipped" => p \in Skipped'
    BY <1>3 DEF Skipped
  <2>8. Recorded(r, p)'
    BY <1>3, <2>2, <2>6, <2>7 DEF Recorded
  <2> QED
    BY <2>3, <2>8
<1>5. OnlyChanges(r)
  BY <1>1 DEF OnlyChanges
<1> QED
  BY <1>1, <1>3, <1>4, <1>5, EvidenceOfOthers

\* The lease changes hands, or nobody's candidate, answers or lease changes.
LEMMA LeaseKeepsEvidence ==
    ASSUME EvidenceInv, IInv', Record,
           \/ LeaseExpires
           \/ \E p \in Providers, b \in Blocks : ProviderMoves(p, b)
           \/ \E r \in Replicas :
                \/ Acquire(r) \/ AcquireReplyLost(r) \/ Release(r) \/ SnapshotFails(r)
                \/ \E p \in Providers : Observe(r, p)
    PROVE  EvidenceInv'
<1>1. CASE \/ LeaseExpires
           \/ \E p \in Providers, b \in Blocks : ProviderMoves(p, b)
           \/ \E r \in Replicas : SnapshotFails(r) \/ \E p \in Providers : Observe(r, p)
  <2>1. UNCHANGED <<head, pc, token, cand, answers>> /\ leader' \in {leader, NoToken}
    BY <1>1 DEF LeaseExpires, Expire, ProviderMoves, SnapshotFails, Observe, storeVars,
                replicaVars, considering
  <2> QED
    BY <2>1, EvidenceStays DEF EvidenceInv
<1>2. ASSUME NEW r \in Replicas, AcquireReplyLost(r) PROVE EvidenceInv'
  <2>1. /\ UNCHANGED <<pc, token, cand, answers>>
        /\ \A s \in Replicas : token[s] # leader'
    BY <1>2, NewToken, CoordinatorAssumption
       DEF AcquireReplyLost, replicaVars, considering, EvidenceInv
  <2> QED
    BY <2>1, EvidenceStays DEF EvidenceInv
<1>3. ASSUME NEW r \in Replicas, Acquire(r) PROVE EvidenceInv'
  <2>1. /\ UNCHANGED <<cand, answers>> /\ \A s \in Replicas : token[s] # leader'
        /\ pc' = [pc EXCEPT ![r] = "idle"]
        /\ token' = [token EXCEPT ![r] = NextToken(OwnerOf[r])]
    BY <1>3, NewToken, CoordinatorAssumption DEF Acquire, considering, EvidenceInv
  <2>2. /\ pc'[r] = "idle"
        /\ \A s \in Replicas \ {r} : pc'[s] = pc[s] /\ token'[s] = token[s]
    BY <2>1 DEF EvidenceInv, IInv, TypeOK
  <2>3. EvidenceHolds(r)'
    BY <2>2 DEF EvidenceHolds
  <2>4. ASSUME NEW s \in Replicas \ {r} PROVE EvidenceHolds(s)'
    BY <2>1, <2>2, EvidenceStays
  <2> QED
    BY <2>3, <2>4 DEF EvidenceInv
<1>4. ASSUME NEW r \in Replicas, Release(r) PROVE EvidenceInv'
  <2>1. /\ UNCHANGED <<head, cand, cur, answers>> /\ pc' = [pc EXCEPT ![r] = "follower"]
        /\ token' = [token EXCEPT ![r] = NoToken] /\ leader' \in {leader, NoToken}
    BY <1>4 DEF Release, ReleaseScript, considering
  <2>2. pc'[r] = "follower" /\ OnlyChanges(r)
    BY <2>1 DEF EvidenceInv, IInv, TypeOK, OnlyChanges
  <2>3. EvidenceHolds(r)'
    BY <2>2 DEF EvidenceHolds
  <2> QED
    BY <2>1, <2>2, <2>3, EvidenceOfOthers
<1> QED
  BY <1>1, <1>2, <1>3, <1>4

\* A write, or the end of the term.
LEMMA WritesKeepEvidence ==
    ASSUME EvidenceInv, IInv', Record, NEW r \in Replicas,
           \/ LeaseLost(r) \/ RenewFails(r) \/ Crash(r)
           \/ BeginReorg(r) \/ PublishHead(r) \/ WriteFails(r)
    PROVE  EvidenceInv'
<1>1. IInv /\ TypeOK
  BY DEF EvidenceInv, IInv
<1>2. leader' = leader /\ (head' # head => leader = token[r] /\ token[r] # NoToken)
  <2>1. CASE UNCHANGED storeVars
    BY <2>1 DEF storeVars
  <2>2. CASE pc[r] = "publish" /\ PublishScript(token[r], cand[r], AckedEpoch(r))
    BY <1>1, <2>2, PublishWrite
  <2>3. CASE pc[r] \in {"beginFork", "beginFail"} /\ BeginReorgScript(token[r])
    BY <1>1, <2>3, BeginReorgWrite
  <2> QED
    BY <2>1, <2>2, <2>3 DEF LeaseLost, RenewFails, Crash, BeginReorg, PublishHead, WriteFails
<1>3. CASE Drop(r, "leaving") \/ Drop(r, "follower")
  <2>1. token' = token \/ token' = [token EXCEPT ![r] = NoToken]
    BY DEF LeaseLost, RenewFails, Crash, BeginReorg, PublishHead, WriteFails
  <2>2. /\ pc'[r] \in {"leaving", "follower"} /\ OnlyChanges(r)
        /\ \A s \in Replicas \ {r} : answers'[s] = answers[s]
    BY <1>1, <1>3, <2>1 DEF Drop, TypeOK, OnlyChanges
  <2>3. EvidenceHolds(r)'
    BY <2>2 DEF EvidenceHolds
  <2> QED
    BY <1>2, <2>2, <2>3, EvidenceOfOthers
<1>4. ASSUME token' = token, NEW next, NEW h, Continue(r, next, cand[r], h)
      PROVE  /\ OnlyChanges(r) /\ pc'[r] = next
             /\ next # "idle" => cand'[r] = cand[r]
             /\ \A s \in Replicas \ {r} : answers'[s] = answers[s]
             /\ next = "evidence" => \A p \in Providers : answers'[r][p] = "asked"
  BY <1>1, <1>4 DEF Continue, TypeOK, OnlyChanges
<1>5. CASE Continue(r, "idle", cand[r], cur[r]) /\ token' = token
  <2>1. /\ OnlyChanges(r) /\ pc'[r] = "idle"
        /\ \A s \in Replicas \ {r} : answers'[s] = answers[s]
    BY <1>4, <1>5
  <2>2. EvidenceHolds(r)'
    BY <2>1 DEF EvidenceHolds
  <2> QED
    BY <1>2, <2>1, <2>2, EvidenceOfOthers
<1>6. CASE BeginReorg(r) /\ ~Drop(r, "leaving")
  <2> DEFINE next == PhaseAfterWalk(IF pc[r] = "beginFork" THEN "reorg" ELSE "error",
                                     cand[r], head)
  <2>1. /\ leader = token[r] /\ pc[r] \in {"beginFork", "beginFail"} /\ token' = token
        /\ BeginReorgScript(token[r]) /\ Continue(r, next, cand[r], Guarded(head))
    BY <1>6 DEF BeginReorg
  <2>2. head # NoHead /\ head \in HeadRecord /\ head'.block = head.block /\ cand[r] \in Blocks
    BY <1>1, <2>1, BeginReorgWrite DEF TypeOK, StoreTypeOK, Considering
  <2>3. Number[cand[r]] \in Nat /\ Number[head.block] \in Nat
    BY <2>2, HeaderAssumption DEF HeadRecord
  <2>4. next \in {"idle", "evidence", "publish"}
        /\ (next = "publish" => Number[cand[r]] > Number[head.block])
    BY <2>3 DEF PhaseAfterWalk
  <2> HIDE DEF next
  <2>5. /\ OnlyChanges(r) /\ pc'[r] = next
        /\ next # "idle" => cand'[r] = cand[r]
        /\ \A s \in Replicas \ {r} : answers'[s] = answers[s]
        /\ next = "evidence" => \A p \in Providers : answers'[r][p] = "asked"
    BY <1>4, <2>1
  <2>6. EvidenceHolds(r)'
    BY <2>2, <2>4, <2>5, AskedIsRecorded DEF EvidenceHolds, Justified
  <2> QED
    BY <1>2, <2>5, <2>6, EvidenceOfOthers
<1> QED
  BY <1>3, <1>5, <1>6 DEF LeaseLost, RenewFails, Crash, BeginReorg, PublishHead, WriteFails

LEMMA RecoveryPreserves ==
    ASSUME EvidenceInv, [Next /\ Record]_<<vars, historyVars>>
    PROVE  EvidenceInv'
<1>1. IInv'
  BY NextPreserves DEF EvidenceInv
<1>2. CASE UNCHANGED <<vars, historyVars>>
  <2>1. UNCHANGED <<leader, head, pc, token, cand, answers, agreed, departed, excused>>
    BY <1>2 DEF vars, storeVars, replicaVars, considering, historyVars
  <2>2. ASSUME NEW r \in Replicas PROVE EvidenceHolds(r)'
    BY <2>1 DEF EvidenceInv, EvidenceHolds, Fenced, Recorded, Justified
  <2> QED
    BY <1>1, <2>2 DEF EvidenceInv
<1>3. CASE Next /\ Record
  BY <1>1, <1>3, LeaseKeepsEvidence, ConsiderKeepsEvidence, ConcludeKeepsEvidence,
     AskKeepsEvidence, WritesKeepEvidence DEF Next, BoundedStep, HeaderStep
<1> QED
  BY <1>2, <1>3

\* Only a publish that the store accepts lowers the fence, and it publishes the
\* leaseholder's candidate.
LEMMA FenceFallsByPublish ==
    ASSUME IInv, [Next]_vars, Fenced, ~Fenced'
    PROVE  \E r \in Replicas : /\ pc[r] = "publish" /\ leader = token[r]
                               /\ head'.block = cand[r]
<1>1. head' # head
  BY DEF Fenced
<1>2. PICK r \in Replicas : BeginReorg(r) \/ PublishHead(r) \/ WriteFails(r)
  BY <1>1 DEF Next, BoundedStep, HeaderStep, vars, storeVars, LeaseExpires, Expire, ProviderMoves, Acquire,
              AcquireReplyLost, AcquireScript, LeaseLost, RenewFails, Release, ReleaseScript,
              Crash, Consider, VerifyInitialParent, ValidateTransition, ConcludeEvidence,
              AskProvider, SnapshotFails, HeaderRequestFails, Observe, AskFails
<1>3. ~BeginReorgScript(token[r])
  BY <1>1 DEF BeginReorgScript, Guarded, Fenced
<1>4. pc[r] = "publish" /\ PublishScript(token[r], cand[r], AckedEpoch(r))
  BY <1>1, <1>2, <1>3 DEF BeginReorg, PublishHead, WriteFails, storeVars
<1>5. PublishAccepted(token[r], AckedEpoch(r))
  BY <1>1, <1>4 DEF PublishScript, storeVars
<1>6. head'.block = cand[r]
  <2>1. head \in HeadRecord /\ head # NoHead
    BY DEF IInv, TypeOK, StoreTypeOK, Fenced
  <2>2. CASE head.block = cand[r]
    <3>1. head' = [head EXCEPT !.pending = FALSE]
      BY <1>4, <1>5, <2>1, <2>2 DEF PublishScript
    <3> QED
      BY <2>1, <2>2, <3>1 DEF HeadRecord
  <2>3. CASE head.block # cand[r]
    BY <1>4, <1>5, <2>3 DEF PublishScript
  <2> QED
    BY <2>2, <2>3
<1> QED
  BY <1>4, <1>5, <1>6 DEF PublishAccepted

(***************************************************************************)
(* The fence comes down only on a higher block, on the fenced head after   *)
(* every healthy provider has had it, or on another one after every        *)
(* healthy provider has left it, in any mix of replicas, takeovers, late   *)
(* observations and failing calls.                                         *)
(***************************************************************************)
THEOREM FenceFallSafe == RecoverySpec => FenceFallsOnEvidence
<1>1. RecoveryInit => EvidenceInv
  <2> SUFFICES ASSUME RecoveryInit PROVE EvidenceInv
    OBVIOUS
  <2>1. IInv /\ Init
    BY InitEstablishes DEF RecoveryInit
  <2> QED
    BY <2>1 DEF EvidenceInv, EvidenceHolds, Init
<1>2. EvidenceInv /\ [Next /\ Record]_<<vars, historyVars>> => EvidenceInv'
  BY RecoveryPreserves
<1>3. EvidenceInv /\ [Next /\ Record]_<<vars, historyVars>> =>
        [Fenced /\ ~Fenced' =>
          \/ Number[head'.block] > Number[head.block]
          \/ /\ head'.block = head.block
             /\ agreed # {} /\ Providers \ excused \subseteq agreed
          \/ /\ head'.block # head.block
             /\ departed # {} /\ Providers \ excused \subseteq departed]_<<vars, historyVars>>
  <2> SUFFICES ASSUME EvidenceInv, [Next /\ Record]_<<vars, historyVars>>, Fenced, ~Fenced'
               PROVE  Justified(head'.block)
    BY DEF Justified
  <2>1. PICK r \in Replicas : pc[r] = "publish" /\ leader = token[r] /\ head'.block = cand[r]
    BY FenceFallsByPublish DEF EvidenceInv
  <2> QED
    BY <2>1 DEF EvidenceInv, EvidenceHolds
<1> QED
  BY <1>1, <1>2, <1>3, PTL DEF RecoverySpec, FenceFallsOnEvidence

-----------------------------------------------------------------------------
(* The gateways over the coordinators. *)

\* All modules mean the same by a step of AcceptedHead.
LEMMA OnePromise ==
    ASSUME Promise!Next
    PROVE  Batch!Accepted!Next /\ Receipts!Accepted!Next /\ Session!Accepted!Next
<1>1. Batch!Accepted!Next
  BY DEF Promise!Next, Promise!Fence, Promise!First, Promise!Advance, Promise!Recover,
         Promise!MovedTo, Promise!Extends, Promise!Linked,
         Batch!Accepted!Next, Batch!Accepted!Fence, Batch!Accepted!First, Batch!Accepted!Advance,
         Batch!Accepted!Recover, Batch!Accepted!MovedTo, Batch!Accepted!Extends, Batch!Accepted!Linked
<1>2. Receipts!Accepted!Next
  BY DEF Promise!Next, Promise!Fence, Promise!First, Promise!Advance, Promise!Recover,
         Promise!MovedTo, Promise!Extends, Promise!Linked,
         Receipts!Accepted!Next, Receipts!Accepted!Fence, Receipts!Accepted!First,
         Receipts!Accepted!Advance, Receipts!Accepted!Recover, Receipts!Accepted!MovedTo,
         Receipts!Accepted!Extends, Receipts!Accepted!Linked
<1>3. Session!Accepted!Next
  BY DEF Promise!Next, Promise!Fence, Promise!First, Promise!Advance, Promise!Recover,
         Promise!MovedTo, Promise!Extends, Promise!Linked,
         Session!Accepted!Next, Session!Accepted!Fence, Session!Accepted!First,
         Session!Accepted!Advance, Session!Accepted!Recover, Session!Accepted!MovedTo,
         Session!Accepted!Extends, Session!Accepted!Linked
<1> QED
  BY <1>1, <1>2, <1>3

\* A step of the proxy is one of the coordinators, and one of each gateway, or
\* passes them by.
LEMMA StepOfEach ==
    ASSUME SameTerm = FALSE, IInv, [ProxyNext]_proxyVars
    PROVE  /\ [LateNext]_lateVars
           /\ [Batch!Next]_(Batch!vars)
           /\ [Receipts!Next]_(Receipts!vars)
           /\ [Session!Next]_(Session!vars)
<1>1. CASE UNCHANGED proxyVars \/ GatewayStep
  <2>1. UNCHANGED lateVars /\ UNCHANGED head
    BY <1>1 DEF proxyVars, GatewayStep, lateVars, vars, storeVars
  <2>2. [Batch!Next]_(Batch!vars)
    BY <1>1, <2>1 DEF proxyVars, GatewayStep, readVars, Batch!vars, Batch!batchVars, Batch!Next
  <2>3. [Receipts!Next]_(Receipts!vars)
    BY <1>1, <2>1 DEF proxyVars, GatewayStep, receiptVars, Receipts!vars, Receipts!Next
  <2>4. [Session!Next]_(Session!vars)
    BY <1>1, <2>1 DEF proxyVars, GatewayStep, sessionVars, Session!vars, Session!Next,
                      Session!shared, Session!reading, Session!loopVars
  <2> QED
    BY <2>1, <2>2, <2>3, <2>4
<1>2. CASE CoordinatorStep /\ head' # head
  <2>1. /\ LateNext /\ Batch!HeadSeen /\ Receipts!HeadSeen /\ Session!HeadSeen
        /\ head'.epoch <= MaxEpoch /\ head'.generation <= MaxGeneration
    BY <1>2 DEF CoordinatorStep
  <2>2. [Next]_vars
    BY <2>1, LateStep
  <2>3. Promise!Next
    BY <1>2, <2>2, NextPreserves
  <2> QED
    BY <2>1, <2>3, OnePromise DEF Batch!Next, Batch!HeadMoves, Receipts!Next, Receipts!HeadMoves,
                                  Session!Next, Session!HeadMoves
<1>3. CASE CoordinatorStep /\ head' = head
  <2>1. /\ LateNext /\ UNCHANGED <<receiptVars, sessionVars>>
        /\ Batch!HeadRefreshed \/ UNCHANGED readVars
    BY <1>3 DEF CoordinatorStep
  <2> QED
    BY <1>3, <2>1 DEF readVars, receiptVars, sessionVars, Batch!Next, Batch!vars, Batch!batchVars, Receipts!vars,
                      Session!vars, Session!shared, Session!reading, Session!loopVars
<1> QED
  BY <1>1, <1>2, <1>3 DEF ProxyNext

(***************************************************************************)
(* What ReadFence, ReceiptCache and WsSession assume of the accepted head  *)
(* is what the coordinators do: the proxy as a whole implements each of    *)
(* its parts.                                                              *)
(***************************************************************************)
THEOREM ProxyImplementsItsParts ==
    ASSUME SameTerm = FALSE
    PROVE  ProxySpec => LateSpec /\ Batch!Spec /\ Receipts!Spec /\ Session!Spec
<1>1. ProxyInit => LateInit /\ Batch!Init /\ Receipts!Init /\ Session!Init /\ IInv
  BY InitEstablishes DEF ProxyInit, LateInit
<1>2. IInv /\ [ProxyNext]_proxyVars => IInv'
  BY StepOfEach, LateStep, NextPreserves
<1>3. IInv /\ [ProxyNext]_proxyVars =>
        /\ [LateNext]_lateVars
        /\ [Batch!Next]_(Batch!vars)
        /\ [Receipts!Next]_(Receipts!vars)
        /\ [Session!Next]_(Session!vars)
  BY StepOfEach
<1> QED
  BY <1>1, <1>2, <1>3, PTL DEF ProxySpec, LateSpec, Batch!Spec, Receipts!Spec, Session!Spec

(***************************************************************************)
(* A batch is safe over the real coordinators: what it serves is of the    *)
(* branch that Redis holds when it is checked, nothing is served across a  *)
(* reorg that a coordinator recorded meanwhile, and new blocks cancel      *)
(* nothing, whoever leads, crashes or repeats writes.                      *)
(***************************************************************************)
THEOREM ReadsOverCoordinators ==
    ASSUME SameTerm = FALSE, Batch!BatchAssumption
    PROVE  ProxySpec => [](/\ Batch!ServedFromAcceptedBranch
                           /\ Batch!NothingServedAcrossReorg
                           /\ Batch!AdvancementCancelsNothing)
<1>1. ProxySpec => Batch!Spec
  BY ProxyImplementsItsParts, PTL
<1>2. Batch!Spec => []Batch!ServedFromAcceptedBranch
  BY HeaderAssumption, DepthAssumption, AncestryAssumption, Batch!ServedBranchSafe
<1>3. Batch!Spec => []Batch!NothingServedAcrossReorg
  BY HeaderAssumption, DepthAssumption, AncestryAssumption, Batch!ReorgSafe
<1>4. Batch!Spec => []Batch!AdvancementCancelsNothing
  BY HeaderAssumption, DepthAssumption, AncestryAssumption, Batch!AdvancementSafe
<1> QED
  BY <1>1, <1>2, <1>3, <1>4, PTL

(***************************************************************************)
(* So are receipts: the cache holds receipts of the branch in Redis only,  *)
(* none is given above its reader's head, and null is about that head.     *)
(***************************************************************************)
THEOREM ReceiptsOverCoordinators ==
    ASSUME SameTerm = FALSE, Receipts!ReceiptAssumption
    PROVE  ProxySpec => [](/\ Receipts!CachedReceiptIsCanonical
                           /\ Receipts!ReceiptWithinOwnPin
                           /\ Receipts!NullIsAboutOwnPin)
<1>1. ProxySpec => Receipts!Spec
  BY ProxyImplementsItsParts, PTL
<1>2. Receipts!Spec => []Receipts!CachedReceiptIsCanonical
  BY HeaderAssumption, DepthAssumption, AncestryAssumption, Receipts!CachedReceiptSafe
<1>3. Receipts!Spec => []Receipts!ReceiptWithinOwnPin
  BY HeaderAssumption, DepthAssumption, AncestryAssumption, Receipts!OwnPinSafe
<1>4. Receipts!Spec => []Receipts!NullIsAboutOwnPin
  BY HeaderAssumption, DepthAssumption, AncestryAssumption, Receipts!NullSafe
<1> QED
  BY <1>1, <1>2, <1>3, <1>4, PTL

(***************************************************************************)
(* And so is a session that follows the stream the coordinators write: no  *)
(* head before its acknowledgment, none skipped, none out of nowhere.      *)
(***************************************************************************)
THEOREM SessionOverCoordinators ==
    ASSUME SameTerm = FALSE, Session!SessionAssumption
    PROVE  ProxySpec => [](/\ Session!AckPrecedesHeads
                           /\ Session!NoHeadSkipped
                           /\ Session!HeadsAreConnected)
<1>1. ProxySpec => Session!Spec
  BY ProxyImplementsItsParts, PTL
<1>2. Session!Spec => []Session!AckPrecedesHeads
  BY HeaderAssumption, DepthAssumption, AncestryAssumption, Session!AckSafe
<1>3. Session!Spec => []Session!NoHeadSkipped
  BY HeaderAssumption, DepthAssumption, AncestryAssumption, Session!NoHeadLost
<1>4. Session!Spec => []Session!HeadsAreConnected
  BY HeaderAssumption, DepthAssumption, AncestryAssumption, Session!HeadsConnect
<1> QED
  BY <1>1, <1>2, <1>3, <1>4, PTL

\* What a step of the coordinators does to generations and events: nothing, or
\* one more of both, and then it is the new head's.
Appended(b) ==
    /\ b \in Blocks /\ head'.block = b
    /\ generation' = generation + 1 /\ head' # NoHead
    /\ \E e \in Nat : events' = Retained(events \cup {[block |-> b, epoch |-> e,
                                                       generation |-> generation + 1]},
                                         generation + 1)

LEMMA PublishAppends ==
    ASSUME IInv, NEW t, NEW b \in Blocks, NEW e \in Nat, PublishScript(t, b, e)
    PROVE  UNCHANGED <<generation, events>> \/ \E c \in Blocks : Appended(c)
<1>1. CASE ~PublishAccepted(t, e) \/ (head # NoHead /\ head.block = b)
  BY <1>1 DEF PublishScript, storeVars
<1>2. CASE PublishAccepted(t, e) /\ ~(head # NoHead /\ head.block = b)
  <2>1. /\ generation' = generation + 1
        /\ head' = [block |-> b, epoch |-> e, pending |-> FALSE, generation |-> generation + 1]
        /\ events' = Retained(events \cup {[block |-> b, epoch |-> e,
                                            generation |-> generation + 1]},
                              generation + 1)
    BY <1>2 DEF PublishScript
  <2>2. head' \in HeadRecord
    BY <2>1 DEF HeadRecord, IInv, TypeOK, StoreTypeOK
  <2> QED
    BY <2>1, <2>2, NoHeadIsNoRecord DEF Appended
<1> QED
  BY <1>1, <1>2

LEMMA StepAppends ==
    ASSUME IInv, [Next]_vars
    PROVE  UNCHANGED <<generation, events>> \/ \E b \in Blocks : Appended(b)
<1>1. CASE UNCHANGED storeVars
  BY <1>1 DEF storeVars
<1>2. ASSUME NEW r \in Replicas, \/ AcquireScript(OwnerOf[r]) \/ ReleaseScript(token[r])
                                 \/ BeginReorgScript(token[r]) \/ Expire
      PROVE  UNCHANGED <<generation, events>>
  BY <1>2 DEF AcquireScript, ReleaseScript, BeginReorgScript, Expire
<1>3. CASE LeaseExpires
  BY <1>3 DEF LeaseExpires, Expire
<1>4. ASSUME NEW r \in Replicas, pc[r] = "publish",
             PublishScript(token[r], cand[r], AckedEpoch(r))
      PROVE  UNCHANGED <<generation, events>> \/ \E b \in Blocks : Appended(b)
  <2>1. cand[r] \in Blocks
    BY <1>4 DEF IInv, TypeOK, Considering
  <2>2. AckedEpoch(r) \in Nat
    BY DEF IInv, TypeOK, AckedEpoch, HeadRecord
  <2> QED
    BY <1>4, <2>1, <2>2, PublishAppends
<1>5. CASE UNCHANGED vars \/ \E p \in Providers, b \in Blocks : ProviderMoves(p, b)
  BY <1>1, <1>5 DEF vars, ProviderMoves
<1>6. ASSUME NEW r \in Replicas,
             \/ LeaseLost(r) \/ RenewFails(r) \/ Crash(r) \/ Consider(r)
             \/ VerifyInitialParent(r) \/ ValidateTransition(r) \/ ConcludeEvidence(r)
             \/ SnapshotFails(r) \/ HeaderRequestFails(r)
             \/ \E p \in Providers : Observe(r, p) \/ AskFails(r, p) \/ AskProvider(r, p)
      PROVE  UNCHANGED storeVars
  BY <1>6 DEF LeaseLost, RenewFails, Crash, Consider, VerifyInitialParent, ValidateTransition,
              ConcludeEvidence, SnapshotFails, HeaderRequestFails, Observe, AskFails, AskProvider
<1>7. ASSUME NEW r \in Replicas, Acquire(r) \/ AcquireReplyLost(r) \/ Release(r) \/ BeginReorg(r)
      PROVE  UNCHANGED <<generation, events>>
  BY <1>2, <1>7 DEF Acquire, AcquireReplyLost, Release, BeginReorg
<1>8. ASSUME NEW r \in Replicas, PublishHead(r) \/ WriteFails(r)
      PROVE  UNCHANGED <<generation, events>> \/ \E b \in Blocks : Appended(b)
  BY <1>1, <1>2, <1>4, <1>8 DEF PublishHead, WriteFails
<1> QED
  BY <1>1, <1>3, <1>5, <1>6, <1>7, <1>8 DEF Next, BoundedStep, HeaderStep

\* A head that was accepted is never taken back.
LEMMA HeadStays ==
    ASSUME IInv, Promise!Next
    PROVE  head' # NoHead
<1>1. head \in HeadRecord \cup {NoHead}
  BY DEF IInv, TypeOK, StoreTypeOK
<1>2. CASE Promise!Fence
  <2>1. head \in HeadRecord /\ ~head.pending /\ head' = Guarded(head)
    BY <1>1, <1>2 DEF Promise!Fence, Guarded
  <2>2. head' \in HeadRecord
    BY <2>1, GuardedRecord
  <2> QED
    BY <2>2, NoHeadIsNoRecord
<1>3. ASSUME NEW b \in Blocks, Promise!First(b) PROVE head' # NoHead
  <2>1. head' \in HeadRecord
    BY <1>3 DEF Promise!First, HeadRecord
  <2> QED
    BY <2>1, NoHeadIsNoRecord
<1>4. ASSUME NEW b \in Blocks, Promise!Advance(b) \/ Promise!Recover(b) PROVE head' # NoHead
  <2>1. head \in HeadRecord /\ head' = Promise!MovedTo(b)
    BY <1>1, <1>4 DEF Promise!Advance, Promise!Recover
  <2>2. head.epoch \in Nat /\ head.generation \in Nat
    BY <2>1 DEF HeadRecord
  <2>3. head' \in HeadRecord
    BY <2>1, <2>2 DEF Promise!MovedTo, HeadRecord
  <2> QED
    BY <2>3, NoHeadIsNoRecord
<1> QED
  BY <1>2, <1>3, <1>4 DEF Promise!Next

\* The log has as many heads as there are generations.
StreamInv ==
    /\ IInv
    /\ log \in Seq(Blocks) /\ Len(log) = generation
    /\ StreamHoldsTheLog

\* One more event pushes the oldest out of the stream and out of the retained
\* part of the log.
LEMMA StreamGrows ==
    ASSUME StreamInv, NEW b \in Blocks, Appended(b), log' = Append(log, b)
    PROVE  StreamHoldsTheLog'
<1>1. generation \in Nat /\ events \subseteq Event
  BY DEF StreamInv, IInv, TypeOK, StoreTypeOK
<1>2. PICK e \in Nat :
        events' = Retained(events \cup {[block |-> b, epoch |-> e, generation |-> generation + 1]},
                           generation + 1)
  BY DEF Appended
<1> DEFINE new == [block |-> b, epoch |-> e, generation |-> generation + 1]
           Kept(g) == g \in 1..Len(log) /\ g + StreamMax > Len(log)
           Keeps(g) == g \in 1..generation + 1 /\ g + StreamMax > generation + 1
<1>3. \A g : Session!Retained(g) <=> Kept(g)
  BY DEF Session!Retained
<1>4. /\ Len(log') = generation + 1 /\ log'[generation + 1] = b
      /\ \A g \in 1..generation : log'[g] = log[g]
  BY <1>1 DEF StreamInv
<1>5. \A g : Session!Retained(g)' <=> Keeps(g)
  BY <1>4 DEF Session!Retained
<1>6. ASSUME NEW x \in events'
      PROVE  x.generation \in 1..Len(log') /\ Keeps(x.generation) /\ x.block = log'[x.generation]
  <2>1. x \in events \cup {new} /\ x.generation + StreamMax > generation + 1
    BY <1>2 DEF Retained
  <2>2. CASE x = new
    BY <1>1, <1>4, <2>1, <2>2
  <2>3. CASE x \in events
    <3>1. <<x.generation, x.block>> \in {<<e1.generation, e1.block>> : e1 \in events}
      BY <2>3
    <3>2. <<x.generation, x.block>> \in {<<g, log[g]>> : g \in {h \in 1..Len(log) : Session!Retained(h)}}
      BY <3>1 DEF StreamInv, StreamHoldsTheLog
    <3>3. PICK g \in 1..Len(log) : <<x.generation, x.block>> = <<g, log[g]>>
      BY <3>2
    <3>4. x.generation = g /\ x.block = log[g]
      BY <3>3
    <3> QED
      BY <1>1, <1>4, <2>1, <3>4 DEF StreamInv
  <2> QED
    BY <2>1, <2>2, <2>3
<1>7. ASSUME NEW g \in 1..Len(log'), Keeps(g)
      PROVE  \E x \in events' : x.generation = g /\ x.block = log'[g]
  <2>1. CASE g = generation + 1
    <3>1. new \in events'
      BY <1>1, <1>2, StoreAssumption DEF Retained
    <3> QED
      BY <1>4, <2>1, <3>1
  <2>2. CASE g # generation + 1
    <3>1. g \in 1..Len(log) /\ Kept(g)
      BY <1>1, <1>4, <1>7, <2>2, StoreAssumption DEF StreamInv
    <3>2. <<g, log[g]>> \in {<<x.generation, x.block>> : x \in events}
      BY <1>3, <3>1 DEF StreamInv, StreamHoldsTheLog
    <3>3. PICK x \in events : x.generation = g /\ x.block = log[g]
      BY <3>2
    <3>4. x \in events'
      BY <1>2, <1>7, <3>3 DEF Retained
    <3> QED
      BY <1>4, <3>1, <3>3, <3>4 DEF StreamInv
  <2> QED
    BY <2>1, <2>2
<1> HIDE DEF Kept, Keeps, new
<1> QED
  BY <1>5, <1>6, <1>7 DEF StreamHoldsTheLog

LEMMA StreamPreserved ==
    ASSUME SameTerm = FALSE, StreamInv, [ProxyNext]_proxyVars
    PROVE  StreamInv'
<1>1. [LateNext]_lateVars /\ [Next]_vars
  BY StepOfEach, LateStep DEF StreamInv
<1>2. IInv'
  BY <1>1, NextPreserves DEF StreamInv
<1>3. CASE UNCHANGED <<generation, events, log>>
  BY <1>2, <1>3 DEF StreamInv, StreamHoldsTheLog, Session!Retained
<1>4. ASSUME NEW b \in Blocks, Appended(b), log' = Append(log, b) PROVE StreamInv'
  <2>1. log' \in Seq(Blocks) /\ Len(log') = generation'
    BY <1>4 DEF Appended, StreamInv
  <2> QED
    BY <1>2, <1>4, <2>1, StreamGrows DEF StreamInv
<1>5. CASE UNCHANGED head
  <2>1. UNCHANGED log
    BY <1>5 DEF ProxyNext, CoordinatorStep, GatewayStep, proxyVars, sessionVars
  <2>2. ASSUME NEW b \in Blocks, Appended(b) PROVE FALSE
    BY <1>2, <1>5, <2>2 DEF Appended, StreamInv, IInv, GenerationStored, TypeOK, StoreTypeOK
  <2> QED
    BY <1>1, <1>3, <2>1, <2>2, StepAppends DEF StreamInv
<1>6. CASE head' # head
  <2>1. CoordinatorStep /\ Session!HeadSeen
    BY <1>6 DEF ProxyNext, CoordinatorStep, GatewayStep, proxyVars, lateVars, vars, storeVars
  <2>2. head' # NoHead /\ head'.generation = generation' /\ generation \in Nat
    <3>1. head' # NoHead
      BY <1>1, <1>6, NextPreserves, HeadStays DEF StreamInv
    <3> QED
      BY <1>2, <3>1 DEF StreamInv, IInv, GenerationStored, TypeOK, StoreTypeOK
  <2>3. CASE UNCHANGED <<generation, events>>
    BY <1>3, <2>1, <2>2, <2>3 DEF Session!HeadSeen, StreamInv
  <2>4. ASSUME NEW b \in Blocks, Appended(b) PROVE StreamInv'
    <3>1. log' = Append(log, b)
      BY <2>1, <2>2, <2>4 DEF Session!HeadSeen, StreamInv, Appended
    <3> QED
      BY <1>4, <2>4, <3>1
  <2> QED
    BY <1>1, <2>3, <2>4, StepAppends DEF StreamInv
<1> QED
  BY <1>5, <1>6

(***************************************************************************)
(* The events in Redis are the retained heads of the session's log, in     *)
(* every reachable state: the stream WsSession reads is the one that       *)
(* publishScript writes.                                                   *)
(***************************************************************************)
THEOREM StreamSafe ==
    ASSUME SameTerm = FALSE
    PROVE  ProxySpec => []StreamHoldsTheLog
<1>1. ProxyInit => StreamInv
  <2> SUFFICES ASSUME ProxyInit PROVE StreamInv
    OBVIOUS
  <2>1. IInv /\ events = {} /\ generation = 0
    BY InitEstablishes DEF ProxyInit, LateInit, Init, StoreInit
  <2>2. log = << >>
    BY DEF ProxyInit, Session!Init
  <2> QED
    BY <2>1, <2>2 DEF StreamInv, StreamHoldsTheLog
<1>2. StreamInv /\ [ProxyNext]_proxyVars => StreamInv'
  BY StreamPreserved
<1>3. StreamInv => StreamHoldsTheLog
  BY DEF StreamInv
<1> QED
  BY <1>1, <1>2, <1>3, PTL DEF ProxySpec
=============================================================================
