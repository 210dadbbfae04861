---------------------------- MODULE Coordinator ----------------------------
(***************************************************************************)
(* The head coordinators of one EVM chain: every replica of the proxy      *)
(* competes for the lease and, while it leads, considers the heads its     *)
(* providers report and moves the accepted head in the store.              *)
(*                                                                         *)
(* A replica is a sequential loop (runLeader) next to goroutines that feed *)
(* it observations (poll, watchEVM) and renew its lease (maintainLease).   *)
(* Each call to Redis or to the providers is a step of its own, so that    *)
(* leases expire, other replicas take over and providers change branch     *)
(* between any two of them.                                                *)
(***************************************************************************)
EXTENDS HeadStore, FiniteSets

CONSTANTS
    Replicas,     \* proxy processes (a restarted process is a new replica)
    OwnerOf,      \* OwnerOf[r]: hostname-pid of r, not necessarily unique
    Providers,    \* the chain's upstreams
    MaxBuffered,  \* bound on the observations channel (128 in the code)
    MaxFence,     \* bound on leadership terms; the last one is not cut short
    MaxEpoch,     \* providers move until this many reorgs have begun and ended
    MaxFaults     \* bound on calls that fail, replies that get lost, crashes

ASSUME CoordinatorAssumption ==
    /\ OwnerOf \in [Replicas -> Owners]
    /\ IsFiniteSet(Providers) /\ Providers # {}
    /\ {MaxBuffered, MaxFence, MaxEpoch, MaxFaults} \subseteq Nat

VARIABLES
    view,      \* view[p]: the head of provider p's canonical chain
    faults,    \* faults so far
    pc,        \* pc[r]: where replica r is
    token,     \* token[r]: the fencing token r leads with
    buffered,  \* buffered[r]: observations not yet considered
    cand,      \* cand[r]: the head being considered
    cur,       \* cur[r]: the accepted head it is compared with
    answers    \* answers[r]: what the providers said of cur[r]'s height

considering == <<cand, cur, answers>>
replicaVars == <<pc, token, buffered, considering>>
vars == <<storeVars, view, faults, replicaVars>>

\* beginFork and beginFail: the walk has reported a divergence, and will find a
\* shared ancestor or fail once the fence is up.
Considering == {"initial", "validate", "beginFork", "beginFail", "evidence", "publish"}
Phases == {"follower", "idle", "leaving"} \cup Considering

Answers == {"none", "skipped", "asked", "match", "differ", "uncertain"}
Silent == [p \in Providers |-> "none"]

Leading(r) == pc[r] \in Considering \cup {"idle"}

Init ==
    /\ StoreInit
    /\ view \in [Providers -> Blocks]
    /\ faults = 0
    /\ pc = [r \in Replicas |-> "follower"]
    /\ token = [r \in Replicas |-> NoToken]
    /\ buffered = [r \in Replicas |-> {}]
    /\ cand = [r \in Replicas |-> NoBlock]
    /\ cur = [r \in Replicas |-> NoHead]
    /\ answers = [r \in Replicas |-> Silent]

\* One more call fails.  Faults do not end the last term.
Fault == faults < MaxFaults /\ faults' = faults + 1
TermMayEnd == fence < MaxFence

(***************************************************************************)
(* Go on considering b against the accepted head h, or, for "idle",        *)
(* return from consider.  Evidence is asked of every provider anew.        *)
(***************************************************************************)
Continue(r, phase, b, h) ==
    /\ pc' = [pc EXCEPT ![r] = phase]
    /\ cand' = [cand EXCEPT ![r] = IF phase = "idle" THEN NoBlock ELSE b]
    /\ cur' = [cur EXCEPT ![r] = IF phase = "idle" THEN NoHead ELSE h]
    /\ answers' = [answers EXCEPT ![r] =
                      IF phase = "evidence" THEN [p \in Providers |-> "asked"] ELSE Silent]

\* runLeader's context ends: whatever it was doing or had buffered is dropped.
Drop(r, phase) ==
    /\ pc' = [pc EXCEPT ![r] = phase]
    /\ buffered' = [buffered EXCEPT ![r] = {}]
    /\ cand' = [cand EXCEPT ![r] = NoBlock]
    /\ cur' = [cur EXCEPT ![r] = NoHead]
    /\ answers' = [answers EXCEPT ![r] = Silent]

-----------------------------------------------------------------------------
(* Run and maintainLease: gaining and losing the lease. *)

Acquire(r) ==
    /\ pc[r] = "follower"
    /\ TermMayEnd
    /\ AcquireScript(OwnerOf[r])
    /\ token' = [token EXCEPT ![r] = NextToken(OwnerOf[r])]
    /\ pc' = [pc EXCEPT ![r] = "idle"]
    /\ UNCHANGED <<view, faults, buffered, considering>>

\* The script ran but its answer was lost: the lease belongs to nobody until
\* it expires.
AcquireReplyLost(r) ==
    /\ pc[r] = "follower"
    /\ fence + 1 < MaxFence
    /\ Fault
    /\ AcquireScript(OwnerOf[r])
    /\ UNCHANGED <<view, replicaVars>>

\* A renewal answers that the lease is not ours any more.
LeaseLost(r) ==
    /\ Leading(r)
    /\ ~RenewScript(token[r])
    /\ Drop(r, "leaving")
    /\ UNCHANGED <<storeVars, view, faults, token>>

\* A renewal fails, or the process is asked to stop.
RenewFails(r) ==
    /\ Leading(r)
    /\ TermMayEnd
    /\ Fault
    /\ Drop(r, "leaving")
    /\ UNCHANGED <<storeVars, view, token>>

\* Mutant of Release: the token outlives the term.
ReleaseKeepsToken(r) ==
    /\ pc[r] = "leaving"
    /\ ReleaseScript(token[r])
    /\ pc' = [pc EXCEPT ![r] = "follower"]
    /\ UNCHANGED <<view, faults, token, buffered, considering>>

Release(r) ==
    /\ pc[r] = "leaving"
    /\ ReleaseScript(token[r])
    /\ pc' = [pc EXCEPT ![r] = "follower"]
    /\ token' = [token EXCEPT ![r] = NoToken]
    /\ UNCHANGED <<view, faults, buffered, considering>>

\* The process dies, or its release fails: the lease stays until it expires.
Crash(r) ==
    /\ pc[r] # "follower"
    /\ TermMayEnd
    /\ Fault
    /\ Drop(r, "follower")
    /\ token' = [token EXCEPT ![r] = NoToken]
    /\ UNCHANGED <<storeVars, view>>

\* The lease of a paused, partitioned or dead leader runs out; also that of a
\* leader whose renewals arrive too late.
LeaseExpires ==
    /\ TermMayEnd
    /\ Expire
    /\ UNCHANGED <<view, faults, replicaVars>>

-----------------------------------------------------------------------------
(* Providers and observations. *)

\* Providers move at any time, also under the fence, until the last reorg that
\* the bound allows is over.
ProvidersMayMove ==
    StoredEpoch < MaxEpoch \/ (StoredEpoch = MaxEpoch /\ head # NoHead /\ head.pending)

\* A provider imports blocks, changes branch, or answers from another node.
ProviderMoves(p, b) ==
    /\ ProvidersMayMove
    /\ view[p] # b
    /\ view' = [view EXCEPT ![p] = b]
    /\ UNCHANGED <<storeVars, faults, replicaVars>>

\* poll and watchEVMSession: a verified head of p enters the channel.  It may
\* be considered long after p has moved on, and in any order with the others.
Observe(r, p) ==
    /\ Leading(r)
    /\ view[p] \notin buffered[r]
    /\ Cardinality(buffered[r]) < MaxBuffered
    /\ buffered' = [buffered EXCEPT ![r] = @ \cup {view[p]}]
    /\ UNCHANGED <<storeVars, view, faults, pc, token, considering>>

-----------------------------------------------------------------------------
(* consider. *)

\* Mutant of FirstPhase: the accepted head's own hash is never news.
FirstPhaseSkipsKnown(b) ==
    CASE head = NoHead -> "publish"
      [] head # NoHead /\ b # head.block -> "validate"
      [] head # NoHead /\ b = head.block -> "idle"

\* What an observation of b calls for, given the snapshot.
FirstPhase(b) ==
    CASE head = NoHead /\ Number[b] > 0 -> "initial"
      [] head = NoHead /\ Number[b] = 0 -> "publish"
      [] head # NoHead /\ b # head.block -> "validate"
      [] head # NoHead /\ b = head.block -> IF head.pending THEN "evidence" ELSE "publish"

\* Take an observation and read the snapshot it is compared with.
Consider(r) ==
    /\ pc[r] = "idle"
    /\ \E b \in buffered[r] :
         /\ buffered' = [buffered EXCEPT ![r] = @ \ {b}]
         /\ Continue(r, FirstPhase(b), b, head)
    /\ UNCHANGED <<storeVars, view, faults, token>>

SnapshotFails(r) ==
    /\ pc[r] = "idle"
    /\ Fault
    /\ \E b \in buffered[r] : buffered' = [buffered EXCEPT ![r] = @ \ {b}]
    /\ UNCHANGED <<storeVars, view, pc, token, considering>>

\* Mutant of VerifyInitialParent: the first head is taken on trust.
TrustInitialHead(r) ==
    /\ pc[r] = "initial"
    /\ Continue(r, "publish", cand[r], cur[r])
    /\ UNCHANGED <<storeVars, view, faults, token, buffered>>

\* The first head must name a parent one height below it.
VerifyInitialParent(r) ==
    /\ pc[r] = "initial"
    /\ Continue(r, IF Linked(cand[r]) THEN "publish" ELSE "idle", cand[r], cur[r])
    /\ UNCHANGED <<storeVars, view, faults, token, buffered>>

\* A verified ancestor is a lagging observation; a verified extension and a
\* longer branch are published; any other branch needs evidence first.
PhaseAfterWalk(result, b, h) ==
    CASE result = "error" -> "idle"
      [] result = "same"  -> IF Number[b] <= Number[h.block] THEN "idle" ELSE "publish"
      [] result = "reorg" -> IF Number[b] <= Number[h.block] THEN "evidence" ELSE "publish"

\* validateEVMTransition, by its contract.  The fence it asks for is already up
\* if the snapshot was pending.
Walk(r, clean) ==
    \E o \in TransitionOutcomes(cur[r].block, cand[r], clean) :
        Continue(r, IF o.reported /\ ~cur[r].pending
                    THEN IF o.result = "reorg" THEN "beginFork" ELSE "beginFail"
                    ELSE PhaseAfterWalk(o.result, cand[r], cur[r]),
                 cand[r], cur[r])

ValidateTransition(r) ==
    /\ pc[r] = "validate"
    /\ Walk(r, TRUE)
    /\ UNCHANGED <<storeVars, view, faults, token, buffered>>

\* A header request fails: on the way to the first head's parent, or in the walk.
HeaderRequestFails(r) ==
    /\ Fault
    /\ \/ pc[r] = "initial" /\ Continue(r, "idle", cand[r], cur[r])
       \/ pc[r] = "validate" /\ Walk(r, FALSE)
    /\ UNCHANGED <<storeVars, view, token, buffered>>

\* onDivergence.  The fenced head the script returns replaces the snapshot.
BeginReorg(r) ==
    /\ pc[r] \in {"beginFork", "beginFail"}
    /\ BeginReorgScript(token[r])
    /\ \/ /\ leader = token[r]
          /\ Continue(r, PhaseAfterWalk(IF pc[r] = "beginFork" THEN "reorg" ELSE "error",
                                        cand[r], head),
                      cand[r], Guarded(head))
          /\ UNCHANGED buffered
       \/ leader # token[r] /\ Drop(r, "leaving")
    /\ UNCHANGED <<view, faults, token>>

\* getCanonicalEvidence asks one healthy provider for its block at the accepted
\* height; a provider that is not that high answers null.
BlockAt(p, number) == {b \in Anc[view[p]] : Number[b] = number}

AskProvider(r, p) ==
    /\ pc[r] = "evidence"
    /\ answers[r][p] = "asked"
    /\ LET found == BlockAt(p, Number[cur[r].block])
       IN  answers' = [answers EXCEPT ![r][p] =
                          CASE found = {} -> "uncertain"
                            [] cur[r].block \in found -> "match"
                            [] OTHER -> "differ"]
    /\ UNCHANGED <<storeVars, view, faults, pc, token, buffered, cand, cur>>

\* The provider was not healthy when the candidates were listed, or its call fails.
AskFails(r, p) ==
    /\ pc[r] = "evidence"
    /\ answers[r][p] = "asked"
    /\ Fault
    /\ \E a \in {"skipped", "uncertain"} : answers' = [answers EXCEPT ![r][p] = a]
    /\ UNCHANGED <<storeVars, view, pc, token, buffered, cand, cur>>

Said(r, a) == \E p \in Providers : answers[r][p] = a

\* Mutant of AllCurrent: one provider is enough.
AnyCurrent(r) == Said(r, "match")

AllCurrent(r) == Said(r, "match") /\ ~Said(r, "differ") /\ ~Said(r, "uncertain")
Displaced(r)  == Said(r, "differ") /\ ~Said(r, "match") /\ ~Said(r, "uncertain")

\* Convergence keeps the accepted head, proved displacement takes the candidate
\* (which an observation of the accepted head itself never does).
ConcludeEvidence(r) ==
    /\ pc[r] = "evidence"
    /\ ~Said(r, "asked")
    /\ \/ AllCurrent(r) /\ Continue(r, "publish", cur[r].block, cur[r])
       \/ /\ Displaced(r) /\ cand[r] # cur[r].block
          /\ Continue(r, "publish", cand[r], cur[r])
       \/ /\ ~AllCurrent(r) /\ ~(Displaced(r) /\ cand[r] # cur[r].block)
          /\ Continue(r, "idle", cand[r], cur[r])
    /\ UNCHANGED <<storeVars, view, faults, token, buffered>>

AckedEpoch(r) == IF cur[r] = NoHead THEN 0 ELSE cur[r].epoch

\* Publish: a lost lease ends the term, a changed epoch only this observation.
PublishHead(r) ==
    /\ pc[r] = "publish"
    /\ PublishScript(token[r], cand[r], AckedEpoch(r))
    /\ IF leader = token[r]
       THEN Continue(r, "idle", cand[r], cur[r]) /\ UNCHANGED buffered
       ELSE Drop(r, "leaving")
    /\ UNCHANGED <<view, faults, token>>

\* A write fails, before or after Redis has run its script.
WriteFails(r) ==
    /\ Fault
    /\ \/ pc[r] = "publish" /\ PublishScript(token[r], cand[r], AckedEpoch(r))
       \/ pc[r] \in {"beginFork", "beginFail"} /\ BeginReorgScript(token[r])
       \/ pc[r] \in {"publish", "beginFork", "beginFail"} /\ UNCHANGED storeVars
    /\ Continue(r, "idle", cand[r], cur[r])
    /\ UNCHANGED <<view, token, buffered>>

-----------------------------------------------------------------------------
\* A step of consider in which nothing fails and which ends in bounded time:
\* the Redis client has timeouts, a question about evidence a deadline.
BoundedStep(r) ==
    \/ Consider(r) \/ BeginReorg(r) \/ ConcludeEvidence(r) \/ PublishHead(r)
    \/ \E p \in Providers : AskProvider(r, p)

\* A step that needs headers.  They are requested on the leader's own context,
\* which only a lost lease or a shutdown ends, over an HTTP client that bounds
\* the wait for the response's header and not for its body.
HeaderStep(r) == VerifyInitialParent(r) \/ ValidateTransition(r)

AwaitsHeader(r) == pc[r] \in {"initial", "validate"}

Next ==
    \/ LeaseExpires
    \/ \E p \in Providers, b \in Blocks : ProviderMoves(p, b)
    \/ \E r \in Replicas :
         \/ Acquire(r) \/ AcquireReplyLost(r) \/ LeaseLost(r) \/ RenewFails(r)
         \/ Release(r) \/ Crash(r)
         \/ BoundedStep(r) \/ HeaderStep(r)
         \/ SnapshotFails(r) \/ HeaderRequestFails(r) \/ WriteFails(r)
         \/ \E p \in Providers : Observe(r, p) \/ AskFails(r, p)

Spec == Init /\ [][Next]_vars

\* The lease of a token that nobody holds.
Orphaned == leader # NoToken /\ \A r \in Replicas : token[r] # leader

(***************************************************************************)
(* What the scheduling of the code guarantees: Run retries every half TTL, *)
(* runLeader takes the next observation, poll reports every provider again *)
(* and again, maintainLease notices a lost lease, and a lease that nobody  *)
(* renews runs out.  Faults, provider moves and answers to header requests *)
(* are never forced.                                                       *)
(***************************************************************************)
Fairness ==
    /\ WF_vars(\E r \in Replicas : Acquire(r))
    /\ WF_vars(Orphaned /\ LeaseExpires)
    /\ \A r \in Replicas :
         /\ WF_vars(LeaseLost(r)) /\ WF_vars(Release(r)) /\ WF_vars(BoundedStep(r))
         /\ \A p \in Providers : WF_vars(Observe(r, p))

FairSpec == Spec /\ Fairness

-----------------------------------------------------------------------------
TypeOK ==
    /\ StoreTypeOK
    /\ view \in [Providers -> Blocks]
    /\ faults \in Nat
    /\ pc \in [Replicas -> Phases]
    /\ token \in [Replicas -> Token \cup {NoToken}]
    /\ buffered \in [Replicas -> SUBSET Blocks]
    /\ cand \in [Replicas -> Blocks \cup {NoBlock}]
    /\ cur \in [Replicas -> HeadRecord \cup {NoHead}]
    /\ answers \in [Replicas -> [Providers -> Answers]]
    /\ \A r \in Replicas :
         /\ (token[r] = NoToken) <=> (pc[r] = "follower")
         /\ (cand[r] = NoBlock) <=> (pc[r] \notin Considering)
         /\ pc[r] \notin Considering => cur[r] = NoHead

(***************************************************************************)
(* A replica that still holds the lease compares its candidate with the    *)
(* head that is in the store now, however long ago it read it: nobody else *)
(* can have written since.  This is what the fencing token buys consider,  *)
(* which never compares the stored head with its snapshot again.           *)
(***************************************************************************)
LeaseholderSeesStoredHead ==
    \A r \in Replicas :
        pc[r] \in Considering /\ leader = token[r] => cur[r] = head

(***************************************************************************)
(* Whatever the providers serve, the accepted head is at height 0 or has a *)
(* resolvable parent one height below: the walks of validateEVMTransition, *)
(* getEVMBlockByQuantity and the receipt verifier start from such a head.  *)
(***************************************************************************)
AcceptedHeadIsSound ==
    head # NoHead => Sound(head.block)

(***************************************************************************)
(* Store and coordinators together keep the promise of AcceptedHead: a     *)
(* branch is only ever left under the fence, in a new epoch, across lost   *)
(* leases, lost replies, crashes and late observations.                    *)
(***************************************************************************)
Promise == INSTANCE AcceptedHead

KeepsPromise == Promise!Spec

\* The providers agree on a head that can be verified and is high enough to
\* prove something about the accepted one.
Converged ==
    \E b \in Blocks :
        /\ WellFormed(b)
        /\ \A p \in Providers : view[p] = b
        /\ head # NoHead => /\ WithinDepth(head.block, b)
                            /\ Number[head.block] <= Number[b]

(***************************************************************************)
(* Once the providers agree for good, their head becomes the accepted head *)
(* and the fence comes down for good, whatever they said of each other     *)
(* under the fence and whatever was buffered, fenced or half done when a   *)
(* leader lost its lease, failed or died.  There is one exception, which   *)
(* the code does have: a leader that waits for ever for a header, its      *)
(* lease renewed all the while.                                            *)
(***************************************************************************)
RecoversWhenProvidersConverge ==
    <>[]Converged =>
        \/ <>[](/\ head # NoHead /\ ~head.pending
                /\ \A p \in Providers : head.block = view[p])
        \/ \E r \in Replicas : <>[]AwaitsHeader(r)
=============================================================================
