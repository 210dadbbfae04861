---------------------------- MODULE PartsProofs ----------------------------
(***************************************************************************)
(* Proofs about parts that share no state: the ancestry walk, logs read    *)
(* between two boundary checks, the circuit breaker of an upstream client, *)
(* the checks at startup, the consistency header, the subscriptions to     *)
(* heads and the response cache.  They hold for every tree of headers,     *)
(* whatever numbers malformed headers carry, for every reorg_depth, every  *)
(* limit of the cache and any number of callers, upstreams, methods,       *)
(* responses and providers.                                                *)
(***************************************************************************)
EXTENDS EvmTransition, LogRead, ConsistencyLabel, UpstreamClient, Validation, HeadFeed,
        ResponseCache, FiniteSetTheorems, SequenceTheorems, WellFoundedInduction, TLAPS

-----------------------------------------------------------------------------
(* Hash chains *)

\* Least elements stand in for induction: no backend instantiates the library's
\* induction theorems.
LEMMA LeastNat ==
    ASSUME NEW T \in SUBSET Nat, T # {}
    PROVE  \E n \in T : \A m \in T : n <= m
<1> DEFINE R == OpToRel(<, Nat)
<1>1. IsWellFoundedOn(R, Nat)
  BY NatLessThanWellFounded, Zenon
<1>2. PICK n \in T : \A m \in T : ~(<<m, n>> \in R)
  <2> HIDE DEF R
  <2> QED
    BY <1>1, WFMin, Zenon
<1>3. \A m \in T : ~(m < n)
  BY <1>2 DEF OpToRel
<1> QED
  BY <1>3

LEMMA AncestorIsBlock ==
    ASSUME NEW b \in Blocks, NEW c \in Anc[b]
    PROVE  c \in Blocks /\ Anc[c] \subseteq Anc[b] /\ Number[c] \in Nat
BY AncestryAssumption, HeaderAssumption

\* An ancestor that is not the block itself is one of its parent.
LEMMA AncestorOfParent ==
    ASSUME NEW b \in Blocks, NEW c \in Anc[b], c # b
    PROVE  /\ Parent[b] \in Blocks /\ Parent[b] \in Anc[b]
           /\ c \in Anc[Parent[b]] /\ Anc[Parent[b]] \subseteq Anc[b]
BY AncestryAssumption

LEMMA ParentIsAncestor ==
    ASSUME NEW b \in Blocks, Linked(b)
    PROVE  /\ Parent[b] \in Blocks /\ Parent[b] \in Anc[b] /\ Anc[Parent[b]] \subseteq Anc[b]
           /\ Number[b] = Number[Parent[b]] + 1
           /\ \A c \in Anc[b] : c = b \/ c \in Anc[Parent[b]]
BY AncestryAssumption, HeaderAssumption DEF Linked

LEMMA SameIfMutual ==
    ASSUME NEW b \in Blocks, NEW c \in Anc[b], b \in Anc[c]
    PROVE  b = c
BY AncestryAssumption

\* Numbers grow from a block's ancestors to the block.
LEMMA CanonicalGrows ==
    ASSUME NEW b \in Blocks, Canonical(b), NEW c \in Anc[b], c # b
    PROVE  Number[c] < Number[b]
<1> DEFINE Bad(d) == Canonical(d) /\ \E e \in Anc[d] : e # d /\ ~(Number[e] < Number[d])
           T == {Number[d] : d \in {e \in Blocks : Bad(e)}}
<1> SUFFICES ASSUME \E d \in Blocks : Bad(d) PROVE FALSE
  OBVIOUS
<1>1. T \in SUBSET Nat /\ T # {}
  BY HeaderAssumption
<1>2. PICK n \in T : \A m \in T : n <= m
  <2> HIDE DEF T
  <2> QED
    BY <1>1, LeastNat
<1>3. PICK d \in Blocks : Bad(d) /\ Number[d] = n
  BY <1>2
<1>4. PICK e \in Anc[d] : e # d /\ ~(Number[e] < Number[d])
  BY <1>3
<1>5. /\ Parent[d] \in Blocks /\ Parent[d] \in Anc[d]
      /\ e \in Anc[Parent[d]] /\ Anc[Parent[d]] \subseteq Anc[d]
  BY <1>4, AncestorOfParent
<1>6. Number[Parent[d]] < Number[d]
  BY <1>3, <1>5, AncestryAssumption DEF Canonical
<1>7. Canonical(Parent[d])
  BY <1>3, <1>5 DEF Canonical
<1>8. ~Bad(Parent[d])
  <2>1. ~(n <= Number[Parent[d]])
    BY <1>3, <1>5, <1>6, HeaderAssumption
  <2> QED
    BY <1>2, <1>5, <2>1
<1>9. e = Parent[d] \/ Number[e] < Number[Parent[d]]
  BY <1>5, <1>7, <1>8
<1> QED
  BY <1>4, <1>5, <1>6, <1>9, AncestorIsBlock, HeaderAssumption

LEMMA WellFormedGrows ==
    ASSUME NEW b \in Blocks, WellFormed(b), NEW c \in Anc[b], c # b
    PROVE  Number[c] < Number[b]
<1>1. Canonical(b)
  BY AncestorIsBlock, HeaderAssumption DEF WellFormed, Canonical, Linked
<1> QED
  BY <1>1, CanonicalGrows

\* Two blocks of one canonical chain: one is an ancestor of the other.
LEMMA CanonicalIsLinear ==
    ASSUME NEW b \in Blocks, Canonical(b), NEW c \in Anc[b], NEW d \in Anc[b]
    PROVE  c \in Anc[d] \/ d \in Anc[c]
<1> DEFINE Bad(v) == Canonical(v) /\ \E e, f \in Anc[v] : e \notin Anc[f] /\ f \notin Anc[e]
           T == {Number[v] : v \in {w \in Blocks : Bad(w)}}
<1> SUFFICES ASSUME \E v \in Blocks : Bad(v) PROVE FALSE
  OBVIOUS
<1>1. T \in SUBSET Nat /\ T # {}
  BY HeaderAssumption
<1>2. PICK n \in T : \A m \in T : n <= m
  <2> HIDE DEF T
  <2> QED
    BY <1>1, LeastNat
<1>3. PICK v \in Blocks : Bad(v) /\ Number[v] = n
  BY <1>2
<1>4. PICK e \in Anc[v], f \in Anc[v] : e \notin Anc[f] /\ f \notin Anc[e]
  BY <1>3
<1>5. e # v /\ f # v
  BY <1>4
<1>6. /\ Parent[v] \in Blocks /\ Parent[v] \in Anc[v] /\ Anc[Parent[v]] \subseteq Anc[v]
      /\ e \in Anc[Parent[v]] /\ f \in Anc[Parent[v]]
  BY <1>4, <1>5, AncestorOfParent
<1>7. Number[Parent[v]] < Number[v] /\ Canonical(Parent[v])
  BY <1>3, <1>6, AncestryAssumption DEF Canonical
<1>8. Bad(Parent[v])
  BY <1>4, <1>6, <1>7
<1> QED
  BY <1>2, <1>3, <1>6, <1>7, <1>8, HeaderAssumption

-----------------------------------------------------------------------------
(* validateEVMTransition *)

WalkTypeOK ==
    /\ pc \in {"start", "parent", "climb", "collect", "report", "descend", "done"}
    /\ current \in Blocks /\ candidate \in Blocks /\ current # candidate
    /\ candidateCursor \in Blocks /\ cursor \in Blocks
    /\ step \in Nat
    /\ ancestors \in SUBSET Blocks
    /\ reported \in BOOLEAN /\ clean \in BOOLEAN

Walking == pc \in {"parent", "climb", "collect", "report", "descend"}
Meeting == pc \in {"collect", "report", "descend"}

\* What the headers alone have shown, and what has been reported so far.
Headers ==
    /\ pc = "start" => ~reported
    /\ Walking => /\ ~IsChildOf(candidate, current) /\ ~IsChildOf(current, candidate)
                  /\ PlainFork(current, candidate) => reported
    /\ pc \in {"parent", "climb"} => (reported => PlainFork(current, candidate))
    /\ pc = "collect" => (reported => Number[candidate] >= Number[current])
    /\ pc = "descend" => reported
    /\ pc = "climb" \/ Meeting => Sound(candidate)

Starting ==
    /\ pc \in {"start", "parent"} => candidateCursor = candidate /\ step = 0
    /\ pc \in {"start", "parent", "climb"} => cursor = current /\ ancestors = {current}

\* No block the accepted branch can share is above the cursor of the first walk.
Climbed ==
    pc = "climb" \/ Meeting =>
        /\ candidateCursor \in Anc[candidate]
        /\ \A c \in Anc[candidate] : Number[c] <= Number[current] => c \in Anc[candidateCursor]

Climbing ==
    pc = "climb" =>
        /\ Number[candidateCursor] + step = Number[candidate] /\ step <= Depth
        /\ step = 0 => candidateCursor = candidate
        /\ step = 1 => candidateCursor = Parent[candidate]
        /\ \A c \in Anc[candidate] \ Anc[candidateCursor] : Linked(c)

\* The collected ancestors lie above the candidate if the candidate lags.
Collected ==
    Meeting =>
        /\ Number[candidateCursor] <= Number[current] /\ candidateCursor # current
        /\ current \in ancestors /\ ancestors \subseteq Anc[current]
        /\ candidate \notin ancestors
        /\ candidate \in Anc[current] => \A a \in ancestors : candidate \in Anc[a]

Collecting ==
    pc = "collect" =>
        /\ cursor \in ancestors
        /\ Number[cursor] + step = Number[current] /\ step <= Depth
        /\ \A c \in Anc[current] : c \in ancestors \/ c \in Anc[cursor]

\* Nothing within the depth is missing from the ancestors.
CollectedAll ==
    pc \in {"report", "descend"} /\ clean /\ WellFormed(current) =>
        \A c \in Anc[current] : Number[current] <= Number[c] + Depth => c \in ancestors

Descending ==
    pc = "descend" =>
        /\ cursor \in Anc[candidateCursor]
        /\ Number[cursor] + step = Number[candidateCursor] /\ step <= Depth
        /\ step = 0 => cursor = candidateCursor
        /\ \A c \in Anc[candidateCursor] : c \in Anc[cursor] \/ c \notin ancestors

WalkInv ==
    /\ WalkTypeOK /\ Headers /\ Starting /\ Climbed /\ Climbing
    /\ Collected /\ Collecting /\ CollectedAll /\ Descending
    /\ AnswerMeetsContract

LEMMA SameMeets ==
    ASSUME reported \in BOOLEAN, ~reported,
           (Extends(current, candidate) /\ Sound(candidate)) \/ Lags(current, candidate)
    PROVE  [result |-> "same", reported |-> reported] \in TransitionOutcomes(current, candidate, clean)
<1>1. reported = FALSE
  OBVIOUS
<1> QED
  BY <1>1 DEF TransitionOutcomes, Outcome

LEMMA ReorgMeets ==
    ASSUME reported = TRUE, Forks(current, candidate), Sound(candidate)
    PROVE  [result |-> "reorg", reported |-> reported] \in TransitionOutcomes(current, candidate, clean)
BY DEF TransitionOutcomes, Outcome

LEMMA ErrorMeets ==
    ASSUME NEW r \in BOOLEAN, NEW c \in BOOLEAN, ~(c /\ WithinDepth(current, candidate)),
           ~IsChildOf(candidate, current), ~IsChildOf(current, candidate),
           PlainFork(current, candidate) => r,
           r => PlainFork(current, candidate) \/ Sound(candidate)
    PROVE  [result |-> "error", reported |-> r] \in TransitionOutcomes(current, candidate, c)
BY DEF TransitionOutcomes, Outcome

LEMMA WalkTypeStep ==
    ASSUME WalkTypeOK, [WalkStep]_walkVars
    PROVE  WalkTypeOK'
<1> USE DEF WalkTypeOK, inputs
<1>1. CASE Adjacent
  BY <1>1 DEF Adjacent, Return
<1>2. CASE Start
  BY <1>2 DEF Start, ReportThen, Return
<1>3. CASE VerifyCandidateParent
  BY <1>3 DEF VerifyCandidateParent, Return, FetchFails, FetchUnlinked, FetchParent
<1>4. CASE Climb
  <2>1. clean' \in BOOLEAN
    BY <1>4 DEF Climb, FetchFails, FetchUnlinked, FetchParent
  <2>2. candidateCursor' \in Blocks /\ step' \in Nat
    BY <1>4 DEF Climb, FetchParent, Linked
  <2>3. pc' \in {pc, "done"} /\ UNCHANGED <<inputs, cursor, ancestors, reported>>
    BY <1>4 DEF Climb, Return
  <2> QED
    BY <2>1, <2>2, <2>3
<1>5. CASE Level
  BY <1>5 DEF Level, ReportThen, Return
<1>6. CASE Collect
  <2>1. clean' \in BOOLEAN
    BY <1>6 DEF Collect, FetchFails, FetchUnlinked, FetchParent
  <2>2. cursor' \in Blocks /\ step' \in Nat /\ ancestors' \in SUBSET Blocks
    BY <1>6 DEF Collect, FetchParent, Linked
  <2>3. pc' \in {pc, "report", "done"} /\ UNCHANGED <<inputs, candidateCursor, reported>>
    BY <1>6 DEF Collect, Return
  <2> QED
    BY <2>1, <2>2, <2>3
<1>7. CASE CollectEnds
  BY <1>7 DEF CollectEnds
<1>8. CASE Report
  BY <1>8 DEF Report, ReportThen, Return
<1>9. CASE Descend
  <2>1. clean' \in BOOLEAN
    BY <1>9 DEF Descend, FetchFails, FetchUnlinked, FetchParent
  <2>2. cursor' \in Blocks /\ step' \in Nat
    BY <1>9 DEF Descend, FetchParent, Linked
  <2>3. pc' \in {pc, "done"} /\ UNCHANGED <<inputs, candidateCursor, ancestors, reported>>
    BY <1>9 DEF Descend, Return
  <2> QED
    BY <2>1, <2>2, <2>3
<1>10. CASE UNCHANGED walkVars
  BY <1>10 DEF walkVars
<1> QED
  BY <1>1, <1>2, <1>3, <1>4, <1>5, <1>6, <1>7, <1>8, <1>9, <1>10 DEF WalkStep, Done

\* A step that returns preserves the invariant if its answer meets the contract.
LEMMA ReturnStep ==
    ASSUME WalkTypeOK', pc' = "done", UNCHANGED inputs,
           [result |-> result', reported |-> reported']
               \in TransitionOutcomes(current, candidate, clean')
    PROVE  WalkInv'
BY DEF WalkInv, Headers, Starting, Climbed, Climbing, Collected, Collecting, CollectedAll,
       Descending, AnswerMeetsContract, Walking, Meeting, inputs

\* The walk can end in an error once the two headers did not settle it.
LEMMA ErrorStep ==
    ASSUME WalkTypeOK', Walking, Headers, UNCHANGED inputs, Return("error"),
           reported => reported',
           reported' => PlainFork(current, candidate) \/ Sound(candidate),
           ~(clean' /\ WithinDepth(current, candidate))
    PROVE  WalkInv'
<1>1. /\ ~IsChildOf(candidate, current) /\ ~IsChildOf(current, candidate)
      /\ PlainFork(current, candidate) => reported'
  BY DEF Headers
<1>2. reported' \in BOOLEAN /\ clean' \in BOOLEAN
  BY DEF WalkTypeOK
<1>3. [result |-> "error", reported |-> reported'] \in TransitionOutcomes(current, candidate, clean')
  BY <1>1, <1>2, ErrorMeets
<1> QED
  BY <1>3, ReturnStep DEF Return

LEMMA AdjacentStep == WalkInv /\ Adjacent => WalkInv'
<1> SUFFICES ASSUME WalkInv, Adjacent PROVE WalkInv'
  OBVIOUS
<1>1. WalkTypeOK'
  BY WalkTypeStep DEF WalkInv, WalkStep
<1>2. WalkTypeOK /\ ~reported
  BY DEF WalkInv, Headers, Adjacent
<1>3. (Extends(current, candidate) /\ Sound(candidate)) \/ Lags(current, candidate)
  <2>1. CASE IsChildOf(candidate, current)
    BY <1>2, <2>1, AncestryAssumption, HeaderAssumption
    DEF WalkTypeOK, IsChildOf, Extends, Sound, Linked
  <2>2. CASE IsChildOf(current, candidate)
    BY <1>2, <2>2, AncestryAssumption, HeaderAssumption DEF WalkTypeOK, IsChildOf, Lags
  <2> QED
    BY <2>1, <2>2 DEF Adjacent
<1>4. [result |-> "same", reported |-> reported] \in TransitionOutcomes(current, candidate, clean)
  BY <1>2, <1>3, SameMeets DEF WalkTypeOK
<1> QED
  BY <1>1, <1>4, ReturnStep DEF Adjacent, Return

LEMMA StartStep == WalkInv /\ Start => WalkInv'
<1> SUFFICES ASSUME WalkInv, Start PROVE WalkInv'
  OBVIOUS
<1>1. WalkTypeOK'
  BY WalkTypeStep DEF WalkInv, WalkStep
<1>2. /\ WalkTypeOK /\ Headers /\ Starting /\ pc = "start"
      /\ UNCHANGED <<inputs, candidateCursor, cursor, step, ancestors>>
      /\ ~IsChildOf(candidate, current) /\ ~IsChildOf(current, candidate)
  BY DEF WalkInv, Start
<1>3. CASE pc' = "parent"
  <2>1. reported' <=> PlainFork(current, candidate)
    BY <1>2, <1>3 DEF Start, ReportThen, Return, Headers
  <2> QED
    BY <1>1, <1>2, <1>3, <2>1
    DEF WalkInv, Headers, Starting, Climbed, Climbing, Collected, Collecting, CollectedAll,
        Descending, AnswerMeetsContract, Walking, Meeting, inputs, PlainFork, IsChildOf
<1>4. CASE pc' # "parent"
  <2>1. Return("error") /\ reported' = TRUE /\ clean' = FALSE /\ PlainFork(current, candidate)
    BY <1>2, <1>4 DEF Start, ReportThen, Headers
  <2>2. [result |-> "error", reported |-> TRUE] \in TransitionOutcomes(current, candidate, FALSE)
    BY <1>2, <2>1, ErrorMeets
  <2> QED
    BY <1>1, <1>2, <2>1, <2>2, ReturnStep DEF Return
<1> QED
  BY <1>3, <1>4

LEMMA VerifyCandidateParentStep == WalkInv /\ VerifyCandidateParent => WalkInv'
<1> SUFFICES ASSUME WalkInv, VerifyCandidateParent PROVE WalkInv'
  OBVIOUS
<1>1. WalkTypeOK'
  BY WalkTypeStep DEF WalkInv, WalkStep
<1>2. /\ WalkTypeOK /\ Headers /\ Starting /\ pc = "parent" /\ Walking
      /\ UNCHANGED <<inputs, candidateCursor, cursor, step, ancestors, reported>>
      /\ Number[candidate] \in Nat
  BY HeaderAssumption DEF WalkInv, VerifyCandidateParent, Walking, WalkTypeOK
<1>3. CASE pc' = "climb"
  <2>1. Sound(candidate)
    BY <1>3 DEF VerifyCandidateParent, Return, FetchParent, Sound
  <2>2. Climbed'
    BY <1>2, <1>3, AncestryAssumption DEF Climbed, Starting, WalkTypeOK, Meeting, inputs
  <2>3. Climbing'
    BY <1>2, <1>3, DepthAssumption DEF Climbing, Starting, inputs
  <2>4. Headers' /\ Starting'
    BY <1>2, <1>3, <2>1
    DEF Headers, Starting, Walking, Meeting, inputs, PlainFork, IsChildOf, Sound, Linked
  <2> QED
    BY <1>1, <1>3, <2>2, <2>3, <2>4
    DEF WalkInv, Collected, Collecting, CollectedAll, Descending, AnswerMeetsContract, Meeting
<1>4. CASE pc' # "climb"
  <2>1. Return("error") /\ (FetchFails \/ FetchUnlinked(candidate)) /\ Number[candidate] > 0
    BY <1>4 DEF VerifyCandidateParent
  <2>2. ~(clean' /\ WithinDepth(current, candidate))
    BY <1>2, <2>1, AncestryAssumption
    DEF FetchFails, FetchUnlinked, WithinDepth, WellFormed, WalkTypeOK
  <2>3. reported' => PlainFork(current, candidate)
    BY <1>2 DEF Headers
  <2> QED
    BY <1>1, <1>2, <2>1, <2>2, <2>3, ErrorStep
<1> QED
  BY <1>3, <1>4

LEMMA ClimbStep == WalkInv /\ Climb => WalkInv'
<1> SUFFICES ASSUME WalkInv, Climb PROVE WalkInv'
  OBVIOUS
<1>1. WalkTypeOK'
  BY WalkTypeStep DEF WalkInv, WalkStep
<1>2. /\ WalkTypeOK /\ Headers /\ Starting /\ Climbed /\ Climbing
      /\ pc = "climb" /\ Walking
      /\ UNCHANGED <<inputs, cursor, ancestors, reported>>
      /\ Number[candidateCursor] > Number[current]
  BY DEF WalkInv, Climb, Walking
<1>3. /\ candidateCursor \in Anc[candidate] /\ step <= Depth /\ Sound(candidate)
      /\ Number[candidateCursor] + step = Number[candidate]
      /\ Number[candidate] \in Nat /\ Number[current] \in Nat /\ Number[candidateCursor] \in Nat
  BY <1>2, HeaderAssumption DEF Climbed, Climbing, Headers, WalkTypeOK
<1>4. CASE pc' = "climb"
  <2>1. /\ step < Depth /\ Linked(candidateCursor)
        /\ candidateCursor' = Parent[candidateCursor] /\ step' = step + 1
        /\ UNCHANGED result
    BY <1>4 DEF Climb, Return, FetchParent
  <2>2. /\ candidateCursor' \in Blocks /\ candidateCursor' \in Anc[candidateCursor]
        /\ Number[candidateCursor] = Number[candidateCursor'] + 1
        /\ \A c \in Anc[candidateCursor] : c = candidateCursor \/ c \in Anc[candidateCursor']
    BY <1>2, <2>1, ParentIsAncestor DEF WalkTypeOK
  <2>3. Climbed'
    <3>1. candidateCursor' \in Anc[candidate]
      BY <1>2, <1>3, <2>2, AncestorIsBlock DEF WalkTypeOK
    <3>2. ASSUME NEW c \in Anc[candidate], Number[c] <= Number[current]
          PROVE  c \in Anc[candidateCursor']
      <4>1. c \in Anc[candidateCursor]
        BY <1>2, <3>2 DEF Climbed
      <4>2. c # candidateCursor
        BY <1>2, <1>3, <3>2
      <4> QED
        BY <2>2, <4>1, <4>2
    <3> QED
      BY <1>2, <3>1, <3>2 DEF Climbed, inputs
  <2>4. Climbing'
    <3>1. step' = 1 => candidateCursor' = Parent[candidate]
      BY <1>2, <2>1 DEF Climbing, WalkTypeOK
    <3>2. Number[candidateCursor'] + step' = Number[candidate] /\ step' <= Depth /\ step' # 0
      BY <1>2, <1>3, <2>1, <2>2, DepthAssumption, HeaderAssumption DEF WalkTypeOK
    <3>3. \A c \in Anc[candidate] \ Anc[candidateCursor'] : Linked(c)
      BY <1>2, <2>1, <2>2 DEF Climbing
    <3> QED
      BY <1>2, <3>1, <3>2, <3>3 DEF Climbing, inputs, Linked
  <2>5. Headers' /\ Starting'
    BY <1>2, <1>4
    DEF Headers, Starting, Walking, Meeting, inputs, PlainFork, IsChildOf, Sound, Linked
  <2> QED
    BY <1>1, <1>4, <2>3, <2>4, <2>5
    DEF WalkInv, Collected, Collecting, CollectedAll, Descending, AnswerMeetsContract, Meeting
<1>5. CASE pc' # "climb"
  <2>1. /\ Return("error")
        /\ \/ step >= Depth
           \/ FetchFails \/ FetchUnlinked(candidateCursor)
    BY <1>2, <1>5 DEF Climb
  <2>2. ~(clean' /\ WithinDepth(current, candidate))
    <3>1. step >= Depth => ~(Number[candidate] <= Number[current] + Depth)
      BY <1>2, <1>3, DepthAssumption DEF WalkTypeOK
    <3>2. FetchUnlinked(candidateCursor) => ~WellFormed(candidate)
      BY <1>2, <1>3 DEF FetchUnlinked, WellFormed
    <3> QED
      BY <2>1, <3>1, <3>2 DEF FetchFails, WithinDepth
  <2> QED
    BY <1>1, <1>2, <1>3, <2>1, <2>2, ErrorStep
<1> QED
  BY <1>4, <1>5

LEMMA LevelStep == WalkInv /\ Level => WalkInv'
<1> SUFFICES ASSUME WalkInv, Level PROVE WalkInv'
  OBVIOUS
<1>1. WalkTypeOK'
  BY WalkTypeStep DEF WalkInv, WalkStep
<1>2. /\ WalkTypeOK /\ Headers /\ Starting /\ Climbed /\ Climbing
      /\ pc = "climb" /\ Walking
      /\ UNCHANGED <<inputs, candidateCursor, cursor, ancestors>> /\ step' = 0
      /\ Number[candidateCursor] <= Number[current]
  BY DEF WalkInv, Level, Walking
<1>3. /\ candidateCursor \in Anc[candidate] /\ Sound(candidate)
      /\ Number[candidateCursor] + step = Number[candidate]
      /\ Number[candidate] \in Nat /\ Number[current] \in Nat /\ Number[candidateCursor] \in Nat
      /\ cursor = current /\ ancestors = {current}
  BY <1>2, HeaderAssumption DEF Climbed, Climbing, Headers, Starting, WalkTypeOK
<1>4. CASE candidateCursor = current
  <2>1. Return("same") /\ UNCHANGED <<reported, clean>>
    BY <1>3, <1>4 DEF Level, ReportThen
  <2>2. step # 0
    BY <1>2, <1>4 DEF Climbing, WalkTypeOK
  <2>3. Extends(current, candidate)
    BY <1>2, <1>3, <1>4, <2>2 DEF Extends, WalkTypeOK, Climbing
  <2>4. ~reported
    <3>1. ~PlainFork(current, candidate)
      <4>1. step = 1 => Parent[candidate] = current
        BY <1>2, <1>4 DEF Climbing
      <4> QED
        BY <1>2, <1>3, <1>4, <2>2, <4>1 DEF PlainFork, IsChildOf, WalkTypeOK
    <3> QED
      BY <1>2, <3>1 DEF Headers
  <2>5. [result |-> "same", reported |-> reported] \in TransitionOutcomes(current, candidate, clean)
    BY <1>2, <1>3, <2>3, <2>4, SameMeets DEF WalkTypeOK
  <2> QED
    BY <1>1, <1>2, <2>1, <2>5, ReturnStep DEF Return
<1>5. CASE candidateCursor # current /\ pc' = "collect"
  <2>1. reported' => Number[candidate] >= Number[current]
    <3>1. reported => Number[candidate] >= Number[current]
      BY <1>2, <1>3 DEF Headers, PlainFork
    <3>2. Number[candidateCursor] = Number[current] => Number[candidate] >= Number[current]
      BY <1>2, <1>3 DEF WalkTypeOK
    <3>3. reported' => reported \/ Number[candidateCursor] = Number[current]
      BY <1>3, <1>5 DEF Level
    <3> QED
      BY <3>1, <3>2, <3>3
  <2>2. reported => reported'
    BY <1>5 DEF Level, ReportThen
  <2>3. Headers' /\ Starting'
    BY <1>2, <1>3, <1>5, <2>1, <2>2
    DEF Headers, Starting, Walking, Meeting, inputs, PlainFork, IsChildOf, Sound, Linked
  <2>4. Climbed'
    BY <1>2, <1>5 DEF Climbed, Meeting, inputs
  <2>5. Collected'
    BY <1>2, <1>3, <1>5, AncestryAssumption DEF Collected, Meeting, inputs, WalkTypeOK
  <2>6. Collecting'
    BY <1>2, <1>3, DepthAssumption DEF Collecting, inputs
  <2> QED
    BY <1>1, <1>5, <2>3, <2>4, <2>5, <2>6
    DEF WalkInv, Climbing, CollectedAll, Descending, AnswerMeetsContract, Meeting
<1>6. CASE candidateCursor # current /\ pc' # "collect"
  <2>1. Return("error") /\ clean' = FALSE /\ reported' = TRUE
    BY <1>6 DEF Level, ReportThen
  <2> QED
    BY <1>1, <1>2, <1>3, <2>1, ErrorStep
<1> QED
  BY <1>4, <1>5, <1>6

LEMMA CollectStep == WalkInv /\ Collect => WalkInv'
<1> SUFFICES ASSUME WalkInv, Collect PROVE WalkInv'
  OBVIOUS
<1>1. WalkTypeOK'
  BY WalkTypeStep DEF WalkInv, WalkStep
<1>2. /\ WalkTypeOK /\ Headers /\ Climbed /\ Collected /\ Collecting
      /\ pc = "collect" /\ Walking /\ Meeting
      /\ UNCHANGED <<inputs, candidateCursor, reported>>
      /\ step < Depth /\ Number[cursor] > 0
  BY DEF WalkInv, Collect, Walking, Meeting
<1>3. /\ cursor \in ancestors /\ cursor \in Anc[current] /\ Sound(candidate)
      /\ Number[cursor] + step = Number[current]
      /\ candidate \notin ancestors /\ ancestors \subseteq Anc[current]
      /\ Number[candidate] \in Nat /\ Number[current] \in Nat /\ Number[cursor] \in Nat
  BY <1>2, HeaderAssumption DEF Collected, Collecting, Headers, WalkTypeOK
<1>4. CASE FetchFails /\ pc' = "report"
  <2>1. UNCHANGED <<cursor, step, ancestors>> /\ clean' = FALSE
    BY <1>4 DEF Collect, Return, FetchFails
  <2>2. Headers' /\ Starting' /\ Climbed' /\ Collected'
    BY <1>2, <1>4, <2>1
    DEF Headers, Starting, Climbed, Collected, Walking, Meeting, inputs, PlainFork, IsChildOf,
        Sound, Linked
  <2> QED
    BY <1>1, <1>4, <2>1, <2>2
    DEF WalkInv, Climbing, Collecting, CollectedAll, Descending, AnswerMeetsContract
<1>5. CASE FetchUnlinked(cursor) /\ Return("error")
  <2>1. ~WellFormed(current)
    BY <1>2, <1>3, <1>5 DEF FetchUnlinked, WellFormed
  <2> QED
    BY <1>1, <1>2, <1>3, <1>5, <2>1, ErrorStep DEF WithinDepth
<1>6. CASE FetchParent(cursor) /\ cursor' = Parent[cursor]
  <2>1. /\ ancestors' = ancestors \cup {cursor'} /\ step' = step + 1
        /\ Linked(cursor) /\ UNCHANGED clean
        /\ IF cursor' = candidate THEN Return("same") ELSE UNCHANGED <<pc, result>>
    BY <1>6, <1>2, ParentIsAncestor, HeaderAssumption
    DEF Collect, FetchParent, FetchUnlinked, FetchFails, Return, WalkTypeOK
  <2>2. /\ cursor' \in Blocks /\ cursor' \in Anc[cursor] /\ cursor' \in Anc[current]
        /\ Number[cursor] = Number[cursor'] + 1 /\ Number[cursor'] \in Nat
        /\ \A c \in Anc[cursor] : c = cursor \/ c \in Anc[cursor']
    BY <1>2, <1>3, <1>6, <2>1, ParentIsAncestor, AncestorIsBlock DEF WalkTypeOK
  <2>3. CASE cursor' = candidate
    <3>1. Lags(current, candidate)
      BY <1>2, <1>3, <2>2, <2>3 DEF Lags, WalkTypeOK
    <3>2. ~reported
      BY <1>2, <1>3, <3>1 DEF Headers, Lags
    <3>3. [result |-> "same", reported |-> reported] \in TransitionOutcomes(current, candidate, clean)
      BY <1>2, <3>1, <3>2, SameMeets DEF WalkTypeOK
    <3> QED
      BY <1>1, <1>2, <2>1, <2>3, <3>3, ReturnStep DEF Return
  <2>4. CASE cursor' # candidate
    <3>1. Headers' /\ Starting' /\ Climbed'
      BY <1>2, <2>1, <2>4
      DEF Headers, Starting, Climbed, Walking, Meeting, inputs, PlainFork, IsChildOf, Sound, Linked
    <3>2. Collected'
      <4>1. candidate \in Anc[current] => candidate \in Anc[cursor']
        BY <1>2, <1>3, <2>2 DEF Collected
      <4> QED
        BY <1>2, <1>3, <2>1, <2>2, <2>4, <4>1 DEF Collected, inputs, Meeting
    <3>3. Collecting'
      <4>1. \A c \in Anc[current] : c \in ancestors' \/ c \in Anc[cursor']
        BY <1>2, <1>3, <2>1, <2>2 DEF Collecting
      <4>2. Number[cursor'] + step' = Number[current] /\ step' <= Depth
        BY <1>2, <1>3, <2>1, <2>2, DepthAssumption DEF WalkTypeOK
      <4> QED
        BY <1>2, <2>1, <4>1, <4>2 DEF Collecting, inputs
    <3> QED
      BY <1>1, <1>2, <2>1, <2>4, <3>1, <3>2, <3>3
      DEF WalkInv, Climbing, CollectedAll, Descending, AnswerMeetsContract
  <2> QED
    BY <2>3, <2>4
<1> QED
  BY <1>4, <1>5, <1>6 DEF Collect

LEMMA CollectEndsStep == WalkInv /\ CollectEnds => WalkInv'
<1> SUFFICES ASSUME WalkInv, CollectEnds PROVE WalkInv'
  OBVIOUS
<1>1. WalkTypeOK'
  BY WalkTypeStep DEF WalkInv, WalkStep
<1>2. /\ WalkTypeOK /\ Headers /\ Climbed /\ Collected /\ Collecting
      /\ pc = "collect" /\ pc' = "report" /\ Walking /\ Meeting
      /\ UNCHANGED <<inputs, candidateCursor, cursor, step, ancestors, reported, result, clean>>
      /\ step >= Depth \/ Number[cursor] = 0
  BY DEF WalkInv, CollectEnds, Walking, Meeting
<1>3. Headers' /\ Starting' /\ Climbed' /\ Collected'
  BY <1>2
  DEF Headers, Starting, Climbed, Collected, Walking, Meeting, inputs, PlainFork, IsChildOf,
      Sound, Linked
<1>4. CollectedAll'
  <2> SUFFICES ASSUME WellFormed(current), NEW c \in Anc[current],
                      Number[current] <= Number[c] + Depth, c \notin ancestors
               PROVE  FALSE
    BY <1>2 DEF CollectedAll, inputs, WellFormed, Linked
  <2>1. c \in Anc[cursor] /\ c # cursor
    BY <1>2 DEF Collecting
  <2>2. cursor \in Blocks /\ cursor \in Anc[current] /\ WellFormed(cursor)
    BY <1>2, AncestorIsBlock DEF Collecting, Collected, WellFormed, WalkTypeOK
  <2>3. Number[c] < Number[cursor] /\ Number[c] \in Nat
    BY <2>1, <2>2, WellFormedGrows, AncestorIsBlock
  <2> QED
    BY <1>2, <2>2, <2>3, HeaderAssumption, DepthAssumption DEF Collecting, WalkTypeOK
<1> QED
  BY <1>1, <1>2, <1>3, <1>4
  DEF WalkInv, Climbing, Collecting, Descending, AnswerMeetsContract

LEMMA ReportStep == WalkInv /\ Report => WalkInv'
<1> SUFFICES ASSUME WalkInv, Report PROVE WalkInv'
  OBVIOUS
<1>1. WalkTypeOK'
  BY WalkTypeStep DEF WalkInv, WalkStep
<1>2. /\ WalkTypeOK /\ Headers /\ Climbed /\ Collected /\ CollectedAll
      /\ pc = "report" /\ Walking /\ Meeting /\ Sound(candidate)
      /\ UNCHANGED <<inputs, candidateCursor, ancestors>>
      /\ cursor' = candidateCursor /\ step' = 0
  BY DEF WalkInv, Report, Walking, Meeting, Headers
<1>3. CASE pc' = "descend"
  <2>1. reported' /\ UNCHANGED clean
    BY <1>2, <1>3 DEF Report, ReportThen, Return
  <2>2. Headers' /\ Starting' /\ Climbed' /\ Collected' /\ CollectedAll'
    BY <1>2, <1>3, <2>1
    DEF Headers, Starting, Climbed, Collected, CollectedAll, Walking, Meeting, inputs, PlainFork,
        IsChildOf, Sound, Linked, WellFormed
  <2>3. Descending'
    BY <1>2, <1>3, AncestryAssumption, HeaderAssumption, DepthAssumption DEF Descending, WalkTypeOK
  <2> QED
    BY <1>1, <1>3, <2>2, <2>3 DEF WalkInv, Climbing, Collecting, AnswerMeetsContract
<1>4. CASE pc' # "descend"
  <2>1. Return("error") /\ clean' = FALSE /\ reported' = TRUE
    BY <1>4 DEF Report, ReportThen
  <2> QED
    BY <1>1, <1>2, <2>1, ErrorStep
<1> QED
  BY <1>3, <1>4

LEMMA DescendStep == WalkInv /\ Descend => WalkInv'
<1> SUFFICES ASSUME WalkInv, Descend PROVE WalkInv'
  OBVIOUS
<1>1. WalkTypeOK'
  BY WalkTypeStep DEF WalkInv, WalkStep
<1>2. /\ WalkTypeOK /\ Headers /\ Climbed /\ Collected /\ CollectedAll /\ Descending
      /\ pc = "descend" /\ Walking /\ Meeting /\ Sound(candidate) /\ reported
      /\ UNCHANGED <<inputs, candidateCursor, ancestors, reported>>
  BY DEF WalkInv, Descend, Walking, Meeting, Headers
<1>3. /\ candidateCursor \in Anc[candidate] /\ cursor \in Anc[candidateCursor]
      /\ cursor \in Anc[candidate] /\ Anc[cursor] \subseteq Anc[candidate]
      /\ ancestors \subseteq Anc[current] /\ current \in ancestors /\ candidate \notin ancestors
      /\ Number[cursor] + step = Number[candidateCursor]
      /\ Number[candidateCursor] <= Number[current]
      /\ Number[current] \in Nat /\ Number[cursor] \in Nat /\ Number[candidateCursor] \in Nat
  BY <1>2, AncestorIsBlock, HeaderAssumption DEF Climbed, Collected, Descending, WalkTypeOK
<1>4. CASE cursor \in ancestors
  <2>1. Return("reorg") /\ UNCHANGED clean
    BY <1>4 DEF Descend
  <2>2. cursor \in Anc[current]
    BY <1>3, <1>4
  <2>3. current \notin Anc[candidate]
    <3> SUFFICES ASSUME current \in Anc[candidate] PROVE FALSE
      OBVIOUS
    <3>1. current \in Anc[candidateCursor]
      BY <1>2, <1>3 DEF Climbed
    <3>2. current \in Anc[cursor]
      BY <1>2, <1>3, <3>1 DEF Descending
    <3>3. current = cursor
      BY <1>2, <2>2, <3>2, SameIfMutual DEF WalkTypeOK
    <3>4. step = 0
      BY <1>2, <1>3, <3>3 DEF WalkTypeOK
    <3> QED
      BY <1>2, <3>3, <3>4 DEF Descending, Collected
  <2>4. candidate \notin Anc[current]
    <3> SUFFICES ASSUME candidate \in Anc[current] PROVE FALSE
      OBVIOUS
    <3>1. candidate \in Anc[cursor]
      BY <1>2, <1>4 DEF Collected
    <3>2. candidate = cursor
      BY <1>2, <1>3, <3>1, SameIfMutual DEF WalkTypeOK
    <3> QED
      BY <1>3, <1>4, <3>2
  <2>5. Forks(current, candidate)
    BY <1>3, <2>2, <2>3, <2>4 DEF Forks
  <2>6. [result |-> "reorg", reported |-> reported] \in TransitionOutcomes(current, candidate, clean)
    BY <1>2, <2>5, ReorgMeets DEF WalkTypeOK
  <2> QED
    BY <1>1, <1>2, <2>1, <2>6, ReturnStep DEF Return
<1>5. CASE cursor \notin ancestors /\ (Number[cursor] = 0 \/ step = Depth)
  <2>1. Return("error") /\ UNCHANGED clean
    BY <1>2, <1>3, <1>5, DepthAssumption DEF Descend, WalkTypeOK
  <2>2. ~(clean /\ WithinDepth(current, candidate))
    <3> SUFFICES ASSUME clean, WithinDepth(current, candidate) PROVE FALSE
      OBVIOUS
    <3>1. WellFormed(current) /\ WellFormed(candidate)
      BY DEF WithinDepth
    <3>2. PICK c \in Anc[current] \cap Anc[candidate] : Number[current] <= Number[c] + Depth
      BY DEF WithinDepth
    <3>3. c \in ancestors
      BY <1>2, <3>1, <3>2 DEF CollectedAll
    <3>4. Number[c] <= Number[current] /\ Number[c] \in Nat
      BY <1>2, <1>3, <3>1, <3>2, WellFormedGrows, AncestorIsBlock DEF WalkTypeOK
    <3>5. c \in Anc[cursor] /\ c # cursor
      BY <1>2, <1>5, <3>2, <3>3, <3>4 DEF Climbed, Descending
    <3>6. WellFormed(cursor)
      BY <1>3, <3>1 DEF WellFormed
    <3>7. Number[c] < Number[cursor]
      BY <1>2, <3>5, <3>6, WellFormedGrows DEF WalkTypeOK
    <3> QED
      BY <1>2, <1>3, <1>5, <3>2, <3>4, <3>7, DepthAssumption DEF WalkTypeOK
  <2> QED
    BY <1>1, <1>2, <2>1, <2>2, ErrorStep
<1>6. CASE cursor \notin ancestors /\ Number[cursor] > 0 /\ step < Depth /\ pc' # "descend"
  <2>1. Return("error") /\ (FetchFails \/ FetchUnlinked(cursor))
    BY <1>2, <1>6, DepthAssumption DEF Descend, WalkTypeOK
  <2>2. FetchUnlinked(cursor) => ~WellFormed(candidate)
    BY <1>3, <1>6 DEF FetchUnlinked, WellFormed
  <2> QED
    BY <1>1, <1>2, <2>1, <2>2, ErrorStep DEF FetchFails, WithinDepth
<1>7. CASE cursor \notin ancestors /\ Number[cursor] > 0 /\ step < Depth /\ pc' = "descend"
  <2>1. /\ Linked(cursor) /\ cursor' = Parent[cursor] /\ step' = step + 1
        /\ UNCHANGED <<pc, result, clean>>
    BY <1>2, <1>7, DepthAssumption DEF Descend, Return, FetchParent, WalkTypeOK
  <2>2. /\ cursor' \in Blocks /\ cursor' \in Anc[cursor]
        /\ Number[cursor] = Number[cursor'] + 1 /\ Number[cursor'] \in Nat
        /\ \A c \in Anc[cursor] : c = cursor \/ c \in Anc[cursor']
    BY <1>2, <2>1, ParentIsAncestor, AncestorIsBlock DEF WalkTypeOK
  <2>3. Headers' /\ Starting' /\ Climbed' /\ Collected' /\ CollectedAll'
    BY <1>2, <2>1
    DEF Headers, Starting, Climbed, Collected, CollectedAll, Walking, Meeting, inputs, PlainFork,
        IsChildOf, Sound, Linked, WellFormed
  <2>4. Descending'
    <3>1. cursor' \in Anc[candidateCursor]
      BY <1>2, <1>3, <2>2, AncestorIsBlock DEF WalkTypeOK
    <3>2. Number[cursor'] + step' = Number[candidateCursor] /\ step' <= Depth /\ step' # 0
      BY <1>2, <1>3, <1>7, <2>1, <2>2, DepthAssumption DEF WalkTypeOK
    <3>3. \A c \in Anc[candidateCursor] : c \in Anc[cursor'] \/ c \notin ancestors
      BY <1>2, <1>7, <2>2 DEF Descending
    <3> QED
      BY <1>2, <3>1, <3>2, <3>3 DEF Descending
  <2> QED
    BY <1>1, <1>2, <2>1, <2>3, <2>4
    DEF WalkInv, Climbing, Collecting, AnswerMeetsContract
<1> QED
  BY <1>2, <1>3, <1>4, <1>5, <1>6, <1>7, DepthAssumption DEF WalkTypeOK, Descending

(***************************************************************************)
(* validateEVMTransition answers by its contract for every tree of headers *)
(* and every reorg_depth, whichever requests fail: "same" only for a       *)
(* proved extension or ancestor, "reorg" only for a proved fork that was   *)
(* reported, and an error only if a request failed or the branches do not  *)
(* meet within reorg_depth.  It is what the proofs about Coordinator rely  *)
(* on.                                                                     *)
(***************************************************************************)
THEOREM WalkMeetsContract == WalkSpec => []AnswerMeetsContract
<1>1. WalkInit => WalkInv
  <2> SUFFICES ASSUME WalkInit PROVE WalkInv
    OBVIOUS
  <2>1. pc = "start" /\ ~reported
    BY DEF WalkInit
  <2>2. WalkTypeOK
    BY DEF WalkInit, WalkTypeOK
  <2>3. Starting
    BY DEF WalkInit, Starting
  <2> QED
    BY <2>1, <2>2, <2>3
    DEF WalkInv, Headers, Climbed, Climbing, Collected, Collecting, CollectedAll, Descending,
        AnswerMeetsContract, Walking, Meeting
<1>2. WalkInv /\ [WalkNext]_walkVars => WalkInv'
  <2> SUFFICES ASSUME WalkInv, [WalkNext]_walkVars PROVE WalkInv'
    OBVIOUS
  <2>1. CASE UNCHANGED walkVars
    BY <2>1
    DEF walkVars, WalkInv, WalkTypeOK, Headers, Starting, Climbed, Climbing, Collected, Collecting,
        CollectedAll, Descending, AnswerMeetsContract, Walking, Meeting, PlainFork, IsChildOf,
        Sound, Linked, WellFormed
  <2> QED
    BY <2>1, AdjacentStep, StartStep, VerifyCandidateParentStep, ClimbStep, LevelStep,
       CollectStep, CollectEndsStep, ReportStep, DescendStep
    DEF WalkNext, WalkStep, Done
<1>3. WalkInv => AnswerMeetsContract
  BY DEF WalkInv
<1> QED
  BY <1>1, <1>2, <1>3, PTL DEF WalkSpec

\* The requests each phase of the walk can have made.
RequestsInv ==
    /\ WalkTypeOK
    /\ requests \in Nat
    /\ pc \in {"start", "parent"} => requests = 0 /\ step = 0
    /\ pc = "climb" => step <= Depth /\ requests <= 1 + step
    /\ pc = "collect" => step <= Depth /\ requests <= 1 + Depth + step
    /\ pc = "report" => requests <= 1 + 2 * Depth
    /\ pc = "descend" => step <= Depth /\ requests <= 1 + 2 * Depth + step
    /\ RequestsAreBounded

(***************************************************************************)
(* Whatever headers the providers serve and whichever requests fail, one   *)
(* observation costs the coordinator at most 3 * reorg_depth + 1 requests. *)
(***************************************************************************)
THEOREM WalkIsBounded == WalkSpec => []RequestsAreBounded
<1>1. WalkInit => RequestsInv
  <2> SUFFICES ASSUME WalkInit PROVE RequestsInv
    OBVIOUS
  <2>1. WalkTypeOK /\ pc = "start" /\ step = 0 /\ requests = 0
    BY DEF WalkInit, WalkTypeOK
  <2> QED
    BY <2>1, DepthAssumption DEF RequestsInv, RequestsAreBounded
<1>2. RequestsInv /\ [WalkNext]_walkVars => RequestsInv'
  <2> SUFFICES ASSUME RequestsInv, [WalkNext]_walkVars PROVE RequestsInv'
    OBVIOUS
  <2>1. WalkTypeOK'
    BY WalkTypeStep DEF RequestsInv, WalkNext
  <2>2. CASE UNCHANGED walkVars
    BY <2>1, <2>2 DEF RequestsInv, RequestsAreBounded, walkVars
  <2>3. ASSUME WalkNext PROVE requests' \in Nat /\ requests' = IF AwaitsHeader THEN requests + 1 ELSE requests
    BY <2>3 DEF WalkNext, RequestsInv
  <2> USE DepthAssumption DEF RequestsInv, RequestsAreBounded, AwaitsHeader, inputs, Return, ReportThen, WalkTypeOK
  <2>4. CASE WalkNext /\ (Adjacent \/ Start)
    BY <2>1, <2>3, <2>4 DEF Adjacent, Start
  <2>5. CASE WalkNext /\ VerifyCandidateParent
    BY <2>1, <2>3, <2>5 DEF VerifyCandidateParent
  <2>6. CASE WalkNext /\ Climb
    BY <2>1, <2>3, <2>6 DEF Climb
  <2>7. CASE WalkNext /\ Level
    BY <2>1, <2>3, <2>7 DEF Level
  <2>8. CASE WalkNext /\ (Collect \/ CollectEnds)
    BY <2>1, <2>3, <2>8 DEF Collect, CollectEnds
  <2>9. CASE WalkNext /\ Report
    BY <2>1, <2>3, <2>9 DEF Report
  <2>10. CASE WalkNext /\ Descend
    BY <2>1, <2>3, <2>10 DEF Descend
  <2>11. CASE WalkNext /\ Done
    BY <2>2, <2>11 DEF Done
  <2> QED
    BY <2>2, <2>4, <2>5, <2>6, <2>7, <2>8, <2>9, <2>10, <2>11 DEF WalkNext, WalkStep
<1>3. RequestsInv => RequestsAreBounded
  BY DEF RequestsInv
<1> QED
  BY <1>1, <1>2, <1>3, PTL DEF WalkSpec

-----------------------------------------------------------------------------
(* eth_getLogs *)

LogTypeOK ==
    /\ view \in Blocks /\ Canonical(view)
    /\ pin \in Blocks
    /\ moved \in Nat /\ since \in Nat
    /\ stage \in {"start", "before", "call", "after", "done", "failed"}
    /\ range \in [from : Nat, to : Nat]
    /\ range.to <= Number[pin]
    /\ target \in Blocks \cup {NoBlock}

\* How the request is made: by the hash of a pinned block, or by numbers.
Asked ==
    /\ stage = "start" => target = NoBlock
    /\ stage \in {"before", "call", "after", "done"} =>
         IF ByHash(range.from, range.to) THEN target \in PinnedAt(range.from) ELSE target = NoBlock
    /\ stage \in {"before", "after"} => target = NoBlock

LogsInView == {b \in Anc[view] : InRange(b)}

(***************************************************************************)
(* What the boundary checks have shown: until the provider moves, the      *)
(* first one holds, and after one move the reply is either from before it  *)
(* or from the chain the second check looks at.                            *)
(***************************************************************************)
Checked ==
    /\ stage = "call" /\ target = NoBlock => moved >= since /\ (moved = since => Boundary)
    /\ stage = "after" => \/ moved >= since + 2
                          \/ logs = PinnedLogs
                          \/ moved = since + 1 /\ logs = LogsInView

LogInv ==
    /\ LogTypeOK
    /\ Asked
    /\ Checked
    /\ stage = "done" /\ target # NoBlock => logs \subseteq {target}
    /\ RangeExactUnlessThereAndBack

\* A provider with the pin at its height has the pinned branch below it.
LEMMA BoundaryIsEnough ==
    ASSUME LogTypeOK, Boundary
    PROVE  LogsInView = PinnedLogs
<1>1. pin \in Anc[view] /\ Anc[pin] \subseteq Anc[view]
  BY AncestorIsBlock DEF Boundary, LogTypeOK
<1>2. ASSUME NEW b \in Anc[view], InRange(b) PROVE b \in Anc[pin]
  <2>1. /\ b \in Blocks /\ Number[b] \in Nat /\ Number[pin] \in Nat /\ Number[b] <= Number[pin]
        /\ Anc[b] \subseteq Anc[view]
    BY <1>2, AncestorIsBlock, HeaderAssumption DEF InRange, LogTypeOK
  <2>2. CASE pin \in Anc[b] /\ pin # b
    <3>1. Canonical(b)
      BY <2>1 DEF Canonical, LogTypeOK
    <3> QED
      BY <2>1, <2>2, <3>1, CanonicalGrows
  <2> QED
    BY <1>1, <2>1, <2>2, CanonicalIsLinear, AncestryAssumption DEF LogTypeOK
<1> QED
  BY <1>1, <1>2 DEF LogsInView, PinnedLogs

LEMMA TransformStep ==
    ASSUME LogInv, NEW s \in Selectors, NEW t \in Selectors, Transform(s, t)
    PROVE  LogInv'
<1> DEFINE from == Bound(s)
           to == Bound(t)
           wellFormed == from # -1 /\ to # -1 /\ from <= to
<1>1. /\ LogTypeOK /\ stage = "start" /\ target = NoBlock
      /\ UNCHANGED <<view, moved, pin, since, logs>> /\ Number[pin] \in Nat
  BY HeaderAssumption DEF LogInv, Asked, Transform, LogTypeOK
<1>2. /\ from # -1 => from \in Nat /\ from <= Number[pin]
      /\ to # -1 => to \in Nat /\ to <= Number[pin]
  BY <1>1, LogAssumption DEF Bound, Selectors
<1>3. CASE stage' = "failed"
  <2>1. LogTypeOK'
    BY <1>1, <1>2, <1>3 DEF Transform, LogTypeOK, Canonical
  <2> QED
    BY <1>3, <2>1 DEF LogInv, Asked, Checked, RangeExactUnlessThereAndBack, Answered
<1>4. CASE stage' # "failed"
  <2>1. wellFormed /\ range' = [from |-> from, to |-> to]
    BY <1>4 DEF Transform
  <2> HIDE DEF from, to
  <2>2. range'.from = from /\ range'.to = to /\ range' \in [from : Nat, to : Nat]
    BY <1>2, <2>1
  <2>3. CASE ByHash(from, to)
    <3>1. stage' = "call" /\ target' \in PinnedAt(from)
      BY <1>4, <2>1, <2>3 DEF Transform, from, to
    <3>2. target' \in Blocks /\ target' # NoBlock
      BY <1>1, <3>1, AncestorIsBlock, HeaderAssumption DEF PinnedAt, LogTypeOK
    <3>3. LogTypeOK'
      BY <1>1, <1>2, <2>1, <2>2, <3>1, <3>2 DEF LogTypeOK, Canonical
    <3>4. Asked'
      BY <1>1, <2>2, <2>3, <3>1 DEF Asked, ByHash, PinnedAt
    <3> QED
      BY <3>1, <3>2, <3>3, <3>4 DEF LogInv, Checked, RangeExactUnlessThereAndBack, Answered
  <2>4. CASE ~ByHash(from, to)
    <3>1. stage' = "before" /\ target' = target
      BY <1>4, <2>1, <2>4 DEF Transform, from, to
    <3>2. LogTypeOK'
      BY <1>1, <1>2, <2>1, <2>2, <3>1 DEF LogTypeOK, Canonical
    <3>3. Asked'
      BY <1>1, <2>2, <2>4, <3>1 DEF Asked, ByHash
    <3> QED
      BY <3>1, <3>2, <3>3 DEF LogInv, Checked, RangeExactUnlessThereAndBack, Answered
  <2> QED
    BY <2>3, <2>4
<1> QED
  BY <1>3, <1>4

LEMMA MoveStep ==
    ASSUME LogInv, NEW b \in Blocks, Move(b)
    PROVE  LogInv'
<1>1. /\ LogTypeOK /\ Asked /\ Checked /\ Canonical(b)
      /\ view' = b /\ moved' = moved + 1 /\ UNCHANGED <<pin, stage, range, target, since, logs>>
  BY DEF LogInv, Move, requestVars
<1>2. LogTypeOK'
  BY <1>1 DEF LogTypeOK, Canonical
<1>3. Asked'
  BY <1>1 DEF Asked, ByHash, PinnedAt
<1>4. PinnedLogs' = PinnedLogs
  BY <1>1 DEF PinnedLogs, InRange
<1>5. Checked'
  BY <1>1, <1>4 DEF Checked, LogTypeOK
<1>6. RangeExactUnlessThereAndBack'
  BY <1>1, <1>4 DEF LogInv, RangeExactUnlessThereAndBack, Answered, LogTypeOK
<1> QED
  BY <1>1, <1>2, <1>3, <1>5, <1>6 DEF LogInv

LEMMA CheckBeforeStep == LogInv /\ CheckBefore => LogInv'
<1> SUFFICES ASSUME LogInv, CheckBefore PROVE LogInv'
  OBVIOUS
<1>1. /\ LogTypeOK /\ Asked /\ stage = "before" /\ target = NoBlock
      /\ stage' = IF Boundary THEN "call" ELSE "failed"
      /\ since' = moved /\ UNCHANGED <<view, moved, pin, range, target, logs>>
  BY DEF LogInv, CheckBefore, Asked
<1>2. LogTypeOK'
  BY <1>1 DEF LogTypeOK, Canonical
<1>3. Asked'
  BY <1>1 DEF Asked, ByHash, PinnedAt
<1>4. Checked'
  BY <1>1 DEF Checked, Boundary, LogTypeOK
<1> QED
  BY <1>1, <1>2, <1>3, <1>4 DEF LogInv, RangeExactUnlessThereAndBack, Answered

LEMMA CallReplyStep ==
    ASSUME LogInv, NEW reply \in Replies, Call(reply)
    PROVE  LogInv'
<1>1. /\ LogTypeOK /\ Asked /\ Checked /\ stage = "call"
      /\ logs' = reply /\ UNCHANGED <<view, moved, pin, range, target, since>>
      /\ stage' = IF Verified(reply) THEN AfterCall(reply) ELSE "failed"
  BY DEF LogInv, Call
<1>2. LogTypeOK'
  BY <1>1 DEF LogTypeOK, Canonical, AfterCall
<1>3. Asked'
  BY <1>1 DEF Asked, ByHash, PinnedAt, AfterCall
<1>4. CASE target # NoBlock
  <2>1. stage' \in {"done", "failed"} /\ (stage' = "done" => logs' \subseteq {target})
    BY <1>1, <1>4 DEF AfterCall, Verified
  <2> QED
    BY <1>1, <1>2, <1>3, <1>4, <2>1 DEF LogInv, Checked, RangeExactUnlessThereAndBack, Answered
<1>5. CASE target = NoBlock
  <2>1. stage' \in {"after", "failed"} /\ (stage' = "after" => logs' = LogsInView)
    BY <1>1, <1>5 DEF AfterCall, Verified, Replies, LogsInView
  <2>2. moved >= since /\ (moved = since => LogsInView = PinnedLogs)
    BY <1>1, <1>5, BoundaryIsEnough DEF Checked
  <2>3. LogsInView' = LogsInView /\ PinnedLogs' = PinnedLogs
    BY <1>1 DEF LogsInView, PinnedLogs, InRange
  <2>4. Checked'
    BY <1>1, <2>1, <2>2, <2>3 DEF Checked, LogTypeOK
  <2> QED
    BY <1>1, <1>2, <1>3, <1>5, <2>1, <2>4 DEF LogInv, RangeExactUnlessThereAndBack, Answered
<1> QED
  BY <1>4, <1>5

LEMMA CheckAfterStep == LogInv /\ CheckAfter => LogInv'
<1> SUFFICES ASSUME LogInv, CheckAfter PROVE LogInv'
  OBVIOUS
<1>1. /\ LogTypeOK /\ Asked /\ Checked /\ stage = "after" /\ target = NoBlock
      /\ stage' = IF Boundary THEN "done" ELSE "failed"
      /\ UNCHANGED <<view, moved, pin, range, target, since, logs>>
  BY DEF LogInv, CheckAfter, Asked
<1>2. LogTypeOK'
  BY <1>1 DEF LogTypeOK, Canonical
<1>3. Asked'
  BY <1>1 DEF Asked, ByHash, PinnedAt
<1>4. RangeExactUnlessThereAndBack'
  <2>1. PinnedLogs' = PinnedLogs
    BY <1>1 DEF PinnedLogs, InRange
  <2>2. Boundary => logs = PinnedLogs \/ moved >= since + 2
    BY <1>1, BoundaryIsEnough DEF Checked
  <2> QED
    BY <1>1, <2>1, <2>2 DEF RangeExactUnlessThereAndBack, Answered
<1> QED
  BY <1>1, <1>2, <1>3, <1>4 DEF LogInv, Checked

LEMMA LogInvariant == LogSpec => []LogInv
<1>1. LogInit => LogInv
  BY HeaderAssumption
  DEF LogInit, LogInv, LogTypeOK, Asked, Checked, RangeExactUnlessThereAndBack, Answered
<1>2. LogInv /\ [LogNext]_logVars => LogInv'
  <2> SUFFICES ASSUME LogInv, [LogNext]_logVars PROVE LogInv'
    OBVIOUS
  <2>1. CASE UNCHANGED logVars
    BY <2>1
    DEF logVars, requestVars, LogInv, LogTypeOK, Canonical, Asked, Checked, ByHash, PinnedAt,
        Boundary, PinnedLogs, LogsInView, InRange, RangeExactUnlessThereAndBack, Answered
  <2> QED
    BY <2>1, MoveStep, TransformStep, CheckBeforeStep, CallReplyStep, CheckAfterStep DEF LogNext
<1> QED
  BY <1>1, <1>2, PTL DEF LogSpec

(***************************************************************************)
(* transformEVMLogs and verifyEVMResponse: a single block within           *)
(* reorg_depth is asked for by its hash, so its logs are of the pinned     *)
(* branch whatever the provider's chain does meanwhile.                    *)
(***************************************************************************)
THEOREM RecentBlockSafe == LogSpec => []RecentBlockIsExact
<1>1. LogInv => RecentBlockIsExact
  <2> SUFFICES ASSUME LogInv, stage = "done", range.from = range.to,
                      Number[pin] - range.from <= Depth
               PROVE  logs \subseteq PinnedLogs
    BY DEF RecentBlockIsExact, Answered
  <2>1. target \in PinnedAt(range.from)
    BY DEF LogInv, Asked, ByHash
  <2>2. target # NoBlock /\ target \in Anc[pin] /\ Number[target] = range.from
    BY <2>1, AncestorIsBlock, HeaderAssumption DEF PinnedAt, LogInv, LogTypeOK
  <2>3. InRange(target)
    BY <2>2 DEF InRange, LogInv, LogTypeOK
  <2> QED
    BY <2>2, <2>3 DEF LogInv, PinnedLogs
<1> QED
  BY <1>1, LogInvariant, PTL

(***************************************************************************)
(* verifyEVMBoundaries before and after a range read, for any length of    *)
(* branches: the reply is exactly that of the pinned branch unless the     *)
(* provider changed its head twice between the two checks.                 *)
(***************************************************************************)
THEOREM RangeReadSafe == LogSpec => []RangeExactUnlessThereAndBack
<1>1. LogInv => RangeExactUnlessThereAndBack
  BY DEF LogInv
<1> QED
  BY <1>1, LogInvariant, PTL

-----------------------------------------------------------------------------
(* The upstream client *)

Sent == {c \in Callers : phase[c] = "sent"}

ClientTypeOK ==
    /\ phase \in [Callers -> {"idle", "waiting", "sent"}]
    /\ slots \in Nat
    /\ open \in BOOLEAN

(***************************************************************************)
(* Every element in the semaphore channel belongs to one request under     *)
(* way, and there are no more than the channel holds.                      *)
(***************************************************************************)
SlotsAreHeld == slots = Cardinality(Sent) /\ slots <= MaxConcurrency

ClientInv == ClientTypeOK /\ SlotsAreHeld /\ OpenCircuitDrains

LEMMA ClientTypeStep ==
    ASSUME ClientInv, [ClientNext]_clientVars
    PROVE  phase' \in [Callers -> {"idle", "waiting", "sent"}] /\ open' \in BOOLEAN
<1> USE DEF ClientInv, ClientTypeOK
<1>1. CASE Close
  BY <1>1 DEF Close
<1>2. CASE \E c \in Callers : StartCall(c)
  BY <1>2 DEF StartCall
<1>3. CASE \E c \in Callers : CallStep(c)
  BY <1>3 DEF CallStep, Send, GiveUp, Succeed, Fail, Unsendable, GiveBack, CountFailure
<1>4. CASE UNCHANGED clientVars
  BY <1>4 DEF clientVars
<1> QED
  BY <1>1, <1>2, <1>3, <1>4 DEF ClientNext

LEMMA SentIsFinite == IsFiniteSet(Sent)
BY ClientAssumption, FS_Subset, Sent \in SUBSET Callers DEF Sent

LEMMA SlotStep ==
    ASSUME ClientInv, [ClientNext]_clientVars
    PROVE  SlotsAreHeld' /\ slots' \in Nat
<1> USE DEF ClientInv, ClientTypeOK
<1>1. ASSUME NEW c \in Callers, Send(c) PROVE SlotsAreHeld' /\ slots' \in Nat
  <2>1. Sent' = Sent \cup {c} /\ c \notin Sent
    BY <1>1 DEF Send, Sent
  <2>2. Cardinality(Sent') = Cardinality(Sent) + 1
    BY <2>1, SentIsFinite, FS_AddElement
  <2> QED
    BY <1>1, <2>2, ClientAssumption DEF Send, SlotsAreHeld
<1>2. ASSUME NEW c \in Callers, phase[c] = "sent", GiveBack(c)
      PROVE  SlotsAreHeld' /\ slots' \in Nat
  <2>1. Sent' = Sent \ {c} /\ c \in Sent
    BY <1>2 DEF GiveBack, Sent
  <2>2. Cardinality(Sent') = Cardinality(Sent) - 1
    BY <2>1, SentIsFinite, FS_RemoveElement
  <2>3. IsFiniteSet(Sent')
    BY <2>1, SentIsFinite, FS_RemoveElement
  <2>4. Cardinality(Sent') \in Nat
    BY <2>3, FS_CardinalityType
  <2> QED
    BY <1>2, <2>2, <2>4, ClientAssumption DEF GiveBack, SlotsAreHeld
<1>3. ASSUME slots' = slots, Sent' = Sent PROVE SlotsAreHeld' /\ slots' \in Nat
  BY <1>3 DEF SlotsAreHeld
<1>4. ASSUME NEW c \in Callers, StartCall(c) \/ GiveUp(c) PROVE slots' = slots /\ Sent' = Sent
  BY <1>4 DEF StartCall, GiveUp, Sent
<1>5. CASE Close \/ UNCHANGED clientVars
  BY <1>3, <1>5 DEF Close, clientVars, Sent
<1> QED
  BY <1>1, <1>2, <1>3, <1>4, <1>5 DEF ClientNext, CallStep, Succeed, Fail, Unsendable

LEMMA DrainStep ==
    ASSUME ClientInv, [ClientNext]_clientVars
    PROVE  OpenCircuitDrains'
<1> USE DEF ClientInv, ClientTypeOK, OpenCircuitDrains, InCall
<1>1. ASSUME NEW c \in Callers, StartCall(c) PROVE OpenCircuitDrains'
  BY <1>1 DEF StartCall, Healthy
<1>2. ASSUME NEW c \in Callers, Send(c) PROVE OpenCircuitDrains'
  BY <1>2 DEF Send
<1>3. ASSUME NEW c \in Callers, GiveUp(c) \/ Unsendable(c) PROVE OpenCircuitDrains'
  BY <1>3 DEF GiveUp, Unsendable, GiveBack
<1>4. ASSUME NEW c \in Callers, Succeed(c) PROVE OpenCircuitDrains'
  BY <1>4 DEF Succeed
<1>5. ASSUME NEW c \in Callers, Fail(c) PROVE OpenCircuitDrains'
  BY <1>5 DEF Fail, GiveBack, CountFailure
<1>6. CASE Close \/ UNCHANGED clientVars
  BY <1>6 DEF Close, clientVars
<1> QED
  BY <1>1, <1>2, <1>3, <1>4, <1>5, <1>6 DEF ClientNext, CallStep

LEMMA ClientInvariant == ClientSpec => []ClientInv
<1>1. ClientInit => ClientInv
  <2> SUFFICES ASSUME ClientInit PROVE ClientInv
    OBVIOUS
  <2>1. Sent = {}
    BY DEF ClientInit, Sent
  <2>2. SlotsAreHeld
    BY <2>1, FS_EmptySet, ClientAssumption DEF ClientInit, SlotsAreHeld
  <2>3. ClientTypeOK
    BY DEF ClientInit, ClientTypeOK
  <2>4. OpenCircuitDrains
    BY Zenon DEF ClientInit, OpenCircuitDrains
  <2> QED
    BY <2>2, <2>3, <2>4 DEF ClientInv
<1>2. ClientInv /\ [ClientNext]_clientVars => ClientInv'
  BY ClientTypeStep, SlotStep, DrainStep DEF ClientInv, ClientTypeOK
<1> QED
  BY <1>1, <1>2, PTL DEF ClientSpec

(***************************************************************************)
(* The circuit breaker of upstream.Client: Call asks it only before the    *)
(* wait for a slot, and still an open circuit lets no new call through,    *)
(* whatever calls succeed, fail or give up meanwhile.                      *)
(***************************************************************************)
THEOREM CircuitSafe == ClientSpec => []OpenCircuitDrains
BY ClientInvariant, PTL DEF ClientInv

(***************************************************************************)
(* The semaphore of upstream.Client: a slot is given back exactly once on  *)
(* every path out of Call, so never more than max_concurrency requests are *)
(* under way and none is lost.                                             *)
(***************************************************************************)
THEOREM SemaphoreSafe == ClientSpec => []SlotsAreHeld
BY ClientInvariant, PTL DEF ClientInv

-----------------------------------------------------------------------------
(* The checks at startup *)

Stages == {"checking", "failed", "probing", "passed", "done"}
Verdicts == {"none", "positive", "negative", "yes", "no"}

StartupTypeOK ==
    /\ chain \in {"evm", "solana"} /\ withGenesis \in BOOLEAN
    /\ chain = "solana" => withGenesis
    /\ identity \in [Upstreams -> Identities]
    /\ pins \in [Upstreams -> [Methods -> Treatments]]
    /\ state \in [Upstreams -> Stages]
    /\ passed \in [Upstreams -> Nat]
    /\ probe \in [Upstreams -> [Methods -> Verdicts]]
    /\ serving \in BOOLEAN

\* The checks u has passed fit it.
PassedFit(u) ==
    /\ passed[u] <= Len(Checks)
    /\ \A i \in 1 .. passed[u] : Fits(u, Checks[i])

\* A verdict says what the upstream does, unless a call failed.
VerdictsTrue(u) ==
    \A m \in Methods :
        /\ probe[u][m] = "yes" => pins[u][m] = "honours"
        /\ probe[u][m] = "no" => u \in unlucky \/ pins[u][m] # "honours"

\* validateUpstream returned nil for u: what is known from then on.
Validated(u) ==
    /\ AllPassed(u)
    /\ chain = "evm" => \A m \in Methods :
          /\ probe[u][m] \in {"yes", "no"}
          /\ probe[u][m] = "yes" => u \in eip1898

\* What holds at each stage of the checks of u.
StageTrue(u) ==
    /\ state[u] = "checking" => \A m \in Methods : probe[u][m] = "none"
    /\ state[u] = "probing" => AllPassed(u) /\ chain = "evm"
    /\ state[u] = "passed" => Validated(u)
    /\ state[u] = "failed" => u \in unlucky \/ ~Genuine(u)
    /\ state[u] = "done" /\ u \notin valid => u \in unlucky \/ ~Genuine(u)
    /\ u \in valid => state[u] = "done" /\ Validated(u)

StartupInv ==
    /\ StartupTypeOK
    /\ \A u \in Upstreams : PassedFit(u) /\ VerdictsTrue(u) /\ StageTrue(u)
    /\ serving => \A u \in Upstreams : state[u] = "done"

LEMMA ChecksFinite == Len(Checks) \in Nat
BY DEF Checks

\* The checks of a chain tell its upstreams from all others.
LEMMA ChecksDecide ==
    ASSUME StartupTypeOK, NEW u \in Upstreams
    PROVE  /\ PassedFit(u) /\ AllPassed(u) => Genuine(u)
           /\ \A i \in 1 .. Len(Checks) : Genuine(u) => Fits(u, Checks[i])
<1> USE DEF StartupTypeOK, Identities
<1>1. CASE chain = "solana"
  <2>1. Checks = <<"genesis", "slot", "minContextSlot">> /\ withGenesis
    BY <1>1 DEF Checks
  <2>2. Len(Checks) = 3 /\ Checks[1] = "genesis" /\ Checks[2] = "slot" /\ Checks[3] = "minContextSlot"
    BY <2>1
  <2> QED
    BY <2>1, <2>2 DEF PassedFit, AllPassed, Genuine, Fits
<1>2. CASE chain = "evm" /\ withGenesis
  <2>1. Checks = <<"chainId", "genesis", "latest">>
    BY <1>2 DEF Checks
  <2>2. Len(Checks) = 3 /\ Checks[1] = "chainId" /\ Checks[2] = "genesis" /\ Checks[3] = "latest"
    BY <2>1
  <2> QED
    BY <1>2, <2>2 DEF PassedFit, AllPassed, Genuine, Fits
<1>3. CASE chain = "evm" /\ ~withGenesis
  <2>1. Checks = <<"chainId", "latest">>
    BY <1>3 DEF Checks
  <2>2. Len(Checks) = 2 /\ Checks[1] = "chainId" /\ Checks[2] = "latest"
    BY <2>1
  <2> QED
    BY <1>3, <2>2 DEF PassedFit, AllPassed, Genuine, Fits
<1> QED
  BY <1>1, <1>2, <1>3

LEMMA StartupTypeStep ==
    ASSUME StartupInv, [StartupNext]_startupVars
    PROVE  StartupTypeOK'
<1> USE DEF StartupInv, StartupTypeOK, Stages, Verdicts, worldVars
<1>1. ASSUME NEW u \in Upstreams, CheckPasses(u) PROVE StartupTypeOK'
  BY <1>1 DEF CheckPasses
<1>2. ASSUME NEW u \in Upstreams, CheckFails(u) PROVE StartupTypeOK'
  BY <1>2 DEF CheckFails
<1>3. ASSUME NEW u \in Upstreams, ChecksEnd(u) PROVE StartupTypeOK'
  <2>1. state' \in [Upstreams -> Stages]
    BY <1>3 DEF ChecksEnd
  <2>2. probe' \in [Upstreams -> [Methods -> Verdicts]]
    <3>1. [m \in Methods |-> "positive"] \in [Methods -> Verdicts]
      OBVIOUS
    <3> QED
      BY <1>3, <3>1 DEF ChecksEnd
  <2> QED
    BY <1>3, <2>1, <2>2 DEF ChecksEnd
<1>4. ASSUME NEW u \in Upstreams, ProbesEnd(u) PROVE StartupTypeOK'
  BY <1>4 DEF ProbesEnd
<1>5. ASSUME NEW u \in Upstreams, Record(u) PROVE StartupTypeOK'
  BY <1>5 DEF Record
<1>6. ASSUME NEW u \in Upstreams, NEW m \in Methods, Probe(u, m) PROVE StartupTypeOK'
  <2>1. PICK v \in Verdicts : probe' = [probe EXCEPT ![u][m] = v]
    BY <1>6 DEF Probe, ProbeAnswered, ProbeFails
  <2>2. probe' \in [Upstreams -> [Methods -> Verdicts]]
    BY <2>1
  <2>3. UNCHANGED <<worldVars, state, passed, serving>>
    BY <1>6 DEF Probe, ProbeAnswered, ProbeFails
  <2> QED
    BY <2>2, <2>3
<1>7. CASE StartServing
  BY <1>7 DEF StartServing
<1>8. CASE UNCHANGED startupVars
  BY <1>8 DEF startupVars
<1> QED
  BY <1>1, <1>2, <1>3, <1>4, <1>5, <1>6, <1>7, <1>8 DEF StartupNext, Check

\* A step of the checks of one upstream leaves what is known of the others.
OtherUpstreams(u) ==
    /\ UNCHANGED worldVars
    /\ \A v \in Upstreams \ {u} :
          /\ state'[v] = state[v] /\ passed'[v] = passed[v] /\ probe'[v] = probe[v]
          /\ v \in eip1898 => v \in eip1898'
          /\ v \in valid <=> v \in valid'
          /\ v \in unlucky <=> v \in unlucky'

LEMMA OthersKeep ==
    ASSUME StartupInv, NEW u \in Upstreams, OtherUpstreams(u), NEW v \in Upstreams \ {u}
    PROVE  PassedFit(v)' /\ VerdictsTrue(v)' /\ StageTrue(v)'
BY DEF StartupInv, OtherUpstreams, PassedFit, VerdictsTrue, StageTrue, Validated, AllPassed,
       Genuine, Fits, Checks, worldVars

LEMMA UpstreamStep ==
    ASSUME StartupInv, StartupTypeOK', NEW u \in Upstreams, OtherUpstreams(u),
           PassedFit(u)', VerdictsTrue(u)', StageTrue(u)', serving' = serving,
           state[u] = "done" => state'[u] = "done"
    PROVE  StartupInv'
BY OthersKeep DEF StartupInv, OtherUpstreams

LEMMA StartupStep ==
    ASSUME StartupInv, [StartupNext]_startupVars
    PROVE  StartupInv'
<1> USE DEF worldVars
<1>0. StartupTypeOK' /\ StartupTypeOK
  BY StartupTypeStep DEF StartupInv
<1>a. \A u \in Upstreams : PassedFit(u) /\ VerdictsTrue(u) /\ StageTrue(u)
  BY DEF StartupInv
<1>1. ASSUME NEW u \in Upstreams, CheckPasses(u) PROVE StartupInv'
  <2>1. OtherUpstreams(u) /\ serving' = serving /\ state'[u] = state[u]
    BY <1>0, <1>1 DEF CheckPasses, OtherUpstreams, StartupTypeOK
  <2>2. Checks' = Checks /\ passed'[u] = passed[u] + 1 /\ passed[u] \in Nat
    BY <1>0, <1>1 DEF CheckPasses, Checks, StartupTypeOK
  <2>3. PassedFit(u)'
    <3>1. \A c : Fits(u, c)' = Fits(u, c)
      BY <1>1 DEF CheckPasses, Fits
    <3> QED
      BY <1>a, <1>1, <2>2, <3>1, ChecksFinite DEF CheckPasses, PassedFit, CurrentCheck, AllPassed
  <2>4. VerdictsTrue(u)' /\ StageTrue(u)'
    BY <1>a, <1>1 DEF CheckPasses, VerdictsTrue, StageTrue, Validated
  <2> QED
    BY <1>0, <2>1, <2>3, <2>4, UpstreamStep
<1>2. ASSUME NEW u \in Upstreams, CheckFails(u) PROVE StartupInv'
  <2>1. OtherUpstreams(u) /\ serving' = serving /\ state[u] = "checking" /\ state'[u] = "failed"
    BY <1>0, <1>2 DEF CheckFails, OtherUpstreams, StartupTypeOK
  <2>2. PassedFit(u)' /\ VerdictsTrue(u)'
    BY <1>a, <1>2 DEF CheckFails, PassedFit, VerdictsTrue, Fits, Checks
  <2>3. u \in unlucky' \/ ~Genuine(u)
    <3>1. passed[u] + 1 \in 1 .. Len(Checks)
      BY <1>0, <1>a, <1>2, ChecksFinite DEF CheckFails, PassedFit, AllPassed, StartupTypeOK
    <3> QED
      BY <1>0, <1>2, <3>1, ChecksDecide DEF CheckFails, CurrentCheck
  <2>4. StageTrue(u)'
    BY <1>a, <1>2, <2>1, <2>3 DEF CheckFails, StageTrue, Genuine
  <2> QED
    BY <1>0, <2>1, <2>2, <2>4, UpstreamStep
<1>3. ASSUME NEW u \in Upstreams, ChecksEnd(u) PROVE StartupInv'
  <2>1. OtherUpstreams(u) /\ serving' = serving /\ state[u] = "checking"
    BY <1>0, <1>3 DEF ChecksEnd, OtherUpstreams, StartupTypeOK
  <2>2. PassedFit(u)' /\ VerdictsTrue(u)'
    BY <1>0, <1>a, <1>3 DEF ChecksEnd, PassedFit, VerdictsTrue, Fits, Checks, StartupTypeOK
  <2>3. StageTrue(u)'
    BY <1>0, <1>a, <1>3 DEF ChecksEnd, StageTrue, Validated, AllPassed, Checks, StartupTypeOK
  <2> QED
    BY <1>0, <2>1, <2>2, <2>3, UpstreamStep
<1>4. ASSUME NEW u \in Upstreams, ProbesEnd(u) PROVE StartupInv'
  <2>1. /\ OtherUpstreams(u) /\ serving' = serving
        /\ state[u] = "probing" /\ state'[u] = "passed"
    BY <1>0, <1>4 DEF ProbesEnd, ProbesOver, OtherUpstreams, StartupTypeOK
  <2>2. PassedFit(u)' /\ VerdictsTrue(u)'
    BY <1>a, <1>4 DEF ProbesEnd, PassedFit, VerdictsTrue, Fits, Checks
  <2>3. StageTrue(u)'
    BY <1>0, <1>a, <1>4, <2>1
    DEF ProbesEnd, ProbesOver, StageTrue, Validated, AllPassed, Checks, StartupTypeOK
  <2> QED
    BY <1>0, <2>1, <2>2, <2>3, UpstreamStep
<1>5. ASSUME NEW u \in Upstreams, Record(u) PROVE StartupInv'
  <2>1. /\ OtherUpstreams(u) /\ serving' = serving
        /\ state[u] \in {"passed", "failed"} /\ state'[u] = "done"
    BY <1>0, <1>5 DEF Record, OtherUpstreams, StartupTypeOK
  <2>2. PassedFit(u)' /\ VerdictsTrue(u)'
    BY <1>a, <1>5 DEF Record, PassedFit, VerdictsTrue, Fits, Checks
  <2>3. StageTrue(u)'
    BY <1>a, <1>5, <2>1 DEF Record, StageTrue, Validated, AllPassed, Genuine, Checks
  <2> QED
    BY <1>0, <2>1, <2>2, <2>3, UpstreamStep
<1>6. ASSUME NEW u \in Upstreams, NEW m \in Methods, Probe(u, m) PROVE StartupInv'
  <2>1. /\ OtherUpstreams(u) /\ serving' = serving /\ state' = state
        /\ UNCHANGED <<passed, eip1898, valid>> /\ unlucky \subseteq unlucky'
        /\ probe[u][m] \in {"positive", "negative"}
        /\ \A k \in Methods \ {m} : probe'[u][k] = probe[u][k]
    BY <1>0, <1>6 DEF Probe, ProbeAnswered, ProbeFails, OtherUpstreams, StartupTypeOK
  <2>2. PassedFit(u)'
    BY <1>a, <2>1 DEF OtherUpstreams, PassedFit, Fits, Checks
  <2>3. /\ probe'[u][m] = "yes" => pins[u][m] = "honours"
        /\ probe'[u][m] = "no" => u \in unlucky' \/ pins[u][m] # "honours"
    BY <1>0, <1>6 DEF Probe, ProbeAnswered, ProbeFails, Verdict, StartupTypeOK
  <2>4. VerdictsTrue(u)'
    BY <1>a, <2>1, <2>3 DEF VerdictsTrue, OtherUpstreams
  <2>5. state[u] # "checking"
    BY <1>a, <2>1 DEF StageTrue
  <2>6. ~Validated(u) \/ chain # "evm"
    BY <2>1 DEF Validated
  <2>7. StageTrue(u)'
    <3>1. CASE chain = "evm"
      BY <1>a, <2>1, <2>5, <2>6, <3>1 DEF StageTrue, OtherUpstreams, AllPassed, Genuine, Checks
    <3>2. CASE chain # "evm"
      BY <1>a, <2>1, <2>5, <3>2
      DEF StageTrue, Validated, OtherUpstreams, AllPassed, Genuine, Checks
    <3> QED
      BY <3>1, <3>2
  <2> QED
    BY <1>0, <2>1, <2>2, <2>4, <2>7, UpstreamStep
<1>7. CASE StartServing \/ UNCHANGED startupVars
  <2>1. UNCHANGED <<worldVars, state, passed, probe, eip1898, valid, unlucky>>
    BY <1>7 DEF StartServing, startupVars
  <2>2. \A u \in Upstreams : PassedFit(u)' /\ VerdictsTrue(u)' /\ StageTrue(u)'
    BY <1>a, <2>1
    DEF PassedFit, VerdictsTrue, StageTrue, Validated, AllPassed, Genuine, Fits, Checks
  <2> QED
    BY <1>0, <1>7, <2>1, <2>2 DEF StartupInv, StartServing, startupVars
<1> QED
  BY <1>1, <1>2, <1>3, <1>4, <1>5, <1>6, <1>7 DEF StartupNext, Check

LEMMA StartupInvariant == StartupSpec => []StartupInv
<1>1. StartupInit => StartupInv
  <2> SUFFICES ASSUME StartupInit PROVE StartupInv
    OBVIOUS
  <2>1. StartupTypeOK
    <3>1. withGenesis \in BOOLEAN /\ (chain = "solana" => withGenesis)
      BY Zenon DEF StartupInit
    <3> QED
      BY <3>1 DEF StartupInit, StartupTypeOK, Stages, Verdicts
  <2>2. \A u \in Upstreams : PassedFit(u) /\ VerdictsTrue(u) /\ StageTrue(u)
    BY ChecksFinite DEF StartupInit, PassedFit, VerdictsTrue, StageTrue
  <2>3. ~serving
    BY DEF StartupInit
  <2> QED
    BY <2>1, <2>2, <2>3 DEF StartupInv
<1>2. StartupInv /\ [StartupNext]_startupVars => StartupInv'
  BY StartupStep
<1> QED
  BY <1>1, <1>2, PTL DEF StartupSpec

(***************************************************************************)
(* Validate and the probes of probeEVMStateMethods, for any number of      *)
(* upstreams and methods: whichever calls fail and in whichever order the  *)
(* goroutines end, a pinned read can only go to an upstream of the         *)
(* configured chain that refuses the unknown hash in that method.          *)
(***************************************************************************)
THEOREM RoutesAreProven == StartupSpec => []PinnedReadsGoToProvenUpstreams
<1>1. StartupInv => PinnedReadsGoToProvenUpstreams
  BY ChecksDecide
  DEF StartupInv, PinnedReadsGoToProvenUpstreams, Eligible, StageTrue, Validated, VerdictsTrue
<1> QED
  BY <1>1, StartupInvariant, PTL

(***************************************************************************)
(* The other direction: Validate loses no good upstream.  One whose calls  *)
(* were all answered serves every method in which it honours hashes.       *)
(***************************************************************************)
THEOREM GoodUpstreamsKept == StartupSpec => []GoodUpstreamsServe
<1>1. StartupInv => GoodUpstreamsServe
  BY DEF StartupInv, GoodUpstreamsServe, Eligible, StageTrue, Validated, VerdictsTrue
<1> QED
  BY <1>1, StartupInvariant, PTL

-----------------------------------------------------------------------------
(* The consistency header *)

Labels == {"none", "mixed-targets", "unverified", "absent", "minimum-context-slot",
           "boundary-checked", "pinned-head-ceiling", "exact-block-hash"}

LabelTypeOK ==
    /\ family \in Families
    /\ batch \in Seq(Responses(family))
    /\ next \in 1 .. Len(batch) + 1
    /\ receipt \in BOOLEAN /\ other \in BOOLEAN /\ boundary \in BOOLEAN /\ unverified \in BOOLEAN
    /\ label \in Labels

\* The responses the loop has read so far, and those with a target among them.
ReadSoFar == 1 .. next - 1
Taken == {i \in ReadSoFar : HasTarget(batch[i])}

\* Two targets count as one.
Agree(r, s) == r.id = s.id /\ (family = "solana" => r.commitment = s.commitment)

(***************************************************************************)
(* The flags of the loop say what the responses read so far have in        *)
(* common, and the target seen last stands for all of them.                *)
(***************************************************************************)
FlagsTrue ==
    /\ receipt <=> \E i \in Taken : batch[i].kind = "receipt"
    /\ other <=> \E i \in Taken : batch[i].kind # "receipt"
    /\ boundary <=> \E i \in Taken : batch[i].kind = "range"
    /\ unverified <=> \E i \in ReadSoFar : UnverifiedRead(batch[i])
    /\ Taken = {} => accepted = NoTarget
    /\ Taken # {} => \E i \in Taken : accepted = Target(batch[i])
    /\ \A i, j \in Taken : Agree(batch[i], batch[j])

LabelInv ==
    /\ LabelTypeOK
    /\ label = "none" => FlagsTrue
    /\ LabelIsWhatHolds

LEMMA TargetIsTarget == \A r : Target(r) # NoTarget /\ Target(r)[1] = r.id /\ Target(r)[2] = r.commitment
BY DEF Target, NoTarget

LEMMA SkipStep == LabelInv /\ Skip => LabelInv'
<1> SUFFICES ASSUME LabelInv, Skip PROVE LabelInv'
  OBVIOUS
<1>1. /\ LabelTypeOK /\ FlagsTrue /\ label = "none" /\ next <= Len(batch)
      /\ ~HasTarget(batch[next]) /\ next' = next + 1
      /\ unverified' = (unverified \/ UnverifiedRead(batch[next]))
      /\ UNCHANGED <<family, batch, accepted, receipt, other, boundary, label>>
  BY DEF LabelInv, Skip, Reading
<1>2. next \in Nat /\ Len(batch) \in Nat /\ next >= 1
  BY <1>1 DEF LabelTypeOK
<1>3. LabelTypeOK'
  BY <1>1, <1>2 DEF LabelTypeOK
<1>4. ReadSoFar' = ReadSoFar \cup {next}
  BY <1>1, <1>2 DEF ReadSoFar
<1>5. Taken' = Taken
  BY <1>1, <1>4 DEF Taken
<1>6. FlagsTrue'
  <2>1. unverified' <=> \E i \in ReadSoFar' : UnverifiedRead(batch[i])
    BY <1>1, <1>4 DEF FlagsTrue
  <2> QED
    BY <1>1, <1>5, <2>1 DEF FlagsTrue, Agree
<1> QED
  BY <1>1, <1>3, <1>6 DEF LabelInv, LabelIsWhatHolds

LEMMA TakeStep == LabelInv /\ Take => LabelInv'
<1> SUFFICES ASSUME LabelInv, Take PROVE LabelInv'
  OBVIOUS
<1> DEFINE r == batch[next]
<1>1. /\ LabelTypeOK /\ FlagsTrue /\ label = "none" /\ next <= Len(batch) /\ HasTarget(r)
      /\ receipt' = (receipt \/ r.kind = "receipt") /\ other' = (other \/ r.kind # "receipt")
      /\ UNCHANGED <<family, batch, unverified>>
  BY DEF LabelInv, Take, Reading
<1>2. /\ next \in Nat /\ Len(batch) \in Nat /\ next >= 1 /\ next \in 1 .. Len(batch)
      /\ DOMAIN batch = 1 .. Len(batch)
      /\ ReadSoFar \subseteq 1 .. Len(batch)
  BY <1>1 DEF LabelTypeOK, ReadSoFar
<1>3. accepted # NoTarget => \E i \in Taken : accepted = Target(batch[i])
  BY <1>1 DEF FlagsTrue
<1>4. \A i \in Taken : accepted = Target(batch[i]) => (SameTarget(Target(r)) <=> Agree(batch[i], r))
  <2> TAKE i \in Taken
  <2> HAVE accepted = Target(batch[i])
  <2>1. CASE family = "evm"
    BY <2>1, TargetIsTarget DEF SameTarget, Agree
  <2>2. CASE family = "solana"
    BY <2>2 DEF SameTarget, Agree, Target
  <2> QED
    BY <1>1, <2>1, <2>2 DEF LabelTypeOK, Families
<1>5. CASE accepted # NoTarget /\ ~SameTarget(Target(r))
  <2>1. label' = "mixed-targets" /\ next' = next /\ UNCHANGED <<accepted, boundary>>
    BY <1>5 DEF Take
  <2>2. PICK i \in Taken : ~Agree(batch[i], r)
    BY <1>3, <1>4, <1>5
  <2>3. batch[i] \in Succeeded /\ r \in Succeeded
    BY <1>1, <1>2, <2>2 DEF Succeeded, Taken
  <2>4. ~OneTarget
    BY <2>2, <2>3 DEF OneTarget, Agree
  <2>5. ~OneTarget' /\ Succeeded' # {}
    <3>1. Succeeded' = Succeeded /\ family' = family
      BY <1>1 DEF Succeeded
    <3> QED
      BY <2>3, <2>4, <3>1 DEF OneTarget
  <2>6. LabelTypeOK'
    BY <1>1, <2>1 DEF LabelTypeOK, Labels
  <2> QED
    BY <2>1, <2>5, <2>6 DEF LabelInv, LabelIsWhatHolds
<1>6. CASE ~(accepted # NoTarget /\ ~SameTarget(Target(r)))
  <2>1. /\ boundary' = (boundary \/ r.kind = "range") /\ accepted' = Target(r)
        /\ next' = next + 1 /\ UNCHANGED label
    BY <1>6 DEF Take
  <2>2. LabelTypeOK'
    BY <1>1, <1>2, <2>1 DEF LabelTypeOK
  <2>3. ReadSoFar' = ReadSoFar \cup {next}
    BY <1>2, <2>1 DEF ReadSoFar
  <2>4. Taken' = Taken \cup {next}
    BY <1>1, <2>3 DEF Taken, HasTarget
  <2>5. \A i \in Taken : Agree(batch[i], r)
    <3>1. Taken # {} => \E i \in Taken : Agree(batch[i], r)
      BY <1>1, <1>4, <1>6, TargetIsTarget DEF FlagsTrue
    <3> QED
      BY <1>1, <3>1 DEF FlagsTrue, Agree
  <2>6. \A i, j \in Taken' : Agree(batch[i], batch[j])
    BY <1>1, <2>4, <2>5 DEF FlagsTrue, Agree
  <2>7. unverified' <=> \E i \in ReadSoFar' : UnverifiedRead(batch[i])
    BY <1>1, <2>3 DEF FlagsTrue, HasTarget, UnverifiedRead
  <2>8. /\ receipt' <=> \E i \in Taken' : batch[i].kind = "receipt"
        /\ other' <=> \E i \in Taken' : batch[i].kind # "receipt"
        /\ boundary' <=> \E i \in Taken' : batch[i].kind = "range"
    BY <1>1, <2>1, <2>4 DEF FlagsTrue
  <2>9. FlagsTrue'
    BY <1>1, <2>1, <2>4, <2>6, <2>7, <2>8 DEF FlagsTrue, Agree
  <2> QED
    BY <1>1, <2>1, <2>2, <2>9 DEF LabelInv, LabelIsWhatHolds
<1> QED
  BY <1>5, <1>6

LEMMA ConcludeStep == LabelInv /\ Conclude => LabelInv'
<1> SUFFICES ASSUME LabelInv, Conclude PROVE LabelInv'
  OBVIOUS
<1>1. /\ LabelTypeOK /\ FlagsTrue /\ label' = Final
      /\ UNCHANGED <<family, batch, next, accepted, receipt, other, boundary, unverified>>
  BY DEF LabelInv, Conclude
<1>2. ReadSoFar = DOMAIN batch /\ DOMAIN batch = 1 .. Len(batch)
  BY <1>1 DEF Conclude, LabelTypeOK, ReadSoFar
<1>3. /\ receipt <=> \E r \in Succeeded : r.kind = "receipt"
      /\ other <=> \E r \in Succeeded : r.kind # "receipt"
      /\ boundary <=> \E r \in Succeeded : r.kind = "range"
      /\ unverified <=> Unverified
      /\ accepted = NoTarget <=> Succeeded = {}
      /\ OneTarget
  <2>1. Succeeded = {batch[i] : i \in Taken}
    BY <1>2 DEF Succeeded, Taken
  <2>2. accepted = NoTarget <=> Taken = {}
    BY <1>1, TargetIsTarget DEF FlagsTrue
  <2>3. unverified <=> Unverified
    BY <1>1, <1>2 DEF FlagsTrue, Unverified, UnverifiedRead
  <2>4. OneTarget
    BY <1>1, <2>1 DEF FlagsTrue, OneTarget, Agree
  <2>5. /\ receipt <=> \E r \in Succeeded : r.kind = "receipt"
        /\ other <=> \E r \in Succeeded : r.kind # "receipt"
        /\ boundary <=> \E r \in Succeeded : r.kind = "range"
    BY <1>1, <2>1 DEF FlagsTrue
  <2> QED
    BY <2>1, <2>2, <2>3, <2>4, <2>5
<1>4. \A i \in DOMAIN batch : batch[i].kind \in KindsOf(family)
  <2>1. \A i \in 1 .. Len(batch) : batch[i] \in Responses(family)
    BY <1>1 DEF LabelTypeOK
  <2> QED
    BY <1>2, <2>1 DEF Responses
<1>5. /\ \A r \in Succeeded : /\ r.kind \in {"state", "receipt", "range"}
                              /\ family = "solana" => r.kind = "state"
      /\ family = "evm" => ~Unverified
  BY <1>4 DEF Succeeded, HasTarget, KindsOf, Unverified
<1>6. LabelTypeOK'
  BY <1>1 DEF LabelTypeOK, Labels, Final
<1>7. LabelIsWhatHolds'
  <2>1. Succeeded' = Succeeded /\ (Unverified' <=> Unverified) /\ (OneTarget' <=> OneTarget)
    BY <1>1 DEF Succeeded, Unverified, OneTarget
  <2>2. CASE family = "evm"
    BY <1>1, <1>3, <1>5, <2>1, <2>2 DEF LabelIsWhatHolds, Final, Only
  <2>3. CASE family = "solana"
    BY <1>1, <1>3, <1>5, <2>1, <2>3 DEF LabelIsWhatHolds, Final, Only
  <2> QED
    BY <1>1, <2>2, <2>3 DEF LabelTypeOK, Families
<1> QED
  BY <1>1, <1>6, <1>7 DEF LabelInv, Final

(***************************************************************************)
(* setResponseHeadHeaders, for batches of any length: one pass over the    *)
(* responses with four flags and the target seen last is enough for the    *)
(* header to claim exactly what all of them have in common.                *)
(***************************************************************************)
THEOREM LabelSafe == LabelSpec => []LabelIsWhatHolds
<1>1. LabelInit => LabelInv
  <2> SUFFICES ASSUME LabelInit PROVE LabelInv
    OBVIOUS
  <2>1. batch \in Seq(Responses(family))
    BY BatchAssumption DEF LabelInit
  <2>2. LabelTypeOK
    <3>1. Len(batch) \in Nat /\ next = 1
      BY <2>1 DEF LabelInit
    <3>2. next \in 1 .. Len(batch) + 1
      BY <3>1
    <3>3. /\ receipt \in BOOLEAN /\ other \in BOOLEAN /\ boundary \in BOOLEAN
          /\ unverified \in BOOLEAN /\ family \in Families /\ label \in Labels
      BY DEF LabelInit, Labels
    <3> QED
      BY <2>1, <3>2, <3>3 DEF LabelTypeOK
  <2>3. ReadSoFar = {} /\ Taken = {}
    BY DEF LabelInit, ReadSoFar, Taken
  <2>4. FlagsTrue
    BY <2>3 DEF LabelInit, FlagsTrue
  <2> QED
    BY <2>2, <2>4 DEF LabelInv, LabelInit, LabelIsWhatHolds
<1>2. LabelInv /\ [LabelNext]_labelVars => LabelInv'
  <2> SUFFICES ASSUME LabelInv, [LabelNext]_labelVars PROVE LabelInv'
    OBVIOUS
  <2>1. CASE UNCHANGED labelVars
    <3>1. LabelTypeOK'
      BY <2>1 DEF labelVars, LabelInv, LabelTypeOK
    <3>2. label' = "none" => FlagsTrue'
      BY <2>1 DEF labelVars, LabelInv, FlagsTrue, ReadSoFar, Taken, Agree
    <3>3. LabelIsWhatHolds'
      BY <2>1 DEF labelVars, LabelInv, LabelIsWhatHolds, Succeeded, Unverified, OneTarget, Only
    <3> QED
      BY <3>1, <3>2, <3>3 DEF LabelInv
  <2> QED
    BY <2>1, SkipStep, TakeStep, ConcludeStep DEF LabelNext
<1>3. LabelInv => LabelIsWhatHolds
  BY DEF LabelInv
<1> QED
  BY <1>1, <1>2, <1>3, PTL DEF LabelSpec

-----------------------------------------------------------------------------
(* Heads of a subscription *)

FeedTypes ==
    /\ reliable \in BOOLEAN
    /\ tip \in [Providers -> Heads] /\ last \in [Providers -> Heads]
    /\ session \in [Providers -> Sessions]
    /\ wire \in [Providers -> Seq(Heads)]

\* On its way to the session that reads p's subscription.
OnWire(p, h) == \E i \in 1..Len(wire[p]) : wire[p][i] = h

\* From the answer to the bootstrap on, the provider's head is that answer,
\* handed over or on the wire; the last head of a live session was handed over.
Covered(p) ==
    /\ session[p] = "answered" => tip[p] = last[p] \/ tip[p] \in seen \/ OnWire(p, tip[p])
    /\ session[p] = "live" => last[p] \in seen /\ (tip[p] \in seen \/ OnWire(p, tip[p]))

FeedInv == FeedTypes /\ (reliable => \A p \in Providers : Covered(p))

LEMMA FeedInit == Init => FeedInv
BY FeedAssumption DEF Init, FeedInv, FeedTypes, Covered, Heads, Sessions

\* A step on the session or the subscription of one provider.
LEMMA FeedStep ==
    ASSUME FeedInv, NEW p \in Providers, UNCHANGED reliable, FeedTypes',
           \A q \in Providers \ {p} : /\ tip'[q] = tip[q] /\ session'[q] = session[q]
                                      /\ wire'[q] = wire[q] /\ last'[q] = last[q],
           seen \subseteq seen', reliable => Covered(p)'
    PROVE  FeedInv'
BY DEF FeedInv, Covered, OnWire

LEMMA WireAppends ==
    ASSUME FeedTypes, NEW p \in Providers, NEW h \in Heads,
           wire' = [wire EXCEPT ![p] = Append(@, h)]
    PROVE  /\ wire' \in [Providers -> Seq(Heads)] /\ \A q \in Providers \ {p} : wire'[q] = wire[q]
           /\ \E i \in 1..Len(wire'[p]) : wire'[p][i] = h
<1>1. wire[p] \in Seq(Heads) /\ wire'[p] = Append(wire[p], h)
  BY DEF FeedTypes
<1>2. Len(wire'[p]) = Len(wire[p]) + 1 /\ wire'[p][Len(wire[p]) + 1] = h /\ Len(wire[p]) \in Nat
  BY <1>1
<1>3. Len(wire[p]) + 1 \in 1..Len(wire'[p])
  BY <1>2
<1>4. Append(wire[p], h) \in Seq(Heads)
  BY <1>1
<1> QED
  BY <1>2, <1>3, <1>4 DEF FeedTypes

LEMMA WirePops ==
    ASSUME FeedTypes, NEW p \in Providers, wire[p] # <<>>,
           wire' = [wire EXCEPT ![p] = Tail(@)]
    PROVE  /\ wire' \in [Providers -> Seq(Heads)] /\ \A q \in Providers \ {p} : wire'[q] = wire[q]
           /\ Head(wire[p]) \in Heads
           /\ \A h : OnWire(p, h) => h = Head(wire[p]) \/ OnWire(p, h)'
<1>1. wire[p] \in Seq(Heads) /\ wire'[p] = Tail(wire[p])
  BY DEF FeedTypes
<1>2. /\ Tail(wire[p]) \in Seq(Heads) /\ Head(wire[p]) = wire[p][1] /\ Head(wire[p]) \in Heads
      /\ Len(wire[p]) \in Nat \ {0} /\ Len(wire'[p]) = Len(wire[p]) - 1
      /\ \A i \in 1..Len(wire'[p]) : wire'[p][i] = wire[p][i+1]
  <2> DEFINE w == wire[p]
  <2>1. w \in Seq(Heads) /\ w # <<>>
    BY <1>1
  <2> HIDE DEF w
  <2>2. /\ Tail(w) \in Seq(Heads) /\ Head(w) = w[1] /\ Head(w) \in Heads
        /\ Len(w) \in Nat \ {0} /\ Len(Tail(w)) = Len(w) - 1
        /\ \A i \in 1..Len(Tail(w)) : Tail(w)[i] = w[i+1]
    BY <2>1
  <2> QED
    BY <1>1, <2>2 DEF w
<1>3. ASSUME NEW h, NEW i \in 1..Len(wire[p]), wire[p][i] = h, h # Head(wire[p])
      PROVE  \E j \in 1..Len(wire'[p]) : wire'[p][j] = h
  <2>1. i - 1 \in 1..Len(wire'[p]) /\ (i - 1) + 1 = i
    BY <1>2, <1>3
  <2> QED
    BY <1>2, <1>3, <2>1
<1> QED
  BY <1>2, <1>3 DEF FeedTypes, OnWire

LEMMA ProviderInv ==
    ASSUME FeedInv, UNCHANGED reliable, NEW p \in Providers, Provider(p)
    PROVE  FeedInv'
<1> USE DEF FeedInv
<1>1. ASSUME NEW h \in Heads, NewHead(p, h) PROVE FeedInv'
  <2>1. tip' = [tip EXCEPT ![p] = h] /\ UNCHANGED <<session, last, seen>>
    BY <1>1 DEF NewHead
  <2>2. tip' \in [Providers -> Heads] /\ tip'[p] = h /\ \A q \in Providers \ {p} : tip'[q] = tip[q]
    BY <2>1 DEF FeedTypes
  <2>3. CASE Listening(p)
    <3>1. wire' = [wire EXCEPT ![p] = Append(@, h)]
      BY <1>1, <2>3 DEF NewHead
    <3>2. /\ wire' \in [Providers -> Seq(Heads)] /\ \A q \in Providers \ {p} : wire'[q] = wire[q]
          /\ \E i \in 1..Len(wire'[p]) : wire'[p][i] = h
      BY <3>1, WireAppends
    <3>3. FeedTypes'
      BY <2>1, <2>2, <3>2 DEF FeedTypes
    <3>4. reliable => Covered(p)'
      BY <2>1, <2>2, <3>2 DEF Covered, OnWire
    <3> QED
      BY <2>1, <2>2, <3>2, <3>3, <3>4, FeedStep
  <2>4. CASE ~Listening(p)
    <3>1. wire' = wire
      BY <1>1, <2>4 DEF NewHead, FeedTypes
    <3>2. FeedTypes'
      BY <2>1, <2>2, <3>1 DEF FeedTypes
    <3>3. Covered(p)'
      BY <2>1, <2>4 DEF Covered, Listening
    <3> QED
      BY <2>1, <2>2, <3>1, <3>2, <3>3, FeedStep
  <2> QED
    BY <2>3, <2>4
<1>2. ASSUME NEW h \in Heads, HeadNotSent(p, h) PROVE FeedInv'
  BY <1>2 DEF HeadNotSent, FeedTypes, watcherVars
<1>3. CASE Repeat(p)
  <2>1. wire[p] = <<>> /\ wire' = [wire EXCEPT ![p] = <<last[p]>>] /\ UNCHANGED <<tip, session, last, seen>>
    BY <1>3 DEF Repeat
  <2>2. /\ wire' \in [Providers -> Seq(Heads)] /\ \A q \in Providers \ {p} : wire'[q] = wire[q]
    BY <2>1 DEF FeedTypes
  <2>3. FeedTypes'
    BY <2>1, <2>2 DEF FeedTypes
  <2>4. \A h : ~OnWire(p, h)
    BY <2>1 DEF OnWire
  <2>5. reliable => Covered(p)'
    BY <2>1, <2>4 DEF Covered
  <2> QED
    BY <2>1, <2>2, <2>3, <2>5, FeedStep
<1>4. ASSUME NEW h \in Heads, Resend(p, h) PROVE FeedInv'
  <2>1. ~reliable /\ wire' = [wire EXCEPT ![p] = <<h>>] /\ UNCHANGED <<tip, session, last, seen>>
    BY <1>4 DEF Resend
  <2>2. FeedTypes'
    BY <2>1 DEF FeedTypes
  <2> QED
    BY <2>1, <2>2
<1>5. CASE GoDown(p) \/ ComeBack(p)
  <2>1. UNCHANGED <<tip, session, wire, last, seen>>
    BY <1>5 DEF GoDown, ComeBack, watcherVars
  <2> QED
    BY <2>1 DEF FeedTypes, Covered, OnWire
<1> QED
  BY <1>1, <1>2, <1>3, <1>4, <1>5 DEF Provider

\* A session that ends covers nothing, and one that has not got the answer yet
\* need not.
LEMMA SessionInv ==
    ASSUME FeedInv, UNCHANGED reliable, NEW p \in Providers,
           Dial(p) \/ Acknowledge(p) \/ SessionFails(p) \/ HeadUnavailable(p) \/ IdleOut(p)
    PROVE  FeedInv'
<1>1. \/ session' = [session EXCEPT ![p] = "dialing"] /\ wire' = wire
      \/ session' = [session EXCEPT ![p] = "subscribed"] /\ wire' = wire
      \/ session' = [session EXCEPT ![p] = "off"] /\ wire' = [wire EXCEPT ![p] = <<>>]
  BY DEF Dial, Acknowledge, SessionFails, HeadUnavailable, IdleOut, EndSession
<1>2. UNCHANGED <<tip, last, seen>>
  BY DEF Dial, Acknowledge, SessionFails, HeadUnavailable, IdleOut, EndSession
<1>3. session'[p] \in {"dialing", "subscribed", "off"} /\ FeedTypes'
  <2>1. session \in [Providers -> Sessions] /\ wire \in [Providers -> Seq(Heads)] /\ <<>> \in Seq(Heads)
    BY DEF FeedInv, FeedTypes
  <2>2. session'[p] \in {"dialing", "subscribed", "off"} /\ session' \in [Providers -> Sessions]
    BY <1>1, <2>1 DEF Sessions
  <2>3. wire' \in [Providers -> Seq(Heads)]
    BY <1>1, <2>1
  <2> QED
    BY <1>2, <2>2, <2>3 DEF FeedInv, FeedTypes
<1>4. \A q \in Providers \ {p} : session'[q] = session[q] /\ wire'[q] = wire[q]
  BY <1>1 DEF FeedInv, FeedTypes
<1>5. Covered(p)'
  BY <1>3 DEF Covered
<1> QED
  BY <1>2, <1>3, <1>4, <1>5, FeedStep

LEMMA WatcherInv ==
    ASSUME FeedInv, UNCHANGED reliable, NEW p \in Providers, Watcher(p)
    PROVE  FeedInv'
<1> USE DEF FeedInv
<1>1. CASE Bootstrap(p)
  <2>1. /\ session' = [session EXCEPT ![p] = "answered"] /\ last' = [last EXCEPT ![p] = tip[p]]
        /\ UNCHANGED <<tip, wire, seen>>
    BY <1>1 DEF Bootstrap
  <2>2. FeedTypes' /\ session'[p] = "answered" /\ last'[p] = tip[p]
    BY <2>1 DEF FeedTypes, Sessions
  <2>3. \A q \in Providers \ {p} : session'[q] = session[q] /\ last'[q] = last[q]
    BY <2>1 DEF FeedTypes
  <2>4. Covered(p)'
    BY <2>1, <2>2 DEF Covered
  <2> QED
    BY <2>1, <2>2, <2>3, <2>4, FeedStep
<1>2. CASE GoLive(p)
  <2>1. /\ session[p] = "answered" /\ session' = [session EXCEPT ![p] = "live"]
        /\ seen' = seen \cup {last[p]} /\ UNCHANGED <<tip, wire, last>>
    BY <1>2 DEF GoLive
  <2>2. FeedTypes' /\ session'[p] = "live"
    BY <2>1 DEF FeedTypes, Sessions
  <2>3. \A q \in Providers \ {p} : session'[q] = session[q]
    BY <2>1 DEF FeedTypes
  <2>4. reliable => Covered(p)'
    BY <2>1, <2>2 DEF Covered, OnWire
  <2> QED
    BY <2>1, <2>2, <2>3, <2>4, FeedStep
<1>3. CASE ReadDuplicate(p)
  <2>1. /\ session[p] = "live" /\ wire[p] # <<>> /\ Head(wire[p]) = last[p]
        /\ wire' = [wire EXCEPT ![p] = Tail(@)] /\ UNCHANGED <<tip, session, last, seen>>
    BY <1>3 DEF ReadDuplicate, Fresh
  <2>2. /\ wire' \in [Providers -> Seq(Heads)] /\ \A q \in Providers \ {p} : wire'[q] = wire[q]
        /\ \A h : OnWire(p, h) => h = Head(wire[p]) \/ OnWire(p, h)'
    BY <2>1, WirePops
  <2>3. FeedTypes'
    BY <2>1, <2>2 DEF FeedTypes
  <2>4. reliable => Covered(p)'
    BY <2>1, <2>2 DEF Covered
  <2> QED
    BY <2>1, <2>2, <2>3, <2>4, FeedStep
<1>4. CASE ReadHead(p)
  <2>1. /\ session[p] = "live" /\ wire[p] # <<>> /\ wire' = [wire EXCEPT ![p] = Tail(@)]
        /\ last' = [last EXCEPT ![p] = Head(wire[p])] /\ seen' = seen \cup {Head(wire[p])}
        /\ UNCHANGED <<tip, session>>
    BY <1>4 DEF ReadHead
  <2>2. /\ wire' \in [Providers -> Seq(Heads)] /\ \A q \in Providers \ {p} : wire'[q] = wire[q]
        /\ Head(wire[p]) \in Heads
        /\ \A h : OnWire(p, h) => h = Head(wire[p]) \/ OnWire(p, h)'
    BY <2>1, WirePops
  <2>3. /\ last' \in [Providers -> Heads] /\ last'[p] = Head(wire[p])
        /\ \A q \in Providers \ {p} : last'[q] = last[q]
    BY <2>1, <2>2 DEF FeedTypes
  <2>4. FeedTypes'
    BY <2>1, <2>2, <2>3 DEF FeedTypes
  <2>5. reliable => Covered(p)'
    BY <2>1, <2>2, <2>3 DEF Covered
  <2> QED
    BY <2>1, <2>2, <2>3, <2>4, <2>5, FeedStep
<1>5. CASE Tick(p)
  <2>1. UNCHANGED <<tip, session, wire, last, seen>>
    BY <1>5 DEF Tick
  <2> QED
    BY <2>1 DEF FeedTypes, Covered, OnWire
<1> QED
  BY <1>1, <1>2, <1>3, <1>4, <1>5, SessionInv DEF Watcher

LEMMA FeedNext == FeedInv /\ [Next]_vars => FeedInv'
<1> SUFFICES ASSUME FeedInv, [Next]_vars PROVE FeedInv'
  OBVIOUS
<1>1. UNCHANGED reliable
  BY DEF Next, vars
<1>2. CASE UNCHANGED vars \/ Poller
  <2>1. UNCHANGED <<tip, session, wire, last>> /\ seen \subseteq seen'
    BY <1>2 DEF vars, feedVars, watcherVars, Poller, PollStart, PollAnswer, PollFails, PollEnd,
                PollSnapshotFails
  <2> QED
    BY <1>1, <2>1 DEF FeedInv, FeedTypes, Covered, OnWire
<1>3. ASSUME NEW p \in Providers, Provider(p) PROVE FeedInv'
  BY <1>1, <1>3, ProviderInv
<1>4. ASSUME NEW p \in Subscribing, Watcher(p) PROVE FeedInv'
  BY <1>1, <1>4, WatcherInv, FeedAssumption
<1> QED
  BY <1>2, <1>3, <1>4 DEF Next

(***************************************************************************)
(* watchEVMSession subscribes before it bootstraps over HTTP: a provider   *)
(* with a backend that sends every head is left out of the polls only      *)
(* while its latest head was handed over or is on its way.                 *)
(***************************************************************************)
THEOREM CoverageSafe == Spec => []NotPolledOnlyWhenCovered
<1>1. FeedInv => NotPolledOnlyWhenCovered
  <2> SUFFICES ASSUME FeedInv, reliable, NEW p \in Subscribing, Fresh(p)
               PROVE  tip[p] \in seen \cup {wire[p][i] : i \in DOMAIN wire[p]}
    BY DEF NotPolledOnlyWhenCovered
  <2>1. p \in Providers /\ session[p] = "live" /\ wire[p] \in Seq(Heads)
    BY FeedAssumption DEF FeedInv, FeedTypes, Fresh
  <2>2. tip[p] \in seen \/ OnWire(p, tip[p])
    BY <2>1 DEF FeedInv, Covered
  <2> QED
    BY <2>1, <2>2 DEF OnWire
<1> QED
  BY <1>1, FeedInit, FeedNext, PTL DEF Spec

-----------------------------------------------------------------------------
(* The response cache *)

Entry == [key : Keys, size : Nat]

\* t has the running totals of the first n entries.
RunningTotals(t, entries, n) ==
    /\ t \in [0..n -> Nat]
    /\ t[0] = 0
    /\ \A i \in 1..n : t[i] = t[i - 1] + entries[i].size

LEMMA TotalsExist ==
    ASSUME NEW entries \in Seq(Entry)
    PROVE  \E t : RunningTotals(t, entries, Len(entries))
<1> DEFINE Missing == {n \in 0..Len(entries) : ~\E t : RunningTotals(t, entries, n)}
<1> SUFFICES ASSUME Missing # {} PROVE FALSE
  BY LenProperties
<1>1. PICK n \in Missing : \A m \in Missing : n <= m
  BY LeastNat, Missing \in SUBSET Nat
<1>2. n # 0
  <2>1. RunningTotals([i \in 0..0 |-> 0], entries, 0)
    BY DEF RunningTotals
  <2> QED
    BY <1>1, <2>1
<1>3. PICK t : RunningTotals(t, entries, n - 1)
  BY <1>1, <1>2
<1> DEFINE u == [i \in 0..n |-> IF i = n THEN t[n - 1] + entries[n].size ELSE t[i]]
<1>4. RunningTotals(u, entries, n)
  <2>1. entries[n] \in Entry
    BY <1>1, <1>2
  <2>2. t[n - 1] \in Nat
    BY <1>3, <1>2 DEF RunningTotals
  <2>3. u \in [0..n -> Nat]
    BY <1>3, <2>1, <2>2 DEF RunningTotals, Entry
  <2>4. \A i \in 1..n : u[i] = u[i - 1] + entries[i].size
    BY <1>3, <1>2 DEF RunningTotals
  <2> QED
    BY <2>3, <2>4, <1>2, <1>3 DEF RunningTotals
<1> QED
  BY <1>1, <1>4

LEMMA TotalsFacts ==
    ASSUME NEW entries \in Seq(Entry)
    PROVE  RunningTotals(Totals(entries), entries, Len(entries))
<1> DEFINE n == Len(entries)
           Step(t) == [i \in 0..n |-> IF i = 0 THEN 0 ELSE t[i - 1] + entries[i].size]
<1>1. PICK t : RunningTotals(t, entries, n)
  BY TotalsExist
<1>2. t = Step(t)
  BY <1>1 DEF RunningTotals
<1>3. Totals(entries) = CHOOSE f : f = Step(f)
  BY DEF Totals
<1>4. Totals(entries) = Step(Totals(entries))
  <2> HIDE DEF Step
  <2> QED
  BY <1>2, <1>3
<1> DEFINE f == Totals(entries)
           Wrong == {i \in 0..n : f[i] \notin Nat}
<1>5. Wrong = {}
  <2> SUFFICES ASSUME Wrong # {} PROVE FALSE
    OBVIOUS
  <2>1. PICK i \in Wrong : \A j \in Wrong : i <= j
    BY LeastNat, Wrong \in SUBSET Nat
  <2>2. i # 0
    BY <1>4, <2>1
  <2>3. f[i - 1] \in Nat /\ entries[i] \in Entry
    BY <2>1, <2>2
  <2>4. f[i] = f[i - 1] + entries[i].size
    BY <1>4, <2>1, <2>2
  <2> QED
    BY <2>1, <2>3, <2>4 DEF Entry
<1>6. f \in [0..n -> Nat]
  BY <1>4, <1>5
<1>7. f[0] = 0 /\ \A i \in 1..n : f[i] = f[i - 1] + entries[i].size
  BY <1>4
<1> QED
  BY <1>6, <1>7 DEF RunningTotals

\* Running totals that grow alike are alike.
LEMMA SameTotals ==
    ASSUME NEW n \in Nat, NEW f \in [0..n -> Int], NEW g \in [0..n -> Int],
           NEW d \in [1..n -> Int], f[0] = g[0],
           \A i \in 1..n : f[i] = f[i - 1] + d[i],
           \A i \in 1..n : g[i] = g[i - 1] + d[i]
    PROVE  \A i \in 0..n : f[i] = g[i]
<1> DEFINE Wrong == {i \in 0..n : f[i] # g[i]}
<1> SUFFICES ASSUME Wrong # {} PROVE FALSE
  OBVIOUS
<1>1. PICK i \in Wrong : \A j \in Wrong : i <= j
  BY LeastNat, Wrong \in SUBSET Nat
<1>2. i \in 1..n /\ f[i - 1] = g[i - 1]
  BY <1>1
<1> QED
  BY <1>1, <1>2

LEMMA RemoveAtFacts ==
    ASSUME NEW s \in Seq(Entry), NEW i \in 1..Len(s)
    PROVE  /\ RemoveAt(s, i) \in Seq(Entry)
           /\ Len(RemoveAt(s, i)) = Len(s) - 1
           /\ \A n \in 1..Len(s)-1 : RemoveAt(s, i)[n] = IF n < i THEN s[n] ELSE s[n + 1]
<1> DEFINE a == SubSeq(s, 1, i - 1)
           b == SubSeq(s, i + 1, Len(s))
<1>1. a \in Seq(Entry) /\ Len(a) = i - 1 /\ \A n \in 1..i-1 : a[n] = s[n]
  BY SubSeqProperties
<1>2. b \in Seq(Entry) /\ Len(b) = Len(s) - i /\ \A n \in 1..Len(s)-i : b[n] = s[n + i]
  BY SubSeqProperties
<1> HIDE DEF a, b
<1>3. /\ a \o b \in Seq(Entry) /\ Len(a \o b) = Len(s) - 1
      /\ \A n \in 1..Len(s)-1 : (a \o b)[n] = IF n < i THEN a[n] ELSE b[n - (i - 1)]
  <2>1. a \o b \in Seq(Entry) /\ Len(a \o b) = Len(a) + Len(b)
    BY <1>1, <1>2, ConcatProperties
  <2>2. \A n \in 1..Len(a) + Len(b) : (a \o b)[n] = IF n <= Len(a) THEN a[n] ELSE b[n - Len(a)]
    BY <1>1, <1>2, ConcatProperties
  <2> QED
    BY <1>1, <1>2, <2>1, <2>2
<1>4. ASSUME NEW n \in 1..Len(s)-1, ~(n < i) PROVE b[n - (i - 1)] = s[n + 1]
  BY <1>2, <1>4
<1>5. RemoveAt(s, i) = a \o b
  BY DEF RemoveAt, a, b
<1> QED
  BY <1>1, <1>3, <1>4, <1>5

\* Taking out an entry takes its size from the total.
LEMMA RemovedSize ==
    ASSUME NEW s \in Seq(Entry), NEW i \in 1..Len(s)
    PROVE  Size(RemoveAt(s, i)) = Size(s) - s[i].size
<1> DEFINE r == RemoveAt(s, i)
           n == Len(r)
           f == Totals(r)
           t == Totals(s)
           g == [j \in 0..n |-> IF j < i THEN t[j] ELSE t[j + 1] - s[i].size]
<1>1. /\ r \in Seq(Entry) /\ n = Len(s) - 1 /\ n \in Nat
      /\ \A j \in 1..n : r[j] = IF j < i THEN s[j] ELSE s[j + 1]
  BY RemoveAtFacts
<1>2. /\ f \in [0..n -> Nat] /\ f[0] = 0
      /\ \A j \in 1..n : f[j] = f[j - 1] + r[j].size
  BY <1>1, TotalsFacts DEF RunningTotals
<1>3. /\ t \in [0..n + 1 -> Nat] /\ t[0] = 0
      /\ \A j \in 1..n + 1 : t[j] = t[j - 1] + s[j].size
  BY <1>1, TotalsFacts DEF RunningTotals
<1>4. \A j \in 1..n + 1 : s[j].size \in Nat
  <2>1. \A j \in 1..n + 1 : s[j] \in Entry
    BY <1>1
  <2> QED
    BY <2>1 DEF Entry
<1> HIDE DEF r, n, f, t
<1>5. g \in [0..n -> Int] /\ g[0] = 0
  BY <1>1, <1>3, <1>4
<1>6. ASSUME NEW j \in 1..n PROVE g[j] = g[j - 1] + r[j].size
  <2>1. CASE j < i
    <3>1. g[j] = t[j] /\ g[j - 1] = t[j - 1] /\ r[j] = s[j]
      BY <2>1, <1>1
    <3>2. t[j] = t[j - 1] + s[j].size
      BY <1>1, <1>3
    <3> QED
      BY <3>1, <3>2
  <2>2. CASE j = i
    <3>1. g[j] = t[j + 1] - s[j].size /\ g[j - 1] = t[j - 1] /\ r[j] = s[j + 1]
      BY <2>2, <1>1
    <3>2. t[j + 1] = t[j] + s[j + 1].size /\ t[j] = t[j - 1] + s[j].size
      BY <1>1, <1>3
    <3>3. t[j - 1] \in Int /\ s[j].size \in Int /\ s[j + 1].size \in Int
      <4>1. j - 1 \in 0..n + 1 /\ j \in 1..n + 1 /\ j + 1 \in 1..n + 1
        BY <1>1
      <4> QED
        BY <4>1, <1>3, <1>4
    <3> QED
      BY <3>1, <3>2, <3>3
  <2>3. CASE j > i
    <3>1. g[j] = t[j + 1] - s[i].size /\ g[j - 1] = t[j] - s[i].size /\ r[j] = s[j + 1]
      BY <2>3, <1>1
    <3>2. t[j + 1] = t[j] + s[j + 1].size
      BY <1>1, <1>3
    <3>3. t[j] \in Int /\ s[i].size \in Int /\ s[j + 1].size \in Int
      <4>1. j \in 0..n + 1 /\ i \in 1..n + 1 /\ j + 1 \in 1..n + 1
        BY <1>1
      <4> QED
        BY <4>1, <1>3, <1>4
    <3> QED
      BY <3>1, <3>2, <3>3
  <2> QED
    BY <2>1, <2>2, <2>3
<1> DEFINE d == [j \in 1..n |-> r[j].size]
<1>7. f[n] = g[n]
  <2>1. f \in [0..n -> Int] /\ n \in Nat
    BY <1>1, <1>2
  <2>2. d \in [1..n -> Int]
    BY <1>1, <1>4
  <2>3. \A j \in 1..n : f[j] = f[j - 1] + d[j]
    BY <1>2
  <2>4. \A j \in 1..n : g[j] = g[j - 1] + d[j]
    BY <1>6
  <2>5. f[0] = g[0]
    BY <1>2, <1>5
  <2> HIDE DEF d, g
  <2>6. \A j \in 0..n : f[j] = g[j]
    BY <1>5, <2>1, <2>2, <2>3, <2>4, <2>5, SameTotals
  <2> QED
    BY <2>1, <2>6
<1> HIDE DEF g
<1>8. g[n] = t[n + 1] - s[i].size
  <2>1. CASE n < i
    <3>1. i = n + 1 /\ t[n + 1] = t[n] + s[n + 1].size
      BY <2>1, <1>1, <1>3
    <3>2. t[n] \in Nat /\ s[n + 1].size \in Nat
      BY <1>1, <1>3, <1>4
    <3> QED
      BY <2>1, <3>1, <3>2, <1>1 DEF g
  <2>2. CASE ~(n < i)
    BY <2>2, <1>1 DEF g
  <2> QED
    BY <2>1, <2>2
<1> QED
  BY <1>1, <1>7, <1>8 DEF Size, f, n, r, t

\* An entry in front adds its size; a prefix has the totals of the whole.
LEMMA PushedSize ==
    ASSUME NEW s \in Seq(Entry), NEW e \in Entry, NEW m \in 0..Len(s)
    PROVE  Size(<<e>> \o SubSeq(s, 1, m)) = e.size + Totals(s)[m]
<1> DEFINE r == <<e>> \o SubSeq(s, 1, m)
           f == Totals(r)
           t == Totals(s)
           g == [j \in 0..m + 1 |-> IF j = 0 THEN 0 ELSE e.size + t[j - 1]]
<1>1. /\ r \in Seq(Entry) /\ Len(r) = m + 1 /\ r[1] = e
      /\ \A j \in 2..m + 1 : r[j] = s[j - 1]
  OBVIOUS
<1>2. /\ f \in [0..m + 1 -> Nat] /\ f[0] = 0
      /\ \A j \in 1..m + 1 : f[j] = f[j - 1] + r[j].size
  BY <1>1, TotalsFacts DEF RunningTotals
<1>3. /\ \A j \in 0..m : t[j] \in Nat
      /\ t[0] = 0 /\ \A j \in 1..m : t[j] = t[j - 1] + s[j].size
  <2>1. /\ t \in [0..Len(s) -> Nat] /\ t[0] = 0
        /\ \A j \in 1..Len(s) : t[j] = t[j - 1] + s[j].size
    BY TotalsFacts DEF RunningTotals
  <2>2. 0..m \subseteq 0..Len(s) /\ 1..m \subseteq 1..Len(s)
    OBVIOUS
  <2> HIDE DEF t
  <2> QED
    BY <2>1, <2>2
<1>4. e.size \in Nat /\ \A j \in 1..m : s[j].size \in Nat
  <2>1. \A j \in 1..m : s[j] \in Entry
    OBVIOUS
  <2> QED
    BY <2>1 DEF Entry
<1> HIDE DEF r, f, t
<1>5. g \in [0..m + 1 -> Int] /\ g[0] = 0
  BY <1>3, <1>4
<1>6. ASSUME NEW j \in 1..m + 1 PROVE g[j] = g[j - 1] + r[j].size
  <2>1. CASE j = 1
    BY <2>1, <1>1, <1>3, <1>4
  <2>2. CASE j > 1
    <3>1. g[j] = e.size + t[j - 1] /\ g[j - 1] = e.size + t[j - 2]
      BY <2>2
    <3>2. t[j - 1] = t[(j - 1) - 1] + s[j - 1].size /\ r[j] = s[j - 1]
      BY <2>2, <1>1, <1>3
    <3>3. t[j - 2] \in Int /\ s[j - 1].size \in Int /\ e.size \in Int
      <4>1. j - 2 \in 0..m /\ j - 1 \in 1..m
        BY <2>2
      <4> QED
        BY <4>1, <1>3, <1>4
    <3> QED
      BY <3>1, <3>2, <3>3
  <2> QED
    BY <2>1, <2>2
<1> DEFINE d == [j \in 1..m + 1 |-> r[j].size]
<1>7. f[m + 1] = g[m + 1]
  <2>1. f \in [0..m + 1 -> Int] /\ m + 1 \in Nat
    BY <1>2
  <2>2. d \in [1..m + 1 -> Int]
    <3>1. \A j \in 1..m + 1 : r[j] \in Entry
      BY <1>1
    <3> QED
      BY <3>1 DEF Entry
  <2>3. \A j \in 1..m + 1 : f[j] = f[j - 1] + d[j]
    BY <1>2
  <2>4. \A j \in 1..m + 1 : g[j] = g[j - 1] + d[j]
    BY <1>6
  <2>5. f[0] = g[0]
    BY <1>2, <1>5
  <2> HIDE DEF d, g
  <2>6. \A j \in 0..m + 1 : f[j] = g[j]
    BY <1>5, <2>1, <2>2, <2>3, <2>4, <2>5, SameTotals
  <2> QED
    BY <2>1, <2>6
<1> QED
  BY <1>1, <1>7 DEF Size, f, r, t, g

\* An entry is behind those whose keys were called after its own.
Ordered(entries) ==
    \A i, n \in 1..Len(entries) : i < n => entries[i].key \in newer[entries[n].key]
OneEach(entries) ==
    \A i, n \in 1..Len(entries) : entries[i].key = entries[n].key => i = n
Lacks(entries, k) == \A i \in 1..Len(entries) : entries[i].key # k

CacheTypes ==
    /\ recent \in Seq(Entry) /\ bytes \in Nat
    /\ newer \in [Keys -> SUBSET Keys]

CacheInv ==
    /\ CacheTypes
    /\ ~panicked
    /\ bytes = Size(recent) /\ bytes <= MaxBytes
    /\ Len(recent) <= MaxEntries
    /\ OneEach(recent) /\ Ordered(recent)

LEMMA PlacesFacts ==
    ASSUME CacheTypes, NEW k \in Keys
    PROVE  Places(k) = {i \in 1..Len(recent) : recent[i].key = k}
BY DEF Places, CacheTypes

LEMMA EntryTaken ==
    ASSUME CacheInv, NEW k \in Keys, NEW i \in Places(k)
    PROVE  /\ i \in 1..Len(recent) /\ recent[i] \in Entry
           /\ LET s == RemoveAt(recent, i)
              IN  /\ s \in Seq(Entry) /\ Len(s) = Len(recent) - 1
                  /\ OneEach(s) /\ Ordered(s) /\ Lacks(s, k)
                  /\ \A n \in 1..Len(s) : \E j \in 1..Len(recent) : s[n] = recent[j]
                  /\ \A j \in 1..Len(recent) :
                        recent[j].key # k => \E n \in 1..Len(s) : s[n] = recent[j]
<1> DEFINE s == RemoveAt(recent, i)
<1>1. /\ recent \in Seq(Entry) /\ Len(recent) \in Nat
      /\ i \in 1..Len(recent) /\ recent[i].key = k /\ recent[i] \in Entry
  BY PlacesFacts DEF CacheInv, CacheTypes
<1>2. /\ s \in Seq(Entry) /\ Len(s) = Len(recent) - 1
      /\ \A n \in 1..Len(recent)-1 : s[n] = IF n < i THEN recent[n] ELSE recent[n + 1]
  BY <1>1, RemoveAtFacts
<1> HIDE DEF s
<1>3. OneEach(s)
  <2> SUFFICES ASSUME NEW a \in 1..Len(s), NEW b \in 1..Len(s), s[a].key = s[b].key
               PROVE  a = b
    BY DEF OneEach
  <2> DEFINE At(n) == IF n < i THEN n ELSE n + 1
  <2>1. /\ At(a) \in 1..Len(recent) /\ At(b) \in 1..Len(recent)
        /\ s[a] = recent[At(a)] /\ s[b] = recent[At(b)]
    BY <1>1, <1>2
  <2>2. At(a) = At(b)
    BY <2>1 DEF CacheInv, OneEach
  <2> QED
    BY <1>1, <1>2, <2>2
<1>4. Ordered(s)
  <2> SUFFICES ASSUME NEW a \in 1..Len(s), NEW b \in 1..Len(s), a < b
               PROVE  s[a].key \in newer[s[b].key]
    BY DEF Ordered
  <2> DEFINE At(n) == IF n < i THEN n ELSE n + 1
  <2>1. /\ At(a) \in 1..Len(recent) /\ At(b) \in 1..Len(recent) /\ At(a) < At(b)
        /\ s[a] = recent[At(a)] /\ s[b] = recent[At(b)]
    BY <1>1, <1>2
  <2> QED
    BY <2>1 DEF CacheInv, Ordered
<1>5. ASSUME NEW n \in 1..Len(s) PROVE \E j \in 1..Len(recent) : j # i /\ s[n] = recent[j]
  <2>1. CASE n < i
    BY <1>1, <1>2, <2>1
  <2>2. CASE ~(n < i)
    <3>1. n + 1 \in 1..Len(recent) /\ n + 1 # i /\ s[n] = recent[n + 1]
      BY <1>1, <1>2, <2>2
    <3> QED
      BY <3>1
  <2> QED
    BY <2>1, <2>2
<1>6. Lacks(s, k)
  <2> SUFFICES ASSUME NEW n \in 1..Len(s), s[n].key = k PROVE FALSE
    BY DEF Lacks
  <2>1. PICK j \in 1..Len(recent) : j # i /\ s[n] = recent[j]
    BY <1>5
  <2> QED
    BY <1>1, <2>1 DEF CacheInv, OneEach
<1>7. ASSUME NEW j \in 1..Len(recent), recent[j].key # k
      PROVE  \E n \in 1..Len(s) : s[n] = recent[j]
  <2>1. j # i
    BY <1>1, <1>7
  <2>2. CASE j < i
    BY <1>1, <1>2, <2>2
  <2>3. CASE j > i
    <3>1. j - 1 \in 1..Len(s) /\ s[j - 1] = recent[j]
      BY <1>1, <1>2, <2>3
    <3> QED
      BY <3>1
  <2> QED
    BY <1>1, <2>1, <2>2, <2>3
<1> QED
  BY <1>1, <1>2, <1>3, <1>4, <1>5, <1>6, <1>7 DEF s

\* A call of k puts its entry in front of some of the others.
LEMMA FrontFits ==
    ASSUME CacheTypes, NEW k \in Keys, NEW s \in Seq(Entry), NEW m \in 0..Len(s),
           OneEach(s), Ordered(s), Lacks(s, k),
           NEW e \in Entry, e.key = k,
           recent' = <<e>> \o SubSeq(s, 1, m), Called(k)
    PROVE  /\ recent' \in Seq(Entry) /\ Len(recent') = m + 1 /\ recent'[1] = e
           /\ \A j \in 2..m + 1 : recent'[j] = s[j - 1]
           /\ newer' \in [Keys -> SUBSET Keys]
           /\ OneEach(recent)' /\ Ordered(recent)'
<1>1. /\ recent' \in Seq(Entry) /\ Len(recent') = m + 1 /\ recent'[1] = e
      /\ \A j \in 2..m + 1 : recent'[j] = s[j - 1]
  OBVIOUS
<1>2. newer' \in [Keys -> SUBSET Keys]
  BY DEF CacheTypes, Called
<1>3. \A j \in 2..m + 1 : j - 1 \in 1..Len(s) /\ s[j - 1] \in Entry
  OBVIOUS
<1>4. OneEach(recent)'
  <2> SUFFICES ASSUME NEW a \in 1..m + 1, NEW b \in 1..m + 1, recent'[a].key = recent'[b].key
               PROVE  a = b
    BY <1>1 DEF OneEach
  <2>1. CASE a = 1 \/ b = 1
    BY <1>1, <1>3, <2>1 DEF Lacks
  <2>2. CASE a # 1 /\ b # 1
    <3>1. PICK x \in 1..Len(s), y \in 1..Len(s) : x = a - 1 /\ y = b - 1
      BY <1>3, <2>2
    <3>2. s[x].key = s[y].key
      BY <1>1, <2>2, <3>1
    <3>3. x = y
      BY <3>2 DEF OneEach
    <3> QED
      BY <3>1, <3>3
  <2> QED
    BY <2>1, <2>2
<1>5. Ordered(recent)'
  <2> SUFFICES ASSUME NEW a \in 1..m + 1, NEW b \in 1..m + 1, a < b
               PROVE  recent'[a].key \in newer'[recent'[b].key]
    BY <1>1 DEF Ordered
  <2>1. recent'[b] = s[b - 1] /\ s[b - 1].key \in Keys \ {k}
    <3>1. b \in 2..m + 1 /\ b - 1 \in 1..Len(s)
      OBVIOUS
    <3>2. s[b - 1].key # k
      BY <3>1 DEF Lacks
    <3>3. s[b - 1].key \in Keys
      BY <1>3, <3>1 DEF Entry
    <3> QED
      BY <1>1, <3>1, <3>2, <3>3
  <2>2. newer'[s[b - 1].key] = newer[s[b - 1].key] \cup {k}
    BY <2>1 DEF Called
  <2>3. CASE a = 1
    BY <1>1, <2>1, <2>2, <2>3
  <2>4. CASE a # 1
    <3>1. a - 1 < b - 1 /\ recent'[a] = s[a - 1]
      BY <1>1, <2>4
    <3>2. PICK x \in 1..Len(s), y \in 1..Len(s) : x = a - 1 /\ y = b - 1 /\ x < y
      BY <1>3, <2>4
    <3>3. s[x].key \in newer[s[y].key]
      BY <3>2 DEF Ordered
    <3> QED
      BY <2>1, <2>2, <3>1, <3>2, <3>3
  <2> QED
    BY <2>3, <2>4
<1> QED
  BY <1>1, <1>2, <1>4, <1>5

LEMMA GetInv ==
    ASSUME CacheInv, NEW k \in Keys, Get(k)
    PROVE  CacheInv' /\ KeysOf(recent) \subseteq KeysOf(recent')
<1>1. PICK i \in Places(k) : MoveToFront(i)
  BY DEF Get
<1> DEFINE s == RemoveAt(recent, i)
<1>2. /\ i \in 1..Len(recent) /\ recent[i] \in Entry /\ recent[i].key = k
      /\ s \in Seq(Entry) /\ Len(s) = Len(recent) - 1
      /\ OneEach(s) /\ Ordered(s) /\ Lacks(s, k)
      /\ \A j \in 1..Len(recent) :
            recent[j].key # k => \E n \in 1..Len(s) : s[n] = recent[j]
  BY EntryTaken DEF Places
<1>3. Size(s) = Size(recent) - recent[i].size
  BY <1>2, RemovedSize DEF CacheInv, CacheTypes
<1>4. recent' = <<recent[i]>> \o s /\ Called(k) /\ UNCHANGED <<bytes, panicked>>
  BY <1>1 DEF Get, MoveToFront
<1> HIDE DEF s
<1>5. recent' = <<recent[i]>> \o SubSeq(s, 1, Len(s)) /\ Len(s) \in 0..Len(s)
  BY <1>2, <1>4
<1>6. /\ recent' \in Seq(Entry) /\ Len(recent') = Len(s) + 1 /\ recent'[1] = recent[i]
      /\ \A j \in 2..Len(s) + 1 : recent'[j] = s[j - 1]
      /\ newer' \in [Keys -> SUBSET Keys]
      /\ OneEach(recent)' /\ Ordered(recent)'
  BY <1>2, <1>4, <1>5, FrontFits DEF CacheInv
<1>7. Size(recent') = recent[i].size + Size(s)
  BY <1>2, <1>5, PushedSize DEF Size
<1>8. Size(recent') = Size(recent)
  <2>1. recent[i].size \in Nat /\ Size(recent) \in Nat
    BY <1>2 DEF Entry, CacheInv, CacheTypes
  <2> QED
    BY <1>3, <1>7, <2>1
<1>9. KeysOf(recent) \subseteq KeysOf(recent')
  <2> SUFFICES ASSUME NEW j \in 1..Len(recent) PROVE recent[j].key \in KeysOf(recent')
    BY DEF KeysOf, CacheInv, CacheTypes
  <2>1. DOMAIN recent' = 1..Len(s) + 1
    BY <1>6
  <2>2. CASE recent[j].key = k
    BY <1>2, <1>6, <2>1, <2>2 DEF KeysOf
  <2>3. CASE recent[j].key # k
    <3>1. PICK n \in 1..Len(s) : s[n] = recent[j]
      BY <1>2, <2>3
    <3>2. n + 1 \in DOMAIN recent' /\ recent'[n + 1] = s[n]
      BY <1>2, <1>6, <2>1
    <3> QED
      BY <3>1, <3>2 DEF KeysOf
  <2> QED
    BY <2>2, <2>3
<1> QED
  BY <1>2, <1>4, <1>6, <1>8, <1>9 DEF CacheInv, CacheTypes

LEMMA GetExpiredInv ==
    ASSUME CacheInv, NEW k \in Keys, GetExpired(k)
    PROVE  CacheInv' /\ KeysOf(recent) \subseteq KeysOf(recent') \cup {k}
<1>1. PICK i \in Places(k) : recent' = RemoveAt(recent, i) /\ bytes' = bytes - recent[i].size
  BY DEF GetExpired
<1>2. /\ i \in 1..Len(recent) /\ recent[i] \in Entry
      /\ recent' \in Seq(Entry) /\ Len(recent') = Len(recent) - 1
      /\ OneEach(recent') /\ Ordered(recent') /\ Lacks(recent', k)
      /\ \A j \in 1..Len(recent) :
            recent[j].key # k => \E n \in 1..Len(recent') : recent'[n] = recent[j]
  BY <1>1, EntryTaken
<1>3. Size(recent') = Size(recent) - recent[i].size /\ Size(recent') \in Nat
  <2>1. RunningTotals(Totals(recent'), recent', Len(recent'))
    BY <1>2, TotalsFacts
  <2>2. Totals(recent')[Len(recent')] \in Nat
    BY <1>2, <2>1 DEF RunningTotals
  <2> QED
    BY <1>1, <1>2, <2>2, RemovedSize DEF CacheInv, CacheTypes, Size
<1>4. newer' \in [Keys -> SUBSET Keys] /\ UNCHANGED panicked
  BY DEF GetExpired, Called, CacheInv, CacheTypes
<1>5. Ordered(recent)'
  <2> SUFFICES ASSUME NEW a \in 1..Len(recent'), NEW b \in 1..Len(recent'), a < b
               PROVE  recent'[a].key \in newer'[recent'[b].key]
    BY DEF Ordered
  <2>1. recent'[b].key \in Keys \ {k}
    <3>1. recent'[b] \in Entry
      BY <1>2
    <3> QED
      BY <1>2, <3>1 DEF Lacks, Entry
  <2>2. newer'[recent'[b].key] = newer[recent'[b].key] \cup {k}
    BY <2>1 DEF GetExpired, Called
  <2> QED
    BY <1>2, <2>2 DEF Ordered
<1>6. OneEach(recent)'
  BY <1>2 DEF OneEach
<1>7. recent[i].size \in Nat
  BY <1>2 DEF Entry
<1>8. KeysOf(recent) \subseteq KeysOf(recent') \cup {k}
  BY <1>2 DEF KeysOf, CacheInv, CacheTypes
<1> QED
  BY <1>1, <1>2, <1>3, <1>4, <1>5, <1>6, <1>7, <1>8, CacheAssumption DEF CacheInv, CacheTypes

LEMMA OthersFacts ==
    ASSUME CacheInv, NEW k \in Keys
    PROVE  LET s == Others(k)
           IN  /\ s \in Seq(Entry)
               /\ OneEach(s) /\ Ordered(s) /\ Lacks(s, k)
               /\ \A j \in 1..Len(recent) :
                     recent[j].key # k => \E n \in 1..Len(s) : s[n] = recent[j]
               /\ \A n \in 0..Len(s) : CountedAt(k, n) = Totals(s)[n] /\ Totals(s)[n] \in Nat
<1> DEFINE s == Others(k)
<1>1. /\ s \in Seq(Entry) /\ OneEach(s) /\ Ordered(s) /\ Lacks(s, k)
      /\ \A j \in 1..Len(recent) : recent[j].key # k => \E n \in 1..Len(s) : s[n] = recent[j]
  <2>1. CASE Places(k) = {}
    <3>1. s = recent /\ recent \in Seq(Entry)
      BY <2>1 DEF Others, CacheInv, CacheTypes
    <3>2. Lacks(recent, k)
      BY <2>1, PlacesFacts DEF Lacks, CacheInv
    <3> QED
      BY <3>1, <3>2 DEF CacheInv
  <2>2. CASE Places(k) # {}
    <3>1. PICK i \in Places(k) : s = RemoveAt(recent, i)
      BY <2>2 DEF Others
    <3> QED
      BY <3>1, EntryTaken
  <2> QED
    BY <2>1, <2>2
<1>2. ASSUME NEW n \in 0..Len(s) PROVE CountedAt(k, n) = Totals(s)[n] /\ Totals(s)[n] \in Nat
  <2>1. Totals(s)[n] \in Nat
    BY <1>1, TotalsFacts DEF RunningTotals
  <2>2. bytes = Size(recent) /\ bytes \in Nat
    BY DEF CacheInv, CacheTypes
  <2> QED
    BY <2>1, <2>2 DEF CountedAt
<1> QED
  BY <1>1, <1>2

\* The loop of put stops with an entry to remove, or none to be removed.
LEMMA RoomIsMade ==
    ASSUME CacheInv, NEW k \in Keys, NEW size \in Sizes, Retainable(size)
    PROVE  /\ Fitting(k, size) # {}
           /\ Max(Fitting(k, size)) \in Fitting(k, size)
<1> DEFINE F == Fitting(k, size)
           L == Len(Others(k))
           G == {g \in 0..L : L - g \in F}
<1>1. L \in Nat /\ F \in SUBSET (0..L)
  BY OthersFacts DEF Fitting
<1>2. 0 \in F
  <2>1. CountedAt(k, 0) = 0
    BY <1>1, OthersFacts, TotalsFacts DEF RunningTotals
  <2>2. 0 < MaxEntries /\ 0 <= MaxBytes - size
    BY CacheAssumption DEF Retainable
  <2> QED
    BY <1>1, <2>1, <2>2 DEF Fitting
<1> HIDE DEF F, L
<1>3. L \in G /\ G \in SUBSET Nat
  BY <1>1, <1>2
<1>4. PICK g \in G : \A h \in G : g <= h
  BY <1>3, LeastNat
<1>5. L - g \in F /\ \A n \in F : L - g >= n
  <2> SUFFICES ASSUME NEW n \in F PROVE L - g >= n
    BY <1>4
  <2>1. n \in 0..L /\ L - n \in 0..L /\ L - (L - n) = n
    BY <1>1
  <2>2. L - n \in G
    BY <2>1
  <2> QED
    BY <1>1, <1>4, <2>1, <2>2
<1>6. Max(F) \in F
  BY <1>5 DEF Max
<1> QED
  BY <1>2, <1>6 DEF F

LEMMA PutInv ==
    ASSUME CacheInv, NEW k \in Keys, NEW size \in Sizes, Put(k, size)
    PROVE  /\ CacheInv'
           /\ \A j \in KeysOf(recent) \ KeysOf(recent') : KeysOf(recent') \subseteq newer'[j]
<1> DEFINE s == Others(k)
           left == Max(Fitting(k, size))
           e == [key |-> k, size |-> size]
<1>1. Retainable(size) /\ Called(k) /\ size \in Nat
  BY CacheAssumption DEF Put
<1>2. Fitting(k, size) # {} /\ left \in Fitting(k, size)
  BY <1>1, RoomIsMade
<1>3. /\ recent' = <<e>> \o SubSeq(s, 1, left)
      /\ bytes' = CountedAt(k, left) + size
      /\ UNCHANGED panicked
  BY <1>2 DEF Put
<1>4. /\ s \in Seq(Entry) /\ OneEach(s) /\ Ordered(s) /\ Lacks(s, k)
      /\ \A j \in 1..Len(recent) : recent[j].key # k => \E n \in 1..Len(s) : s[n] = recent[j]
      /\ \A n \in 0..Len(s) : CountedAt(k, n) = Totals(s)[n] /\ Totals(s)[n] \in Nat
  BY OthersFacts
<1>5. /\ left \in 0..Len(s) /\ left < MaxEntries /\ CountedAt(k, left) <= MaxBytes - size
      /\ e \in Entry /\ e.key = k /\ e.size = size
  BY <1>1, <1>2 DEF Fitting, Entry
<1> HIDE DEF s, left, e
<1>6. /\ recent' \in Seq(Entry) /\ Len(recent') = left + 1 /\ recent'[1] = e
      /\ \A j \in 2..left + 1 : recent'[j] = s[j - 1]
      /\ newer' \in [Keys -> SUBSET Keys]
      /\ OneEach(recent)' /\ Ordered(recent)'
  BY <1>1, <1>3, <1>4, <1>5, FrontFits DEF CacheInv
<1>7. Size(recent') = size + Totals(s)[left]
  BY <1>3, <1>4, <1>5, PushedSize
<1>8. bytes' = Size(recent') /\ bytes' \in Nat /\ bytes' <= MaxBytes
  <2>1. CountedAt(k, left) = Totals(s)[left] /\ Totals(s)[left] \in Nat
    BY <1>4, <1>5
  <2> QED
    BY <1>1, <1>3, <1>5, <1>7, <2>1, CacheAssumption
<1>9. Len(recent') <= MaxEntries
  BY <1>5, <1>6, CacheAssumption
<1>10. ASSUME NEW j \in KeysOf(recent) \ KeysOf(recent') PROVE KeysOf(recent') \subseteq newer'[j]
  <2>1. PICK i \in 1..Len(recent) : j = recent[i].key
    BY DEF KeysOf, CacheInv, CacheTypes
  <2>2. DOMAIN recent' = 1..left + 1
    BY <1>5, <1>6
  <2>3. k \in KeysOf(recent')
    <3>1. 1 \in DOMAIN recent' /\ recent'[1].key = k
      BY <1>4, <1>5, <1>6, <2>2
    <3> QED
      BY <3>1 DEF KeysOf
  <2>4. PICK n \in 1..Len(s) : s[n] = recent[i]
    BY <1>4, <2>1, <2>3
  <2>5. ~(n <= left)
    <3> SUFFICES ASSUME n <= left PROVE FALSE
      OBVIOUS
    <3>1. n + 1 \in DOMAIN recent' /\ recent'[n + 1] = s[n]
      BY <1>5, <1>6, <2>2
    <3> QED
      BY <2>1, <2>4, <3>1 DEF KeysOf
  <2>6. j \in Keys /\ newer'[j] = newer[j] \cup {k}
    <3>1. recent[i] \in Entry
      BY <2>1 DEF CacheInv, CacheTypes
    <3> QED
      BY <1>1, <2>1, <2>3, <3>1 DEF Called, Entry
  <2> SUFFICES ASSUME NEW a \in 1..left + 1 PROVE recent'[a].key \in newer'[j]
    BY <2>2 DEF KeysOf
  <2>7. CASE a = 1
    BY <1>5, <1>6, <2>6, <2>7
  <2>8. CASE a # 1
    <3>1. PICK x \in 1..Len(s) : x = a - 1 /\ x < n
      BY <1>5, <2>5, <2>8
    <3>2. s[x].key \in newer[s[n].key]
      BY <3>1, <1>4 DEF Ordered
    <3>3. recent'[a] = s[x]
      BY <1>6, <2>8, <3>1
    <3> QED
      BY <2>1, <2>4, <2>6, <3>2, <3>3
  <2> QED
    BY <2>7, <2>8
<1> QED
  BY <1>3, <1>6, <1>8, <1>9, <1>10 DEF CacheInv, CacheTypes

LEMMA CacheInitInv == CacheInit => CacheInv
<1> SUFFICES ASSUME CacheInit PROVE CacheInv
  OBVIOUS
<1>1. recent \in Seq(Entry) /\ Len(recent) = 0
  BY DEF CacheInit
<1>2. Size(recent) = 0
  BY <1>1, TotalsFacts DEF Size, RunningTotals
<1> QED
  BY <1>1, <1>2, CacheAssumption DEF CacheInit, CacheInv, CacheTypes, OneEach, Ordered

LEMMA CacheNextInv == CacheInv /\ [CacheNext]_cacheVars => CacheInv'
<1> SUFFICES ASSUME CacheInv, [CacheNext]_cacheVars PROVE CacheInv'
  OBVIOUS
<1>1. CASE UNCHANGED cacheVars
  BY <1>1 DEF cacheVars, CacheInv, CacheTypes, OneEach, Ordered
<1>2. CASE CacheNext
  BY <1>2, GetInv, GetExpiredInv, PutInv DEF CacheNext
<1> QED
  BY <1>1, <1>2

LEMMA CacheInvariance == CacheSpec => []CacheInv
BY CacheInitInv, CacheNextInv, PTL DEF CacheSpec

(***************************************************************************)
(* For every limit and every mixture of responses the counter of bytes is  *)
(* the size of what is kept, both limits hold, and the loop that makes     *)
(* room never asks an empty list for its last element.                     *)
(***************************************************************************)
THEOREM BudgetSafe == CacheSpec => []WithinBudget
<1>1. CacheInv => WithinBudget
  BY DEF CacheInv, CacheTypes, WithinBudget, OneEach
<1> QED
  BY <1>1, CacheInvariance, PTL

(***************************************************************************)
(* Eviction is least recently used: what put removes from the back of the  *)
(* list was called before everything that stays.                           *)
(***************************************************************************)
THEOREM EvictionSafe == CacheSpec => LeastRecentGoesFirst
<1> DEFINE A == \A k \in KeysOf(recent) \ KeysOf(recent') :
                    newer'[k] # {} => KeysOf(recent') \subseteq newer'[k]
<1>1. ASSUME CacheInv, [CacheNext]_cacheVars PROVE [A]_cacheVars
  <2>1. CASE UNCHANGED cacheVars
    BY <2>1
  <2>2. ASSUME NEW k \in Keys, Get(k) PROVE A
    BY <1>1, <2>2, GetInv
  <2>3. ASSUME NEW k \in Keys, GetExpired(k) PROVE A
    <3>1. newer'[k] = {}
      BY <2>3 DEF GetExpired, Called
    <3>2. KeysOf(recent) \subseteq KeysOf(recent') \cup {k}
      BY <1>1, <2>3, GetExpiredInv
    <3> QED
      BY <3>1, <3>2
  <2>4. ASSUME NEW k \in Keys, NEW size \in Sizes, Put(k, size) PROVE A
    BY <1>1, <2>4, PutInv
  <2> QED
    BY <1>1, <2>1, <2>2, <2>3, <2>4 DEF CacheNext
<1> QED
  BY <1>1, CacheInvariance, PTL DEF CacheSpec, LeastRecentGoesFirst
=============================================================================
