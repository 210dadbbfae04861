------------------------------ MODULE LogRead ------------------------------
(***************************************************************************)
(* One eth_getLogs request with block bounds, from its transformation to   *)
(* the reply of one provider that meanwhile changes branch.  A log stands  *)
(* for its block.  A single recent block is asked for by hash; a range is  *)
(* asked for by numbers, between two checks that the provider has the      *)
(* pinned head at its height.  eth_feeHistory takes the second way too.    *)
(***************************************************************************)
EXTENDS BlockTree, FiniteSets

CONSTANTS
    Heights,    \* block numbers clients name
    MaxMoves    \* bound on the provider's changes of head

ASSUME LogAssumption == Heights \subseteq Nat /\ MaxMoves \in Nat

VARIABLES
    view,    \* the head of the provider's canonical chain
    moved,   \* changes of head so far
    pin,     \* the accepted head of the request's snapshot
    stage,   \* "start", "before", "call", "after", "done", "failed"
    range,   \* the bounds in the upstream request
    target,  \* the block asked for by hash, or NoBlock for a range
    since,   \* moved at the time of the first boundary check
    logs     \* the blocks of the logs in the provider's reply

requestVars == <<pin, stage, range, target, since, logs>>
logVars == <<view, moved, requestVars>>

\* Numbers grow along a provider's canonical chain: one block at a height.
Canonical(b) == \A c \in Anc[b] : Parent[c] \in Blocks => Number[Parent[c]] < Number[c]

LogInit ==
    /\ view \in Blocks /\ Canonical(view)
    /\ moved = 0
    /\ pin \in Blocks /\ Sound(pin)
    /\ stage = "start"
    /\ range = [from |-> 0, to |-> 0]
    /\ target = NoBlock
    /\ since = 0
    /\ logs = {}

\* The provider's canonical chain changes, onto any branch.
Move(b) ==
    /\ moved < MaxMoves
    /\ b # view /\ Canonical(b)
    /\ view' = b
    /\ moved' = moved + 1
    /\ UNCHANGED requestVars

-----------------------------------------------------------------------------
(* transformEVMLogs *)

\* A bound of the filter; "pending" stands for every live tag but "latest".
Selectors == [tag : {"latest", "earliest", "pending"}] \cup [tag : {"height"}, height : Heights]

\* getEVMLogBound; -1 is an error.
Bound(s) ==
    CASE s.tag = "latest" -> Number[pin]
      [] s.tag = "earliest" -> 0
      [] s.tag = "pending" -> -1
      [] s.tag = "height" -> IF s.height > Number[pin] THEN -1 ELSE s.height

\* The pinned branch, read by parent hashes, at height n.
PinnedAt(n) == {b \in Anc[pin] : Number[b] = n}

\* Mutant of ByHash: one block is asked for by number like any range.
NeverByHash(from, to) == FALSE

\* A single block that the parent hashes can reach is asked for by its hash.
ByHash(from, to) == from = to /\ Number[pin] - from <= Depth

Transform(s, t) ==
    LET from == Bound(s)
        to == Bound(t)
        valid == from # -1 /\ to # -1 /\ from <= to
    IN
    /\ stage = "start"
    /\ range' = IF valid THEN [from |-> from, to |-> to] ELSE range
    /\ CASE ~valid -> stage' = "failed" /\ UNCHANGED target
         [] valid /\ ~ByHash(from, to) -> stage' = "before" /\ UNCHANGED target
         [] valid /\ ByHash(from, to) ->
              IF PinnedAt(from) = {}
              THEN stage' = "failed" /\ UNCHANGED target
              ELSE stage' = "call" /\ target' \in PinnedAt(from)
    /\ UNCHANGED <<view, moved, pin, since, logs>>

-----------------------------------------------------------------------------
(* The provider in route. *)

\* verifyEVMBoundaries: the provider's block at the pinned height is the pin.
Boundary == {b \in Anc[view] : Number[b] = Number[pin]} = {pin}

CheckBefore ==
    /\ stage = "before"
    /\ stage' = IF Boundary THEN "call" ELSE "failed"
    /\ since' = moved
    /\ UNCHANGED <<view, moved, pin, range, target, logs>>

InRange(b) == Number[b] \in range.from .. range.to

\* What a provider can reply: what was asked for, or too much of its chain, or
\* the logs of the block its own chain has at that height.
Replies ==
    IF target # NoBlock
    THEN {{target}, {b \in Anc[view] : Number[b] = Number[target]}}
    ELSE {{b \in Anc[view] : InRange(b)}, Anc[view]}

\* verifyEVMResponse
Verified(reply) == \A b \in reply : IF target # NoBlock THEN b = target ELSE InRange(b)

\* Mutant of AfterCall: a range is not checked again.
NoSecondCheck(reply) == "done"

AfterCall(reply) == IF target # NoBlock THEN "done" ELSE "after"

Call(reply) ==
    /\ stage = "call"
    /\ logs' = reply
    /\ stage' = IF Verified(reply) THEN AfterCall(reply) ELSE "failed"
    /\ UNCHANGED <<view, moved, pin, range, target, since>>

CheckAfter ==
    /\ stage = "after"
    /\ stage' = IF Boundary THEN "done" ELSE "failed"
    /\ UNCHANGED <<view, moved, pin, range, target, since, logs>>

LogNext ==
    \/ \E b \in Blocks : Move(b)
    \/ \E s \in Selectors, t \in Selectors : Transform(s, t)
    \/ CheckBefore
    \/ \E reply \in Replies : Call(reply)
    \/ CheckAfter

LogSpec == LogInit /\ [][LogNext]_logVars

-----------------------------------------------------------------------------
Answered == stage = "done"
PinnedLogs == {b \in Anc[pin] : InRange(b)}

(***************************************************************************)
(* The logs of a single recent block are those of the pinned branch, even  *)
(* if the provider has another block at that height by now.                *)
(***************************************************************************)
RecentBlockIsExact ==
    /\ Answered
    /\ range.from = range.to /\ Number[pin] - range.from <= Depth
    => logs \subseteq PinnedLogs

(***************************************************************************)
(* "A provider can change forks during a range read and return to the      *)
(* original branch before the final boundary check" (consistency audit,    *)
(* limit 4), and that is the only way: a range reply that is not exactly   *)
(* that of the pinned branch took two changes of the provider's head       *)
(* between the two checks.                                                 *)
(***************************************************************************)
RangeExactUnlessThereAndBack ==
    Answered /\ target = NoBlock => logs = PinnedLogs \/ moved >= since + 2
=============================================================================
