----------------------------- MODULE ReadFence -----------------------------
(***************************************************************************)
(* One JSON-RPC batch of an EVM chain through the gateway: ServeRPC takes  *)
(* one snapshot of the accepted head, every item is pinned and answered on *)
(* its own time, and fenceEVMResponses reads the head once more before the *)
(* whole batch is written.  Meanwhile the accepted head does whatever      *)
(* AcceptedHead allows.                                                    *)
(***************************************************************************)
EXTENDS BlockTree

CONSTANTS
    NoHead,
    Items,     \* the batch
    Kind,      \* Kind[i]: what item i asks for
    Height,    \* Height[i]: block number an item of kind "number" names
    Hash,      \* Hash[i]: block hash an item of kind "hash" names
    MaxEpoch,  \* bound on recorded reorgs
    MaxGeneration \* bound on accepted heads

\* static: the configured identity; neutral: forwarded, but without a target;
\* bad: rejected by validation or by the method registry; the others are pinned
\* to the accepted head, to its ancestor of a given number, or to a given hash.
Kinds == {"static", "neutral", "bad", "latest", "number", "hash"}

ASSUME BatchAssumption ==
    /\ Kind \in [Items -> Kinds]
    /\ Height \in [Items -> Nat]
    /\ Hash \in [Items -> Blocks]
    /\ MaxEpoch \in Nat /\ MaxGeneration \in Nat
    /\ NoHead \notin [block : Blocks, epoch : Nat, pending : BOOLEAN, generation : Nat]

VARIABLES
    head,       \* the accepted head in the store
    fresh,      \* it was observed within max_head_age
    phase,      \* "start", "processing", "replied"
    snapshot,   \* the head the batch is pinned to
    pinFresh,   \* the snapshot is within max_head_age
    storeDown,  \* the first snapshot could not be read
    replies,    \* replies[i]: NoReply, or the response to item i
    verdict,    \* failureClass of the final check, "" if it passes
    final,      \* history: the head the final check read
    reorgSince  \* history: a reorg was recorded between snapshot and check

batchVars == <<phase, snapshot, pinFresh, storeDown, replies, verdict, final>>
vars == <<head, fresh, reorgSince, batchVars>>

Accepted == INSTANCE AcceptedHead

\* A response, and the target it is pinned to, if any.  A failure before the
\* target is resolved and admitted has none.
NoReply == [done |-> FALSE, ok |-> FALSE, pinned |-> FALSE, block |-> NoBlock]
Reply(ok, pinned, b) == [done |-> TRUE, ok |-> ok, pinned |-> pinned, block |-> b]

\* Mutant of Failure: an error with an empty target.
FailureKeepsTarget == Reply(FALSE, TRUE, NoBlock)

Failure == Reply(FALSE, FALSE, NoBlock)

Init ==
    /\ head = NoHead
    /\ fresh = FALSE
    /\ phase = "start"
    /\ snapshot = NoHead
    /\ pinFresh = FALSE
    /\ storeDown = FALSE
    /\ replies = [i \in Items |-> NoReply]
    /\ verdict = ""
    /\ final = NoHead
    /\ reorgSince = FALSE

-----------------------------------------------------------------------------
(* The shared head. *)

\* What a new head does to a batch before the batch reads it: only the published
\* one is new, and a recorded reorg is remembered.
HeadSeen ==
    /\ fresh' = (fresh \/ ~head'.pending)
    /\ reorgSince' = (reorgSince \/ (phase = "processing" /\ head'.pending))
    /\ UNCHANGED batchVars

HeadMoves ==
    /\ Accepted!Next
    /\ head'.epoch <= MaxEpoch /\ head'.generation <= MaxGeneration
    /\ HeadSeen

\* The coordinator publishes the same head again, with a new observation time.
HeadRefreshed ==
    /\ head # NoHead /\ ~head.pending
    /\ fresh' = TRUE
    /\ UNCHANGED <<head, reorgSince, batchVars>>

\* max_head_age passes since the last observation, or since the snapshot's.
HeadAges ==
    /\ fresh' = FALSE /\ pinFresh' \in {pinFresh, FALSE}
    /\ UNCHANGED <<head, reorgSince, phase, snapshot, storeDown, replies, verdict, final>>

-----------------------------------------------------------------------------
(* The batch. *)

NeedsStore == \E i \in Items : Kind[i] # "static"

\* One snapshot, or one failure to read it, serves the whole batch; a batch of
\* static items needs none.
TakeSnapshot ==
    /\ phase = "start"
    /\ phase' = "processing"
    /\ storeDown' \in {FALSE, NeedsStore}
    /\ snapshot' = IF NeedsStore /\ ~storeDown' THEN head ELSE NoHead
    /\ pinFresh' = fresh
    /\ UNCHANGED <<head, fresh, reorgSince, replies, verdict, final>>

\* getEVMBlockByQuantity: the ancestor at that height, by the parent links of
\* the snapshot's head, every one of them checked.
AncestorsAt(b, number) ==
    {a \in Anc[b] :
        /\ Number[a] = number
        /\ \A c \in Anc[b] : a \in Anc[c] /\ c # a => Linked(c)}

\* What item i is pinned to, given an accepted head: at most one block.
Targets(i) ==
    CASE Kind[i] = "latest" -> {snapshot.block}
      [] Kind[i] = "hash" -> {Hash[i]}
      [] Kind[i] = "number" ->
           IF Height[i] <= Number[snapshot.block] /\ Number[snapshot.block] - Height[i] <= Depth
           THEN AncestorsAt(snapshot.block, Height[i]) ELSE {}

\* A pinned item is admitted under a head that is not being recovered, and a
\* read of latest only under a recent one.
Admitted(i) ==
    /\ Kind[i] \in {"latest", "hash", "number"}
    /\ ~storeDown
    /\ snapshot # NoHead /\ ~snapshot.pending
    /\ Kind[i] = "latest" => pinFresh

\* An item without a target: only the configured identity does without the store.
Forwarded(i) == Kind[i] = "static" \/ (Kind[i] = "neutral" /\ ~storeDown)

\* process: the target is resolved and an upstream that has it, or the cache,
\* answers; validation, the ancestry walk and the upstreams may fail.
Process(i) ==
    /\ phase = "processing"
    /\ ~replies[i].done
    /\ \/ replies' = [replies EXCEPT ![i] = Failure]
       \/ /\ Forwarded(i)
          /\ replies' = [replies EXCEPT ![i] = Reply(TRUE, FALSE, NoBlock)]
       \/ /\ Admitted(i)
          /\ \E ok \in BOOLEAN, b \in Targets(i) :
               replies' = [replies EXCEPT ![i] = Reply(ok, TRUE, b)]
    /\ UNCHANGED <<head, fresh, reorgSince, phase, snapshot, pinFresh, storeDown, verdict, final>>

\* Mutants of BranchChanged: heights alone, or hashes alone.
BranchChangedByHeight(latest) == Number[latest.block] < Number[snapshot.block]
BranchChangedByHash(latest) == latest.block # snapshot.block

\* The head read last is not ordinary advancement of the snapshot.
BranchChanged(latest) ==
    \/ snapshot.epoch # latest.epoch
    \/ latest.generation < snapshot.generation
    \/ Number[latest.block] <= Number[snapshot.block] /\ latest.block # snapshot.block

\* The failure class of the final check of a batch against the head read last.
FenceVerdict(latest, latestFresh) ==
    IF snapshot = NoHead \/ latest = NoHead THEN "reorg_check_unavailable"
    ELSE IF snapshot.pending \/ latest.pending THEN "reorg_pending"
    ELSE IF BranchChanged(latest) THEN "reorg_changed"
    ELSE IF ~latestFresh THEN "stale_head"
    ELSE ""

NeedsFence == \E i \in Items : replies[i].pinned

\* fenceEVMResponses and the write of the batch: when the check fails, every
\* pinned response is replaced by an error, the others stay.
FenceAndReply ==
    /\ phase = "processing"
    /\ \A i \in Items : replies[i].done
    /\ phase' = "replied"
    /\ final' = head
    /\ \/ ~NeedsFence /\ verdict' = ""
       \/ NeedsFence /\ verdict' = FenceVerdict(head, fresh)
       \/ NeedsFence /\ verdict' \in {"reorg_check_unavailable", "deadline"}
    /\ replies' = [i \in Items |-> IF verdict' # "" /\ replies[i].pinned THEN Failure ELSE replies[i]]
    /\ UNCHANGED <<head, fresh, reorgSince, snapshot, pinFresh, storeDown>>

\* The batch's own steps, and the time that passes meanwhile.
Serve ==
    \/ HeadAges \/ TakeSnapshot \/ FenceAndReply
    \/ \E i \in Items : Process(i)

Next == HeadMoves \/ HeadRefreshed \/ Serve

Spec == Init /\ [][Next]_vars

-----------------------------------------------------------------------------
Replies == [done : BOOLEAN, ok : BOOLEAN, pinned : {FALSE}, block : {NoBlock}]
           \cup [done : BOOLEAN, ok : BOOLEAN, pinned : {TRUE}, block : Blocks]

TypeOK ==
    /\ head \in Accepted!AcceptedHeads \cup {NoHead}
    /\ snapshot \in Accepted!AcceptedHeads \cup {NoHead}
    /\ final \in Accepted!AcceptedHeads \cup {NoHead}
    /\ fresh \in BOOLEAN /\ pinFresh \in BOOLEAN /\ storeDown \in BOOLEAN /\ reorgSince \in BOOLEAN
    /\ phase \in {"start", "processing", "replied"}
    /\ replies \in [Items -> Replies]
    /\ verdict \in {"", "reorg_check_unavailable", "reorg_pending", "reorg_changed", "stale_head", "deadline"}

Served(i) == phase = "replied" /\ replies[i].ok

(***************************************************************************)
(* Every item of a batch that is served for latest or for a block number   *)
(* describes a block of the branch that was accepted when the batch was    *)
(* checked, and latest means the same block for all of them, however late  *)
(* each item was answered.                                                 *)
(***************************************************************************)
ServedFromAcceptedBranch ==
    \A i \in Items :
        Served(i) /\ Kind[i] \in {"latest", "number"} =>
            /\ final # NoHead /\ ~final.pending
            /\ replies[i].block \in Anc[final.block]
            /\ Kind[i] = "latest" => replies[i].block = snapshot.block
            /\ Kind[i] = "number" => Number[replies[i].block] = Height[i]

(***************************************************************************)
(* "If a reorg was recorded after the request chose its head, the results  *)
(* are discarded", also for a switch A -> B -> A, for explicit hashes and  *)
(* for items answered before the reorg (README, Reorg protection).         *)
(***************************************************************************)
NothingServedAcrossReorg ==
    \A i \in Items : Served(i) /\ replies[i].pinned => ~reorgSince

(***************************************************************************)
(* "Normal new blocks do not cancel reads": the check reports a reorg only *)
(* if one was recorded since the snapshot (the snapshot of an admitted     *)
(* item is never a fenced one).                                            *)
(***************************************************************************)
AdvancementCancelsNothing ==
    phase = "replied" /\ verdict \in {"reorg_pending", "reorg_changed"} => reorgSince
=============================================================================
