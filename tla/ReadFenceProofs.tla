-------------------------- MODULE ReadFenceProofs --------------------------
(***************************************************************************)
(* Why the final check of a batch is enough: for every batch, every block  *)
(* tree and any number of head moves between its snapshot and its reply.   *)
(***************************************************************************)
EXTENDS ReadFence, TLAPS

HeadValue == Accepted!AcceptedHeads

(***************************************************************************)
(* While a batch is pinned to an accepted head, the store is in the same   *)
(* epoch exactly as long as no reorg was recorded, and then on a           *)
(* descendant of the pinned block.                                         *)
(***************************************************************************)
Pinned == phase = "processing" /\ snapshot # NoHead /\ ~snapshot.pending

EpochTellsBranch ==
    Pinned =>
        /\ head # NoHead
        /\ snapshot.epoch <= head.epoch
        /\ snapshot.epoch = head.epoch <=> ~reorgSince
        /\ ~reorgSince => /\ ~head.pending
                          /\ snapshot.block \in Anc[head.block]
                          /\ snapshot.generation <= head.generation
                          /\ \/ snapshot.block = head.block
                             \/ Number[snapshot.block] < Number[head.block]

\* What an answered item carries.
ReplyInOrder(i) ==
    /\ replies[i].pinned =>
         /\ phase # "start"
         /\ Kind[i] \in {"latest", "hash", "number"}
         /\ snapshot # NoHead /\ ~snapshot.pending
         /\ replies[i].block \in Targets(i)
    /\ replies[i].ok /\ ~replies[i].pinned => Kind[i] \in {"static", "neutral"}

\* What has been checked when the batch is written.
Checked ==
    phase = "replied" =>
        /\ verdict \in {"reorg_pending", "reorg_changed"} => reorgSince
        /\ \A i \in Items : replies[i].pinned =>
             /\ ~reorgSince
             /\ final # NoHead /\ ~final.pending
             /\ snapshot.block \in Anc[final.block]

IInv ==
    /\ TypeOK
    /\ phase = "start" => ~reorgSince
    /\ EpochTellsBranch
    /\ \A i \in Items : ReplyInOrder(i)
    /\ Checked

-----------------------------------------------------------------------------
\* A target is a block; a target by number has that number and is on the
\* snapshot's branch.
LEMMA TargetFacts ==
    ASSUME TypeOK, snapshot # NoHead, NEW i \in Items,
           Kind[i] \in {"latest", "hash", "number"}, NEW b \in Targets(i)
    PROVE  /\ b \in Blocks
           /\ Kind[i] = "latest" => b = snapshot.block
           /\ Kind[i] = "number" => b \in Anc[snapshot.block] /\ Number[b] = Height[i]
<1>1. snapshot.block \in Blocks
  BY DEF TypeOK, Accepted!AcceptedHeads
<1>2. CASE Kind[i] = "latest"
  BY <1>1, <1>2 DEF Targets
<1>3. CASE Kind[i] = "hash"
  BY <1>3, BatchAssumption DEF Targets
<1>4. CASE Kind[i] = "number"
  <2>1. b \in AncestorsAt(snapshot.block, Height[i])
    BY <1>4 DEF Targets
  <2> QED
    BY <1>1, <1>4, <2>1, AncestryAssumption DEF AncestorsAt
<1> QED
  BY <1>2, <1>3, <1>4

\* What a step of the accepted head does, seen from a reader.
LEMMA HeadStep ==
    ASSUME TypeOK, Accepted!Next
    PROVE  /\ head' \in HeadValue /\ head' # NoHead
           /\ \/ head = NoHead
              \/ /\ head # NoHead /\ head'.pending /\ head'.epoch = head.epoch + 1
                 /\ ~head.pending
              \/ /\ head # NoHead /\ ~head'.pending /\ head'.epoch = head.epoch
                 /\ head.pending
              \/ /\ head # NoHead /\ ~head'.pending /\ head'.epoch = head.epoch
                 /\ ~head.pending
                 /\ head.block \in Anc[head'.block]
                 /\ Number[head.block] < Number[head'.block]
                 /\ head'.generation = head.generation + 1
<1> USE DEF HeadValue
<1>1. NoHead \notin HeadValue
  BY BatchAssumption DEF Accepted!AcceptedHeads
<1>2. CASE Accepted!Fence
  <2> DEFINE g == [head EXCEPT !.epoch = @ + 1]
  <2>1. head # NoHead /\ ~head.pending /\ head' = [g EXCEPT !.pending = TRUE] /\ head \in HeadValue
    BY <1>2 DEF Accepted!Fence, TypeOK
  <2>2. g \in HeadValue /\ g.epoch = head.epoch + 1
    BY <2>1 DEF Accepted!AcceptedHeads
  <2> HIDE DEF g
  <2>3. head' \in HeadValue /\ head'.pending /\ head'.epoch = head.epoch + 1
    BY <2>1, <2>2 DEF Accepted!AcceptedHeads
  <2> QED
    BY <1>1, <2>1, <2>3
<1>3. ASSUME NEW b \in Blocks, Accepted!First(b)
      PROVE  head = NoHead /\ head' \in HeadValue
  BY <1>3 DEF Accepted!First, Accepted!AcceptedHeads
<1>4. ASSUME NEW b \in Blocks, head # NoHead, head' = Accepted!MovedTo(b)
      PROVE  /\ head' \in HeadValue /\ ~head'.pending /\ head'.epoch = head.epoch
             /\ head'.block = b
             /\ b # head.block => head'.generation = head.generation + 1
  <2> DEFINE g == IF b = head.block THEN head.generation ELSE head.generation + 1
  <2>1. head.epoch \in Nat /\ head.generation \in Nat
    BY <1>4 DEF TypeOK, Accepted!AcceptedHeads
  <2>2. head' = [block |-> b, epoch |-> head.epoch, pending |-> FALSE, generation |-> g]
    BY <1>4 DEF Accepted!MovedTo
  <2>3. g \in Nat /\ (b # head.block => g = head.generation + 1)
    BY <2>1
  <2> HIDE DEF g
  <2> QED
    BY <2>1, <2>2, <2>3 DEF Accepted!AcceptedHeads
<1>5. ASSUME NEW b \in Blocks, Accepted!Recover(b)
      PROVE  /\ head # NoHead /\ head.pending /\ head' \in HeadValue
             /\ ~head'.pending /\ head'.epoch = head.epoch
  BY <1>4, <1>5 DEF Accepted!Recover
<1>6. ASSUME NEW b \in Blocks, Accepted!Advance(b)
      PROVE  /\ head # NoHead /\ ~head.pending /\ head' \in HeadValue
             /\ ~head'.pending /\ head'.epoch = head.epoch
             /\ head.block \in Anc[head'.block]
             /\ Number[head.block] < Number[head'.block]
             /\ head'.generation = head.generation + 1
  <2>1. /\ head # NoHead /\ ~head.pending /\ head' = Accepted!MovedTo(b)
        /\ head.block \in Anc[b] /\ Number[head.block] < Number[b]
    BY <1>6 DEF Accepted!Advance, Accepted!Extends
  <2>2. head.block \in Blocks
    BY <2>1 DEF TypeOK, Accepted!AcceptedHeads
  <2>3. b # head.block
    BY <2>1, <2>2, HeaderAssumption
  <2> QED
    BY <1>4, <2>1, <2>3
<1> QED
  BY <1>1, <1>2, <1>3, <1>5, <1>6 DEF Accepted!Next

-----------------------------------------------------------------------------
LEMMA InitEstablishes == Init => IInv
<1> SUFFICES ASSUME Init PROVE IInv
  OBVIOUS
<1>1. TypeOK
  BY DEF Init, TypeOK, Replies, NoReply
<1>2. EpochTellsBranch /\ Checked /\ ~reorgSince
  BY DEF Init, EpochTellsBranch, Pinned, Checked
<1>3. ASSUME NEW i \in Items PROVE ReplyInOrder(i)
  BY DEF Init, ReplyInOrder, NoReply
<1> QED
  BY <1>1, <1>2, <1>3 DEF IInv

\* The replies are in order as long as snapshot and replies stay.
LEMMA RepliesStay ==
    ASSUME IInv, UNCHANGED <<snapshot, replies, phase>>
    PROVE  \A i \in Items : ReplyInOrder(i)'
BY DEF IInv, ReplyInOrder, Targets, AncestorsAt, Linked

LEMMA HeadMovesPreserves ==
    ASSUME IInv, HeadMoves
    PROVE  IInv'
<1>1. /\ Accepted!Next /\ UNCHANGED batchVars /\ fresh' \in BOOLEAN
      /\ reorgSince' = (reorgSince \/ (phase = "processing" /\ head'.pending))
  BY DEF HeadMoves, HeadSeen, IInv, TypeOK
<1>2. UNCHANGED <<phase, snapshot, pinFresh, storeDown, replies, verdict, final>>
  BY <1>1 DEF batchVars
<1>3. head' \in HeadValue /\ head' # NoHead
  BY <1>1, HeadStep DEF IInv
<1>4. TypeOK'
  BY <1>1, <1>2, <1>3 DEF IInv, TypeOK, HeadValue
<1>5. EpochTellsBranch'
  <2> SUFFICES ASSUME Pinned
               PROVE  /\ snapshot.epoch <= head'.epoch
                      /\ snapshot.epoch = head'.epoch <=> ~reorgSince'
                      /\ ~reorgSince' => /\ ~head'.pending
                                         /\ snapshot.block \in Anc[head'.block]
                                         /\ snapshot.generation <= head'.generation
                                         /\ Number[snapshot.block] < Number[head'.block]
    BY <1>2, <1>3 DEF EpochTellsBranch, Pinned
  <2>1. /\ head # NoHead /\ head \in HeadValue /\ snapshot \in HeadValue
        /\ head.epoch \in Nat /\ snapshot.epoch \in Nat /\ head.generation \in Nat
        /\ snapshot.generation \in Nat /\ head.block \in Blocks /\ snapshot.block \in Blocks
        /\ head'.block \in Blocks /\ head.pending \in BOOLEAN /\ head'.pending \in BOOLEAN
        /\ head'.epoch \in Nat /\ reorgSince \in BOOLEAN
    BY <1>3 DEF IInv, EpochTellsBranch, Pinned, TypeOK, HeadValue, Accepted!AcceptedHeads
  <2>2. reorgSince' = (reorgSince \/ head'.pending)
    BY <1>1 DEF Pinned
  <2>3. /\ snapshot.epoch <= head.epoch
        /\ snapshot.epoch = head.epoch <=> ~reorgSince
        /\ ~reorgSince => /\ ~head.pending
                          /\ snapshot.block \in Anc[head.block]
                          /\ snapshot.generation <= head.generation
                          /\ \/ snapshot.block = head.block
                             \/ Number[snapshot.block] < Number[head.block]
    BY DEF IInv, EpochTellsBranch
  <2>4. CASE head'.pending /\ head'.epoch = head.epoch + 1 /\ ~head.pending
    <3>1. reorgSince'
      BY <2>2, <2>4
    <3>2. snapshot.epoch <= head'.epoch /\ snapshot.epoch # head'.epoch
      BY <2>1, <2>3, <2>4
    <3> QED
      BY <3>1, <3>2
  <2>5. CASE ~head'.pending /\ head'.epoch = head.epoch /\ head.pending
    BY <2>1, <2>2, <2>3, <2>5
  <2>6. CASE /\ ~head'.pending /\ head'.epoch = head.epoch /\ ~head.pending
             /\ head.block \in Anc[head'.block]
             /\ Number[head.block] < Number[head'.block]
             /\ head'.generation = head.generation + 1
    <3>1. Anc[head.block] \subseteq Anc[head'.block]
      BY <2>1, <2>6, AncestryAssumption
    <3>2. Number[snapshot.block] \in Nat /\ Number[head.block] \in Nat /\ Number[head'.block] \in Nat
      BY <2>1, HeaderAssumption
    <3> QED
      BY <2>1, <2>2, <2>3, <2>6, <3>1, <3>2
  <2>7. \/ head'.pending /\ head'.epoch = head.epoch + 1 /\ ~head.pending
        \/ ~head'.pending /\ head'.epoch = head.epoch /\ head.pending
        \/ /\ ~head'.pending /\ head'.epoch = head.epoch /\ ~head.pending
           /\ head.block \in Anc[head'.block]
           /\ Number[head.block] < Number[head'.block]
           /\ head'.generation = head.generation + 1
    BY <1>1, <2>1, HeadStep DEF IInv
  <2> QED
    BY <2>4, <2>5, <2>6, <2>7
<1>6. \A i \in Items : ReplyInOrder(i)'
  BY <1>2, RepliesStay
<1>7. Checked'
  BY <1>1, <1>2 DEF IInv, Checked
<1>8. phase' = "start" => ~reorgSince'
  BY <1>1, <1>2 DEF IInv
<1> QED
  BY <1>4, <1>5, <1>6, <1>7, <1>8 DEF IInv

LEMMA AgePreserves ==
    ASSUME IInv, HeadRefreshed \/ HeadAges
    PROVE  IInv'
<1>1. /\ UNCHANGED <<head, reorgSince, phase, snapshot, storeDown, replies, verdict, final>>
      /\ fresh' \in BOOLEAN /\ pinFresh' \in BOOLEAN
  BY DEF HeadRefreshed, HeadAges, batchVars, IInv, TypeOK
<1>2. TypeOK'
  BY <1>1 DEF IInv, TypeOK
<1>3. \A i \in Items : ReplyInOrder(i)'
  BY <1>1, RepliesStay
<1> QED
  BY <1>1, <1>2, <1>3 DEF IInv, EpochTellsBranch, Pinned, Checked

LEMMA TakeSnapshotPreserves ==
    ASSUME IInv, TakeSnapshot
    PROVE  IInv'
<1>1. /\ phase = "start" /\ phase' = "processing" /\ snapshot' \in {head, NoHead}
      /\ UNCHANGED <<head, fresh, reorgSince, replies, verdict, final>>
      /\ pinFresh' \in BOOLEAN /\ storeDown' \in BOOLEAN /\ ~reorgSince
  BY DEF TakeSnapshot, NeedsStore, IInv, TypeOK
<1>2. TypeOK'
  BY <1>1 DEF IInv, TypeOK
<1>3. EpochTellsBranch'
  <2> SUFFICES ASSUME head # NoHead, ~head.pending, snapshot' = head
               PROVE  head.epoch <= head.epoch /\ head.block \in Anc[head.block]
                      /\ head.generation <= head.generation
    BY <1>1 DEF EpochTellsBranch, Pinned
  <2>1. head.epoch \in Nat /\ head.generation \in Nat /\ head.block \in Blocks
    BY DEF IInv, TypeOK, Accepted!AcceptedHeads
  <2> QED
    BY <2>1, AncestryAssumption
<1>4. ASSUME NEW i \in Items PROVE ReplyInOrder(i)'
  BY <1>1 DEF IInv, ReplyInOrder
<1>5. Checked'
  BY <1>1 DEF Checked
<1> QED
  BY <1>1, <1>2, <1>3, <1>4, <1>5 DEF IInv

LEMMA ProcessPreserves ==
    ASSUME IInv, NEW i \in Items, Process(i)
    PROVE  IInv'
<1>1. /\ phase = "processing"
      /\ UNCHANGED <<head, fresh, reorgSince, phase, snapshot, pinFresh, storeDown, verdict, final>>
  BY DEF Process
<1>2. PICK reply : /\ replies' = [replies EXCEPT ![i] = reply]
                   /\ \/ reply = Failure
                      \/ reply = Reply(TRUE, FALSE, NoBlock) /\ Kind[i] \in {"static", "neutral"}
                      \/ /\ Admitted(i)
                         /\ \E ok \in BOOLEAN, b \in Targets(i) : reply = Reply(ok, TRUE, b)
  <2>1. CASE replies' = [replies EXCEPT ![i] = Failure]
    BY <2>1
  <2>2. CASE Forwarded(i) /\ replies' = [replies EXCEPT ![i] = Reply(TRUE, FALSE, NoBlock)]
    BY <2>2 DEF Forwarded
  <2>3. CASE /\ Admitted(i)
             /\ \E ok \in BOOLEAN, b \in Targets(i) :
                  replies' = [replies EXCEPT ![i] = Reply(ok, TRUE, b)]
    BY <2>3
  <2> QED
    BY <2>1, <2>2, <2>3 DEF Process
<1>3. Admitted(i) => /\ Kind[i] \in {"latest", "hash", "number"}
                     /\ snapshot # NoHead /\ ~snapshot.pending
  BY DEF Admitted
<1>4. /\ reply \in Replies
      /\ reply.pinned => Admitted(i) /\ reply.block \in Targets(i)
      /\ reply.ok /\ ~reply.pinned => Kind[i] \in {"static", "neutral"}
  <2>1. CASE reply = Failure
    BY <2>1 DEF Failure, Reply, Replies
  <2>2. CASE reply = Reply(TRUE, FALSE, NoBlock) /\ Kind[i] \in {"static", "neutral"}
    BY <2>2 DEF Reply, Replies
  <2>3. CASE Admitted(i) /\ \E ok \in BOOLEAN, b \in Targets(i) : reply = Reply(ok, TRUE, b)
    <3>1. PICK ok \in BOOLEAN, b \in Targets(i) : reply = Reply(ok, TRUE, b)
      BY <2>3
    <3>2. b \in Blocks
      BY <1>3, <2>3, TargetFacts DEF IInv
    <3> QED
      BY <2>3, <3>1, <3>2 DEF Reply, Replies
  <2> QED
    BY <1>2, <2>1, <2>2, <2>3
<1>5. TypeOK'
  BY <1>1, <1>2, <1>4 DEF IInv, TypeOK
<1>6. ASSUME NEW j \in Items PROVE ReplyInOrder(j)'
  <2>1. Targets(j)' = Targets(j)
    BY <1>1 DEF Targets, AncestorsAt, Linked
  <2>2. CASE j = i
    <3>1. replies'[j] = reply
      BY <1>2, <2>2 DEF IInv, TypeOK
    <3> QED
      BY <1>1, <1>3, <1>4, <2>1, <2>2, <3>1 DEF ReplyInOrder
  <2>3. CASE j # i
    <3>1. replies'[j] = replies[j]
      BY <1>2, <2>3 DEF IInv, TypeOK
    <3> QED
      BY <1>1, <2>1, <3>1 DEF IInv, ReplyInOrder
  <2> QED
    BY <2>2, <2>3
<1> QED
  BY <1>1, <1>5, <1>6 DEF IInv, EpochTellsBranch, Pinned, Checked

\* A passed check means that no reorg was recorded, a failed one for a reorg
\* that one was.
LEMMA VerdictFacts ==
    ASSUME IInv, Pinned
    PROVE  LET v == FenceVerdict(head, fresh)
           IN  /\ v \in {"", "reorg_check_unavailable", "reorg_pending", "reorg_changed", "stale_head"}
               /\ v = "" => ~reorgSince
               /\ v \in {"reorg_pending", "reorg_changed"} => reorgSince
<1>1. /\ head # NoHead /\ snapshot # NoHead /\ ~snapshot.pending
      /\ head.block \in Blocks /\ snapshot.block \in Blocks
      /\ head.generation \in Nat /\ snapshot.generation \in Nat
  BY DEF IInv, EpochTellsBranch, Pinned, TypeOK, Accepted!AcceptedHeads
<1>2. Number[head.block] \in Nat /\ Number[snapshot.block] \in Nat
  BY <1>1, HeaderAssumption
<1>3. CASE reorgSince
  <2>1. snapshot.epoch # head.epoch
    BY <1>3 DEF IInv, EpochTellsBranch
  <2> QED
    BY <1>1, <1>3, <2>1 DEF FenceVerdict, BranchChanged
<1>4. CASE ~reorgSince
  <2>1. ~head.pending /\ ~BranchChanged(head)
    BY <1>1, <1>2, <1>4 DEF IInv, EpochTellsBranch, BranchChanged
  <2> QED
    BY <1>1, <1>4, <2>1 DEF FenceVerdict
<1> QED
  BY <1>3, <1>4

LEMMA FenceAndReplyPreserves ==
    ASSUME IInv, FenceAndReply
    PROVE  IInv'
<1>1. /\ phase = "processing" /\ phase' = "replied" /\ final' = head
      /\ UNCHANGED <<head, fresh, reorgSince, snapshot, pinFresh, storeDown>>
      /\ replies' = [j \in Items |-> IF verdict' # "" /\ replies[j].pinned
                                     THEN Failure ELSE replies[j]]
      /\ \/ ~NeedsFence /\ verdict' = ""
         \/ NeedsFence /\ verdict' = FenceVerdict(head, fresh)
         \/ NeedsFence /\ verdict' \in {"reorg_check_unavailable", "deadline"}
  BY DEF FenceAndReply
<1>2. NeedsFence => Pinned
  BY <1>1 DEF NeedsFence, IInv, ReplyInOrder, Pinned
<1>3. /\ verdict' \in {"", "reorg_check_unavailable", "reorg_pending", "reorg_changed",
                       "stale_head", "deadline"}
      /\ NeedsFence /\ verdict' = "" => ~reorgSince
      /\ verdict' \in {"reorg_pending", "reorg_changed"} => reorgSince
  BY <1>1, <1>2, VerdictFacts
<1>4. TypeOK'
  <2>1. replies' \in [Items -> Replies]
    BY <1>1 DEF IInv, TypeOK, Failure, Reply, Replies
  <2> QED
    BY <1>1, <1>3, <2>1 DEF IInv, TypeOK
<1>5. ASSUME NEW j \in Items
      PROVE  /\ replies'[j].pinned => replies[j].pinned /\ verdict' = "" /\ replies'[j] = replies[j]
             /\ replies'[j].ok => replies'[j] = replies[j]
  BY <1>1 DEF Failure, Reply
<1>6. ASSUME NEW j \in Items PROVE ReplyInOrder(j)'
  <2>1. Targets(j)' = Targets(j)
    BY <1>1 DEF Targets, AncestorsAt, Linked
  <2> QED
    BY <1>1, <1>5, <2>1 DEF IInv, ReplyInOrder
<1>7. ASSUME NEW j \in Items, replies'[j].pinned
      PROVE  /\ ~reorgSince' /\ final' # NoHead /\ ~final'.pending
             /\ snapshot'.block \in Anc[final'.block]
  <2>1. NeedsFence /\ verdict' = ""
    BY <1>5, <1>7 DEF NeedsFence
  <2> QED
    BY <1>1, <1>2, <1>3, <2>1 DEF IInv, EpochTellsBranch
<1>8. Checked'
  BY <1>1, <1>3, <1>7 DEF Checked
<1> QED
  BY <1>1, <1>4, <1>6, <1>8 DEF IInv, EpochTellsBranch, Pinned

LEMMA NextPreserves ==
    ASSUME IInv, [Next]_vars
    PROVE  IInv'
<1>1. CASE UNCHANGED vars
  <2>1. /\ UNCHANGED <<head, fresh, reorgSince, phase, snapshot, pinFresh, storeDown>>
        /\ UNCHANGED <<replies, verdict, final>>
    BY <1>1 DEF vars, batchVars
  <2>2. \A i \in Items : ReplyInOrder(i)'
    BY <2>1, RepliesStay
  <2> QED
    BY <2>1, <2>2 DEF IInv, TypeOK, EpochTellsBranch, Pinned, Checked
<1> QED
  BY <1>1, HeadMovesPreserves, AgePreserves, TakeSnapshotPreserves, FenceAndReplyPreserves,
     ProcessPreserves DEF Next, Serve

(***************************************************************************)
(* The inductive invariant holds in every reachable state.                 *)
(***************************************************************************)
THEOREM Invariance == Spec => []IInv
BY InitEstablishes, NextPreserves, PTL DEF Spec

(***************************************************************************)
(* The variables of a batch keep their types; a response has a target      *)
(* exactly if it is pinned.                                                *)
(***************************************************************************)
THEOREM TypeCorrect == Spec => []TypeOK
<1>1. IInv => TypeOK
  BY DEF IInv
<1> QED
  BY <1>1, Invariance, PTL

(***************************************************************************)
(* Whatever a batch serves for latest or by number is on the branch that   *)
(* is accepted when the batch is checked.                                  *)
(***************************************************************************)
THEOREM ServedBranchSafe == Spec => []ServedFromAcceptedBranch
<1>1. IInv => ServedFromAcceptedBranch
  <2> SUFFICES ASSUME IInv, NEW i \in Items, Served(i), Kind[i] \in {"latest", "number"}
               PROVE  /\ final # NoHead /\ ~final.pending
                      /\ replies[i].block \in Anc[final.block]
                      /\ Kind[i] = "latest" => replies[i].block = snapshot.block
                      /\ Kind[i] = "number" => Number[replies[i].block] = Height[i]
    BY DEF ServedFromAcceptedBranch
  <2>1. /\ replies[i].pinned /\ replies[i].block \in Targets(i)
        /\ snapshot # NoHead /\ TypeOK
    BY DEF IInv, ReplyInOrder, Served
  <2>2. final # NoHead /\ ~final.pending /\ snapshot.block \in Anc[final.block]
    BY <2>1 DEF IInv, Checked, Served
  <2>3. /\ Kind[i] = "latest" => replies[i].block = snapshot.block
        /\ Kind[i] = "number" => /\ replies[i].block \in Anc[snapshot.block]
                                 /\ Number[replies[i].block] = Height[i]
    BY <2>1, TargetFacts
  <2>4. Anc[snapshot.block] \subseteq Anc[final.block]
    <3>1. final.block \in Blocks
      BY <2>1, <2>2 DEF TypeOK, Accepted!AcceptedHeads
    <3> QED
      BY <2>2, <3>1, AncestryAssumption
  <2> QED
    BY <2>2, <2>3, <2>4
<1> QED
  BY <1>1, Invariance, PTL

(***************************************************************************)
(* No pinned response survives a reorg recorded while it was prepared.     *)
(***************************************************************************)
THEOREM ReorgSafe == Spec => []NothingServedAcrossReorg
<1>1. IInv => NothingServedAcrossReorg
  BY DEF IInv, Checked, NothingServedAcrossReorg, Served
<1> QED
  BY <1>1, Invariance, PTL

(***************************************************************************)
(* A batch is never refused as reorganised by ordinary advancement.        *)
(***************************************************************************)
THEOREM AdvancementSafe == Spec => []AdvancementCancelsNothing
<1>1. IInv => AdvancementCancelsNothing
  BY DEF IInv, Checked, AdvancementCancelsNothing
<1> QED
  BY <1>1, Invariance, PTL
=============================================================================
