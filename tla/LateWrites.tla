----------------------------- MODULE LateWrites -----------------------------
(***************************************************************************)
(* Coordinator over a connection that can keep a write.  The Redis client  *)
(* gives an attempt up after its read timeout and tries again on another   *)
(* connection, and so may the coordinator with its next observation.  The  *)
(* abandoned attempt can still reach Redis, once, after the term ended or, *)
(* if SameTerm, after later writes of the same term.                       *)
(***************************************************************************)
EXTENDS Coordinator

CONSTANT SameTerm  \* attempts also arrive while their token is valid

ASSUME TermAssumption == SameTerm \in BOOLEAN

VARIABLE copies  \* attempts on their way, each with the fence that stood when it was sent

lateVars == <<vars, copies>>

LateInit == Init /\ copies = {}

\* The epoch of the fence that is up, 0 if there is none.
FenceUp == IF head # NoHead /\ head.pending THEN head.epoch ELSE 0

\* The write r is about to make.
WriteOf(r) ==
    IF pc[r] = "publish"
    THEN [script |-> "publish", token |-> token[r], block |-> cand[r],
          epoch |-> AckedEpoch(r), under |-> FenceUp]
    ELSE [script |-> "begin", token |-> token[r]]

\* A write fails, whether an attempt was executed or none, and another attempt
\* stays behind.
Abandon(r) ==
    /\ WriteFails(r)
    /\ copies' = copies \cup {WriteOf(r)}

\* The attempt arrives; nobody waits for its answer.
Arrive(w) ==
    /\ SameTerm \/ leader # w.token
    /\ IF w.script = "publish"
       THEN PublishScript(w.token, w.block, w.epoch)
       ELSE BeginReorgScript(w.token)
    /\ copies' = copies \ {w}
    /\ UNCHANGED <<view, faults, replicaVars>>

LateNext ==
    \/ Next /\ UNCHANGED copies
    \/ \E r \in Replicas : Abandon(r)
    \/ \E w \in copies : Arrive(w)

LateSpec == LateInit /\ [][LateNext]_lateVars

-----------------------------------------------------------------------------
(***************************************************************************)
(* However late it arrives, a publish that was sent before the fence went  *)
(* up never lowers it: a write Redis would accept now and that ends a      *)
(* recovery was sent during that very recovery.  The epoch check of        *)
(* publishScript is the only thing that stands between the two, the token  *)
(* is still valid.                                                         *)
(***************************************************************************)
FenceNeedsFreshWrite ==
    \A w \in copies :
        w.script = "publish" /\ PublishAccepted(w.token, w.epoch) =>
            FenceUp \in {0, w.under}

(***************************************************************************)
(* "Record the reorg in Redis. [...] Publish the verified head and allow   *)
(* new reads" (README, Reorg protection): the accepted head moves to       *)
(* another branch, one that neither extends the head nor leads to it, only *)
(* while the reorg is recorded as pending.                                 *)
(***************************************************************************)
BranchLeftOnlyUnderFence ==
    [][head # NoHead /\ head'.block # head.block
        => \/ head.pending
           \/ Extends(head.block, head'.block)
           \/ Extends(head'.block, head.block)]_head
=============================================================================
