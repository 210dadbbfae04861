----------------------------- MODULE Recovery ------------------------------
(***************************************************************************)
(* When the reorg fence comes down.  The coordinators of Coordinator.tla   *)
(* with a record of what the providers' canonical chains are while a       *)
(* replica asks them about the fenced head.                                *)
(***************************************************************************)
EXTENDS Coordinator

VARIABLES
    agreed,    \* providers whose chain has held the fenced head meanwhile
    departed,  \* providers whose chain has held another block at its height
    excused    \* providers that were unhealthy then

historyVars == <<agreed, departed, excused>>

Fenced == head # NoHead /\ head.pending

OnHead == {p \in Providers : head.block \in Anc[view[p]]}
OffHead == {p \in Providers : BlockAt(p, Number[head.block]) \ {head.block} # {}}
Skipped == {p \in Providers : \E r \in Replicas : answers[r][p] = "skipped"}

RecoveryInit ==
    /\ Init
    /\ agreed = {} /\ departed = {} /\ excused = {}

\* A replica collects evidence; or it may still act on what it has collected.
Asking == Fenced /\ \E r \in Replicas : pc[r] = "evidence"
Judging == Fenced /\ \E r \in Replicas : pc[r] \in {"evidence", "publish"}

\* The record grows while evidence is collected and lasts until it is used.
Meanwhile(past, now) ==
    (IF Judging /\ Judging' THEN past ELSE {}) \cup (IF Asking' THEN now ELSE {})

Record ==
    /\ agreed' = Meanwhile(agreed, OnHead')
    /\ departed' = Meanwhile(departed, OffHead')
    /\ excused' = Meanwhile(excused, Skipped')

RecoverySpec == RecoveryInit /\ [][Next /\ Record]_<<vars, historyVars>>

(***************************************************************************)
(* The fence comes down only (1) on a higher block, (2) on the fenced head *)
(* itself, if every healthy provider had it in its chain at some time      *)
(* while evidence was collected, or (3) on another block of at most its    *)
(* height, if every healthy provider had another block at that height      *)
(* then.  What a provider said in an earlier round, or before the fence,   *)
(* does not count; one that is behind or silent proves neither.  (README:  *)
(* "At equal height, reads stay blocked while providers disagree.")        *)
(***************************************************************************)
FenceFallsOnEvidence ==
    [][Fenced /\ ~Fenced' =>
        \/ Number[head'.block] > Number[head.block]
        \/ /\ head'.block = head.block
           /\ agreed # {} /\ Providers \ excused \subseteq agreed
        \/ /\ head'.block # head.block
           /\ departed # {} /\ Providers \ excused \subseteq departed]_<<vars, historyVars>>
=============================================================================
