-------------------------- MODULE ConsistencyLabel --------------------------
(***************************************************************************)
(* The X-RPC-Consistency header of a reply: setResponseHeadHeaders goes    *)
(* over the responses of a batch once and says what they have in common.   *)
(*                                                                         *)
(* A response is of a kind: "state" (pinned to its target), "receipt"      *)
(* (its target is a ceiling), "range" (its target was checked before and   *)
(* after), "neutral" (no target) or "unpinned" (a Solana lookup without a  *)
(* slot floor).  The target is a block hash or a slot, with a commitment.  *)
(***************************************************************************)
EXTENDS Naturals, Sequences

CONSTANTS
    Ids,          \* block hashes (EVM) or slots (Solana)
    Commitments,  \* "latest" and "explicit", or Solana commitments
    MaxBatch      \* bound on the responses in a batch

ASSUME BatchAssumption == MaxBatch \in Nat

Families == {"evm", "solana"}
KindsOf(family) == IF family = "evm" THEN {"state", "receipt", "range", "neutral"}
                   ELSE {"state", "unpinned"}

Responses(family) ==
    [kind : KindsOf(family), id : Ids, commitment : Commitments, failed : BOOLEAN]

NoTarget == <<>>
Target(r) == <<r.id, r.commitment>>
HasTarget(r) == r.kind \in {"state", "receipt", "range"} /\ ~r.failed

\* Mutant of UnverifiedRead: the lookup counts though it has failed.
UnpinnedLookup(r) == r.kind = "unpinned"

\* Only the response of a successful lookup carries unverifiedRead.
UnverifiedRead(r) == r.kind = "unpinned" /\ ~r.failed

VARIABLES
    family,      \* the chain's family
    batch,       \* the responses
    next,        \* index of the response looked at next
    accepted,    \* acceptedHead: the target seen last
    receipt,     \* hasReceiptLookup
    other,       \* hasOtherTarget
    boundary,    \* boundaryChecked
    unverified,  \* unverifiedRead
    label        \* the header, or "none" while it is not set

labelVars == <<family, batch, next, accepted, receipt, other, boundary, unverified, label>>

LabelInit ==
    /\ family \in Families
    /\ \E n \in 0..MaxBatch : batch \in [1..n -> Responses(family)]
    /\ next = 1
    /\ accepted = NoTarget
    /\ receipt = FALSE /\ other = FALSE /\ boundary = FALSE /\ unverified = FALSE
    /\ label = "none"

\* Mutant of SameTarget: an EVM target is compared like a Solana one.
SameIdentity(t) == accepted = t

\* A number and "latest" can name the very same EVM block.
SameTarget(t) == IF family = "evm" THEN accepted[1] = t[1] ELSE accepted = t

Reading == next <= Len(batch) /\ label = "none"

Skip ==
    /\ Reading
    /\ ~HasTarget(batch[next])
    /\ unverified' = (unverified \/ UnverifiedRead(batch[next]))
    /\ next' = next + 1
    /\ UNCHANGED <<family, batch, accepted, receipt, other, boundary, label>>

Take ==
    LET r == batch[next] IN
    /\ Reading
    /\ HasTarget(r)
    /\ receipt' = (receipt \/ r.kind = "receipt")
    /\ other' = (other \/ r.kind # "receipt")
    /\ IF accepted # NoTarget /\ ~SameTarget(Target(r))
       THEN label' = "mixed-targets" /\ UNCHANGED <<accepted, boundary, next>>
       ELSE /\ boundary' = (boundary \/ r.kind = "range")
            /\ accepted' = Target(r)
            /\ next' = next + 1
            /\ UNCHANGED label
    /\ UNCHANGED <<family, batch, unverified>>

Final ==
    IF receipt /\ other THEN "mixed-targets"
    ELSE IF unverified THEN IF accepted # NoTarget THEN "mixed-targets" ELSE "unverified"
    ELSE IF accepted = NoTarget THEN "absent"
    ELSE IF family = "solana" THEN "minimum-context-slot"
    ELSE IF boundary THEN "boundary-checked"
    ELSE IF receipt THEN "pinned-head-ceiling"
    ELSE "exact-block-hash"

Conclude ==
    /\ next > Len(batch) /\ label = "none"
    /\ label' = Final
    /\ UNCHANGED <<family, batch, next, accepted, receipt, other, boundary, unverified>>

LabelNext == Skip \/ Take \/ Conclude

LabelSpec == LabelInit /\ [][LabelNext]_labelVars

-----------------------------------------------------------------------------
Succeeded == {batch[i] : i \in {j \in DOMAIN batch : HasTarget(batch[j])}}
Unverified == \E i \in DOMAIN batch : batch[i].kind = "unpinned" /\ ~batch[i].failed
OneTarget == \A r, s \in Succeeded :
                r.id = s.id /\ (family = "solana" => r.commitment = s.commitment)
Only(kinds) == Succeeded # {} /\ \A r \in Succeeded : r.kind \in kinds

(***************************************************************************)
(* The header claims exactly what all successful responses of the batch    *)
(* have in common, in whatever order they come: "Mixed-target batches do   *)
(* not claim one shared block" (README), a range or a receipt never passes *)
(* for an exact read, and a successful unpinned lookup spoils the slot     *)
(* guarantee, which a failed one does not.                                 *)
(***************************************************************************)
LabelIsWhatHolds ==
    /\ label = "exact-block-hash"
       <=> label # "none" /\ family = "evm" /\ Only({"state"}) /\ OneTarget
    /\ label = "boundary-checked"
       <=> label # "none" /\ Only({"state", "range"}) /\ ~Only({"state"}) /\ OneTarget
    /\ label = "pinned-head-ceiling"
       <=> label # "none" /\ Only({"receipt"}) /\ OneTarget
    /\ label = "minimum-context-slot"
       <=> label # "none" /\ family = "solana" /\ Only({"state"}) /\ OneTarget /\ ~Unverified
    /\ label = "unverified" <=> label # "none" /\ Succeeded = {} /\ Unverified
=============================================================================
