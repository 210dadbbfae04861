----------------------------- MODULE BlockTree -----------------------------
(***************************************************************************)
(* The blocks the trusted providers can name, and what one accepted head   *)
(* means for a candidate head.                                             *)
(*                                                                         *)
(* A block is its hash.  A header commits to its number and to its         *)
(* parent's hash, so both are functions of the block and never change.     *)
(* Providers may serve a header whose number does not follow its           *)
(* parent's: nothing here assumes that numbers and parents agree, that is  *)
(* what the linkage checks of the code are for.                            *)
(***************************************************************************)
EXTENDS Integers

CONSTANTS
    Blocks,   \* block hashes
    NoBlock,  \* a parent hash that no provider can resolve
    Number,   \* Number[b]: the height in b's header
    Parent,   \* Parent[b]: the parent hash in b's header
    Anc,      \* Anc[b]: b and every block reachable from b by parent hashes
    Depth     \* reorg_depth, validated to be positive at startup

ASSUME HeaderAssumption ==
    /\ NoBlock \notin Blocks
    /\ Number \in [Blocks -> Nat]
    /\ Parent \in [Blocks -> Blocks \cup {NoBlock}]

ASSUME DepthAssumption == Depth \in Nat \ {0}

\* Anc is the reflexive and transitive closure of the parent hashes, and a
\* hash chain has no cycles.
ASSUME AncestryAssumption ==
    /\ Anc \in [Blocks -> SUBSET Blocks]
    /\ \A b \in Blocks :
         /\ b \in Anc[b]
         /\ Parent[b] \in Blocks => Anc[b] = {b} \cup Anc[Parent[b]]
         /\ Parent[b] \notin Blocks => Anc[b] = {b}
         /\ \A c \in Anc[b] : Anc[c] \subseteq Anc[b]
         /\ \A c \in Anc[b] : b \in Anc[c] => b = c

(***************************************************************************)
(* The parent header exists and its number is one below: the linkage test  *)
(* that every step of an ancestry walk makes.                              *)
(***************************************************************************)
Linked(b) == Parent[b] \in Blocks /\ Number[Parent[b]] + 1 = Number[b]

\* What the code asks of a head before it accepts it.
Sound(b) == Number[b] = 0 \/ Linked(b)

\* The headers from b down count down by one to a genesis block without a parent.
WellFormed(b) == \A c \in Anc[b] : Linked(c) \/ (Number[c] = 0 /\ Parent[c] \notin Blocks)

IsChildOf(b, a)  == Number[b] = Number[a] + 1 /\ Parent[b] = a

\* Every header from cand down to cur links to the one below it.
Extends(cur, cand) == /\ cur \in Anc[cand] /\ Number[cur] < Number[cand]
                      /\ \A c \in Anc[cand] \ Anc[cur] : Linked(c)
Lags(cur, cand)    == cand \in Anc[cur] /\ Number[cand] < Number[cur]
Forks(cur, cand)   == /\ cur \notin Anc[cand]
                      /\ cand \notin Anc[cur]
                      /\ Anc[cur] \cap Anc[cand] # {}

\* A candidate at the accepted height or one above it that is not the accepted
\* head's child contradicts the accepted head by its header alone.
PlainFork(cur, cand) == /\ cand # cur
                        /\ Number[cand] \in {Number[cur], Number[cur] + 1}
                        /\ ~IsChildOf(cand, cur)

\* Both ancestries are sound and meet within the configured depth.
WithinDepth(cur, cand) ==
    /\ WellFormed(cur) /\ WellFormed(cand)
    /\ Number[cand] <= Number[cur] + Depth
    /\ \E c \in Anc[cur] \cap Anc[cand] : Number[cur] <= Number[c] + Depth

-----------------------------------------------------------------------------
(***************************************************************************)
(* What validateEVMTransition promises its caller about a candidate that   *)
(* is not the accepted head: the answers it may give, and whether it       *)
(* reported a divergence (called onDivergence) on the way.  clean says     *)
(* that every header request it made was answered.  EvmTransition.tla      *)
(* models the walk itself and is checked against this contract;            *)
(* Coordinator.tla relies on it.                                           *)
(***************************************************************************)
Outcome == [result : {"same", "reorg", "error"}, reported : BOOLEAN]

TransitionOutcomes(cur, cand, clean) ==
    {o \in Outcome :
        CASE o.result = "same"  -> /\ ~o.reported
                                   /\ (Extends(cur, cand) /\ Sound(cand)) \/ Lags(cur, cand)
          [] o.result = "reorg" -> o.reported /\ Forks(cur, cand) /\ Sound(cand)
          [] o.result = "error" -> /\ ~(clean /\ WithinDepth(cur, cand))
                                   /\ ~IsChildOf(cand, cur) /\ ~IsChildOf(cur, cand)
                                   /\ PlainFork(cur, cand) => o.reported
                                   /\ o.reported => PlainFork(cur, cand) \/ Sound(cand)}
=============================================================================
