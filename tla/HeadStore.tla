----------------------------- MODULE HeadStore -----------------------------
(***************************************************************************)
(* The shared head store of one EVM chain: the Redis keys leader, fence,   *)
(* heads["latest"], generation and events, and the Lua scripts that are    *)
(* the only writers of them.  A script runs atomically; what a client      *)
(* learns of it is modelled by the client.                                 *)
(***************************************************************************)
EXTENDS BlockTree

CONSTANTS
    Owners,     \* coordinator identities (hostname-pid: restarts may reuse one)
    NoToken,    \* the leader key is absent
    NoHead,     \* the heads hash has no latest field
    StreamMax   \* MAXLEN of the events stream

ASSUME StoreAssumption ==
    /\ StreamMax \in Nat \ {0}
    /\ NoToken \notin [owner : Owners, fence : Nat]
    /\ NoHead \notin [block : Blocks, epoch : Nat, pending : BOOLEAN, generation : Nat]

VARIABLES
    leader,      \* value of the leader key: a token or NoToken
    fence,       \* the counter behind the fencing tokens
    head,        \* the accepted head, or NoHead
    generation,  \* the counter behind Head.Generation
    events       \* retained entries of the events stream

storeVars == <<leader, fence, head, generation, events>>

Token == [owner : Owners, fence : Nat]
HeadRecord == [block : Blocks, epoch : Nat, pending : BOOLEAN, generation : Nat]

\* An entry's place in the stream is its generation: for an EVM chain every
\* new generation is appended, and nothing else is.
Event == [block : Blocks, epoch : Nat, generation : Nat]

StoreInit ==
    /\ leader = NoToken
    /\ fence = 0
    /\ head = NoHead
    /\ generation = 0
    /\ events = {}

-----------------------------------------------------------------------------
(* Leadership. *)

\* Mutant of NextToken: the owner alone is the token.
OwnerToken(o) == [owner |-> o, fence |-> 0]

NextToken(o) == [owner |-> o, fence |-> fence + 1]

AcquireScript(o) ==
    /\ leader = NoToken
    /\ fence' = fence + 1
    /\ leader' = NextToken(o)
    /\ UNCHANGED <<head, generation, events>>

\* renewScript answers 1 exactly when this holds; its PEXPIRE only moves the
\* time of Expire.
RenewScript(t) == leader = t

ReleaseScript(t) ==
    /\ leader' = IF leader = t THEN NoToken ELSE leader
    /\ UNCHANGED <<fence, head, generation, events>>

\* The lease's time to live runs out.
Expire ==
    /\ leader # NoToken
    /\ leader' = NoToken
    /\ UNCHANGED <<fence, head, generation, events>>

-----------------------------------------------------------------------------
(* The accepted head. *)

StoredEpoch == IF head = NoHead THEN 0 ELSE head.epoch

\* Mutant of PublishAccepted: no check of the lease.
EpochAccepted(t, epoch) == epoch = StoredEpoch

\* Mutant of PublishAccepted: no check of the epoch.
TokenAccepted(t, epoch) == leader = t

\* publishScript answers a head (rather than -1 or -2) exactly when this holds.
\* Coordinators never send a pending head.
PublishAccepted(t, epoch) == leader = t /\ epoch = StoredEpoch

\* Mutant of Retained: one entry too many is kept.
RetainedOneMore(entries, newest) == {e \in entries : e.generation + StreamMax >= newest}

\* XADD with an exact MAXLEN keeps the newest StreamMax entries.
Retained(entries, newest) == {e \in entries : e.generation + StreamMax > newest}

PublishScript(t, b, epoch) ==
    IF ~PublishAccepted(t, epoch)
    THEN UNCHANGED storeVars
    ELSE IF head # NoHead /\ head.block = b
    THEN /\ head' = [head EXCEPT !.pending = FALSE]
         /\ UNCHANGED <<leader, fence, generation, events>>
    ELSE /\ generation' = generation + 1
         /\ head' = [block |-> b, epoch |-> epoch, pending |-> FALSE,
                     generation |-> generation + 1]
         /\ events' = Retained(events \cup {[block |-> b, epoch |-> epoch,
                                            generation |-> generation + 1]},
                               generation + 1)
         /\ UNCHANGED <<leader, fence>>

\* beginReorgScript answers a head exactly when this holds.
BeginReorgAccepted(t) == leader = t /\ head # NoHead

Guarded(h) == IF h.pending THEN h ELSE [h EXCEPT !.epoch = @ + 1, !.pending = TRUE]

BeginReorgScript(t) ==
    /\ head' = IF BeginReorgAccepted(t) THEN Guarded(head) ELSE head
    /\ UNCHANGED <<leader, fence, generation, events>>

-----------------------------------------------------------------------------
StoreTypeOK ==
    /\ leader \in Token \cup {NoToken}
    /\ fence \in Nat
    /\ head \in HeadRecord \cup {NoHead}
    /\ generation \in Nat
    /\ events \subseteq Event
=============================================================================
