---------------------------- MODULE ReceiptCache ----------------------------
(***************************************************************************)
(* eth_getTransactionReceipt for one transaction through one gateway:      *)
(* requests pinned to different accepted heads share the response cache    *)
(* and, when they are pinned to the same head, one load.  A load asks the  *)
(* providers one after the other, and what it found is kept only if its    *)
(* block is proved to be on the accepted branch.  Meanwhile the accepted   *)
(* head does whatever AcceptedHead allows.                                 *)
(***************************************************************************)
EXTENDS BlockTree

CONSTANTS
    NoHead,
    Requests,      \* requests for the receipt, each made once
    Providers,
    Inclusion,     \* blocks that contain the transaction
    MaxEpoch,      \* bound on recorded reorgs
    MaxGeneration  \* bound on accepted heads

\* A transaction is at most once on a branch.
ASSUME ReceiptAssumption ==
    /\ Inclusion \subseteq Blocks
    /\ \A b, c \in Inclusion : b \in Anc[c] => b = c
    /\ MaxEpoch \in Nat /\ MaxGeneration \in Nat
    /\ NoHead \notin [block : Blocks, epoch : Nat, pending : BOOLEAN, generation : Nat]

VARIABLES
    head,   \* the accepted head in the store
    pin,    \* pin[r]: the accepted head of the snapshot r was admitted with
    stage,  \* stage[r]: where getResponse is for r
    cache,  \* cache[e]: block of the receipt kept under epoch e, or NoBlock
    load,   \* load[r]: the load r started, if any
    joined, \* joined[r]: the request whose load r waits for
    answer, \* answer[r]: what r is answered
    gone    \* the requests whose own context has ended

vars == <<head, pin, stage, cache, load, joined, answer, gone>>

Accepted == INSTANCE AcceptedHead

\* What a load or a request ends with.  A null remembers the blocks that were
\* found above the ceiling and whether a lookup had failed; a receipt, whether it
\* came from the cache; a cancellation, whose context it was that ended.
Nothing == [kind |-> "none"]
Error == [kind |-> "error"]
Cancelled(r) == [kind |-> "cancelled", by |-> r]
Null(above, failed) == [kind |-> "null", above |-> above, failed |-> failed]
Receipt(b, cached) == [kind |-> "receipt", block |-> b, cached |-> cached]

\* A load that is keyed can be joined and fills the cache.  asked: providers
\* asked; eligible and nulls: how many of them count, and how many of these had
\* no receipt; failed, which the code does not keep: one that counts gave no
\* usable answer.
NewLoad(keyed, at) ==
    [at |-> at, keyed |-> keyed, asked |-> {}, eligible |-> 0, nulls |-> 0,
     failed |-> FALSE, above |-> {}, result |-> Nothing]

Init ==
    /\ head = NoHead
    /\ pin = [r \in Requests |-> NoHead]
    /\ stage = [r \in Requests |-> "start"]
    /\ cache = [e \in 0..MaxEpoch |-> NoBlock]
    /\ load = [r \in Requests |-> NewLoad(FALSE, "off")]
    /\ joined = [r \in Requests |-> r]
    /\ answer = [r \in Requests |-> Nothing]
    /\ gone = {}

-----------------------------------------------------------------------------
(* The shared head, and the cache on its own. *)

\* Nobody is told of a new head.
HeadSeen == UNCHANGED <<pin, stage, cache, load, joined, answer, gone>>

HeadMoves ==
    /\ Accepted!Next
    /\ head'.epoch <= MaxEpoch /\ head'.generation <= MaxGeneration
    /\ HeadSeen

\* The entry expires or is the least recently used of a full cache.
Evict(e) ==
    /\ cache[e] # NoBlock
    /\ cache' = [cache EXCEPT ![e] = NoBlock]
    /\ UNCHANGED <<head, pin, stage, load, joined, answer, gone>>

-----------------------------------------------------------------------------
(* Keys and ceilings. *)

\* Mutant of CacheKey: one entry per transaction.
CacheKeyOfTransaction(accepted) == 0

\* Chain, method and parameters are the same for all requests here.
CacheKey(accepted) == accepted.epoch

\* Mutant of FlightKey: loads are shared like cache entries.
FlightKeyOfEpoch(accepted) == <<CacheKey(accepted)>>

FlightKey(accepted) == <<CacheKey(accepted), accepted.block>>

\* Mutant of Capped: the ceiling is the load's alone.
CappedByLoad(accepted, result) == result

\* The caller's own ceiling, also on what another request has cached.
Capped(accepted, result) ==
    IF result.kind = "receipt" /\ Number[result.block] > Number[accepted.block]
    THEN Null({result.block}, FALSE) ELSE result

\* ContainsBlock: b is on accepted's parent chain within reorg_depth.  The
\* parents in between are fetched and their links checked; the last step needs
\* no fetch, a header names its parent.
ContainsBlock(b, accepted) ==
    LET n == Number[accepted] - Number[b]
    IN  /\ n \in 0..Depth
        /\ \E path \in [0..n -> Blocks] :
              /\ path[0] = accepted /\ path[n] = b
              /\ \A k \in 1..n : path[k] = Parent[path[k-1]]
              /\ \A k \in 0..n-2 : Linked(path[k])

-----------------------------------------------------------------------------
(* A request. *)

\* The snapshot of the batch; a request without a head, or under the fence, is
\* rejected before it gets here.
TakeSnapshot(r) ==
    /\ stage[r] = "start"
    /\ head # NoHead /\ ~head.pending
    /\ pin' = [pin EXCEPT ![r] = head]
    /\ stage' = [stage EXCEPT ![r] = "lookup"]
    /\ UNCHANGED <<head, cache, load, joined, answer, gone>>

\* The head has become stale, or the cache is disabled: a load of r's own.
Bypass(r) ==
    /\ stage[r] = "lookup"
    /\ load' = [load EXCEPT ![r] = NewLoad(FALSE, "route")]
    /\ stage' = [stage EXCEPT ![r] = "wait"]
    /\ UNCHANGED <<head, pin, cache, joined, answer, gone>>

Lookup(r) ==
    /\ stage[r] = "lookup"
    /\ LET b == cache[CacheKey(pin[r])]
       IN  IF b = NoBlock
           THEN stage' = [stage EXCEPT ![r] = "miss"] /\ UNCHANGED answer
           ELSE /\ stage' = [stage EXCEPT ![r] = "answered"]
                /\ answer' = [answer EXCEPT ![r] = Capped(pin[r], Receipt(b, TRUE))]
    /\ UNCHANGED <<head, pin, cache, load, joined, gone>>

Running(r) == load[r].at \notin {"off", "done"}

\* The loads of the same key that are not finished: at most one.
Flights(r) ==
    {l \in Requests : Running(l) /\ load[l].keyed /\ FlightKey(pin[l]) = FlightKey(pin[r])}

\* DoChan joins the load of the same key or starts one.
Join(r) ==
    /\ stage[r] = "miss"
    /\ stage' = [stage EXCEPT ![r] = "wait"]
    /\ IF Flights(r) = {}
       THEN load' = [load EXCEPT ![r] = NewLoad(TRUE, "recheck")] /\ UNCHANGED joined
       ELSE joined' \in {[joined EXCEPT ![r] = l] : l \in Flights(r)} /\ UNCHANGED load
    /\ UNCHANGED <<head, pin, cache, answer, gone>>

Receive(r) ==
    /\ stage[r] = "wait"
    /\ load[joined[r]].at = "done"
    /\ stage' = [stage EXCEPT ![r] = "answered"]
    /\ answer' = [answer EXCEPT ![r] = Capped(pin[r], load[joined[r]].result)]
    /\ UNCHANGED <<head, pin, cache, load, joined, gone>>

\* The client leaves, or the deadline of the request passes.
ContextEnds(r) ==
    /\ stage[r] \in {"lookup", "miss", "wait"}
    /\ r \notin gone
    /\ gone' = gone \cup {r}
    /\ UNCHANGED <<head, pin, stage, cache, load, joined, answer>>

\* Seen on entry, and while the result of a shared load is awaited; a load of
\* r's own is not left behind.
GiveUp(r) ==
    /\ r \in gone
    /\ stage[r] = "lookup" \/ (stage[r] = "wait" /\ load[joined[r]].keyed)
    /\ stage' = [stage EXCEPT ![r] = "answered"]
    /\ answer' = [answer EXCEPT ![r] = Cancelled(r)]
    /\ UNCHANGED <<head, pin, cache, load, joined, gone>>

\* fenceEVMResponses: the head read last is ordinary advancement of r's pin.
SameBranch(r) ==
    /\ head # NoHead /\ ~head.pending
    /\ head.epoch = pin[r].epoch /\ head.generation >= pin[r].generation
    /\ Number[head.block] <= Number[pin[r].block] => head.block = pin[r].block

\* Every answer passes the check or becomes an error, a null too; the store may
\* be unavailable and the head stale.
Reply(r) ==
    /\ stage[r] = "answered"
    /\ stage' = [stage EXCEPT ![r] = "replied"]
    /\ \/ SameBranch(r) /\ UNCHANGED answer
       \/ answer' = [answer EXCEPT ![r] = Error]
    /\ UNCHANGED <<head, pin, cache, load, joined, gone>>

-----------------------------------------------------------------------------
(* A load. *)

Ends(l, result) ==
    load' = [load EXCEPT ![l] = [NewLoad(@.keyed, "done") EXCEPT !.result = result]]

\* Another load can have finished since the first lookup.
Recheck(l) ==
    /\ load[l].at = "recheck"
    /\ LET b == cache[CacheKey(pin[l])]
       IN  IF b = NoBlock THEN load' = [load EXCEPT ![l].at = "route"]
           ELSE Ends(l, Receipt(b, TRUE))
    /\ UNCHANGED <<head, pin, stage, cache, joined, answer, gone>>

\* Mutant of Detached: the load runs with the context of the request that
\* started it.
DetachedNever(l) == FALSE

\* A shared load has no client's context, only a timeout of its own.
Detached(l) == load[l].keyed

\* The context of the request is the load's too.
LoadCancelled(l) ==
    /\ load[l].at = "route"
    /\ l \in gone /\ ~Detached(l)
    /\ Ends(l, Cancelled(l))
    /\ UNCHANGED <<head, pin, stage, cache, joined, answer, gone>>

\* route: provider p has no receipt, or gives no usable answer, or one above the
\* ceiling, which counts as none, or one to be used.
Ask(l, p) ==
    /\ load[l].at = "route"
    /\ p \notin load[l].asked
    /\ LET asks == [load[l] EXCEPT !.asked = @ \cup {p}, !.eligible = @ + 1]
       IN  \/ load' = [load EXCEPT ![l] = [asks EXCEPT !.nulls = @ + 1]]
           \/ load' = [load EXCEPT ![l] = [asks EXCEPT !.failed = TRUE]]
           \/ \E b \in Inclusion :
                load' = [load EXCEPT ![l] =
                  IF Number[b] > Number[pin[l].block]
                  THEN [asks EXCEPT !.nulls = @ + 1, !.above = @ \cup {b}]
                  ELSE [asks EXCEPT !.at = "verify", !.result = Receipt(b, FALSE)]]
    /\ UNCHANGED <<head, pin, stage, cache, joined, answer, gone>>

\* A provider without the method is marked and does not count.
Unsupported(l, p) ==
    /\ load[l].at = "route"
    /\ p \notin load[l].asked
    /\ load' = [load EXCEPT ![l].asked = @ \cup {p}]
    /\ UNCHANGED <<head, pin, stage, cache, joined, answer, gone>>

\* Mutant of Exhausted: one provider that knows of no receipt is enough.
ExhaustedByOne(l) ==
    IF load[l].nulls > 0 THEN Null(load[l].above, load[l].failed) ELSE Error

\* Null only if every provider that counts said so.
Exhausted(l) ==
    IF load[l].nulls > 0 /\ load[l].nulls = load[l].eligible
    THEN Null(load[l].above, load[l].failed) ELSE Error

\* No provider is left (some may be unhealthy and never asked), or one reports
\* an error of its own, or the load's deadline has passed.
RouteEnds(l) ==
    /\ load[l].at = "route"
    /\ \/ load[l].asked # {} /\ Ends(l, Exhausted(l))
       \/ Ends(l, Error)
    /\ UNCHANGED <<head, pin, stage, cache, joined, answer, gone>>

\* What is kept: an inclusion that is proved.
Retained(l) == ContainsBlock(load[l].result.block, pin[l].block)

\* The proof succeeds, or it fails for want of a header, and then the receipt
\* is used but not kept, as is one too large for the cache.
VerifyAndPut(l) ==
    /\ load[l].at = "verify"
    /\ Ends(l, load[l].result)
    /\ \/ /\ load[l].keyed /\ Retained(l)
          /\ cache' = [cache EXCEPT ![CacheKey(pin[l])] = load[l].result.block]
       \/ UNCHANGED cache
    /\ UNCHANGED <<head, pin, stage, joined, answer, gone>>

\* The load's own deadline passes before its result can be kept.
LoadTimesOut(l) ==
    /\ load[l].at = "verify" /\ load[l].keyed
    /\ Ends(l, Error)
    /\ UNCHANGED <<head, pin, stage, cache, joined, answer, gone>>

-----------------------------------------------------------------------------
LoadStep(l) ==
    \/ Recheck(l) \/ RouteEnds(l) \/ VerifyAndPut(l) \/ LoadTimesOut(l) \/ LoadCancelled(l)
    \/ \E p \in Providers : Ask(l, p) \/ Unsupported(l, p)

Serve ==
    \/ \E e \in 0..MaxEpoch : Evict(e)
    \/ \E r \in Requests :
         \/ TakeSnapshot(r) \/ Bypass(r) \/ Lookup(r) \/ Join(r)
         \/ Receive(r) \/ ContextEnds(r) \/ GiveUp(r) \/ Reply(r)
         \/ LoadStep(r)

Next == HeadMoves \/ Serve

Spec == Init /\ [][Next]_vars

-----------------------------------------------------------------------------
Results ==
    [kind : {"none", "error"}] \cup [kind : {"null"}, above : SUBSET Inclusion, failed : BOOLEAN]
    \cup [kind : {"receipt"}, block : Inclusion, cached : BOOLEAN]
    \cup [kind : {"cancelled"}, by : Requests]

Loads == [at : {"off", "recheck", "route", "verify", "done"}, keyed : BOOLEAN,
          asked : SUBSET Providers, eligible : Nat, nulls : Nat, failed : BOOLEAN,
          above : SUBSET Inclusion, result : Results]

TypeOK ==
    /\ head \in Accepted!AcceptedHeads \cup {NoHead}
    /\ pin \in [Requests -> Accepted!AcceptedHeads \cup {NoHead}]
    /\ stage \in [Requests -> {"start", "lookup", "miss", "wait", "answered", "replied"}]
    /\ cache \in [0..MaxEpoch -> Inclusion \cup {NoBlock}]
    /\ load \in [Requests -> Loads]
    /\ joined \in [Requests -> Requests]
    /\ answer \in [Requests -> Results]
    /\ gone \subseteq Requests
    /\ \A r \in Requests : stage[r] = "wait" => load[joined[r]].at # "off"

Served(r) == stage[r] = "replied" /\ answer[r].kind \in {"null", "receipt"}

(***************************************************************************)
(* What the cache holds for the present epoch is on the accepted branch,   *)
(* whatever was loaded, and however late, on behalf of requests pinned     *)
(* before a reorg or during it.                                            *)
(***************************************************************************)
CachedReceiptIsCanonical ==
    head # NoHead /\ ~head.pending /\ cache[CacheKey(head)] # NoBlock =>
        cache[CacheKey(head)] \in Anc[head.block]

(***************************************************************************)
(* "No returned receipt can exceed the request's pinned height", and a     *)
(* receipt out of the cache is on the branch the request is pinned to,     *)
(* also if a request at a later head put it there (consistency audit).     *)
(***************************************************************************)
ReceiptWithinOwnPin ==
    \A r \in Requests :
        Served(r) /\ answer[r].kind = "receipt" =>
            /\ Number[answer[r].block] <= Number[pin[r].block]
            /\ answer[r].cached => answer[r].block \in Anc[pin[r].block]

(***************************************************************************)
(* A null withholds nothing the caller may see: every inclusion the load   *)
(* found on the way is above the caller's own pin, so that "a future-to-   *)
(* null decision cannot leak into a newer request" (consistency audit).    *)
(* And no provider that counts had failed: "a lookup error is not treated  *)
(* as a missing receipt" (README), which the code knows only from two      *)
(* counters.                                                               *)
(***************************************************************************)
NullIsAboutOwnPin ==
    \A r \in Requests :
        Served(r) /\ answer[r].kind = "null" =>
            /\ \A b \in answer[r].above : Number[b] > Number[pin[r].block]
            /\ ~answer[r].failed

(***************************************************************************)
(* "Canceling one client cannot abort another client's request" (request-  *)
(* caching): who is answered that a context has ended, it is its own, also *)
(* if the load it waits for was started by a request that has left.        *)
(***************************************************************************)
CancellationStaysOwn ==
    \A r \in Requests : answer[r].kind = "cancelled" => r \in gone /\ answer[r].by = r
=============================================================================
