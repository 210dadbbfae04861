--------------------------- MODULE StoreAgreement ---------------------------
(***************************************************************************)
(* The two stores that implement the head store's interface, the in-memory *)
(* one of single-process setups and Redis, side by side: every call is     *)
(* made to both, by callers that keep the tokens each of them gave out.    *)
(***************************************************************************)
EXTENDS MemoryStore, FiniteSets

CONSTANTS
    NoBlock,   \* a block hash that no provider can resolve
    StreamMax  \* MAXLEN of the Redis events stream

ASSUME AgreementAssumption == NoBlock \notin Blocks /\ StreamMax \in Nat \ {0}

VARIABLES
    leader, fence, generation,                \* of the Redis store
    redisHead, redisEvents, redisIssued, redisReply,
    twin,     \* twin[t]: what Redis gave the caller the in-memory store gave t
    place,    \* place[d]: generation of the entry at d's Redis cursor, 0 for "0-0"
    fetching, \* readers between XREAD and the retention check behind it
    page,     \* page[d]: what XREAD found for d
    got,      \* got[d]: the entries ReadEvents of Redis has returned to d (history)
    gap,      \* readers that were answered ErrStreamGap, which end their connection
    late      \* readers whose first page, from "0-0", came after a trim (history)

redisVars == <<leader, fence, generation, redisHead, redisEvents, redisIssued, redisReply>>

\* Stores do not look at ancestry: every block is a root.
R == INSTANCE RedisStore WITH
    head <- redisHead, events <- redisEvents, issued <- redisIssued, reply <- redisReply,
    Number <- [b \in Blocks |-> 0], Parent <- [b \in Blocks |-> NoBlock],
    Anc <- [b \in Blocks |-> {b}], Depth <- 1,
    MaxFence <- MaxGen, MaxGeneration <- MaxGen, MaxEpoch <- MaxGen

redisReaderVars == <<place, fetching, page, got, gap, late>>
bothVars == <<vars, redisVars, twin, redisReaderVars>>

BothInit ==
    /\ Init /\ R!Init /\ twin = <<>>
    /\ place = [d \in Readers |-> 0]
    /\ page = [d \in Readers |-> {}] /\ got = [d \in Readers |-> {}]
    /\ fetching = {} /\ gap = {} /\ late = {}

\* Both leases have the same time to live.
TimeRunsOutInBoth ==
    /\ TimeRunsOut /\ R!LeaseExpires
    /\ UNCHANGED <<twin, redisReaderVars>>

AcquireBoth(o) ==
    /\ Acquire(o)
    /\ R!Acquire(o) \/ R!AcquireRefused
    /\ twin' = [t \in issued' |-> IF t \in issued THEN twin[t] ELSE redisReply'.token]
    /\ UNCHANGED redisReaderVars

UseBoth(t) ==
    /\ \/ Renew(t) /\ R!Renew(twin[t])
       \/ Release(t) /\ R!Release(twin[t])
       \/ BeginReorg(t) /\ R!BeginReorg(twin[t])
       \/ \E b \in Blocks, epoch \in 0..MaxGen :
             Publish(t, b, epoch) /\ R!Publish(twin[t], b, epoch)
    /\ UNCHANGED <<twin, redisReaderVars>>

-----------------------------------------------------------------------------
(* Readers of the events.  The cursor of each store is an ID of its own.   *)

\* XREAD COUNT Count: the oldest retained entries behind entry c.
RedisPage(c) ==
    LET between(e) == {f \in redisEvents : c < f.generation /\ f.generation < e.generation}
    IN  {e \in redisEvents : c < e.generation /\ Cardinality(between(e)) < Count}

\* ReadEvents is called on both.  The in-memory one answers under its mutex, or
\* waits in vain; XREAD, too, may find nothing within its time.
Read(d) ==
    /\ d \notin fetching \cup gap
    /\ ReadEvents(d) \/ (After(cursor[d]) = <<>> /\ UNCHANGED vars)
    /\ page' = [page EXCEPT ![d] = RedisPage(place[d])]
    /\ fetching' = fetching \cup {d}
    /\ late' = IF place[d] = 0 /\ generation > StreamMax THEN late \cup {d} ELSE late
    /\ UNCHANGED <<redisVars, twin, place, got, gap>>

\* Mutant of Missing: the retention of the cursor is not checked.
NeverMissing(c) == FALSE

\* XRANGE finds no entry at a cursor; from "0-0" ReadEvents does not ask.
Missing(c) == c # 0 /\ ~\E e \in redisEvents : e.generation = c

\* The second half of the Redis ReadEvents: heads may have been published, and
\* entries trimmed, since XREAD.
CheckRetention(d) ==
    /\ d \in fetching
    /\ fetching' = fetching \ {d}
    /\ page' = [page EXCEPT ![d] = {}]
    /\ IF Missing(place[d])
       THEN gap' = gap \cup {d} /\ UNCHANGED <<place, got>>
       ELSE /\ got' = [got EXCEPT ![d] = @ \cup page[d]]
            /\ place' = [place EXCEPT ![d] = Max({e.generation : e \in page[d]} \cup {@})]
            /\ UNCHANGED gap
    /\ UNCHANGED <<vars, redisVars, twin, late>>

\* XREVRANGE: the last entry.
StartBoth(d) ==
    /\ StreamStart(d) /\ d \notin fetching /\ place[d] = 0
    /\ \E last \in redisEvents :
          /\ \A e \in redisEvents : e.generation <= last.generation
          /\ place' = [place EXCEPT ![d] = last.generation]
          /\ got' = [got EXCEPT ![d] = {last}]
    /\ UNCHANGED <<redisVars, twin, fetching, page, gap, late>>

-----------------------------------------------------------------------------
BothNext ==
    \/ TimeRunsOutInBoth
    \/ \E o \in Owners : AcquireBoth(o)
    \/ \E t \in issued : UseBoth(t)
    \/ \E d \in Readers : Read(d) \/ CheckRetention(d) \/ StartBoth(d)

BothSpec == BothInit /\ [][BothNext]_bothVars

-----------------------------------------------------------------------------
SameHead(h, k) ==
    IF h = NoHead \/ k = NoHead THEN h = k
    ELSE h.block = k.block /\ h.epoch = k.epoch /\ h.pending = k.pending

(***************************************************************************)
(* The Redis store keeps the promise of a head store: whatever tokens,     *)
(* also of earlier leases and of a process with the same name, its callers *)
(* come back with.                                                         *)
(***************************************************************************)
RedisKeepsPromise == R!KeepsPromise

\* Readers that wait for nothing from Redis, were told of no gap, and began
\* while Redis still had every event.
ReadAlike == Readers \ (fetching \cup gap \cup late)

(***************************************************************************)
(* What is tested on the in-memory store holds for Redis, as far as it     *)
(* can.  Both accept and refuse the same calls of coordinators, see the    *)
(* same lease and the same accepted head, and the Redis stream holds the   *)
(* last StreamMax of the in-memory events, one per generation.  A reader   *)
(* receives the same events from both, page by page, except that Redis     *)
(* answers a reader whose cursor has been trimmed with ErrStreamGap, and   *)
(* begins with the oldest entry it still has for one that starts at "0-0"  *)
(* after a trim.  Even then it never leaves a hole behind the first event  *)
(* it returned, whatever is published between XREAD and the check.         *)
(***************************************************************************)
StoresAgree ==
    /\ reply.call = redisReply.call /\ reply.ok = redisReply.ok
    /\ leader = IF lease.over THEN NoToken ELSE twin[lease.token]
    /\ SameHead(head, redisHead)
    /\ generation = Len(events)
    /\ Cardinality(redisEvents) = Min({StreamMax, Len(events)})
    /\ \A e \in redisEvents : events[e.generation].block = e.block
    /\ \A d \in Readers :
          /\ d \in gap => place[d] + StreamMax <= Len(events)
          /\ \A e \in got[d] : events[e.generation].block = e.block
          /\ \E i \in 0..place[d] :
                /\ {e.generation : e \in got[d]} = (i + 1)..place[d]
                /\ d \in ReadAlike => received[d] = SubSeq(events, i + 1, place[d])
=============================================================================
