---------------------------- MODULE StoreProofs ----------------------------
(***************************************************************************)
(* Why both head stores keep the promise of StorePromise, answer every     *)
(* sequence of calls alike but for what trimming takes from readers, and   *)
(* give pages of events that join up, for any number of owners, blocks and *)
(* readers and every page and stream size.                                 *)
(***************************************************************************)
EXTENDS StoreAgreement, FiniteSetTheorems, FunctionTheorems, SequenceTheorems, TLAPS

Tokens == [owner : Owners, fence : Nat]
HeadRecords == [block : Blocks, epoch : Nat, pending : BOOLEAN, generation : Nat]
Entries == [id : Nat, block : Blocks]

\* The tokens of the in-memory store and the generations of its heads come
\* from one counter.
MemoryFits ==
    /\ gen \in Nat
    /\ lease \in [token : Tokens \cup {NoToken}, over : BOOLEAN]
    /\ lease.token \in issued \cup {NoToken}
    /\ lease.token = NoToken => lease.over
    /\ issued \subseteq Tokens
    /\ \A t \in issued : t.fence <= gen
    /\ head \in HeadRecords \cup {NoHead}
    /\ head # NoHead => head.generation <= gen

\* Those of Redis come from two.
RedisFits ==
    /\ fence \in Nat /\ generation \in Nat
    /\ leader \in redisIssued \cup {NoToken}
    /\ redisIssued \subseteq Tokens
    /\ \A t \in redisIssued : t.fence <= fence
    /\ redisHead \in HeadRecords \cup {NoHead}
    /\ redisHead # NoHead => redisHead.generation <= generation

-----------------------------------------------------------------------------
(* The in-memory store keeps the promise *)

LEMMA MemoryInit == Init => MemoryFits /\ Promise!Init
BY DEF Init, NoLease, MemoryFits, Promise!Init

LEMMA AcquireFits ==
    ASSUME MemoryFits, NEW o \in Owners, Acquire(o)
    PROVE  MemoryFits' /\ Promise!Next
<1> DEFINE t == [owner |-> o, fence |-> gen + 1]
<1>1. t \in Tokens /\ t.fence = gen + 1 /\ t \notin issued /\ t # NoToken
  BY MemoryAssumption DEF MemoryFits, Tokens
<1>2. CASE lease.over
  <2>1. /\ gen' = gen + 1 /\ lease' = [token |-> t, over |-> FALSE] /\ issued' = issued \cup {t}
        /\ reply' = [call |-> "acquire", token |-> t, ok |-> TRUE] /\ head' = head
    BY <1>2 DEF Acquire, Answer
  <2> HIDE DEF t
  <2>2. lease'.token = t /\ lease'.over = FALSE
    BY <2>1
  <2>3. MemoryFits'
    <3>1. gen \in Nat /\ gen' \in Nat /\ (\A u \in issued' : u.fence <= gen')
      BY <1>1, <2>1 DEF MemoryFits, Tokens
    <3>2. lease' \in [token : Tokens \cup {NoToken}, over : BOOLEAN]
      BY <1>1, <2>1
    <3>3. head' # NoHead => head'.generation <= gen'
      BY <2>1, <3>1 DEF MemoryFits, HeadRecords
    <3> QED
      BY <1>1, <2>1, <2>2, <3>1, <3>2, <3>3 DEF MemoryFits
  <2>4. Promise!Granted
    BY <1>1, <1>2, <2>1, <2>2 DEF Promise!Granted
  <2> QED
    BY <2>3, <2>4 DEF Promise!Next
<1>3. CASE ~lease.over
  <2>1. ~reply'.ok /\ UNCHANGED <<gen, lease, issued, head>>
    BY <1>3 DEF Acquire, Answer
  <2> QED
    BY <2>1 DEF MemoryFits, Promise!Next, Promise!Refused
<1> QED
  BY <1>2, <1>3

LEMMA LeaseFits ==
    ASSUME MemoryFits, TimeRunsOut \/ \E t \in issued : Renew(t) \/ Release(t)
    PROVE  MemoryFits' /\ Promise!Next
<1>1. CASE TimeRunsOut
  <2>1. /\ lease' = [lease EXCEPT !.over = TRUE] /\ ~reply'.ok
        /\ UNCHANGED <<gen, head, issued>>
    BY <1>1 DEF TimeRunsOut
  <2>2. lease' \in [token : Tokens \cup {NoToken}, over : BOOLEAN] /\ lease'.over /\ lease'.token = lease.token
    BY <2>1 DEF MemoryFits
  <2> QED
    BY <2>1, <2>2 DEF MemoryFits, Promise!Next, Promise!Refused
<1>2. ASSUME NEW t \in issued, Renew(t) PROVE MemoryFits' /\ Promise!Next
  <2>1. /\ UNCHANGED <<lease, gen, head, issued>>
        /\ reply'.ok = Holds(t) /\ reply'.call = "renew" /\ reply'.token = t
    BY <1>2 DEF Renew, Answer
  <2>2. CASE Holds(t)
    BY <2>1, <2>2 DEF MemoryFits, Promise!Next, Promise!Renewed, Holds
  <2>3. CASE ~Holds(t)
    BY <2>1, <2>3 DEF MemoryFits, Promise!Next, Promise!Refused
  <2> QED
    BY <2>2, <2>3
<1>3. ASSUME NEW t \in issued, Release(t) PROVE MemoryFits' /\ Promise!Next
  <2>1. /\ UNCHANGED <<gen, head, issued>>
        /\ lease' = IF lease.token = t THEN NoLease ELSE lease
        /\ reply'.ok /\ reply'.call = "release" /\ reply'.token = t
    BY <1>3 DEF Release, Answer
  <2>2. t # NoToken
    BY MemoryAssumption DEF MemoryFits, Tokens
  <2>3. MemoryFits'
    BY <2>1 DEF MemoryFits, NoLease
  <2>4. Promise!Released
    BY <2>1, <2>2 DEF Promise!Released, NoLease
  <2> QED
    BY <2>3, <2>4 DEF Promise!Next
<1> QED
  BY <1>1, <1>2, <1>3

LEMMA PublishFits ==
    ASSUME MemoryFits, NEW t \in issued, NEW b \in Blocks, NEW epoch \in 0..MaxGen,
           Publish(t, b, epoch)
    PROVE  MemoryFits' /\ Promise!Next
<1> DEFINE accepted == Holds(t) /\ epoch = StoredEpoch
<1>1. /\ UNCHANGED <<lease, issued>>
      /\ reply'.call = "publish" /\ reply'.token = t /\ reply'.epoch = epoch /\ reply'.ok = accepted
  BY DEF Publish
<1>2. CASE ~accepted
  <2>1. UNCHANGED <<gen, head>>
    BY <1>2 DEF Publish
  <2> QED
    BY <1>1, <1>2, <2>1 DEF MemoryFits, Promise!Next, Promise!Refused
<1>3. CASE accepted
  <2>1. lease.token = t /\ ~lease.over /\ epoch = Promise!EpochOf(head) /\ epoch \in Nat
    BY <1>3, MemoryAssumption DEF Holds, StoredEpoch, Promise!EpochOf
  <2>2. CASE head # NoHead /\ head.block = b
    <3>1. head' = [head EXCEPT !.pending = FALSE] /\ gen' = gen
      BY <1>3, <2>2 DEF Publish, Confirmed
    <3>2. /\ head' \in HeadRecords /\ head'.block = head.block /\ head'.epoch = head.epoch
          /\ head'.pending = FALSE /\ head'.generation = head.generation /\ head' # NoHead
      BY <2>2, <3>1, MemoryAssumption DEF MemoryFits, HeadRecords
    <3>3. MemoryFits'
      BY <1>1, <2>2, <3>1, <3>2 DEF MemoryFits
    <3>4. Promise!Published
      BY <1>1, <1>3, <2>1, <2>2, <3>2 DEF Promise!Published, Promise!EpochOf
    <3> QED
      BY <3>3, <3>4 DEF Promise!Next
  <2>3. CASE ~(head # NoHead /\ head.block = b)
    <3>1. /\ head' = [block |-> b, epoch |-> epoch, pending |-> FALSE, generation |-> gen + 1]
          /\ gen' = gen + 1
      BY <1>3, <2>3 DEF Publish
    <3>2. gen \in Nat /\ gen + 1 \in Nat
      BY DEF MemoryFits
    <3>3. /\ head' \in HeadRecords /\ head'.block = b /\ head'.epoch = epoch
          /\ head'.pending = FALSE /\ head'.generation = gen + 1
      BY <2>1, <3>1, <3>2 DEF HeadRecords
    <3>4. head' # NoHead
      BY <3>3, MemoryAssumption DEF HeadRecords
    <3>5. MemoryFits'
      <4>1. \A u \in issued : u.fence <= gen + 1
        BY <3>2 DEF MemoryFits, Tokens
      <4> QED
        BY <1>1, <3>1, <3>2, <3>3, <4>1 DEF MemoryFits
    <3>6. gen + 1 > Promise!GenerationOf(head)
      BY <3>2 DEF MemoryFits, HeadRecords, Promise!GenerationOf
    <3>7. Promise!Published
      BY <1>1, <1>3, <2>1, <2>3, <3>3, <3>4, <3>6 DEF Promise!Published
    <3> QED
      BY <3>5, <3>7 DEF Promise!Next
  <2> QED
    BY <2>2, <2>3
<1> QED
  BY <1>2, <1>3

\* The same script in both stores: a pending head is left as it is.
LEMMA FencedHead ==
    ASSUME NEW h \in HeadRecords
    PROVE  /\ h.pending => h = [h EXCEPT !.epoch = IF h.pending THEN @ ELSE @ + 1, !.pending = TRUE]
           /\ ~h.pending => [h EXCEPT !.epoch = @ + 1, !.pending = TRUE]
                            = [h EXCEPT !.epoch = IF h.pending THEN @ ELSE @ + 1, !.pending = TRUE]
           /\ ~h.pending => /\ [h EXCEPT !.epoch = @ + 1, !.pending = TRUE] \in HeadRecords
                           /\ [h EXCEPT !.epoch = @ + 1, !.pending = TRUE].generation = h.generation
                           /\ [h EXCEPT !.epoch = @ + 1, !.pending = TRUE].block = h.block
                           /\ [h EXCEPT !.epoch = @ + 1, !.pending = TRUE].epoch = h.epoch + 1
                           /\ [h EXCEPT !.epoch = @ + 1, !.pending = TRUE].pending = TRUE
<1>1. /\ h.block \in Blocks /\ h.epoch \in Nat /\ h.pending \in BOOLEAN /\ h.generation \in Nat
      /\ h = [block |-> h.block, epoch |-> h.epoch, pending |-> h.pending, generation |-> h.generation]
  BY DEF HeadRecords
<1>2. CASE h.pending
  <2>1. h.pending = TRUE
    BY <1>1, <1>2
  <2>2. [h EXCEPT !.epoch = IF h.pending THEN @ ELSE @ + 1, !.pending = TRUE]
        = [block |-> h.block, epoch |-> h.epoch, pending |-> TRUE, generation |-> h.generation]
    BY <1>1, <2>1
  <2> QED
    BY <1>1, <1>2, <2>1, <2>2
<1>3. CASE ~h.pending
  <2> DEFINE g == [h EXCEPT !.epoch = h.epoch + 1]
  <2>1. /\ g \in HeadRecords /\ g.generation = h.generation /\ g.block = h.block
        /\ g.epoch = h.epoch + 1
    BY <1>1 DEF HeadRecords
  <2>2. /\ [h EXCEPT !.epoch = IF h.pending THEN @ ELSE @ + 1, !.pending = TRUE] = [g EXCEPT !.pending = TRUE]
        /\ [h EXCEPT !.epoch = @ + 1, !.pending = TRUE] = [g EXCEPT !.pending = TRUE]
    BY <1>3
  <2> HIDE DEF g
  <2> DEFINE k == [g EXCEPT !.pending = TRUE]
  <2>3. /\ k \in HeadRecords /\ k.generation = h.generation /\ k.block = h.block
        /\ k.epoch = h.epoch + 1 /\ k.pending = TRUE
    BY <2>1 DEF HeadRecords
  <2> QED
    BY <1>3, <2>2, <2>3
<1> QED
  BY <1>2, <1>3

LEMMA BeginFits ==
    ASSUME MemoryFits, NEW t \in issued, BeginReorg(t)
    PROVE  MemoryFits' /\ Promise!Next
<1> DEFINE accepted == Holds(t) /\ head # NoHead
<1>1. /\ UNCHANGED <<lease, gen, issued>>
      /\ reply'.call = "begin" /\ reply'.token = t /\ reply'.ok = accepted
      /\ head' = IF accepted /\ ~head.pending
                 THEN [head EXCEPT !.epoch = @ + 1, !.pending = TRUE] ELSE head
  BY DEF BeginReorg, Answer
<1>2. CASE ~accepted
  BY <1>1, <1>2 DEF MemoryFits, Promise!Next, Promise!Refused
<1>3. CASE accepted
  <2>1. head \in HeadRecords /\ head # NoHead
    BY <1>3 DEF MemoryFits
  <2>2. /\ head' \in HeadRecords /\ head'.generation = head.generation
        /\ head' = [head EXCEPT !.epoch = IF head.pending THEN @ ELSE @ + 1, !.pending = TRUE]
    BY <1>1, <1>3, <2>1, FencedHead
  <2>3. MemoryFits'
    BY <1>1, <2>1, <2>2 DEF MemoryFits
  <2>4. Promise!Fenced
    BY <1>1, <1>3, <2>1, <2>2 DEF Promise!Fenced, Holds
  <2> QED
    BY <2>3, <2>4 DEF Promise!Next
<1> QED
  BY <1>2, <1>3

LEMMA MemoryStep ==
    ASSUME MemoryFits, [Next]_vars
    PROVE  MemoryFits' /\ [Promise!Next]_(Promise!vars)
<1>1. CASE UNCHANGED storeVars
  BY <1>1 DEF storeVars, MemoryFits, Promise!vars
<1>2. CASE \E d \in Readers : ReadEvents(d) \/ StreamStart(d)
  BY <1>1, <1>2 DEF ReadEvents, StreamStart
<1>3. CASE UNCHANGED vars
  BY <1>1, <1>3 DEF vars
<1>4. ASSUME NEW o \in Owners, Acquire(o) PROVE MemoryFits' /\ Promise!Next
  BY <1>4, AcquireFits
<1>5. CASE TimeRunsOut \/ \E t \in issued : Renew(t) \/ Release(t)
  BY <1>5, LeaseFits
<1>6. ASSUME NEW t \in issued, NEW b \in Blocks, NEW epoch \in 0..MaxGen, Publish(t, b, epoch)
      PROVE  MemoryFits' /\ Promise!Next
  BY <1>6, PublishFits
<1>7. ASSUME NEW t \in issued, BeginReorg(t) PROVE MemoryFits' /\ Promise!Next
  BY <1>7, BeginFits
<1> QED
  BY <1>2, <1>3, <1>4, <1>5, <1>6, <1>7 DEF Next

-----------------------------------------------------------------------------
(* The Redis store keeps the promise *)

LEMMA RedisInit == R!Init => RedisFits /\ R!Promise!Init
BY DEF R!Init, R!StoreInit, RedisFits, R!Promise!Init

LEMMA RedisAcquireFits ==
    ASSUME RedisFits, NEW o \in Owners, R!Acquire(o)
    PROVE  RedisFits' /\ R!Promise!Next
<1> DEFINE t == [owner |-> o, fence |-> fence + 1]
<1>1. t \in Tokens /\ t.fence = fence + 1 /\ t \notin redisIssued /\ t # NoToken
  BY MemoryAssumption DEF RedisFits, Tokens
<1>2. /\ leader = NoToken /\ fence' = fence + 1 /\ leader' = t /\ redisIssued' = redisIssued \cup {t}
      /\ redisReply' = [call |-> "acquire", token |-> t, ok |-> TRUE]
      /\ UNCHANGED <<redisHead, generation>>
  BY DEF R!Acquire, R!AcquireScript, R!NextToken, R!Answer
<1> HIDE DEF t
<1>3. RedisFits'
  <2>1. fence \in Nat /\ fence' \in Nat /\ (\A u \in redisIssued' : u.fence <= fence')
    BY <1>1, <1>2 DEF RedisFits, Tokens
  <2> QED
    BY <1>1, <1>2, <2>1 DEF RedisFits
<1>4. R!Promise!Granted
  BY <1>1, <1>2 DEF R!Promise!Granted
<1> QED
  BY <1>3, <1>4 DEF R!Promise!Next

LEMMA RedisLeaseFits ==
    ASSUME RedisFits,
           R!AcquireRefused \/ R!LeaseExpires \/ \E t \in redisIssued : R!Renew(t) \/ R!Release(t)
    PROVE  RedisFits' /\ R!Promise!Next
<1>1. CASE R!AcquireRefused
  <2>1. ~redisReply'.ok /\ UNCHANGED <<leader, fence, redisHead, generation, redisIssued>>
    BY <1>1 DEF R!AcquireRefused, R!Answer, R!storeVars
  <2> QED
    BY <2>1 DEF RedisFits, R!Promise!Next, R!Promise!Refused
<1>2. CASE R!LeaseExpires
  <2>1. /\ ~redisReply'.ok /\ leader' = NoToken
        /\ UNCHANGED <<fence, redisHead, generation, redisIssued>>
    BY <1>2 DEF R!LeaseExpires, R!Expire
  <2> QED
    BY <2>1 DEF RedisFits, R!Promise!Next, R!Promise!Refused
<1>3. ASSUME NEW t \in redisIssued, R!Renew(t) PROVE RedisFits' /\ R!Promise!Next
  <2>1. /\ UNCHANGED <<leader, fence, redisHead, generation, redisIssued>>
        /\ redisReply'.ok = (leader = t) /\ redisReply'.call = "renew" /\ redisReply'.token = t
    BY <1>3 DEF R!Renew, R!RenewScript, R!Answer, R!storeVars
  <2>2. CASE leader = t
    BY <2>1, <2>2 DEF RedisFits, R!Promise!Next, R!Promise!Renewed
  <2>3. CASE leader # t
    BY <2>1, <2>3 DEF RedisFits, R!Promise!Next, R!Promise!Refused
  <2> QED
    BY <2>2, <2>3
<1>4. ASSUME NEW t \in redisIssued, R!Release(t) PROVE RedisFits' /\ R!Promise!Next
  <2>1. /\ UNCHANGED <<fence, redisHead, generation, redisIssued>>
        /\ leader' = IF leader = t THEN NoToken ELSE leader
        /\ redisReply'.ok /\ redisReply'.call = "release" /\ redisReply'.token = t
    BY <1>4 DEF R!Release, R!ReleaseScript, R!Answer
  <2> QED
    BY <2>1 DEF RedisFits, R!Promise!Next, R!Promise!Released
<1> QED
  BY <1>1, <1>2, <1>3, <1>4

LEMMA RedisPublishFits ==
    ASSUME RedisFits, NEW t \in redisIssued, NEW b \in Blocks, NEW epoch \in 0..MaxGen,
           R!Publish(t, b, epoch)
    PROVE  RedisFits' /\ R!Promise!Next
<1> DEFINE accepted == leader = t /\ epoch = R!StoredEpoch
<1>1. /\ UNCHANGED <<leader, fence, redisIssued>>
      /\ redisReply'.call = "publish" /\ redisReply'.token = t /\ redisReply'.epoch = epoch
      /\ redisReply'.ok = accepted
  BY DEF R!Publish, R!PublishScript, R!PublishAccepted, R!storeVars
<1>2. CASE ~accepted
  <2>1. UNCHANGED <<redisHead, generation>>
    BY <1>2 DEF R!Publish, R!PublishScript, R!PublishAccepted, R!storeVars
  <2> QED
    BY <1>1, <1>2, <2>1 DEF RedisFits, R!Promise!Next, R!Promise!Refused
<1>3. CASE accepted
  <2>1. leader = t /\ epoch = R!Promise!EpochOf(redisHead) /\ epoch \in Nat
    BY <1>3, MemoryAssumption DEF R!StoredEpoch, R!Promise!EpochOf
  <2>2. CASE redisHead # NoHead /\ redisHead.block = b
    <3>1. redisHead' = [redisHead EXCEPT !.pending = FALSE] /\ generation' = generation
      BY <1>3, <2>2 DEF R!Publish, R!PublishScript, R!PublishAccepted
    <3>2. /\ redisHead' \in HeadRecords /\ redisHead'.block = redisHead.block
          /\ redisHead'.epoch = redisHead.epoch /\ redisHead'.pending = FALSE
          /\ redisHead'.generation = redisHead.generation /\ redisHead' # NoHead
      BY <2>2, <3>1, MemoryAssumption DEF RedisFits, HeadRecords
    <3>3. RedisFits'
      BY <1>1, <2>2, <3>1, <3>2 DEF RedisFits
    <3>4. R!Promise!Published
      BY <1>1, <1>3, <2>1, <2>2, <3>2 DEF R!Promise!Published, R!Promise!EpochOf
    <3> QED
      BY <3>3, <3>4 DEF R!Promise!Next
  <2>3. CASE ~(redisHead # NoHead /\ redisHead.block = b)
    <3>1. /\ redisHead' = [block |-> b, epoch |-> epoch, pending |-> FALSE, generation |-> generation + 1]
          /\ generation' = generation + 1
      BY <1>3, <2>3 DEF R!Publish, R!PublishScript, R!PublishAccepted
    <3>2. generation \in Nat /\ generation + 1 \in Nat
      BY DEF RedisFits
    <3>3. /\ redisHead' \in HeadRecords /\ redisHead'.block = b /\ redisHead'.epoch = epoch
          /\ redisHead'.pending = FALSE /\ redisHead'.generation = generation + 1
      BY <2>1, <3>1, <3>2 DEF HeadRecords
    <3>4. redisHead' # NoHead
      BY <3>3, MemoryAssumption DEF HeadRecords
    <3>5. RedisFits'
      BY <1>1, <3>1, <3>2, <3>3 DEF RedisFits
    <3>6. generation + 1 > R!Promise!GenerationOf(redisHead)
      BY <3>2 DEF RedisFits, HeadRecords, R!Promise!GenerationOf
    <3>7. R!Promise!Published
      BY <1>1, <1>3, <2>1, <2>3, <3>3, <3>4, <3>6 DEF R!Promise!Published
    <3> QED
      BY <3>5, <3>7 DEF R!Promise!Next
  <2> QED
    BY <2>2, <2>3
<1> QED
  BY <1>2, <1>3

LEMMA RedisBeginFits ==
    ASSUME RedisFits, NEW t \in redisIssued, R!BeginReorg(t)
    PROVE  RedisFits' /\ R!Promise!Next
<1> DEFINE accepted == leader = t /\ redisHead # NoHead
<1>1. /\ UNCHANGED <<leader, fence, generation, redisIssued>>
      /\ redisReply'.call = "begin" /\ redisReply'.token = t /\ redisReply'.ok = accepted
      /\ redisHead' = IF accepted
                      THEN IF redisHead.pending THEN redisHead
                           ELSE [redisHead EXCEPT !.epoch = @ + 1, !.pending = TRUE]
                      ELSE redisHead
  BY DEF R!BeginReorg, R!BeginReorgScript, R!BeginReorgAccepted, R!Guarded, R!Answer
<1>2. CASE ~accepted
  BY <1>1, <1>2 DEF RedisFits, R!Promise!Next, R!Promise!Refused
<1>3. CASE accepted
  <2>1. redisHead \in HeadRecords /\ redisHead # NoHead
    BY <1>3 DEF RedisFits
  <2>2. /\ redisHead' \in HeadRecords /\ redisHead'.generation = redisHead.generation
        /\ redisHead' = [redisHead EXCEPT !.epoch = IF redisHead.pending THEN @ ELSE @ + 1, !.pending = TRUE]
    BY <1>1, <1>3, <2>1, FencedHead
  <2>3. RedisFits'
    BY <1>1, <2>1, <2>2 DEF RedisFits
  <2>4. R!Promise!Fenced
    BY <1>1, <1>3, <2>1, <2>2 DEF R!Promise!Fenced
  <2> QED
    BY <2>3, <2>4 DEF R!Promise!Next
<1> QED
  BY <1>2, <1>3

LEMMA RedisStep ==
    ASSUME RedisFits, R!Next \/ UNCHANGED redisVars
    PROVE  RedisFits' /\ [R!Promise!Next]_(R!Promise!vars)
<1>1. CASE UNCHANGED redisVars
  BY <1>1 DEF redisVars, RedisFits, R!Promise!vars
<1>2. ASSUME NEW o \in Owners, R!Acquire(o) PROVE RedisFits' /\ R!Promise!Next
  BY <1>2, RedisAcquireFits
<1>3. CASE R!AcquireRefused \/ R!LeaseExpires \/ \E t \in redisIssued : R!Renew(t) \/ R!Release(t)
  BY <1>3, RedisLeaseFits
<1>4. ASSUME NEW t \in redisIssued, NEW b \in Blocks, NEW epoch \in 0..MaxGen, R!Publish(t, b, epoch)
      PROVE  RedisFits' /\ R!Promise!Next
  BY <1>4, RedisPublishFits
<1>5. ASSUME NEW t \in redisIssued, R!BeginReorg(t) PROVE RedisFits' /\ R!Promise!Next
  BY <1>5, RedisBeginFits
<1> QED
  BY <1>1, <1>2, <1>3, <1>4, <1>5 DEF R!Next

-----------------------------------------------------------------------------
(* What both stores have in common after every call of a coordinator *)

\* Callers of the two stores correspond one to one.
TwinFits ==
    /\ twin \in [issued -> redisIssued]
    /\ \A t, u \in issued : twin[t] = twin[u] => t = u

SameState ==
    /\ reply.call = redisReply.call /\ reply.ok = redisReply.ok
    /\ leader = IF lease.over THEN NoToken ELSE twin[lease.token]
    /\ SameHead(head, redisHead)

\* An event's id is a value of the counter, and no two events share one.
EventsFit ==
    /\ events \in Seq(Entries)
    /\ \A i \in 1..Len(events) : events[i].id \in 1..gen
    /\ \A i, j \in 1..Len(events) : events[i].id = events[j].id => i = j

\* The Redis stream holds the entries of the last StreamMax generations.
StreamFits ==
    /\ generation = Len(events)
    /\ \A e \in redisEvents : /\ e.generation \in 1..Len(events)
                              /\ e.generation + StreamMax > Len(events)
                              /\ events[e.generation].block = e.block
    /\ \A e, f \in redisEvents : e.generation = f.generation => e = f
    /\ \A g \in 1..Len(events) :
          g + StreamMax > Len(events) => \E e \in redisEvents : e.generation = g

StoreInv == MemoryFits /\ RedisFits /\ TwinFits /\ SameState /\ EventsFit /\ StreamFits

\* The holder of the one lease is the twin of the holder of the other.
LEMMA SameHolder ==
    ASSUME StoreInv, NEW t \in issued
    PROVE  /\ Holds(t) <=> leader = twin[t]
           /\ twin[t] \in redisIssued /\ twin[t] # NoToken
<1>1. twin[t] \in redisIssued /\ twin[t] # NoToken
  BY MemoryAssumption DEF StoreInv, TwinFits, RedisFits, Tokens
<1>2. CASE lease.over
  BY <1>1, <1>2 DEF StoreInv, SameState, Holds
<1>3. CASE ~lease.over
  <2>1. lease.token \in issued /\ leader = twin[lease.token]
    BY <1>3 DEF StoreInv, MemoryFits, SameState
  <2> QED
    BY <1>1, <1>3, <2>1 DEF StoreInv, TwinFits, Holds
<1> QED
  BY <1>1, <1>2, <1>3

LEMMA SameEpoch ==
    ASSUME StoreInv
    PROVE  StoredEpoch = R!StoredEpoch /\ (head = NoHead <=> redisHead = NoHead)
BY DEF StoreInv, SameState, SameHead, StoredEpoch, R!StoredEpoch

\* A step of both is a step of each.
LEMMA BothSteps ==
    ASSUME StoreInv, BothNext
    PROVE  (Next \/ UNCHANGED vars) /\ (R!Next \/ UNCHANGED redisVars)
<1>1. CASE TimeRunsOutInBoth
  BY <1>1 DEF TimeRunsOutInBoth, Next, R!Next
<1>2. CASE \E o \in Owners : AcquireBoth(o)
  BY <1>2 DEF AcquireBoth, Next, R!Next
<1>3. ASSUME NEW t \in issued, UseBoth(t) PROVE Next /\ R!Next
  <2>1. twin[t] \in redisIssued
    BY SameHolder
  <2> QED
    BY <1>3, <2>1 DEF UseBoth, Next, R!Next
<1>4. CASE \E d \in Readers : Read(d) \/ CheckRetention(d) \/ StartBoth(d)
  BY <1>4 DEF Read, CheckRetention, StartBoth, Next
<1> QED
  BY <1>1, <1>2, <1>3, <1>4 DEF BothNext

\* Calls that are about the lease only.
LEMMA StreamUntouched ==
    ASSUME StoreInv, gen' \in Nat, gen <= gen', UNCHANGED <<events, generation, redisEvents>>
    PROVE  EventsFit' /\ StreamFits'
<1>1. gen \in Nat /\ \A n \in 1..gen : n \in 1..gen'
  BY DEF StoreInv, MemoryFits
<1> QED
  BY <1>1 DEF StoreInv, EventsFit, StreamFits

LEMMA AcquireAgrees ==
    ASSUME StoreInv, NEW o \in Owners, AcquireBoth(o)
    PROVE  TwinFits' /\ SameState' /\ EventsFit' /\ StreamFits'
<1> DEFINE t == [owner |-> o, fence |-> gen + 1]
           r == [owner |-> o, fence |-> fence + 1]
<1>1. t \notin issued /\ r \notin redisIssued /\ r # NoToken /\ gen \in Nat
  BY MemoryAssumption DEF StoreInv, MemoryFits, RedisFits, Tokens
<1>2. CASE lease.over
  <2>1. leader = NoToken
    BY <1>2 DEF StoreInv, SameState
  <2>2. R!Acquire(o)
    BY <2>1 DEF AcquireBoth, R!AcquireRefused
  <2>3. /\ gen' = gen + 1 /\ lease' = [token |-> t, over |-> FALSE] /\ issued' = issued \cup {t}
        /\ reply' = [call |-> "acquire", token |-> t, ok |-> TRUE] /\ UNCHANGED <<head, events>>
    BY <1>2 DEF AcquireBoth, Acquire, Answer
  <2>4. /\ leader' = r /\ redisIssued' = redisIssued \cup {r}
        /\ redisReply' = [call |-> "acquire", token |-> r, ok |-> TRUE]
        /\ UNCHANGED <<redisHead, generation, redisEvents>>
    BY <2>2 DEF R!Acquire, R!AcquireScript, R!NextToken, R!Answer
  <2> HIDE DEF t, r
  <2>5. twin' = [u \in issued' |-> IF u \in issued THEN twin[u] ELSE r]
    BY <2>4 DEF AcquireBoth
  <2>6. twin'[t] = r /\ (\A u \in issued : twin'[u] = twin[u] /\ twin[u] \in redisIssued)
    BY <1>1, <2>3, <2>5 DEF StoreInv, TwinFits
  <2>7. twin' \in [issued' -> redisIssued']
    BY <1>1, <2>3, <2>4, <2>5, <2>6
  <2>8. \A u, v \in issued' : twin'[u] = twin'[v] => u = v
    BY <1>1, <2>3, <2>6 DEF StoreInv, TwinFits
  <2>9. SameState'
    BY <2>3, <2>4, <2>6 DEF StoreInv, SameState, SameHead
  <2>10. EventsFit' /\ StreamFits'
    BY <1>1, <2>3, <2>4, StreamUntouched
  <2> QED
    BY <2>7, <2>8, <2>9, <2>10 DEF TwinFits
<1>3. CASE ~lease.over
  <2>1. leader # NoToken
    <3>1. lease.token \in issued /\ leader = twin[lease.token]
      BY <1>3 DEF StoreInv, MemoryFits, SameState
    <3> QED
      BY <3>1, SameHolder
  <2>2. R!AcquireRefused
    BY <2>1 DEF AcquireBoth, R!Acquire, R!AcquireScript
  <2>3. /\ reply' = [call |-> "acquire", token |-> NoToken, ok |-> FALSE]
        /\ UNCHANGED <<gen, lease, issued, head, events>>
    BY <1>3 DEF AcquireBoth, Acquire, Answer
  <2>4. /\ redisReply' = [call |-> "acquire", token |-> NoToken, ok |-> FALSE]
        /\ UNCHANGED <<leader, redisHead, generation, redisEvents, redisIssued>>
    BY <2>2 DEF R!AcquireRefused, R!Answer, R!storeVars
  <2>5. twin' = [u \in issued |-> twin[u]]
    BY <2>3 DEF AcquireBoth
  <2>6. twin' = twin
    BY <2>5 DEF StoreInv, TwinFits
  <2>7. TwinFits' /\ SameState'
    BY <2>3, <2>4, <2>6 DEF StoreInv, TwinFits, SameState, SameHead
  <2> QED
    BY <1>1, <2>3, <2>4, <2>7, StreamUntouched
<1> QED
  BY <1>2, <1>3

LEMMA LeaseAgrees ==
    ASSUME StoreInv,
           \/ TimeRunsOutInBoth
           \/ \E t \in issued : /\ \/ Renew(t) /\ R!Renew(twin[t])
                                   \/ Release(t) /\ R!Release(twin[t])
                                /\ UNCHANGED twin
    PROVE  TwinFits' /\ SameState' /\ EventsFit' /\ StreamFits'
<1>1. CASE TimeRunsOutInBoth
  <2>1. /\ lease' = [lease EXCEPT !.over = TRUE] /\ reply' = [call |-> "none", ok |-> FALSE]
        /\ UNCHANGED <<gen, head, events, issued, twin>>
    BY <1>1 DEF TimeRunsOutInBoth, TimeRunsOut
  <2>2. /\ leader' = NoToken /\ redisReply' = [call |-> "none", ok |-> FALSE]
        /\ UNCHANGED <<redisHead, generation, redisEvents, redisIssued>>
    BY <1>1 DEF TimeRunsOutInBoth, R!LeaseExpires, R!Expire
  <2>3. lease'.over
    BY <2>1 DEF StoreInv, MemoryFits
  <2>4. TwinFits' /\ SameState'
    BY <2>1, <2>2, <2>3 DEF StoreInv, TwinFits, SameState, SameHead
  <2> QED
    BY <2>1, <2>2, <2>4, StreamUntouched DEF StoreInv, MemoryFits
<1>2. ASSUME NEW t \in issued, Renew(t), R!Renew(twin[t]), UNCHANGED twin
      PROVE  TwinFits' /\ SameState' /\ EventsFit' /\ StreamFits'
  <2>1. /\ reply'.call = "renew" /\ reply'.ok = Holds(t)
        /\ UNCHANGED <<lease, gen, head, events, issued>>
    BY <1>2 DEF Renew, Answer
  <2>2. /\ redisReply'.call = "renew" /\ redisReply'.ok = (leader = twin[t])
        /\ UNCHANGED <<leader, redisHead, generation, redisEvents, redisIssued>>
    BY <1>2 DEF R!Renew, R!RenewScript, R!Answer, R!storeVars
  <2>3. Holds(t) = (leader = twin[t])
    BY SameHolder DEF Holds
  <2>4. TwinFits' /\ SameState'
    BY <1>2, <2>1, <2>2, <2>3 DEF StoreInv, TwinFits, SameState, SameHead
  <2> QED
    BY <2>1, <2>2, <2>4, StreamUntouched DEF StoreInv, MemoryFits
<1>3. ASSUME NEW t \in issued, Release(t), R!Release(twin[t]), UNCHANGED twin
      PROVE  TwinFits' /\ SameState' /\ EventsFit' /\ StreamFits'
  <2>1. /\ reply'.call = "release" /\ reply'.ok = TRUE
        /\ lease' = IF lease.token = t THEN NoLease ELSE lease
        /\ UNCHANGED <<gen, head, events, issued>>
    BY <1>3 DEF Release, Answer
  <2>2. /\ redisReply'.call = "release" /\ redisReply'.ok = TRUE
        /\ leader' = IF leader = twin[t] THEN NoToken ELSE leader
        /\ UNCHANGED <<redisHead, generation, redisEvents, redisIssued>>
    BY <1>3 DEF R!Release, R!ReleaseScript, R!Answer
  <2>3. (Holds(t) <=> leader = twin[t]) /\ twin[t] # NoToken
    BY SameHolder
  <2>4. leader' = IF lease'.over THEN NoToken ELSE twin'[lease'.token]
    BY <1>3, <2>1, <2>2, <2>3 DEF StoreInv, SameState, Holds, NoLease
  <2>5. TwinFits' /\ SameState'
    BY <1>3, <2>1, <2>2, <2>4 DEF StoreInv, TwinFits, SameState, SameHead
  <2> QED
    BY <2>1, <2>2, <2>5, StreamUntouched DEF StoreInv, MemoryFits
<1> QED
  BY <1>1, <1>2, <1>3

LEMMA BeginAgrees ==
    ASSUME StoreInv, NEW t \in issued, BeginReorg(t), R!BeginReorg(twin[t]), UNCHANGED twin
    PROVE  TwinFits' /\ SameState' /\ EventsFit' /\ StreamFits'
<1> DEFINE accepted == Holds(t) /\ head # NoHead
<1>1. /\ reply'.call = "begin" /\ reply'.ok = accepted
      /\ head' = IF accepted /\ ~head.pending
                 THEN [head EXCEPT !.epoch = @ + 1, !.pending = TRUE] ELSE head
      /\ UNCHANGED <<lease, gen, events, issued>>
  BY DEF BeginReorg, Answer
<1>2. accepted = (leader = twin[t] /\ redisHead # NoHead)
  BY SameHolder, SameEpoch DEF Holds
<1>3. /\ redisReply'.call = "begin" /\ redisReply'.ok = accepted
      /\ redisHead' = IF accepted /\ ~redisHead.pending
                      THEN [redisHead EXCEPT !.epoch = @ + 1, !.pending = TRUE] ELSE redisHead
      /\ UNCHANGED <<leader, generation, redisEvents, redisIssued>>
  BY <1>2 DEF R!BeginReorg, R!BeginReorgScript, R!BeginReorgAccepted, R!Guarded, R!Answer
<1>4. SameHead(head', redisHead')
  <2>1. CASE ~accepted
    BY <1>1, <1>3, <2>1 DEF StoreInv, SameState
  <2>2. CASE accepted
    <3>1. /\ head \in HeadRecords /\ redisHead \in HeadRecords
          /\ head.block = redisHead.block /\ head.epoch = redisHead.epoch /\ head.pending = redisHead.pending
      BY <1>2, <2>2 DEF StoreInv, MemoryFits, RedisFits, SameState, SameHead
    <3>2. CASE head.pending
      BY <1>1, <1>3, <3>1, <3>2 DEF StoreInv, SameState
    <3>3. CASE ~head.pending
      <4>1. /\ head'.block = head.block /\ head'.epoch = head.epoch + 1 /\ head'.pending = TRUE
            /\ head' \in HeadRecords
        BY <1>1, <2>2, <3>1, <3>3, FencedHead
      <4>2. /\ redisHead'.block = redisHead.block /\ redisHead'.epoch = redisHead.epoch + 1
            /\ redisHead'.pending = TRUE /\ redisHead' \in HeadRecords
        BY <1>3, <2>2, <3>1, <3>3, FencedHead
      <4>3. head' # NoHead /\ redisHead' # NoHead
        BY <4>1, <4>2, MemoryAssumption DEF HeadRecords
      <4> QED
        BY <3>1, <4>1, <4>2, <4>3 DEF SameHead
    <3> QED
      BY <3>2, <3>3
  <2> QED
    BY <2>1, <2>2
<1>5. TwinFits' /\ SameState'
  BY <1>1, <1>3, <1>4 DEF StoreInv, TwinFits, SameState
<1> QED
  BY <1>1, <1>3, <1>5, StreamUntouched DEF StoreInv, MemoryFits

\* A new head is a new event in both, and the oldest entry of a full stream goes.
LEMMA StreamGrows ==
    ASSUME StoreInv, NEW b \in Blocks, NEW epoch \in Nat,
           gen' = gen + 1, events' = Append(events, [id |-> gen + 1, block |-> b]),
           generation' = generation + 1,
           redisEvents' = R!Retained(redisEvents \cup {[block |-> b, epoch |-> epoch,
                                                         generation |-> generation + 1]},
                                      generation + 1)
    PROVE  EventsFit' /\ StreamFits'
<1> DEFINE n == Len(events)
           x == [id |-> gen + 1, block |-> b]
           y == [block |-> b, epoch |-> epoch, generation |-> generation + 1]
<1>1. /\ events \in Seq(Entries) /\ n \in Nat /\ generation = n /\ gen \in Nat
      /\ StreamMax \in Nat \ {0}
  BY AgreementAssumption DEF StoreInv, MemoryFits, EventsFit, StreamFits
<1>2. x \in Entries /\ x.id = gen + 1 /\ x.block = b /\ y.generation = n + 1 /\ y.block = b
  BY <1>1 DEF Entries
<1> HIDE DEF x, y
<1>3. /\ events' \in Seq(Entries) /\ Len(events') = n + 1 /\ events'[n + 1] = x
      /\ \A i \in 1..n : events'[i] = events[i]
  BY <1>1, <1>2 DEF x
<1>4. \A i \in 1..n + 1 : i \in 1..n \/ i = n + 1
  BY <1>1
<1>5. \A i \in 1..n : events[i].id \in 1..gen /\ events'[i].id \in 1..gen + 1 /\ events[i].id # gen + 1
  BY <1>1, <1>3 DEF StoreInv, EventsFit
<1>6. EventsFit'
  <2>1. \A i \in 1..n + 1 : events'[i].id \in 1..gen + 1
    BY <1>1, <1>2, <1>3, <1>4, <1>5
  <2>2. \A i, j \in 1..n + 1 : events'[i].id = events'[j].id => i = j
    BY <1>2, <1>3, <1>4, <1>5 DEF StoreInv, EventsFit
  <2> QED
    BY <1>3, <2>1, <2>2 DEF EventsFit
<1>7. redisEvents' = {e \in redisEvents \cup {y} : e.generation + StreamMax > n + 1}
  BY <1>1 DEF R!Retained, y
<1>8. y \in redisEvents' /\ \A e \in redisEvents' : e \in redisEvents \/ e = y
  <2>1. y.generation + StreamMax > n + 1
    <3> HIDE DEF n
    <3> QED
      BY <1>1, <1>2
  <2> QED
    BY <1>7, <2>1
<1>9. \A e \in redisEvents' : /\ e.generation \in 1..n + 1 /\ e.generation + StreamMax > n + 1
                              /\ events'[e.generation].block = e.block
  <2> SUFFICES ASSUME NEW e \in redisEvents'
               PROVE  e.generation \in 1..n + 1 /\ events'[e.generation].block = e.block
    BY <1>7
  <2>1. CASE e \in redisEvents
    <3>1. e.generation \in 1..n /\ events[e.generation].block = e.block
      BY <2>1 DEF StoreInv, StreamFits
    <3> QED
      BY <1>1, <1>3, <3>1
  <2>2. CASE e = y
    BY <1>1, <1>2, <1>3, <2>2
  <2> QED
    BY <1>8, <2>1, <2>2
<1>10. \A e, f \in redisEvents' : e.generation = f.generation => e = f
  <2>1. \A e \in redisEvents : e.generation # n + 1
    BY <1>1 DEF StoreInv, StreamFits
  <2> QED
    BY <1>2, <1>8, <2>1 DEF StoreInv, StreamFits
<1>11. \A g \in 1..n + 1 : g + StreamMax > n + 1 => \E e \in redisEvents' : e.generation = g
  <2> SUFFICES ASSUME NEW g \in 1..n + 1, g + StreamMax > n + 1
               PROVE  \E e \in redisEvents' : e.generation = g
    OBVIOUS
  <2>1. CASE g = n + 1
    BY <1>2, <1>8, <2>1
  <2>2. CASE g \in 1..n
    <3>1. g + StreamMax > n
      BY <1>1, <2>2
    <3>2. PICK e \in redisEvents : e.generation = g
      BY <2>2, <3>1 DEF StoreInv, StreamFits
    <3> QED
      BY <1>7, <3>2
  <2> QED
    BY <1>4, <2>1, <2>2
<1>12. StreamFits'
  BY <1>1, <1>3, <1>9, <1>10, <1>11 DEF StreamFits
<1> QED
  BY <1>6, <1>12

LEMMA PublishAgrees ==
    ASSUME StoreInv, NEW t \in issued, NEW b \in Blocks, NEW epoch \in 0..MaxGen,
           Publish(t, b, epoch), R!Publish(twin[t], b, epoch), UNCHANGED twin
    PROVE  TwinFits' /\ SameState' /\ EventsFit' /\ StreamFits'
<1> DEFINE accepted == Holds(t) /\ epoch = StoredEpoch
           same == head # NoHead /\ head.block = b
<1>1. /\ reply'.call = "publish" /\ reply'.ok = accepted /\ UNCHANGED <<lease, issued>>
  BY DEF Publish
<1>2. accepted = (leader = twin[t] /\ epoch = R!StoredEpoch)
  BY SameHolder, SameEpoch DEF Holds
<1>3. /\ redisReply'.call = "publish" /\ redisReply'.ok = accepted /\ UNCHANGED <<leader, redisIssued>>
  BY <1>2 DEF R!Publish, R!PublishScript, R!PublishAccepted, R!storeVars
<1>4. epoch \in Nat
  BY MemoryAssumption
<1>5. CASE ~accepted
  <2>1. UNCHANGED <<gen, head, events>>
    BY <1>5 DEF Publish
  <2>2. UNCHANGED <<redisHead, generation, redisEvents>>
    BY <1>2, <1>5 DEF R!Publish, R!PublishScript, R!PublishAccepted, R!storeVars
  <2>3. TwinFits' /\ SameState'
    BY <1>1, <1>3, <2>1, <2>2 DEF StoreInv, TwinFits, SameState, SameHead
  <2> QED
    BY <2>1, <2>2, <2>3, StreamUntouched DEF StoreInv, MemoryFits
<1>6. same = (redisHead # NoHead /\ redisHead.block = b)
  BY DEF StoreInv, SameState, SameHead
<1>7. CASE accepted /\ same
  <2>1. head' = [head EXCEPT !.pending = FALSE] /\ UNCHANGED <<gen, events>>
    BY <1>7 DEF Publish, Confirmed
  <2>2. /\ redisHead' = [redisHead EXCEPT !.pending = FALSE]
        /\ UNCHANGED <<generation, redisEvents>>
    BY <1>2, <1>6, <1>7 DEF R!Publish, R!PublishScript, R!PublishAccepted
  <2>3. /\ head \in HeadRecords /\ redisHead \in HeadRecords
        /\ head.block = redisHead.block /\ head.epoch = redisHead.epoch
    BY <1>6, <1>7 DEF StoreInv, MemoryFits, RedisFits, SameState, SameHead
  <2>4. /\ head' \in HeadRecords /\ head'.block = head.block /\ head'.epoch = head.epoch
        /\ head'.pending = FALSE
    BY <2>1, <2>3 DEF HeadRecords
  <2>5. /\ redisHead' \in HeadRecords /\ redisHead'.block = redisHead.block
        /\ redisHead'.epoch = redisHead.epoch /\ redisHead'.pending = FALSE
    BY <2>2, <2>3 DEF HeadRecords
  <2>6. SameHead(head', redisHead')
    BY <2>3, <2>4, <2>5, MemoryAssumption DEF SameHead, HeadRecords
  <2>7. TwinFits' /\ SameState'
    BY <1>1, <1>3, <2>6 DEF StoreInv, TwinFits, SameState
  <2> QED
    BY <2>1, <2>2, <2>7, StreamUntouched DEF StoreInv, MemoryFits
<1>8. CASE accepted /\ ~same
  <2>1. /\ head' = [block |-> b, epoch |-> epoch, pending |-> FALSE, generation |-> gen + 1]
        /\ gen' = gen + 1 /\ events' = Append(events, [id |-> gen + 1, block |-> b])
    BY <1>8 DEF Publish
  <2>2. /\ redisHead' = [block |-> b, epoch |-> epoch, pending |-> FALSE,
                         generation |-> generation + 1]
        /\ generation' = generation + 1
        /\ redisEvents' = R!Retained(redisEvents \cup {[block |-> b, epoch |-> epoch,
                                                         generation |-> generation + 1]},
                                      generation + 1)
    BY <1>2, <1>6, <1>8 DEF R!Publish, R!PublishScript, R!PublishAccepted
  <2>3. /\ head' \in HeadRecords /\ redisHead' \in HeadRecords
    BY <1>4, <2>1, <2>2 DEF StoreInv, MemoryFits, RedisFits, HeadRecords
  <2>4. SameHead(head', redisHead')
    BY <2>1, <2>2, <2>3, MemoryAssumption DEF SameHead, HeadRecords
  <2>5. TwinFits' /\ SameState'
    BY <1>1, <1>3, <2>4 DEF StoreInv, TwinFits, SameState
  <2> QED
    BY <1>4, <2>1, <2>2, <2>5, StreamGrows
<1> QED
  BY <1>5, <1>7, <1>8

-----------------------------------------------------------------------------
(* Pages of events *)

\* s is the piece of the events behind the first i.
Piece(s, i) ==
    /\ i + Len(s) <= Len(events)
    /\ \A j \in 1..Len(s) : s[j] = events[i + j]

\* A reader's cursor is at the last event it has read.
PagesFit ==
    /\ cursor \in [Readers -> Nat] /\ received \in [Readers -> Seq(Entries)]
    /\ \A d \in Readers :
          IF received[d] = <<>> THEN cursor[d] = 0
          ELSE \E i \in Nat : /\ Piece(received[d], i)
                              /\ cursor[d] = events[i + Len(received[d])].id

\* The entries behind the first k.
LEMMA SuffixFacts ==
    ASSUME NEW S, NEW s \in Seq(S), NEW k \in 0..Len(s)
    PROVE  /\ SubSeq(s, k + 1, Len(s)) \in Seq(S)
           /\ Len(SubSeq(s, k + 1, Len(s))) = Len(s) - k
           /\ \A j \in 1..Len(s) - k : SubSeq(s, k + 1, Len(s))[j] = s[k + j]
<1> DEFINE n == Len(s)
           m == k + 1
           t == SubSeq(s, m, n)
<1>1. n \in Nat /\ m \in 1..n + 1 /\ n \in Int /\ m \in Int /\ n - m + 1 = n - k
  OBVIOUS
<1>2. \A i \in 1..n : s[i] \in S
  OBVIOUS
<1> HIDE DEF n
<1>3. \A i \in m..n : s[i] \in S
  BY <1>1, <1>2
<1>4. /\ t \in Seq(S) /\ Len(t) = IF m <= n THEN n - m + 1 ELSE 0
      /\ \A i \in 1..n - m + 1 : t[i] = s[m + i - 1]
  <2> HIDE DEF m
  <2> QED
    BY <1>1, <1>3, SubSeqProperties
<1>5. (IF m <= n THEN n - m + 1 ELSE 0) = n - k
  BY <1>1
<1>6. \A j \in 1..n - k : j \in 1..n - m + 1 /\ m + j - 1 = k + j
  BY <1>1
<1> HIDE DEF m, t
<1>7. t \in Seq(S) /\ Len(t) = n - k /\ \A j \in 1..n - k : t[j] = s[k + j]
  BY <1>4, <1>5, <1>6
<1> QED
  BY <1>7 DEF t, n, m

\* Ids find their event: no two events have the same, and none has 0.
LEMMA AfterFacts ==
    ASSUME EventsFit, gen \in Nat, NEW k \in 0..Len(events), NEW c,
           c = IF k = 0 THEN 0 ELSE events[k].id
    PROVE  /\ After(c) \in Seq(Entries) /\ Len(After(c)) = Len(events) - k
           /\ \A j \in 1..Len(events) - k : After(c)[j] = events[k + j]
<1> DEFINE at == {i \in DOMAIN events : events[i].id = c}
<1>1. /\ events \in Seq(Entries) /\ Len(events) \in Nat /\ DOMAIN events = 1..Len(events)
      /\ \A i \in 1..Len(events) : events[i].id \in Nat \ {0}
  BY DEF EventsFit
<1>2. After(c) = IF at = {} THEN events ELSE SubSeq(events, Max(at) + 1, Len(events))
  BY DEF After
<1>3. CASE k = 0
  <2>1. at = {}
    BY <1>1, <1>3
  <2> QED
    BY <1>1, <1>2, <1>3, <2>1
<1>4. CASE k # 0
  <2>1. k \in 1..Len(events) /\ c = events[k].id
    BY <1>1, <1>4
  <2>2. at = {k}
    BY <1>1, <2>1 DEF EventsFit
  <2>3. Max({k}) = k
    BY <2>1 DEF Max
  <2>4. After(c) = SubSeq(events, k + 1, Len(events))
    BY <1>2, <2>2, <2>3
  <2> QED
    BY <1>1, <2>4, SuffixFacts
<1> QED
  BY <1>3, <1>4

\* A page of ReadEvents joins up with what reader d has received.
LEMMA PageJoins ==
    ASSUME EventsFit, gen \in Nat, NEW d \in DOMAIN cursor \cap DOMAIN received,
           received[d] \in Seq(Entries), NEW i \in Nat, Piece(received[d], i),
           cursor[d] = IF i + Len(received[d]) = 0 THEN 0 ELSE events[i + Len(received[d])].id,
           ReadEvents(d)
    PROVE  LET s == received'[d]
           IN  /\ s \in Seq(Entries) /\ s # <<>> /\ Piece(s, i)
               /\ Len(s) = Len(received[d]) + Min({Count, Len(events) - (i + Len(received[d]))})
               /\ received' = [received EXCEPT ![d] = s]
               /\ cursor' = [cursor EXCEPT ![d] = events[i + Len(s)].id]
<1> DEFINE r == received[d]
           n == Len(events)
           k == i + Len(r)
           a == After(cursor[d])
           m == Min({Count, Len(a)})
           part == SubSeq(a, 1, m)
<1>1. /\ r \in Seq(Entries) /\ Len(r) \in Nat /\ events \in Seq(Entries) /\ n \in Nat
      /\ k \in 0..n
  BY DEF EventsFit, Piece
<1>2. /\ part # <<>> /\ received' = [received EXCEPT ![d] = r \o part]
      /\ cursor' = [cursor EXCEPT ![d] = Last(part).id]
  BY DEF ReadEvents
<1>3. a \in Seq(Entries) /\ Len(a) = n - k /\ \A j \in 1..n - k : a[j] = events[k + j]
  BY <1>1, AfterFacts
<1>4. \A j \in 1..Len(r) : r[j] = events[i + j]
  BY DEF Piece
<1>5. received'[d] = r \o part
  BY <1>2
<1> HIDE DEF a, r, n
<1>6. m \in Nat /\ m <= Len(a) /\ m = Min({Count, n - k})
  <2>1. Count \in Nat /\ Len(a) \in Nat
    BY <1>3, MemoryAssumption
  <2>2. m \in Nat /\ m <= Len(a)
    BY <2>1 DEF Min
  <2>3. m = Min({Count, n - k})
    BY <1>3
  <2> QED
    BY <2>2, <2>3
<1> HIDE DEF m
<1>7. /\ part \in Seq(Entries) /\ Len(part) = m /\ m > 0
      /\ \A j \in 1..m : part[j] = a[j]
  <2>1. a \in Seq(Entries) /\ m \in Nat /\ m <= Len(a) /\ part # <<>>
    BY <1>2, <1>3, <1>6
  <2> HIDE DEF k
  <2> QED
    BY <2>1
<1> HIDE DEF part
<1>8. /\ r \o part \in Seq(Entries) /\ Len(r \o part) = Len(r) + m /\ r \o part # <<>>
      /\ \A j \in 1..Len(r) : (r \o part)[j] = r[j]
      /\ \A j \in 1..m : (r \o part)[Len(r) + j] = part[j]
  <2>1. r \in Seq(Entries) /\ Len(r) \in Nat /\ m \in Nat
    BY <1>1, <1>6
  <2> QED
    BY <1>7, <2>1
<1>9. \A j \in 1..m : part[j] = events[i + (Len(r) + j)]
  <2> SUFFICES ASSUME NEW j \in 1..m PROVE part[j] = events[i + (Len(r) + j)]
    OBVIOUS
  <2>1. j \in 1..n - k /\ k + j = i + (Len(r) + j)
    BY <1>1, <1>3, <1>6
  <2> QED
    BY <1>3, <1>7, <2>1
<1>10. Piece(r \o part, i)
  <2>1. i + Len(r \o part) <= n
    BY <1>1, <1>3, <1>6, <1>8
  <2>2. ASSUME NEW j \in 1..Len(r) + m PROVE (r \o part)[j] = events[i + j]
    <3>1. CASE j \in 1..Len(r)
      BY <1>4, <1>8, <3>1
    <3>2. CASE j \notin 1..Len(r)
      <4>1. j - Len(r) \in 1..m /\ Len(r) + (j - Len(r)) = j
        BY <1>1, <1>6, <3>2
      <4> QED
        BY <1>8, <1>9, <4>1
    <3> QED
      BY <3>1, <3>2
  <2> QED
    BY <1>8, <2>1, <2>2 DEF Piece, n
<1>11. Last(part) = events[i + Len(r \o part)]
  <2>1. m \in 1..m /\ Last(part) = part[m]
    BY <1>6, <1>7 DEF Last
  <2> QED
    BY <1>8, <1>9, <2>1
<1>12. Len(r \o part) = Len(r) + Min({Count, n - k})
  BY <1>6, <1>8
<1> HIDE DEF k
<1> QED
  BY <1>2, <1>5, <1>8, <1>10, <1>11, <1>12 DEF r, n, k

LEMMA ReadFits ==
    ASSUME EventsFit, gen \in Nat, PagesFit, NEW d \in Readers,
           ReadEvents(d) \/ StreamStart(d)
    PROVE  PagesFit'
<1> DEFINE r == received[d]
           n == Len(events)
<1>1. /\ r \in Seq(Entries) /\ Len(r) \in Nat /\ events \in Seq(Entries) /\ n \in Nat
      /\ events' = events
  BY DEF PagesFit, EventsFit, ReadEvents, StreamStart, storeVars
<1>2. \A i \in 1..n : events[i] \in Entries /\ events[i].id \in Nat
  <2>1. \A i \in 1..n : events[i] \in Entries
    BY <1>1
  <2> QED
    BY <2>1 DEF Entries
<1>3. ASSUME NEW s \in Seq(Entries), s # <<>>, NEW i \in Nat, Piece(s, i),
             received' = [received EXCEPT ![d] = s],
             cursor' = [cursor EXCEPT ![d] = events[i + Len(s)].id]
      PROVE  PagesFit'
  <2>1. Len(s) \in Nat \ {0} /\ i + Len(s) \in 1..n
    BY <1>1, <1>3 DEF Piece
  <2>2. cursor' \in [Readers -> Nat] /\ received' \in [Readers -> Seq(Entries)]
    BY <1>2, <1>3, <2>1 DEF PagesFit
  <2>3. received'[d] = s /\ cursor'[d] = events[i + Len(s)].id
    BY <1>3 DEF PagesFit
  <2>4. \A e \in Readers \ {d} : received'[e] = received[e] /\ cursor'[e] = cursor[e]
    BY <1>3 DEF PagesFit
  <2>5. \A e \in Readers :
          IF received'[e] = <<>> THEN cursor'[e] = 0
          ELSE \E k \in Nat : Piece(received'[e], k) /\ cursor'[e] = events[k + Len(received'[e])].id
    BY <1>3, <2>3, <2>4 DEF PagesFit
  <2> QED
    BY <1>1, <2>2, <2>5 DEF PagesFit, Piece
<1>4. CASE StreamStart(d)
  <2>1. /\ n > 0 /\ received' = [received EXCEPT ![d] = <<events[n]>>]
        /\ cursor' = [cursor EXCEPT ![d] = events[n].id]
    BY <1>1, <1>4 DEF StreamStart, Last
  <2>2. /\ <<events[n]>> \in Seq(Entries) /\ Len(<<events[n]>>) = 1 /\ <<events[n]>> # <<>>
        /\ n - 1 \in Nat /\ (n - 1) + 1 = n /\ <<events[n]>>[1] = events[n]
    BY <1>1, <1>2, <2>1
  <2>3. Piece(<<events[n]>>, n - 1)
    BY <1>1, <2>2 DEF Piece
  <2> QED
    BY <1>3, <2>1, <2>2, <2>3
<1>5. CASE ReadEvents(d)
  <2>1. \E i \in Nat : /\ Piece(r, i)
                       /\ cursor[d] = IF i + Len(r) = 0 THEN 0 ELSE events[i + Len(r)].id
    <3>1. CASE r = <<>>
      <4>1. Len(r) = 0 /\ cursor[d] = 0 /\ Piece(r, 0)
        BY <1>1, <3>1 DEF PagesFit, Piece
      <4> QED
        BY <4>1
    <3>2. CASE r # <<>>
      <4>1. PICK i \in Nat : Piece(r, i) /\ cursor[d] = events[i + Len(r)].id
        BY <3>2 DEF PagesFit
      <4>2. Len(r) > 0
        BY <1>1, <3>2
      <4> QED
        BY <1>1, <4>1, <4>2
    <3> QED
      BY <3>1, <3>2
  <2>2. PICK i \in Nat : /\ Piece(r, i)
                         /\ cursor[d] = IF i + Len(r) = 0 THEN 0 ELSE events[i + Len(r)].id
    BY <2>1
  <2>3. d \in DOMAIN cursor \cap DOMAIN received
    BY DEF PagesFit
  <2> DEFINE s == received'[d]
  <2>4. /\ s \in Seq(Entries) /\ s # <<>> /\ Piece(s, i)
        /\ received' = [received EXCEPT ![d] = s]
        /\ cursor' = [cursor EXCEPT ![d] = events[i + Len(s)].id]
    BY <1>1, <1>5, <2>2, <2>3, PageJoins
  <2> HIDE DEF s, r, n
  <2> QED
    BY <1>3, <2>4
<1> QED
  BY <1>4, <1>5

\* An event that is added behind changes no piece.
LEMMA PagesKept ==
    ASSUME EventsFit, PagesFit, UNCHANGED readerVars,
           events' = events \/ \E e \in Entries : events' = Append(events, e)
    PROVE  PagesFit'
<1>1. cursor' = cursor /\ received' = received /\ events \in Seq(Entries) /\ Len(events) \in Nat
  BY DEF readerVars, EventsFit
<1>2. Len(events') \in Nat /\ Len(events) <= Len(events') /\ \A i \in 1..Len(events) : events'[i] = events[i]
  BY <1>1
<1> SUFFICES ASSUME NEW d \in Readers, received[d] # <<>>
             PROVE  \E i \in Nat : Piece(received[d], i)' /\ cursor[d] = events'[i + Len(received[d])].id
  BY <1>1 DEF PagesFit
<1>3. received[d] \in Seq(Entries) /\ Len(received[d]) \in Nat \ {0}
  BY DEF PagesFit
<1>4. PICK i \in Nat : Piece(received[d], i) /\ cursor[d] = events[i + Len(received[d])].id
  BY DEF PagesFit
<1>5. \A j \in 1..Len(received[d]) : i + j \in 1..Len(events)
  BY <1>1, <1>3, <1>4 DEF Piece
<1>6. i + Len(received[d]) \in 1..Len(events)
  BY <1>3, <1>5
<1>7. Piece(received[d], i)'
  BY <1>1, <1>2, <1>3, <1>4, <1>5, <1>6 DEF Piece
<1> QED
  BY <1>2, <1>4, <1>6, <1>7

-----------------------------------------------------------------------------
(* Readers of the Redis stream *)

\* Redis has one entry for each generation it retains.
LEMMA StreamPart ==
    ASSUME StoreInv, NEW i \in Nat, NEW j \in Nat, i <= j, j <= Len(events),
           i + StreamMax >= Len(events)
    PROVE  Cardinality({e \in redisEvents : i < e.generation /\ e.generation <= j}) = j - i
<1> DEFINE part == {e \in redisEvents : i < e.generation /\ e.generation <= j}
           entry == [g \in i + 1..j |-> CHOOSE e \in redisEvents : e.generation = g]
           n == Len(events)
<1>1. n \in Nat /\ StreamMax \in Nat \ {0}
  BY AgreementAssumption DEF StoreInv, EventsFit
<1>2. /\ \A e \in redisEvents : e.generation \in 1..n
      /\ \A e, f \in redisEvents : e.generation = f.generation => e = f
      /\ \A g \in 1..n : g + StreamMax > n => \E e \in redisEvents : e.generation = g
  BY DEF StoreInv, StreamFits
<1> HIDE DEF n
<1>3. \A g \in i + 1..j : g \in 1..n /\ g + StreamMax > n
  BY <1>1 DEF n
<1>4. \A g \in i + 1..j : entry[g] \in part /\ entry[g].generation = g
  <2> SUFFICES ASSUME NEW g \in i + 1..j PROVE entry[g] \in part /\ entry[g].generation = g
    OBVIOUS
  <2>1. entry[g] \in redisEvents /\ entry[g].generation = g
    BY <1>2, <1>3
  <2> QED
    BY <2>1
<1>5. \A e \in part : e.generation \in i + 1..j /\ entry[e.generation] = e
  <2>1. \A e \in part : e \in redisEvents /\ e.generation \in i + 1..j
    BY <1>1, <1>2
  <2> QED
    BY <1>2, <1>4, <2>1
<1> HIDE DEF entry, part
<1>6. entry \in Bijection(i + 1..j, part)
  <2>1. DOMAIN entry = i + 1..j /\ entry = [g \in DOMAIN entry |-> entry[g]]
    BY DEF entry
  <2>2. entry \in [i + 1..j -> part]
    BY <1>4, <2>1
  <2>3. \A g, h \in i + 1..j : entry[g] = entry[h] => g = h
    BY <1>4
  <2>4. \A e \in part : \E g \in i + 1..j : entry[g] = e
    BY <1>5
  <2> QED
    BY <2>2, <2>3, <2>4, Fun_IsBij
<1>7. ExistsBijection(i + 1..j, part)
  BY <1>6, Fun_ExistsBij
<1>8. /\ IsFiniteSet(i + 1..j)
      /\ Cardinality(i + 1..j) = IF i + 1 > j THEN 0 ELSE j - (i + 1) + 1
  <2>1. i + 1 \in Int /\ j \in Int
    OBVIOUS
  <2> QED
    BY <2>1, FS_Interval
<1>9. (IF i + 1 > j THEN 0 ELSE j - (i + 1) + 1) = j - i
  OBVIOUS
<1> QED
  BY <1>7, <1>8, <1>9, FS_Bijection DEF part

\* Redis holds one entry for each of the last StreamMax generations.
LEMMA StreamSize ==
    ASSUME StoreInv
    PROVE  Cardinality(redisEvents) = Min({StreamMax, Len(events)})
<1> DEFINE n == Len(events)
           i == IF StreamMax >= n THEN 0 ELSE n - StreamMax
<1>1. n \in Nat /\ StreamMax \in Nat \ {0}
  BY AgreementAssumption DEF StoreInv, EventsFit
<1>2. \A e \in redisEvents : e.generation \in 1..n /\ e.generation + StreamMax > n
  BY DEF StoreInv, StreamFits
<1> HIDE DEF n
<1>3. i \in Nat /\ i <= n /\ i + StreamMax >= n
  BY <1>1
<1>4. redisEvents = {e \in redisEvents : i < e.generation /\ e.generation <= n}
  BY <1>1, <1>2
<1>5. n - i = Min({StreamMax, n})
  <2>1. Min({StreamMax, n}) = IF StreamMax >= n THEN n ELSE StreamMax
    BY <1>1 DEF Min
  <2> QED
    BY <1>1, <2>1
<1> HIDE DEF i
<1>6. Cardinality({e \in redisEvents : i < e.generation /\ e.generation <= n}) = n - i
  BY <1>1, <1>3, StreamPart DEF n
<1> QED
  BY <1>4, <1>5, <1>6 DEF n

\* A page holds the Count retained generations behind the cursor, or as many as
\* there are: right behind it when the cursor's entry is still retained.
LEMMA PageFacts ==
    ASSUME StoreInv, NEW c \in Nat, c <= Len(events)
    PROVE  LET n == Len(events)
               lo == IF c + StreamMax >= n THEN c ELSE n - StreamMax
               hi == IF lo + Count >= n THEN n ELSE lo + Count
           IN  /\ RedisPage(c) \subseteq redisEvents
               /\ lo \in Nat /\ hi \in Nat /\ c <= lo /\ lo <= hi /\ hi <= n
               /\ {e.generation : e \in RedisPage(c)} = lo + 1..hi
<1> DEFINE n == Len(events)
           lo == IF c + StreamMax >= n THEN c ELSE n - StreamMax
           hi == IF lo + Count >= n THEN n ELSE lo + Count
           between(e) == {f \in redisEvents : c < f.generation /\ f.generation < e.generation}
<1>1. n \in Nat /\ StreamMax \in Nat \ {0} /\ Count \in Nat \ {0}
  BY AgreementAssumption, MemoryAssumption DEF StoreInv, EventsFit
<1>2. /\ \A e \in redisEvents : e.generation \in 1..n /\ e.generation + StreamMax > n
      /\ \A g \in 1..n : g + StreamMax > n => \E e \in redisEvents : e.generation = g
  BY DEF StoreInv, StreamFits
<1>3. c <= n
  OBVIOUS
<1>4. RedisPage(c) = {e \in redisEvents : c < e.generation /\ Cardinality(between(e)) < Count}
  BY DEF RedisPage
<1> HIDE DEF n
<1>5. lo \in Nat /\ c <= lo /\ lo <= n /\ lo + StreamMax >= n
  BY <1>1, <1>3
<1>6. \A e \in redisEvents : c < e.generation <=> lo < e.generation
  BY <1>1, <1>2, <1>3
<1>7. hi \in Nat /\ lo <= hi /\ hi <= n
  BY <1>1, <1>5
<1>8. \A g \in lo + 1..n : \E e \in redisEvents : e.generation = g
  <2>1. \A g \in lo + 1..n : g \in 1..n /\ g + StreamMax > n
    <3> HIDE DEF lo
    <3> QED
      BY <1>1, <1>5
  <2> QED
    BY <1>2, <2>1
<1> HIDE DEF lo
<1>9. ASSUME NEW e \in redisEvents, lo < e.generation
      PROVE  Cardinality(between(e)) = e.generation - 1 - lo
  <2> DEFINE j == e.generation - 1
  <2>1. e.generation \in 1..n /\ j \in Nat /\ lo <= j /\ j <= n
    BY <1>1, <1>2, <1>5, <1>9
  <2>2. between(e) = {f \in redisEvents : lo < f.generation /\ f.generation <= j}
    <3>1. \A f \in redisEvents : /\ c < f.generation <=> lo < f.generation
                                 /\ f.generation < e.generation <=> f.generation <= j
      BY <1>1, <1>2, <1>6, <2>1
    <3> QED
      BY <3>1
  <2>3. Cardinality({f \in redisEvents : lo < f.generation /\ f.generation <= j}) = j - lo
    <3> HIDE DEF j
    <3> QED
      BY <1>5, <2>1, StreamPart DEF n
  <2> QED
    BY <2>2, <2>3
<1> HIDE DEF between
<1>10. \A e \in redisEvents : e \in RedisPage(c) <=> lo < e.generation /\ e.generation <= hi
  <2> SUFFICES ASSUME NEW e \in redisEvents
               PROVE  e \in RedisPage(c) <=> lo < e.generation /\ e.generation <= hi
    OBVIOUS
  <2>1. CASE lo < e.generation
    <3>1. e \in RedisPage(c) <=> e.generation - 1 - lo < Count
      BY <1>4, <1>6, <1>9, <2>1
    <3>2. e.generation \in 1..n
      BY <1>2
    <3> QED
      BY <1>1, <1>5, <2>1, <3>1, <3>2
  <2>2. CASE ~(lo < e.generation)
    BY <1>4, <1>6, <2>2
  <2> QED
    BY <2>1, <2>2
<1> HIDE DEF hi
<1>11. RedisPage(c) \subseteq redisEvents
  BY <1>4
<1>12. {e.generation : e \in RedisPage(c)} = lo + 1..hi
  <2>1. \A e \in RedisPage(c) : e.generation \in lo + 1..hi
    <3> SUFFICES ASSUME NEW e \in RedisPage(c) PROVE e.generation \in lo + 1..hi
      OBVIOUS
    <3>1. e \in redisEvents /\ e.generation \in 1..n /\ lo < e.generation /\ e.generation <= hi
      BY <1>2, <1>10, <1>11
    <3> QED
      BY <1>1, <1>5, <1>7, <3>1
  <2>2. \A g \in lo + 1..hi : \E e \in RedisPage(c) : e.generation = g
    <3> SUFFICES ASSUME NEW g \in lo + 1..hi PROVE \E e \in RedisPage(c) : e.generation = g
      OBVIOUS
    <3>1. g \in lo + 1..n /\ lo < g /\ g <= hi
      BY <1>1, <1>5, <1>7
    <3>2. PICK e \in redisEvents : e.generation = g
      BY <1>8, <3>1
    <3> QED
      BY <1>10, <3>1, <3>2
  <2> QED
    BY <2>1, <2>2
<1> QED
  BY <1>5, <1>7, <1>11, <1>12 DEF n, lo, hi

\* A cursor whose entry Redis still has, or "0-0".
Kept(c) == c = 0 \/ c + StreamMax > Len(events)

Generations(S) == {e.generation : e \in S}

\* The in-memory store has given reader d the same events, and, while the
\* retention check is to come, those of the page besides.
Follows(d, i) ==
    /\ Piece(received[d], i)
    /\ cursor[d] = IF i + Len(received[d]) = 0 THEN 0 ELSE events[i + Len(received[d])].id
    /\ place[d] <= i + Len(received[d])
    /\ d \notin fetching \cup gap => i + Len(received[d]) = place[d]
    /\ d \in fetching /\ Kept(place[d]) =>
          Generations(page[d]) = place[d] + 1..i + Len(received[d])

\* A page under way continues behind the cursor unless that has been trimmed.
Continues(d) ==
    \E lo \in Nat, hi \in Nat :
        /\ lo <= hi /\ hi <= Len(events) /\ place[d] <= lo
        /\ place[d] # 0 => lo = place[d]
        /\ Generations(page[d]) = lo + 1..hi

RedisReads(d) ==
    /\ place[d] \in Nat /\ place[d] <= Len(events)
    /\ d \in gap => place[d] # 0 /\ place[d] + StreamMax <= Len(events)
    /\ \A e \in got[d] \cup page[d] : /\ e.generation \in 1..Len(events)
                                      /\ events[e.generation].block = e.block
    /\ d \in fetching /\ Kept(place[d]) => Continues(d)
    /\ \E i \in Nat : /\ i <= place[d] /\ Generations(got[d]) = i + 1..place[d]
                      /\ d \in late \/ Follows(d, i)

ReadersFit ==
    /\ DOMAIN place = Readers /\ DOMAIN page = Readers /\ DOMAIN got = Readers
    /\ \A d \in Readers : RedisReads(d)

\* An event that is added behind, and what others read, changes nothing for d.
LEMMA ReadsKept ==
    ASSUME EventsFit, NEW d \in Readers, RedisReads(d), received[d] \in Seq(Entries),
           events' = events \/ \E e \in Entries : events' = Append(events, e),
           place'[d] = place[d], page'[d] = page[d], got'[d] = got[d],
           cursor'[d] = cursor[d], received'[d] = received[d],
           d \in fetching' <=> d \in fetching, d \in gap' <=> d \in gap, d \in late' <=> d \in late
    PROVE  RedisReads(d)'
<1>1. events \in Seq(Entries) /\ Len(events) \in Nat /\ StreamMax \in Nat
  BY AgreementAssumption DEF EventsFit
<1>2. Len(events') \in Nat /\ Len(events) <= Len(events') /\ \A i \in 1..Len(events) : events'[i] = events[i]
  BY <1>1
<1>3. place[d] \in Nat /\ received[d] \in Seq(Entries) /\ Len(received[d]) \in Nat
  BY DEF RedisReads
<1>4. Kept(place[d])' => Kept(place[d])
  BY <1>1, <1>2, <1>3 DEF Kept
<1>5. /\ place'[d] \in Nat /\ place'[d] <= Len(events')
      /\ d \in gap' => place'[d] # 0 /\ place'[d] + StreamMax <= Len(events')
  BY <1>1, <1>2, <1>3 DEF RedisReads
<1>6. \A e \in got'[d] \cup page'[d] : e.generation \in 1..Len(events') /\ events'[e.generation].block = e.block
  BY <1>1, <1>2 DEF RedisReads
<1>7. d \in fetching' /\ Kept(place[d])' => Continues(d)'
  <2> SUFFICES ASSUME d \in fetching', Kept(place[d])' PROVE Continues(d)'
    OBVIOUS
  <2>1. PICK lo \in Nat, hi \in Nat :
          /\ lo <= hi /\ hi <= Len(events) /\ place[d] <= lo
          /\ place[d] # 0 => lo = place[d]
          /\ Generations(page[d]) = lo + 1..hi
    BY <1>4 DEF RedisReads, Continues
  <2>2. hi <= Len(events')
    BY <1>1, <1>2, <2>1
  <2> QED
    BY <2>1, <2>2 DEF Continues, Generations
<1>8. PICK i \in Nat : /\ i <= place[d] /\ Generations(got[d]) = i + 1..place[d]
                       /\ d \in late \/ Follows(d, i)
  BY DEF RedisReads
<1>9. ASSUME Follows(d, i) PROVE Follows(d, i)'
  <2> DEFINE k == i + Len(received[d])
  <2>1. /\ k \in 0..Len(events) /\ cursor[d] = IF k = 0 THEN 0 ELSE events[k].id
        /\ \A j \in 1..Len(received[d]) : i + j \in 1..Len(events) /\ received[d][j] = events[i + j]
    BY <1>1, <1>3, <1>9 DEF Follows, Piece
  <2>2. Piece(received[d], i)'
    <3>1. i + Len(received[d]) <= Len(events')
      BY <1>1, <1>2, <1>3, <2>1
    <3>2. \A j \in 1..Len(received[d]) : received[d][j] = events'[i + j]
      BY <1>2, <2>1
    <3> QED
      BY <3>1, <3>2 DEF Piece
  <2>3. cursor'[d] = IF k = 0 THEN 0 ELSE events'[k].id
    BY <1>1, <1>2, <2>1
  <2>4. d \in fetching' /\ Kept(place[d])' => Generations(page'[d]) = place'[d] + 1..k
    BY <1>4, <1>9 DEF Follows, Generations
  <2>5. place'[d] <= k /\ (d \notin fetching' \cup gap' => k = place'[d])
    BY <1>9 DEF Follows
  <2> QED
    BY <2>2, <2>3, <2>4, <2>5 DEF Follows, Generations
<1>10. i <= place'[d] /\ Generations(got'[d]) = i + 1..place'[d] /\ (d \in late' \/ Follows(d, i)')
  BY <1>8, <1>9
<1> QED
  BY <1>3, <1>5, <1>6, <1>7, <1>10 DEF RedisReads, Generations

LEMMA StartReads ==
    ASSUME StoreInv, PagesFit, ReadersFit, NEW d \in Readers, StartBoth(d)
    PROVE  RedisReads(d)'
<1> DEFINE n == Len(events)
<1>1. /\ events \in Seq(Entries) /\ n \in Nat /\ StreamMax \in Nat \ {0} /\ events' = events
      /\ events # <<>> /\ RedisReads(d) /\ place[d] = 0 /\ d \notin fetching
      /\ UNCHANGED <<fetching, page, gap, late>>
  BY AgreementAssumption DEF StoreInv, EventsFit, StartBoth, StreamStart, ReadersFit, storeVars
<1>2. n > 0
  BY <1>1
<1>3. PICK last \in redisEvents :
        /\ \A e \in redisEvents : e.generation <= last.generation
        /\ place' = [place EXCEPT ![d] = last.generation]
        /\ got' = [got EXCEPT ![d] = {last}]
  BY DEF StartBoth
<1>4. last.generation = n /\ events[n].block = last.block
  <2>1. PICK e \in redisEvents : e.generation = n
    BY <1>1, <1>2 DEF StoreInv, StreamFits
  <2>2. last.generation \in 1..n /\ events[last.generation].block = last.block
    BY DEF StoreInv, StreamFits
  <2> QED
    BY <1>1, <1>3, <2>1, <2>2
<1>5. place'[d] = n /\ got'[d] = {last} /\ page'[d] = page[d]
  BY <1>1, <1>3, <1>4 DEF ReadersFit
<1>6. cursor'[d] = events[n].id /\ received'[d] = <<events[n]>>
  BY <1>1 DEF StartBoth, StreamStart, Last, PagesFit
<1>7. PICK i \in Nat : i + 1 = n
  <2>1. n - 1 \in Nat /\ (n - 1) + 1 = n
    BY <1>1, <1>2
  <2> QED
    BY <2>1
<1>8. Len(received'[d]) = 1 /\ received'[d][1] = events[n]
  BY <1>6
<1>9. Piece(received[d], i)'
  <2>1. i + Len(received'[d]) <= Len(events') /\ \A j \in 1..1 : j = 1
    BY <1>1, <1>7, <1>8
  <2> QED
    BY <1>1, <1>7, <1>8, <2>1 DEF Piece
<1>10. Generations(got'[d]) = i + 1..n
  <2>1. Generations({last}) = {n}
    BY <1>4 DEF Generations
  <2>2. i + 1..n = {n}
    BY <1>1, <1>7
  <2> QED
    BY <1>5, <2>1, <2>2
<1>11. Follows(d, i)'
  <2>1. i + Len(received'[d]) = n /\ n # 0 /\ place'[d] = n
    BY <1>2, <1>5, <1>7, <1>8
  <2>2. cursor'[d] = events'[i + Len(received'[d])].id
    BY <1>1, <1>6, <2>1
  <2>3. d \notin fetching'
    BY <1>1
  <2> HIDE DEF n
  <2> QED
    BY <1>1, <1>9, <2>1, <2>2, <2>3 DEF Follows
<1>12. \A e \in got'[d] \cup page'[d] : e.generation \in 1..n /\ events[e.generation].block = e.block
  BY <1>1, <1>2, <1>4, <1>5 DEF RedisReads
<1>13. d \notin gap' /\ d \notin fetching'
  BY <1>1 DEF RedisReads
<1>14. i <= place'[d] /\ place'[d] \in Nat /\ place'[d] <= Len(events')
  BY <1>1, <1>5, <1>7
<1>15. Generations(got[d])' = i + 1..place'[d]
  BY <1>5, <1>10 DEF Generations
<1> QED
  BY <1>1, <1>11, <1>12, <1>13, <1>14, <1>15 DEF RedisReads

LEMMA FetchReads ==
    ASSUME StoreInv, PagesFit, ReadersFit, NEW d \in Readers, Read(d)
    PROVE  RedisReads(d)'
<1> DEFINE n == Len(events)
           c == place[d]
           lo == IF c + StreamMax >= n THEN c ELSE n - StreamMax
           hi == IF lo + Count >= n THEN n ELSE lo + Count
           r == received[d]
<1>1. /\ n \in Nat /\ StreamMax \in Nat \ {0} /\ Count \in Nat \ {0} /\ events' = events
      /\ RedisReads(d) /\ c \in Nat /\ c <= n /\ d \notin fetching /\ d \notin gap
      /\ generation = n /\ gen \in Nat /\ EventsFit
      /\ UNCHANGED <<place, got, gap>> /\ fetching' = fetching \cup {d}
      /\ r \in Seq(Entries) /\ Len(r) \in Nat
  BY AgreementAssumption, MemoryAssumption
     DEF StoreInv, MemoryFits, EventsFit, StreamFits, Read, ReadEvents, ReadersFit, RedisReads,
         PagesFit, storeVars, vars
<1>2. page'[d] = RedisPage(c)
  BY DEF Read, ReadersFit
<1>3. /\ RedisPage(c) \subseteq redisEvents
      /\ lo \in Nat /\ hi \in Nat /\ c <= lo /\ lo <= hi /\ hi <= n
      /\ Generations(RedisPage(c)) = lo + 1..hi
  BY <1>1, PageFacts DEF Generations
<1>4. \A e \in got'[d] \cup page'[d] : e.generation \in 1..n /\ events[e.generation].block = e.block
  BY <1>1, <1>2, <1>3 DEF RedisReads, StoreInv, StreamFits
<1>5. Kept(c)' => (c # 0 => lo = c)
  BY <1>1 DEF Kept
<1>6. Kept(c)' => Continues(d)'
  <2> HIDE DEF lo, hi
  <2> QED
    BY <1>1, <1>2, <1>3, <1>5 DEF Continues, Generations
<1>7. PICK i \in Nat : /\ i <= c /\ Generations(got[d]) = i + 1..c
                       /\ d \in late \/ Follows(d, i)
  BY <1>1 DEF RedisReads
<1>8. late' = IF c = 0 /\ n > StreamMax THEN late \cup {d} ELSE late
  BY <1>1 DEF Read
<1>9. ASSUME d \notin late' PROVE Follows(d, i)'
  <2>1. /\ Piece(r, i) /\ i + Len(r) = c /\ cursor[d] = IF c = 0 THEN 0 ELSE events[c].id
        /\ c = 0 => n <= StreamMax
    BY <1>1, <1>7, <1>8, <1>9 DEF Follows
  <2>2. Kept(c)' => lo = c /\ hi = IF c + Count >= n THEN n ELSE c + Count
    BY <1>1, <1>5, <2>1
  <2>3. CASE ReadEvents(d)
    <3> DEFINE s == received'[d]
    <3>1. /\ s \in Seq(Entries) /\ Piece(s, i) /\ s # <<>>
          /\ Len(s) = Len(r) + Min({Count, n - c})
          /\ cursor' = [cursor EXCEPT ![d] = events[i + Len(s)].id]
      <4>1. d \in DOMAIN cursor \cap DOMAIN received
        BY DEF PagesFit
      <4> QED
        BY <1>1, <1>7, <2>1, <2>3, <4>1, PageJoins
    <3>2. Min({Count, n - c}) = IF c + Count >= n THEN n - c ELSE Count
      BY <1>1 DEF Min
    <3>3. cursor'[d] = events[i + Len(s)].id /\ Len(s) \in Nat \ {0}
      BY <3>1 DEF PagesFit
    <3> HIDE DEF s, lo, hi
    <3>4. i + Len(s) = IF c + Count >= n THEN n ELSE c + Count
      <4>1. /\ c \in Nat /\ c <= n /\ n \in Nat /\ Count \in Nat /\ Len(r) \in Nat
            /\ i + Len(r) = c /\ Len(s) = Len(r) + (IF c + Count >= n THEN n - c ELSE Count)
        BY <1>1, <2>1, <3>1, <3>2
      <4> HIDE DEF c, n, r
      <4> QED
        BY <4>1
    <3>5. c <= i + Len(s) /\ i + Len(s) # 0
      BY <1>1, <3>3, <3>4
    <3>6. Kept(c)' => Generations(page'[d]) = c + 1..i + Len(s)
      BY <1>2, <1>3, <2>2, <3>4
    <3>7. Piece(received[d], i)'
      BY <1>1, <3>1 DEF Piece, s
    <3> QED
      BY <1>1, <3>1, <3>3, <3>5, <3>6, <3>7 DEF Follows, Generations, s, Piece, Kept
  <2>4. CASE After(cursor[d]) = <<>> /\ UNCHANGED vars
    <3>1. c = n
      <4>1. Len(After(cursor[d])) = n - c
        BY <1>1, <2>1, AfterFacts
      <4> QED
        BY <1>1, <2>4, <4>1
    <3>2. cursor' = cursor /\ received' = received
      BY <2>4 DEF vars, readerVars
    <3>3. Kept(c)' => Generations(page'[d]) = c + 1..c
      BY <1>1, <1>2, <1>3, <2>2, <3>1
    <3>4. Piece(received[d], i)'
      BY <1>1, <2>1, <3>2 DEF Piece
    <3> QED
      BY <1>1, <2>1, <3>2, <3>3, <3>4 DEF Follows, Generations, Kept, Piece
  <2> QED
    BY <2>3, <2>4 DEF Read
<1> QED
  BY <1>1, <1>4, <1>6, <1>7, <1>9 DEF RedisReads, Generations, Kept

\* The largest of p and the numbers above it.
LEMMA FurthestPlace ==
    ASSUME NEW p \in Nat, NEW lo \in Nat, NEW hi \in Nat, p <= lo, lo <= hi
    PROVE  Max((lo + 1..hi) \cup {p}) = IF lo < hi THEN hi ELSE p
<1> DEFINE S == (lo + 1..hi) \cup {p}
           m == IF lo < hi THEN hi ELSE p
<1>1. m \in S /\ \A x \in S : x <= m /\ x \in Nat
  OBVIOUS
<1>2. \A x \in S : (\A y \in S : x >= y) => x = m
  BY <1>1
<1> HIDE DEF S, m
<1>3. Max(S) = m
  BY <1>1, <1>2 DEF Max
<1> QED
  BY <1>3 DEF S, m

LEMMA ReturnReads ==
    ASSUME StoreInv, PagesFit, ReadersFit, NEW d \in Readers, CheckRetention(d)
    PROVE  RedisReads(d)'
<1> DEFINE n == Len(events)
           c == place[d]
<1>1. /\ n \in Nat /\ StreamMax \in Nat \ {0} /\ events' = events /\ c \in Nat /\ c <= n
      /\ RedisReads(d) /\ d \in fetching /\ d \notin fetching' /\ late' = late
      /\ cursor' = cursor /\ received' = received /\ page'[d] = {}
      /\ Len(received[d]) \in Nat
  BY AgreementAssumption
     DEF StoreInv, EventsFit, CheckRetention, ReadersFit, RedisReads, PagesFit, vars, storeVars, readerVars
<1>2. PICK i \in Nat : /\ i <= c /\ Generations(got[d]) = i + 1..c
                       /\ d \in late \/ Follows(d, i)
  BY <1>1 DEF RedisReads
<1>3. \A e \in got[d] \cup page[d] : e.generation \in 1..n /\ events[e.generation].block = e.block
  BY <1>1 DEF RedisReads
<1>4. CASE Missing(c)
  <2>1. c # 0 /\ c + StreamMax <= n
    BY <1>1, <1>4 DEF Missing, StoreInv, StreamFits
  <2>2. UNCHANGED <<place, got>> /\ d \in gap'
    BY <1>4 DEF CheckRetention
  <2>3. Follows(d, i) => Follows(d, i)'
    BY <1>1, <2>2 DEF Follows, Piece
  <2>4. Generations(got[d])' = i + 1..c
    BY <1>2, <2>2 DEF Generations
  <2> QED
    BY <1>1, <1>2, <1>3, <2>1, <2>2, <2>3, <2>4 DEF RedisReads
<1>5. CASE ~Missing(c)
  <2>1. Kept(c)
    BY <1>1, <1>5 DEF Missing, Kept, StoreInv, StreamFits
  <2>2. /\ gap' = gap /\ got'[d] = got[d] \cup page[d]
        /\ place'[d] = Max(Generations(page[d]) \cup {c})
    BY <1>5 DEF CheckRetention, ReadersFit, Generations
  <2>3. d \notin gap
    BY <1>1, <2>1 DEF RedisReads, Kept
  <2>4. Generations(got[d])' = Generations(got[d]) \cup Generations(page[d])
    BY <2>2 DEF Generations
  <2>5. ASSUME NEW k \in Nat, k <= place'[d], Generations(got[d])' = k + 1..place'[d],
               place'[d] \in Nat, place'[d] <= n, d \in late \/ Follows(d, k)'
        PROVE  RedisReads(d)'
    BY <1>1, <1>3, <2>2, <2>3, <2>5 DEF RedisReads
  <2>6. CASE d \in late
    <3>1. PICK lo \in Nat, hi \in Nat :
            /\ lo <= hi /\ hi <= n /\ c <= lo /\ (c # 0 => lo = c)
            /\ Generations(page[d]) = lo + 1..hi
      BY <1>1, <2>1 DEF RedisReads, Continues
    <3>2. place'[d] = IF lo < hi THEN hi ELSE c
      BY <1>1, <2>2, <3>1, FurthestPlace
    <3>3. place'[d] \in Nat /\ place'[d] <= n
      BY <1>1, <3>1, <3>2
    <3>4. CASE lo < hi /\ c = 0
      <4>1. i + 1..c = {} /\ Generations(got[d])' = lo + 1..place'[d]
        BY <1>2, <2>4, <3>1, <3>2, <3>4
      <4> QED
        BY <2>5, <2>6, <3>1, <3>2, <3>3, <3>4, <4>1
    <3>5. CASE ~(lo < hi /\ c = 0)
      <4>1. (i + 1..c) \cup (lo + 1..hi) = i + 1..place'[d]
        BY <1>1, <1>2, <3>1, <3>2, <3>5
      <4>2. i <= place'[d]
        BY <1>1, <1>2, <3>1, <3>2
      <4> QED
        BY <1>2, <2>4, <2>5, <2>6, <3>1, <3>3, <4>1, <4>2
    <3> QED
      BY <3>4, <3>5
  <2>7. CASE d \notin late
    <3> DEFINE k == i + Len(received[d])
    <3>1. /\ Piece(received[d], i) /\ k \in Nat /\ k <= n /\ c <= k
          /\ Generations(page[d]) = c + 1..k
          /\ cursor[d] = IF k = 0 THEN 0 ELSE events[k].id
      BY <1>1, <1>2, <2>1, <2>7 DEF Follows, Piece
    <3> HIDE DEF k
    <3>2. place'[d] = k
      <4>1. Max((c + 1..k) \cup {c}) = IF c < k THEN k ELSE c
        BY <1>1, <3>1, FurthestPlace
      <4> QED
        BY <1>1, <2>2, <3>1, <4>1
    <3>3. (i + 1..c) \cup (c + 1..k) = i + 1..k /\ i <= k
      BY <1>1, <1>2, <3>1
    <3>4. Piece(received[d], i)'
      BY <1>1, <3>1 DEF Piece
    <3>5. Follows(d, i)'
      BY <1>1, <3>1, <3>2, <3>4 DEF Follows, k
    <3> QED
      BY <1>2, <2>4, <2>5, <3>1, <3>2, <3>3, <3>5
  <2> QED
    BY <2>6, <2>7
<1> QED
  BY <1>4, <1>5

\* A reader's call leaves the other readers alone.
LEMMA ReadersStep ==
    ASSUME StoreInv, PagesFit, ReadersFit, NEW d \in Readers,
           Read(d) \/ CheckRetention(d) \/ StartBoth(d)
    PROVE  ReadersFit'
<1>1. RedisReads(d)'
  BY FetchReads, ReturnReads, StartReads
<1>2. ASSUME NEW x \in Readers \ {d} PROVE RedisReads(x)'
  <2>1. /\ x # d /\ events' = events /\ cursor'[x] = cursor[x] /\ received'[x] = received[x]
    BY DEF Read, CheckRetention, StartBoth, ReadEvents, StreamStart, PagesFit, vars, storeVars, readerVars
  <2>2. /\ place'[x] = place[x] /\ page'[x] = page[x] /\ got'[x] = got[x]
        /\ (x \in fetching' <=> x \in fetching) /\ (x \in gap' <=> x \in gap)
        /\ (x \in late' <=> x \in late)
    BY <2>1 DEF Read, CheckRetention, StartBoth, ReadersFit
  <2>3. EventsFit /\ RedisReads(x) /\ received[x] \in Seq(Entries)
    BY DEF StoreInv, ReadersFit, PagesFit
  <2> QED
    BY <2>1, <2>2, <2>3, ReadsKept
<1>3. DOMAIN place' = Readers /\ DOMAIN page' = Readers /\ DOMAIN got' = Readers
  BY DEF Read, CheckRetention, StartBoth, ReadersFit
<1> QED
  BY <1>1, <1>2, <1>3 DEF ReadersFit

\* So do the calls of coordinators.
LEMMA ReadersStay ==
    ASSUME EventsFit, PagesFit, ReadersFit, UNCHANGED readerVars, UNCHANGED redisReaderVars,
           events' = events \/ \E e \in Entries : events' = Append(events, e)
    PROVE  ReadersFit'
<1>1. UNCHANGED <<cursor, received, place, fetching, page, got, gap, late>>
  BY DEF readerVars, redisReaderVars
<1>2. ASSUME NEW x \in Readers PROVE RedisReads(x)'
  <2>1. RedisReads(x) /\ received[x] \in Seq(Entries)
    BY DEF ReadersFit, PagesFit
  <2> QED
    BY <1>1, <2>1, ReadsKept
<1> QED
  BY <1>1, <1>2 DEF ReadersFit

-----------------------------------------------------------------------------
(* The theorems *)

LEMMA BothInitInv == BothInit => StoreInv /\ PagesFit /\ ReadersFit
<1> SUFFICES ASSUME BothInit PROVE StoreInv /\ PagesFit /\ ReadersFit
  OBVIOUS
<1>1. MemoryFits /\ RedisFits
  BY MemoryInit, RedisInit DEF BothInit
<1>2. TwinFits
  BY DEF BothInit, Init, R!Init, TwinFits
<1>3. SameState
  BY DEF BothInit, Init, NoLease, R!Init, R!StoreInit, SameState, SameHead
<1>4. EventsFit /\ StreamFits
  BY DEF BothInit, Init, R!Init, R!StoreInit, EventsFit, StreamFits
<1>5. PagesFit
  BY DEF BothInit, Init, PagesFit
<1>6. ReadersFit
  <2>1. /\ place = [d \in Readers |-> 0] /\ page = [d \in Readers |-> {}]
        /\ got = [d \in Readers |-> {}] /\ fetching = {} /\ gap = {} /\ late = {}
        /\ events = <<>> /\ cursor = [d \in Readers |-> 0] /\ received = [d \in Readers |-> <<>>]
    BY DEF BothInit, Init
  <2>2. ASSUME NEW d \in Readers PROVE RedisReads(d)
    <3>1. /\ place[d] = 0 /\ page[d] = {} /\ got[d] = {} /\ cursor[d] = 0 /\ received[d] = <<>>
          /\ Len(events) = 0 /\ Len(received[d]) = 0
      BY <2>1
    <3>2. Follows(d, 0)
      BY <2>1, <3>1 DEF Follows, Piece
    <3>3. Generations(got[d]) = 0 + 1..place[d] /\ 0 \in Nat /\ 0 <= place[d]
      BY <3>1 DEF Generations
    <3>4. \E i \in Nat : /\ i <= place[d] /\ Generations(got[d]) = i + 1..place[d]
                         /\ d \in late \/ Follows(d, i)
      BY <3>2, <3>3
    <3> QED
      BY <2>1, <3>1, <3>4 DEF RedisReads
  <2> QED
    BY <2>1, <2>2 DEF ReadersFit
<1> QED
  BY <1>1, <1>2, <1>3, <1>4, <1>5, <1>6 DEF StoreInv

LEMMA BothNextInv ==
    ASSUME StoreInv, PagesFit, ReadersFit, [BothNext]_bothVars
    PROVE  /\ StoreInv' /\ PagesFit' /\ ReadersFit'
           /\ [Promise!Next]_(Promise!vars) /\ [R!Promise!Next]_(R!Promise!vars)
<1>1. /\ MemoryFits' /\ [Promise!Next]_(Promise!vars)
      /\ RedisFits' /\ [R!Promise!Next]_(R!Promise!vars)
  <2>1. [Next]_vars /\ (R!Next \/ UNCHANGED redisVars)
    BY BothSteps DEF bothVars
  <2> QED
    BY <2>1, MemoryStep, RedisStep DEF StoreInv
<1>2. EventsFit /\ gen \in Nat
  BY DEF StoreInv, MemoryFits
<1>3. ASSUME UNCHANGED <<lease, gen, head, events, issued, reply, redisVars, twin>>
      PROVE  StoreInv'
  <2>1. TwinFits' /\ SameState' /\ EventsFit' /\ StreamFits'
    BY <1>3 DEF StoreInv, TwinFits, SameState, SameHead, EventsFit, StreamFits, redisVars
  <2> QED
    BY <1>1, <2>1 DEF StoreInv
<1>4. ASSUME UNCHANGED bothVars PROVE StoreInv' /\ PagesFit' /\ ReadersFit'
  <2>1. UNCHANGED <<lease, gen, head, events, issued, reply, redisVars, twin>> /\ UNCHANGED readerVars
    BY <1>4 DEF bothVars, vars, storeVars
  <2> QED
    BY <1>2, <1>3, <1>4, <2>1, PagesKept, ReadersStay DEF bothVars, vars, storeVars
<1>5. ASSUME NEW d \in Readers, Read(d) \/ CheckRetention(d) \/ StartBoth(d)
      PROVE  StoreInv' /\ PagesFit' /\ ReadersFit'
  <2>1. UNCHANGED <<lease, gen, head, events, issued, reply, redisVars, twin>>
    BY <1>5 DEF Read, CheckRetention, StartBoth, ReadEvents, StreamStart, vars, storeVars
  <2>2. ReadEvents(d) \/ StreamStart(d) \/ UNCHANGED readerVars
    BY <1>5 DEF Read, CheckRetention, StartBoth, vars
  <2>3. PagesFit'
    BY <1>2, <2>1, <2>2, ReadFits, PagesKept
  <2> QED
    BY <1>3, <1>5, <2>1, <2>3, ReadersStep
<1>6. ASSUME TwinFits' /\ SameState' /\ EventsFit' /\ StreamFits',
             UNCHANGED readerVars, UNCHANGED redisReaderVars,
             events' = events \/ \E e \in Entries : events' = Append(events, e)
      PROVE  StoreInv' /\ PagesFit' /\ ReadersFit'
  BY <1>1, <1>2, <1>6, PagesKept, ReadersStay DEF StoreInv
<1>7. ASSUME TimeRunsOutInBoth PROVE StoreInv' /\ PagesFit' /\ ReadersFit'
  BY <1>6, <1>7, LeaseAgrees DEF TimeRunsOutInBoth, TimeRunsOut
<1>8. ASSUME NEW o \in Owners, AcquireBoth(o) PROVE StoreInv' /\ PagesFit' /\ ReadersFit'
  BY <1>6, <1>8, AcquireAgrees DEF AcquireBoth, Acquire
<1>9. ASSUME NEW t \in issued, UseBoth(t) PROVE StoreInv' /\ PagesFit' /\ ReadersFit'
  <2>1. UNCHANGED twin /\ UNCHANGED redisReaderVars
    BY <1>9 DEF UseBoth
  <2>2. CASE Renew(t) /\ R!Renew(twin[t])
    BY <1>6, <2>1, <2>2, LeaseAgrees DEF Renew
  <2>3. CASE Release(t) /\ R!Release(twin[t])
    BY <1>6, <2>1, <2>3, LeaseAgrees DEF Release
  <2>4. CASE BeginReorg(t) /\ R!BeginReorg(twin[t])
    BY <1>6, <2>1, <2>4, BeginAgrees DEF BeginReorg
  <2>5. ASSUME NEW b \in Blocks, NEW epoch \in 0..MaxGen,
               Publish(t, b, epoch), R!Publish(twin[t], b, epoch)
        PROVE  StoreInv' /\ PagesFit' /\ ReadersFit'
    <3>1. UNCHANGED readerVars
      BY <2>5 DEF Publish
    <3>2. [id |-> gen + 1, block |-> b] \in Entries
      BY <1>2 DEF Entries
    <3>3. events' = events \/ events' = Append(events, [id |-> gen + 1, block |-> b])
      BY <2>5 DEF Publish
    <3> QED
      BY <1>6, <2>1, <2>5, <3>1, <3>2, <3>3, PublishAgrees
  <2> QED
    BY <1>9, <2>2, <2>3, <2>4, <2>5 DEF UseBoth
<1> QED
  BY <1>1, <1>4, <1>5, <1>7, <1>8, <1>9 DEF BothNext

LEMMA BothInvariance == BothSpec => [](StoreInv /\ PagesFit /\ ReadersFit)
<1>1. StoreInv /\ PagesFit /\ ReadersFit /\ [BothNext]_bothVars =>
         (StoreInv /\ PagesFit /\ ReadersFit)'
  BY BothNextInv
<1> QED
  BY <1>1, BothInitInv, PTL DEF BothSpec

\* A piece is what SubSeq cuts out.
LEMMA PieceIsSubSeq ==
    ASSUME EventsFit, NEW r \in Seq(Entries), NEW i \in Nat, Piece(r, i)
    PROVE  r = SubSeq(events, i + 1, i + Len(r)) /\ i \in 0..(Len(events) - Len(r))
<1>1. Len(r) \in Nat /\ events \in Seq(Entries) /\ Len(events) \in Nat
  BY DEF EventsFit
<1>2. i \in 0..(Len(events) - Len(r))
  BY <1>1 DEF Piece
<1> DEFINE m == i + 1
           n == i + Len(r)
           t == SubSeq(events, m, n)
<1>3. \A j \in m..n : events[j] \in Entries
  BY <1>1, <1>2
<1>4. m \in Int /\ n \in Int /\ n - m + 1 = Len(r) /\ (m <= n <=> Len(r) > 0)
  BY <1>1
<1>5. /\ t \in Seq(Entries) /\ Len(t) = IF m <= n THEN n - m + 1 ELSE 0
      /\ \A j \in 1..n - m + 1 : t[j] = events[m + j - 1]
  <2>1. m \in Int /\ n \in Int
    BY <1>4
  <2> HIDE DEF m, n
  <2> QED
    BY <1>3, <2>1, SubSeqProperties
<1>6. \A j \in 1..Len(r) : m + j - 1 = i + j
  BY <1>1
<1> HIDE DEF m, n, t
<1>7. Len(t) = Len(r)
  BY <1>1, <1>4, <1>5
<1>8. \A j \in 1..Len(r) : t[j] = r[j]
  BY <1>4, <1>5, <1>6 DEF Piece
<1>9. r = t
  BY <1>1, <1>5, <1>7, <1>8
<1> QED
  BY <1>2, <1>9 DEF m, n, t

(***************************************************************************)
(* The coordinators' calls are answered alike by both stores, and readers  *)
(* receive the same pages of events, whatever is published between XREAD   *)
(* and the retention check, with the two exceptions that trimming makes: a *)
(* reader whose cursor is gone is told so, and one that starts at "0-0"    *)
(* after a trim begins with what is left.                                  *)
(***************************************************************************)
THEOREM StoresNeverDisagree == BothSpec => []StoresAgree
<1>1. StoreInv /\ PagesFit /\ ReadersFit => StoresAgree
  <2> SUFFICES ASSUME StoreInv, PagesFit, ReadersFit PROVE StoresAgree
    OBVIOUS
  <2>1. Cardinality(redisEvents) = Min({StreamMax, Len(events)})
    BY StreamSize
  <2>2. ASSUME NEW d \in Readers
        PROVE  /\ d \in gap => place[d] + StreamMax <= Len(events)
               /\ \A e \in got[d] : events[e.generation].block = e.block
               /\ \E i \in 0..place[d] :
                     /\ {e.generation : e \in got[d]} = (i + 1)..place[d]
                     /\ d \in ReadAlike => received[d] = SubSeq(events, i + 1, place[d])
    <3>1. RedisReads(d) /\ place[d] \in Nat /\ received[d] \in Seq(Entries) /\ EventsFit
      BY DEF ReadersFit, RedisReads, PagesFit, StoreInv
    <3>2. PICK i \in Nat : /\ i <= place[d] /\ Generations(got[d]) = i + 1..place[d]
                           /\ d \in late \/ Follows(d, i)
      BY <3>1 DEF RedisReads
    <3>3. ASSUME d \in ReadAlike PROVE received[d] = SubSeq(events, i + 1, place[d])
      <4>1. Piece(received[d], i) /\ i + Len(received[d]) = place[d]
        BY <3>2, <3>3 DEF Follows, ReadAlike
      <4> QED
        BY <3>1, <4>1, PieceIsSubSeq
    <3>4. i \in 0..place[d]
      BY <3>1, <3>2
    <3>5. {e.generation : e \in got[d]} = (i + 1)..place[d]
      BY <3>2 DEF Generations
    <3> QED
      BY <3>1, <3>3, <3>4, <3>5 DEF RedisReads
  <2> QED
    BY <2>1, <2>2 DEF StoresAgree, StoreInv, SameState, StreamFits
<1> QED
  BY <1>1, BothInvariance, PTL

(***************************************************************************)
(* The in-memory store keeps the promise of a head store, although one     *)
(* counter numbers both its leases and its heads.                          *)
(***************************************************************************)
THEOREM MemoryImplementsPromise == BothSpec => KeepsPromise
<1>1. StoreInv /\ PagesFit /\ ReadersFit /\ [BothNext]_bothVars =>
         [Promise!Next]_(Promise!vars)
  BY BothNextInv
<1>2. BothInit => Promise!Init
  BY MemoryInit DEF BothInit
<1> QED
  BY <1>1, <1>2, BothInvariance, PTL DEF BothSpec, KeepsPromise, Promise!Spec

(***************************************************************************)
(* The Redis store keeps it, whatever tokens of earlier leases and of      *)
(* processes with the same name its callers come back with.                *)
(***************************************************************************)
THEOREM RedisImplementsPromise == BothSpec => RedisKeepsPromise
<1>1. StoreInv /\ PagesFit /\ ReadersFit /\ [BothNext]_bothVars =>
         [R!Promise!Next]_(R!Promise!vars)
  BY BothNextInv
<1>2. BothInit => R!Promise!Init
  BY RedisInit DEF BothInit
<1> QED
  BY <1>1, <1>2, BothInvariance, PTL
     DEF BothSpec, RedisKeepsPromise, R!KeepsPromise, R!Promise!Spec

(***************************************************************************)
(* What ReadEvents has given a reader is a piece of the events without     *)
(* hole or repetition, whatever was published between its pages.           *)
(***************************************************************************)
THEOREM PagesAreSeamless == BothSpec => []PagesJoinUp
<1>1. StoreInv /\ PagesFit => PagesJoinUp
  <2> SUFFICES ASSUME StoreInv, PagesFit, NEW d \in Readers
               PROVE  \E i \in 0..(Len(events) - Len(received[d])) :
                         received[d] = SubSeq(events, i + 1, i + Len(received[d]))
    BY DEF PagesJoinUp
  <2>1. EventsFit /\ received[d] \in Seq(Entries) /\ Len(received[d]) \in Nat /\ Len(events) \in Nat
    BY DEF StoreInv, EventsFit, PagesFit
  <2>2. PICK i \in Nat : Piece(received[d], i)
    <3>1. CASE received[d] = <<>>
      BY <2>1, <3>1 DEF Piece
    <3>2. CASE received[d] # <<>>
      BY <3>2 DEF PagesFit
    <3> QED
      BY <3>1, <3>2
  <2> QED
    BY <2>1, <2>2, PieceIsSubSeq
<1> QED
  BY <1>1, BothInvariance, PTL
=============================================================================
