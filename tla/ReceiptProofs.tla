--------------------------- MODULE ReceiptProofs ---------------------------
(***************************************************************************)
(* Why a shared receipt is one its reader may be given, for any block      *)
(* tree, any depth and any number of requests, providers and reorgs.       *)
(***************************************************************************)
EXTENDS ReceiptCache, WellFoundedInduction, TLAPS

-----------------------------------------------------------------------------
(* Hash chains *)

LEMMA LeastNat ==
    ASSUME NEW T \in SUBSET Nat, T # {}
    PROVE  \E n \in T : \A m \in T : n <= m
<1> DEFINE R == OpToRel(<, Nat)
<1>1. IsWellFoundedOn(R, Nat)
  BY NatLessThanWellFounded, Zenon
<1>2. PICK n \in T : \A m \in T : ~(<<m, n>> \in R)
  <2> HIDE DEF R
  <2> QED
    BY <1>1, WFMin, Zenon
<1>3. \A m \in T : ~(m < n)
  BY <1>2 DEF OpToRel
<1> QED
  BY <1>3

\* What ContainsBlock proves is ancestry: the first position of its walk that
\* is no ancestor would be the parent of one that is.
LEMMA ContainedIsAncestor ==
    ASSUME NEW b \in Blocks, NEW accepted \in Blocks, ContainsBlock(b, accepted)
    PROVE  b \in Anc[accepted]
<1> DEFINE n == Number[accepted] - Number[b]
<1>1. n \in Nat
  BY DepthAssumption DEF ContainsBlock
<1>2. PICK path \in [0..n -> Blocks] :
        /\ path[0] = accepted /\ path[n] = b
        /\ \A k \in 1..n : path[k] = Parent[path[k-1]]
  BY DEF ContainsBlock
<1> HIDE DEF n
<1> DEFINE T == {k \in 0..n : path[k] \notin Anc[accepted]}
<1> SUFFICES ASSUME T # {} PROVE FALSE
  BY <1>1, <1>2
<1>3. T \in SUBSET Nat
  BY <1>1
<1>4. PICK k \in T : \A m \in T : k <= m
  <2> HIDE DEF T
  <2> QED
    BY <1>3, LeastNat
<1>5. k # 0
  BY <1>2, <1>4, AncestryAssumption
<1>6. k \in 1..n /\ k-1 \in 0..n /\ k-1 \notin T
  BY <1>1, <1>4, <1>5
<1>7. path[k-1] \in Anc[accepted] /\ path[k-1] \in Blocks /\ path[k] = Parent[path[k-1]]
      /\ path[k] \in Blocks
  BY <1>2, <1>6
<1>8. path[k] \in Anc[path[k-1]]
  BY <1>7, AncestryAssumption
<1>9. path[k] \in Anc[accepted]
  BY <1>7, <1>8, AncestryAssumption
<1> QED
  BY <1>4, <1>9

LEMMA AncTransitive ==
    ASSUME NEW a, NEW b \in Blocks, NEW c \in Blocks, a \in Anc[b], b \in Anc[c]
    PROVE  a \in Anc[c]
BY AncestryAssumption

\* a is an ancestor of c, or c itself, and the headers from c down to a link up.
Precedes(a, c) == a \in Anc[c] /\ \A d \in Anc[c] \ Anc[a] : Linked(d)

LEMMA PrecedesItself ==
    ASSUME NEW a \in Blocks
    PROVE  Precedes(a, a)
BY AncestryAssumption DEF Precedes

LEMMA PrecedesAfterAdvance ==
    ASSUME NEW a \in Blocks, NEW b \in Blocks, NEW c \in Blocks, Precedes(a, b), Extends(b, c)
    PROVE  Precedes(a, c)
BY AncestryAssumption DEF Precedes, Extends

(***************************************************************************)
(* A block of v's chain that is not on the chain of its linked ancestor x  *)
(* is above x, in the chain and in number.                                 *)
(***************************************************************************)
LEMMA AbovePredecessor ==
    ASSUME NEW v \in Blocks, NEW x \in Blocks, Precedes(x, v), NEW b \in Anc[v], b \notin Anc[x]
    PROVE  Number[x] < Number[b]
<1> DEFINE Bad(w) == /\ Precedes(x, w)
                     /\ \E d \in Anc[w] : d \notin Anc[x] /\ ~(Number[x] < Number[d])
           T == {Number[w] : w \in {u \in Blocks : Bad(u)}}
<1> SUFFICES ASSUME \E w \in Blocks : Bad(w) PROVE FALSE
  OBVIOUS
<1>1. T \in SUBSET Nat /\ T # {}
  BY HeaderAssumption
<1>2. PICK n \in T : \A m \in T : n <= m
  <2> HIDE DEF T
  <2> QED
    BY <1>1, LeastNat
<1>3. PICK w \in Blocks : Bad(w) /\ Number[w] = n
  BY <1>2
<1>4. PICK d \in Anc[w] : d \notin Anc[x] /\ ~(Number[x] < Number[d])
  BY <1>3
<1> DEFINE u == Parent[w]
<1>5. w \notin Anc[x] /\ x # w /\ x \in Anc[w]
  BY <1>3, <1>4, AncestryAssumption DEF Precedes
<1>6. Linked(w)
  BY <1>3, <1>5, AncestryAssumption DEF Precedes
<1>7. u \in Blocks /\ Anc[w] = {w} \cup Anc[u] /\ Number[u] + 1 = Number[w]
  BY <1>6, AncestryAssumption DEF Linked
<1>8. x \in Anc[u] /\ Precedes(x, u)
  BY <1>3, <1>5, <1>7 DEF Precedes
<1>9. ~Bad(u)
  <2>1. ~(n <= Number[u])
    BY <1>3, <1>7, HeaderAssumption
  <2> QED
    BY <1>2, <1>7, <2>1
<1>10. CASE d # w
  BY <1>4, <1>7, <1>8, <1>9, <1>10
<1>11. CASE d = w
  <2>1. CASE u = x
    BY <1>4, <1>7, <1>11, <2>1, HeaderAssumption
  <2>2. CASE u # x
    <3>1. u \notin Anc[x] /\ u \in Anc[u]
      BY <1>7, <1>8, <2>2, AncestryAssumption
    <3>2. Number[x] < Number[u]
      BY <1>8, <1>9, <3>1
    <3> QED
      BY <1>4, <1>7, <1>11, <3>2, HeaderAssumption
  <2> QED
    BY <2>1, <2>2
<1> QED
  BY <1>10, <1>11

-----------------------------------------------------------------------------
(* The invariant *)

\* The heads of one epoch, among them those the requests are pinned to, lie on
\* one linked chain.
PinFits(r) ==
    /\ pin[r] = NoHead <=> stage[r] = "start"
    /\ pin[r] # NoHead =>
         /\ head # NoHead /\ pin[r].epoch <= head.epoch
         /\ pin[r].epoch = head.epoch => ~head.pending /\ Precedes(pin[r].block, head.block)

PinsOrdered ==
    \A r, s \in Requests :
        pin[r] # NoHead /\ pin[s] # NoHead /\ pin[r].epoch = pin[s].epoch =>
            \/ Precedes(pin[r].block, pin[s].block)
            \/ Precedes(pin[s].block, pin[r].block)

\* b, kept or about to be kept under epoch e, is right for every reader there is.
EntryFits(b, e) ==
    /\ head # NoHead /\ e <= head.epoch
    /\ e = head.epoch => ~head.pending /\ b \in Anc[head.block]
    /\ \A r \in Requests :
         pin[r] # NoHead /\ pin[r].epoch = e /\ Number[b] <= Number[pin[r].block]
            => b \in Anc[pin[r].block]

CacheFits == \A e \in 0..MaxEpoch : cache[e] # NoBlock => EntryFits(cache[e], e)

\* What a load pinned to p may end with.
ResultFits(result, p) ==
    /\ result.kind = "receipt" /\ result.cached /\ Number[result.block] <= Number[p] =>
         result.block \in Anc[p]
    /\ result.kind = "null" =>
         ~result.failed /\ \A b \in result.above : Number[b] > Number[p]

\* No more loads found nothing than count, and fewer if one of these failed.
Counts(v) == v.nulls <= v.eligible /\ (v.failed => v.nulls < v.eligible)

\* A load or a request ends with its own context, a load only if nobody else can
\* be waiting for it.
EndedOwn(result, r) == result.kind = "cancelled" => r \in gone /\ result.by = r

LoadFits(l) ==
    /\ stage[l] \in {"start", "lookup", "miss"} => load[l].at = "off"
    /\ load[l].at # "off" => \A b \in load[l].above : Number[b] > Number[pin[l].block]
    /\ load[l].at = "verify" => load[l].result.kind = "receipt" /\ ~load[l].result.cached
    /\ load[l].at # "off" => Counts(load[l])
    /\ load[l].at = "done" =>
         /\ ResultFits(load[l].result, pin[l].block)
         /\ EndedOwn(load[l].result, l)
         /\ load[l].keyed => load[l].result.kind # "cancelled"

\* Who waits for another's load is pinned to the same block.
JoinFits(r) ==
    joined[r] # r =>
        /\ pin[r] # NoHead /\ pin[joined[r]] # NoHead
        /\ pin[joined[r]].block = pin[r].block
        /\ load[joined[r]].keyed /\ load[joined[r]].at # "off"

AnswerFits(r) ==
    /\ EndedOwn(answer[r], r)
    /\ stage[r] \in {"answered", "replied"} =>
         /\ ResultFits(answer[r], pin[r].block)
         /\ answer[r].kind = "receipt" => Number[answer[r].block] <= Number[pin[r].block]

IInv ==
    /\ TypeOK
    /\ head # NoHead => head.epoch <= MaxEpoch
    /\ PinsOrdered
    /\ CacheFits
    /\ \A r \in Requests : PinFits(r) /\ LoadFits(r) /\ JoinFits(r) /\ AnswerFits(r)

-----------------------------------------------------------------------------
(* The head moves *)

LEMMA HeadStep ==
    ASSUME TypeOK, HeadMoves
    PROVE  /\ head' \in Accepted!AcceptedHeads /\ head' # NoHead /\ head'.epoch <= MaxEpoch
           /\ \/ head = NoHead
              \/ /\ head # NoHead /\ head'.epoch = head.epoch + 1
              \/ /\ head # NoHead /\ head.pending /\ head'.epoch = head.epoch
              \/ /\ head # NoHead /\ head'.epoch = head.epoch /\ ~head'.pending
                 /\ Extends(head.block, head'.block)
<1> DEFINE Heads == Accepted!AcceptedHeads
<1>1. NoHead \notin Heads
  BY ReceiptAssumption DEF Accepted!AcceptedHeads
<1>2. head'.epoch <= MaxEpoch /\ Accepted!Next
  BY DEF HeadMoves, HeadSeen
<1>3. ASSUME NEW b \in Blocks, Accepted!First(b)
      PROVE  head = NoHead /\ head' \in Heads
  BY <1>3 DEF Accepted!First, Accepted!AcceptedHeads
<1>4. ASSUME NEW b \in Blocks, head # NoHead, head' = Accepted!MovedTo(b)
      PROVE  head' \in Heads /\ ~head'.pending /\ head'.epoch = head.epoch /\ head'.block = b
  <2> DEFINE g == IF b = head.block THEN head.generation ELSE head.generation + 1
  <2>1. head.epoch \in Nat /\ head.generation \in Nat
    BY <1>4 DEF TypeOK, Accepted!AcceptedHeads
  <2>2. head' = [block |-> b, epoch |-> head.epoch, pending |-> FALSE, generation |-> g]
    BY <1>4 DEF Accepted!MovedTo
  <2>3. g \in Nat
    BY <2>1
  <2> HIDE DEF g
  <2> QED
    BY <2>1, <2>2, <2>3 DEF Accepted!AcceptedHeads
<1>5. ASSUME NEW b \in Blocks, Accepted!Advance(b)
      PROVE  /\ head' \in Heads /\ head # NoHead /\ head'.epoch = head.epoch /\ ~head'.pending
             /\ Extends(head.block, head'.block)
  <2>1. head' \in Heads /\ head'.epoch = head.epoch /\ ~head'.pending /\ head'.block = b
    BY <1>4, <1>5 DEF Accepted!Advance
  <2>2. head # NoHead /\ Extends(head.block, b)
    BY <1>5 DEF Accepted!Advance, Accepted!Extends, Extends, Accepted!Linked, Linked
  <2> QED
    BY <2>1, <2>2
<1>6. ASSUME NEW b \in Blocks, Accepted!Recover(b)
      PROVE  head' \in Heads /\ head # NoHead /\ head.pending /\ head'.epoch = head.epoch
  BY <1>4, <1>6 DEF Accepted!Recover
<1> HIDE DEF Heads
<1>7. \/ head' \in Heads /\ head # NoHead /\ head'.epoch = head.epoch + 1
      \/ \E b \in Blocks : Accepted!First(b) \/ Accepted!Advance(b) \/ Accepted!Recover(b)
  <2>1. CASE Accepted!Fence
    <3> DEFINE g == [head EXCEPT !.epoch = @ + 1]
    <3>1. head # NoHead /\ head' = [g EXCEPT !.pending = TRUE] /\ head \in Heads
      BY <2>1 DEF Accepted!Fence, TypeOK, Heads
    <3>2. g \in Heads /\ g.epoch = head.epoch + 1
      BY <3>1 DEF Accepted!AcceptedHeads, Heads
    <3> HIDE DEF g
    <3> QED
      BY <3>1, <3>2 DEF Accepted!AcceptedHeads, Heads
  <2> QED
    BY <1>2, <2>1 DEF Accepted!Next
<1>8. head' \in Heads
  BY <1>3, <1>5, <1>6, <1>7
<1> QED
  BY <1>1, <1>2, <1>3, <1>5, <1>6, <1>7, <1>8 DEF Heads

LEMMA HeadMovesInv ==
    ASSUME IInv, HeadMoves
    PROVE  IInv'
<1>1. UNCHANGED <<pin, stage, cache, load, joined, answer, gone>>
  BY DEF HeadMoves, HeadSeen
<1>2. TypeOK' /\ head' # NoHead /\ head'.epoch <= MaxEpoch
  BY <1>1, HeadStep DEF IInv, TypeOK
<1>3. ASSUME head # NoHead
      PROVE  /\ head \in Accepted!AcceptedHeads /\ head' \in Accepted!AcceptedHeads
             /\ head.epoch \in Nat /\ head'.epoch \in Nat /\ head.epoch <= head'.epoch
             /\ head.block \in Blocks /\ head'.block \in Blocks
             /\ head'.epoch = head.epoch /\ ~head.pending => ~head'.pending /\ Extends(head.block, head'.block)
  <2>1. head \in Accepted!AcceptedHeads /\ head' \in Accepted!AcceptedHeads
    BY <1>3, HeadStep DEF IInv, TypeOK
  <2>2. /\ head.epoch \in Nat /\ head'.epoch \in Nat
        /\ head.block \in Blocks /\ head'.block \in Blocks
    BY <2>1 DEF Accepted!AcceptedHeads
  <2> QED
    BY <1>3, <2>1, <2>2, HeadStep DEF IInv
<1>4. \A r \in Requests : PinFits(r)'
  <2> SUFFICES ASSUME NEW r \in Requests PROVE PinFits(r)'
    OBVIOUS
  <2>1. PinFits(r)
    BY DEF IInv
  <2>2. CASE pin[r] = NoHead
    BY <1>1, <2>1, <2>2 DEF PinFits
  <2>3. CASE pin[r] # NoHead
    <3>1. /\ head # NoHead /\ pin[r].epoch \in Nat /\ pin[r].block \in Blocks
          /\ pin[r].epoch <= head.epoch
      BY <2>1, <2>3 DEF PinFits, IInv, TypeOK, Accepted!AcceptedHeads
    <3>2. pin[r].epoch = head'.epoch => pin[r].epoch = head.epoch /\ head'.epoch = head.epoch
      BY <1>3, <3>1
    <3>3. pin[r].epoch = head'.epoch => ~head'.pending /\ Precedes(pin[r].block, head'.block)
      BY <1>3, <2>1, <2>3, <3>1, <3>2, PrecedesAfterAdvance DEF PinFits
    <3>4. pin[r].epoch <= head'.epoch
      BY <1>3, <3>1
    <3> QED
      BY <1>1, <1>2, <2>1, <2>3, <3>3, <3>4 DEF PinFits
  <2> QED
    BY <2>2, <2>3
<1>5. CacheFits'
  <2> SUFFICES ASSUME NEW e \in 0..MaxEpoch, cache[e] # NoBlock
               PROVE  EntryFits(cache[e], e)'
    BY <1>1 DEF CacheFits
  <2>1. EntryFits(cache[e], e) /\ e \in Nat
    BY DEF IInv, CacheFits
  <2>2. head # NoHead /\ e <= head.epoch
    BY <2>1 DEF EntryFits
  <2>3. e <= head'.epoch
    BY <1>3, <2>1, <2>2
  <2>4. e = head'.epoch => e = head.epoch /\ head'.epoch = head.epoch
    BY <1>3, <2>1, <2>2
  <2>5. e = head'.epoch => ~head'.pending /\ cache[e] \in Anc[head'.block]
    <3>1. cache[e] \in Blocks
      BY ReceiptAssumption DEF IInv, TypeOK
    <3> QED
      BY <1>3, <2>1, <2>2, <2>4, <3>1, AncestryAssumption DEF EntryFits, Extends
  <2> QED
    BY <1>1, <1>2, <2>1, <2>3, <2>5 DEF EntryFits
<1>6. PinsOrdered' /\ \A r \in Requests : LoadFits(r)' /\ JoinFits(r)' /\ AnswerFits(r)'
  BY <1>1 DEF IInv, PinsOrdered, LoadFits, JoinFits, AnswerFits, EndedOwn
<1> QED
  BY <1>2, <1>4, <1>5, <1>6 DEF IInv

-----------------------------------------------------------------------------
(* The cache on its own, and a new pin *)

LEMMA EvictInv ==
    ASSUME IInv, NEW e \in 0..MaxEpoch, Evict(e)
    PROVE  IInv'
<1>1. /\ cache' = [cache EXCEPT ![e] = NoBlock]
      /\ UNCHANGED <<head, pin, stage, load, joined, answer, gone>>
  BY DEF Evict
<1>2. TypeOK'
  BY <1>1 DEF IInv, TypeOK
<1>3. CacheFits'
  BY <1>1 DEF IInv, TypeOK, CacheFits, EntryFits
<1> QED
  BY <1>1, <1>2, <1>3
     DEF IInv, PinsOrdered, PinFits, LoadFits, JoinFits, AnswerFits, EndedOwn

\* A pin is a head of its own epoch's chain.
LEMMA PinTyped ==
    ASSUME IInv, NEW r \in Requests, pin[r] # NoHead
    PROVE  /\ pin[r].block \in Blocks /\ pin[r].epoch \in 0..MaxEpoch
           /\ head # NoHead /\ head.epoch \in 0..MaxEpoch /\ head.block \in Blocks
<1>1. PinFits(r) /\ pin[r] \in Accepted!AcceptedHeads
  BY DEF IInv, TypeOK
<1>2. head # NoHead /\ head \in Accepted!AcceptedHeads /\ pin[r].epoch <= head.epoch
  BY <1>1 DEF IInv, TypeOK, PinFits
<1>3. head.epoch <= MaxEpoch
  BY <1>2 DEF IInv
<1> QED
  BY <1>1, <1>2, <1>3, ReceiptAssumption DEF Accepted!AcceptedHeads

LEMMA TakeSnapshotInv ==
    ASSUME IInv, NEW r \in Requests, TakeSnapshot(r)
    PROVE  IInv'
<1>1. /\ stage[r] = "start" /\ head # NoHead /\ ~head.pending
      /\ pin' = [pin EXCEPT ![r] = head]
      /\ stage' = [stage EXCEPT ![r] = "lookup"]
      /\ UNCHANGED <<head, cache, load, joined, answer, gone>>
  BY DEF TakeSnapshot
<1>2. TypeOK'
  <2>1. stage' \in [Requests -> {"start", "lookup", "miss", "wait", "answered", "replied"}]
    BY <1>1 DEF IInv, TypeOK
  <2>2. pin' \in [Requests -> Accepted!AcceptedHeads \cup {NoHead}]
    BY <1>1 DEF IInv, TypeOK
  <2>3. \A s \in Requests : stage'[s] = "wait" => load'[joined'[s]].at # "off"
    BY <1>1 DEF IInv, TypeOK
  <2> QED
    BY <1>1, <2>1, <2>2, <2>3 DEF IInv, TypeOK
<1>3. /\ pin[r] = NoHead /\ pin'[r] = head /\ stage'[r] = "lookup"
      /\ \A s \in Requests \ {r} : pin'[s] = pin[s] /\ stage'[s] = stage[s]
  BY <1>1 DEF IInv, TypeOK, PinFits
<1>4. head \in Accepted!AcceptedHeads /\ head.block \in Blocks /\ head.epoch \in 0..MaxEpoch
  BY <1>1, ReceiptAssumption DEF IInv, TypeOK, Accepted!AcceptedHeads
<1>5. \A s \in Requests : PinFits(s)'
  <2>1. PinFits(r)'
    BY <1>1, <1>3, <1>4, PrecedesItself DEF PinFits
  <2>2. \A s \in Requests \ {r} : PinFits(s)'
    BY <1>1, <1>3 DEF IInv, PinFits
  <2> QED
    BY <2>1, <2>2
<1>6. PinsOrdered'
  <2> SUFFICES ASSUME NEW s \in Requests, NEW t \in Requests,
                      pin'[s] # NoHead, pin'[t] # NoHead, pin'[s].epoch = pin'[t].epoch
               PROVE  \/ Precedes(pin'[s].block, pin'[t].block)
                      \/ Precedes(pin'[t].block, pin'[s].block)
    BY DEF PinsOrdered
  <2>1. CASE s # r /\ t # r
    BY <1>3, <2>1 DEF IInv, PinsOrdered
  <2>2. CASE s = r /\ t # r
    BY <1>3, <2>2 DEF IInv, PinFits
  <2>3. CASE s # r /\ t = r
    BY <1>3, <2>3 DEF IInv, PinFits
  <2>4. CASE s = r /\ t = r
    BY <1>3, <1>4, <2>4, PrecedesItself
  <2> QED
    BY <2>1, <2>2, <2>3, <2>4
<1>7. CacheFits'
  <2> SUFFICES ASSUME NEW e \in 0..MaxEpoch, cache[e] # NoBlock
               PROVE  EntryFits(cache[e], e)'
    BY <1>1 DEF CacheFits
  <2>1. EntryFits(cache[e], e)
    BY DEF IInv, CacheFits
  <2> QED
    BY <1>1, <1>3, <2>1 DEF EntryFits
<1>8. \A s \in Requests : LoadFits(s)' /\ AnswerFits(s)'
  <2>1. load[r].at = "off" /\ AnswerFits(r)
    BY <1>1 DEF IInv, LoadFits
  <2>2. LoadFits(r)' /\ AnswerFits(r)'
    BY <1>1, <1>3, <2>1 DEF LoadFits, AnswerFits, EndedOwn, Counts
  <2>3. \A s \in Requests \ {r} : LoadFits(s)' /\ AnswerFits(s)'
    BY <1>1, <1>3 DEF IInv, LoadFits, AnswerFits, EndedOwn
  <2> QED
    BY <2>2, <2>3
<1>9. \A s \in Requests : JoinFits(s)'
  <2> SUFFICES ASSUME NEW s \in Requests, joined[s] # s PROVE JoinFits(s)'
    BY <1>1 DEF JoinFits
  <2>1. JoinFits(s) /\ joined[s] \in Requests
    BY DEF IInv, TypeOK
  <2>2. s # r /\ joined[s] # r
    BY <1>3, <2>1 DEF JoinFits
  <2> QED
    BY <1>1, <1>3, <2>1, <2>2 DEF JoinFits
<1> QED
  BY <1>1, <1>2, <1>5, <1>6, <1>7, <1>8, <1>9 DEF IInv

-----------------------------------------------------------------------------
(* Requests and loads *)

\* A step of one request or of its load concerns the others only through the
\* load they may have joined.
LEMMA OthersUndisturbed ==
    ASSUME IInv, NEW r \in Requests, stage[r] # "start",
           UNCHANGED <<head, pin>>,
           stage' \in [Requests -> {"start", "lookup", "miss", "wait", "answered", "replied"}],
           cache' \in [0..MaxEpoch -> Inclusion \cup {NoBlock}],
           load' \in [Requests -> Loads],
           joined' \in [Requests -> Requests],
           answer' \in [Requests -> Results],
           \A s \in Requests \ {r} : /\ stage'[s] = stage[s] /\ load'[s] = load[s]
                                     /\ joined'[s] = joined[s] /\ answer'[s] = answer[s],
           gone \subseteq gone', gone' \subseteq Requests,
           stage'[r] # "start",
           load[r].keyed /\ load[r].at # "off" => load'[r].keyed /\ load'[r].at # "off",
           stage'[r] = "wait" => load'[joined'[r]].at # "off",
           CacheFits', LoadFits(r)', JoinFits(r)', AnswerFits(r)'
    PROVE  IInv'
<1>1. \A s \in Requests : PinFits(s)'
  BY DEF IInv, PinFits
<1>2. PinsOrdered'
  BY DEF IInv, PinsOrdered
<1>3. \A s \in Requests : LoadFits(s)' /\ AnswerFits(s)'
  <2> SUFFICES ASSUME NEW s \in Requests \ {r} PROVE LoadFits(s)' /\ AnswerFits(s)'
    OBVIOUS
  <2>1. LoadFits(s) /\ AnswerFits(s)
    BY DEF IInv
  <2> QED
    BY <2>1 DEF LoadFits, AnswerFits, EndedOwn, Counts
<1>4. ASSUME NEW s \in Requests \ {r}
      PROVE  JoinFits(s)' /\ (stage'[s] = "wait" => load'[joined'[s]].at # "off")
  <2>1. JoinFits(s) /\ joined[s] \in Requests /\ (stage[s] = "wait" => load[joined[s]].at # "off")
    BY DEF IInv, TypeOK
  <2>2. CASE joined[s] = r
    <3>1. load[r].keyed /\ load[r].at # "off"
      BY <2>1, <2>2 DEF JoinFits
    <3> QED
      BY <2>1, <2>2, <3>1 DEF JoinFits
  <2>3. CASE joined[s] # r
    BY <2>1, <2>3 DEF JoinFits
  <2> QED
    BY <2>2, <2>3
<1>5. TypeOK'
  <2>1. \A s \in Requests : stage'[s] = "wait" => load'[joined'[s]].at # "off"
    BY <1>4
  <2>2. head \in Accepted!AcceptedHeads \cup {NoHead} /\ pin \in [Requests -> Accepted!AcceptedHeads \cup {NoHead}]
    BY DEF IInv, TypeOK
  <2> QED
    BY <2>1, <2>2 DEF TypeOK
<1>6. head' # NoHead => head'.epoch <= MaxEpoch
  BY DEF IInv
<1> QED
  BY <1>1, <1>2, <1>3, <1>4, <1>5, <1>6 DEF IInv

LEMMA CacheStays ==
    ASSUME IInv, UNCHANGED <<head, pin, cache>>
    PROVE  CacheFits' /\ cache' \in [0..MaxEpoch -> Inclusion \cup {NoBlock}]
<1>1. CacheFits'
  BY DEF IInv, CacheFits, EntryFits
<1> QED
  BY <1>1 DEF IInv, TypeOK

LEMMA GoneStays ==
    ASSUME IInv, UNCHANGED gone
    PROVE  gone \subseteq gone' /\ gone' \subseteq Requests
BY DEF IInv, TypeOK

LEMMA NewLoadTyped ==
    ASSUME NEW keyed \in BOOLEAN, NEW at \in {"off", "recheck", "route", "verify", "done"}
    PROVE  /\ NewLoad(keyed, at) \in Loads
           /\ NewLoad(keyed, at).at = at /\ NewLoad(keyed, at).keyed = keyed
           /\ NewLoad(keyed, at).above = {} /\ Counts(NewLoad(keyed, at))
<1>1. Nothing \in Results
  BY DEF Nothing, Results
<1> QED
  BY <1>1 DEF NewLoad, Loads, Counts

LEMMA ReceiptTyped ==
    ASSUME NEW b \in Inclusion, NEW c \in BOOLEAN
    PROVE  /\ Receipt(b, c) \in Results /\ Receipt(b, c).kind = "receipt"
           /\ Receipt(b, c).block = b /\ Receipt(b, c).cached = c
BY DEF Receipt, Results

LEMMA ErrorTyped == Error \in Results /\ Error.kind = "error"
BY DEF Error, Results

LEMMA CancelledTyped ==
    ASSUME NEW r \in Requests
    PROVE  Cancelled(r) \in Results /\ Cancelled(r).kind = "cancelled" /\ Cancelled(r).by = r
BY DEF Cancelled, Results

LEMMA NullTyped ==
    ASSUME NEW above \in SUBSET Inclusion, NEW failed \in BOOLEAN
    PROVE  /\ Null(above, failed) \in Results /\ Null(above, failed).kind = "null"
           /\ Null(above, failed).above = above /\ Null(above, failed).failed = failed
BY DEF Null, Results

\* A receipt among the results names a block that contains the transaction.
LEMMA ReceiptResult ==
    ASSUME NEW result \in Results, result.kind = "receipt"
    PROVE  result.block \in Inclusion /\ result.block \in Blocks /\ result.cached \in BOOLEAN
BY ReceiptAssumption DEF Results

\* The caller's ceiling makes a fitting answer of a fitting result.
LEMMA CappedFits ==
    ASSUME NEW accepted, accepted.block \in Blocks, NEW result \in Results,
           ResultFits(result, accepted.block)
    PROVE  /\ Capped(accepted, result) \in Results
           /\ ResultFits(Capped(accepted, result), accepted.block)
           /\ Capped(accepted, result).kind = "receipt" =>
                Number[Capped(accepted, result).block] <= Number[accepted.block]
           /\ Capped(accepted, result) # result => Capped(accepted, result).kind = "null"
<1>1. CASE result.kind = "receipt" /\ Number[result.block] > Number[accepted.block]
  <2>1. result.block \in Inclusion
    BY <1>1, ReceiptResult
  <2>2. Capped(accepted, result) = Null({result.block}, FALSE)
    BY <1>1 DEF Capped
  <2> DEFINE n == Null({result.block}, FALSE)
  <2>3. n \in Results /\ n.kind = "null" /\ n.above = {result.block} /\ n.failed = FALSE
    BY <2>1, NullTyped
  <2> HIDE DEF n
  <2>4. ResultFits(n, accepted.block)
    BY <1>1, <2>3 DEF ResultFits
  <2> QED
    BY <2>2, <2>3, <2>4 DEF n
<1>2. CASE ~(result.kind = "receipt" /\ Number[result.block] > Number[accepted.block])
  <2>1. Capped(accepted, result) = result
    BY <1>2 DEF Capped
  <2>2. result.kind = "receipt" => Number[result.block] <= Number[accepted.block]
    BY <1>2, ReceiptResult, HeaderAssumption
  <2> QED
    BY <2>1, <2>2
<1> QED
  BY <1>1, <1>2

\* What the cache holds under a pin's epoch fits that pin.
LEMMA CachedFits ==
    ASSUME IInv, NEW r \in Requests, pin[r] # NoHead, cache[CacheKey(pin[r])] # NoBlock
    PROVE  /\ Receipt(cache[CacheKey(pin[r])], TRUE) \in Results
           /\ ResultFits(Receipt(cache[CacheKey(pin[r])], TRUE), pin[r].block)
<1> DEFINE e == pin[r].epoch
<1>1. e \in 0..MaxEpoch /\ CacheKey(pin[r]) = e
  BY PinTyped DEF CacheKey
<1>2. cache[e] \in Inclusion /\ EntryFits(cache[e], e)
  BY <1>1 DEF IInv, TypeOK, CacheFits
<1> QED
  BY <1>1, <1>2, ReceiptTyped DEF EntryFits, ResultFits

LEMMA BypassInv ==
    ASSUME IInv, NEW r \in Requests, Bypass(r)
    PROVE  IInv'
<1>1. /\ stage[r] = "lookup" /\ UNCHANGED <<head, pin, cache, joined, answer, gone>>
      /\ load' = [load EXCEPT ![r] = NewLoad(FALSE, "route")]
      /\ stage' = [stage EXCEPT ![r] = "wait"]
  BY DEF Bypass
<1>2. LoadFits(r) /\ JoinFits(r) /\ AnswerFits(r) /\ load[r].at = "off"
  BY <1>1 DEF IInv, LoadFits
<1>3. /\ stage' \in [Requests -> {"start", "lookup", "miss", "wait", "answered", "replied"}]
      /\ load' \in [Requests -> Loads]
      /\ joined' \in [Requests -> Requests] /\ answer' \in [Requests -> Results]
  BY <1>1, NewLoadTyped DEF IInv, TypeOK
<1>4. stage'[r] = "wait" /\ load'[r].at = "route" /\ load'[r].above = {} /\ Counts(load'[r])
  BY <1>1, NewLoadTyped DEF IInv, TypeOK
<1>5. \A s \in Requests \ {r} : stage'[s] = stage[s] /\ load'[s] = load[s]
  BY <1>1 DEF IInv, TypeOK
<1>6. LoadFits(r)' /\ JoinFits(r)' /\ AnswerFits(r)'
  <2>1. joined[r] \in Requests
    BY DEF IInv, TypeOK
  <2> QED
    BY <1>1, <1>2, <1>4, <1>5, <2>1 DEF LoadFits, JoinFits, AnswerFits, EndedOwn, Counts
<1>7. load'[joined'[r]].at # "off"
  <2>1. joined[r] \in Requests
    BY DEF IInv, TypeOK
  <2> QED
    BY <1>1, <1>2, <1>4, <1>5, <2>1 DEF JoinFits
<1> QED
  BY <1>1, <1>2, <1>3, <1>4, <1>5, <1>6, <1>7, CacheStays, GoneStays, OthersUndisturbed

LEMMA LookupInv ==
    ASSUME IInv, NEW r \in Requests, Lookup(r)
    PROVE  IInv'
<1> DEFINE b == cache[CacheKey(pin[r])]
           a == Capped(pin[r], Receipt(b, TRUE))
<1>1. stage[r] = "lookup" /\ UNCHANGED <<head, pin, cache, load, joined, gone>>
  BY DEF Lookup
<1>2. LoadFits(r) /\ JoinFits(r) /\ AnswerFits(r) /\ load[r].at = "off" /\ pin[r] # NoHead
  BY <1>1 DEF IInv, LoadFits, PinFits
<1>3. load' \in [Requests -> Loads] /\ joined' \in [Requests -> Requests]
  BY <1>1 DEF IInv, TypeOK
<1>4. CASE b = NoBlock
  <2>1. stage' = [stage EXCEPT ![r] = "miss"] /\ answer' = answer
    BY <1>4 DEF Lookup
  <2>2. /\ stage' \in [Requests -> {"start", "lookup", "miss", "wait", "answered", "replied"}]
        /\ answer' \in [Requests -> Results] /\ stage'[r] = "miss"
        /\ \A s \in Requests \ {r} : stage'[s] = stage[s]
    BY <2>1 DEF IInv, TypeOK
  <2>3. LoadFits(r)' /\ JoinFits(r)' /\ AnswerFits(r)'
    BY <1>1, <1>2, <2>1, <2>2 DEF LoadFits, JoinFits, AnswerFits, EndedOwn, Counts
  <2> QED
    BY <1>1, <1>2, <1>3, <2>1, <2>2, <2>3, CacheStays, GoneStays, OthersUndisturbed
<1>5. CASE b # NoBlock
  <2>1. stage' = [stage EXCEPT ![r] = "answered"] /\ answer' = [answer EXCEPT ![r] = a]
    BY <1>5 DEF Lookup
  <2>2. /\ a \in Results /\ ResultFits(a, pin[r].block) /\ EndedOwn(a, r)
        /\ a.kind = "receipt" => Number[a.block] <= Number[pin[r].block]
    <3>1. /\ Receipt(b, TRUE) \in Results /\ ResultFits(Receipt(b, TRUE), pin[r].block)
          /\ Receipt(b, TRUE).kind = "receipt"
      BY <1>2, <1>5, CachedFits DEF Receipt
    <3>2. a.kind # "cancelled"
      BY <1>2, <3>1, CappedFits, PinTyped
    <3> QED
      BY <1>2, <3>1, <3>2, CappedFits, PinTyped DEF EndedOwn
  <2> HIDE DEF a
  <2>3. /\ stage' \in [Requests -> {"start", "lookup", "miss", "wait", "answered", "replied"}]
        /\ answer' \in [Requests -> Results] /\ stage'[r] = "answered" /\ answer'[r] = a
        /\ \A s \in Requests \ {r} : stage'[s] = stage[s] /\ answer'[s] = answer[s]
    BY <2>1, <2>2 DEF IInv, TypeOK
  <2>4. LoadFits(r)' /\ JoinFits(r)' /\ AnswerFits(r)'
    BY <1>1, <1>2, <2>2, <2>3 DEF LoadFits, JoinFits, AnswerFits, EndedOwn, Counts
  <2> QED
    BY <1>1, <1>2, <1>3, <2>3, <2>4, CacheStays, GoneStays, OthersUndisturbed
<1> QED
  BY <1>4, <1>5

LEMMA JoinInv ==
    ASSUME IInv, NEW r \in Requests, Join(r)
    PROVE  IInv'
<1>1. /\ stage[r] = "miss" /\ UNCHANGED <<head, pin, cache, answer, gone>>
      /\ stage' = [stage EXCEPT ![r] = "wait"]
  BY DEF Join
<1>2. LoadFits(r) /\ JoinFits(r) /\ AnswerFits(r) /\ load[r].at = "off" /\ pin[r] # NoHead
  BY <1>1 DEF IInv, LoadFits, PinFits
<1>3. /\ stage' \in [Requests -> {"start", "lookup", "miss", "wait", "answered", "replied"}]
      /\ answer' \in [Requests -> Results] /\ stage'[r] = "wait"
      /\ \A s \in Requests \ {r} : stage'[s] = stage[s]
      /\ joined[r] \in Requests
  BY <1>1 DEF IInv, TypeOK
<1>4. CASE Flights(r) = {}
  <2>1. load' = [load EXCEPT ![r] = NewLoad(TRUE, "recheck")] /\ joined' = joined
    BY <1>4 DEF Join
  <2>2. /\ load' \in [Requests -> Loads] /\ joined' \in [Requests -> Requests]
        /\ load'[r].at = "recheck" /\ load'[r].above = {} /\ load'[r].keyed
        /\ Counts(load'[r])
        /\ \A s \in Requests \ {r} : load'[s] = load[s]
    BY <2>1, NewLoadTyped DEF IInv, TypeOK
  <2>3. LoadFits(r)' /\ JoinFits(r)' /\ AnswerFits(r)' /\ load'[joined'[r]].at # "off"
    BY <1>1, <1>2, <1>3, <2>1, <2>2 DEF LoadFits, JoinFits, AnswerFits, EndedOwn, Counts
  <2> QED
    BY <1>1, <1>2, <1>3, <2>1, <2>2, <2>3, CacheStays, GoneStays, OthersUndisturbed
<1>5. CASE Flights(r) # {}
  <2>1. load' = load /\ \E l \in Flights(r) : joined' = [joined EXCEPT ![r] = l]
    BY <1>5 DEF Join
  <2>2. PICK l \in Flights(r) : joined' = [joined EXCEPT ![r] = l]
    BY <2>1
  <2>3. /\ l \in Requests /\ load[l].keyed /\ load[l].at # "off"
        /\ pin[l].block = pin[r].block
    BY DEF Flights, Running, FlightKey
  <2>4. pin[l] # NoHead
    BY <2>3 DEF IInv, LoadFits, PinFits
  <2>5. /\ load' \in [Requests -> Loads] /\ joined' \in [Requests -> Requests]
        /\ joined'[r] = l /\ \A s \in Requests \ {r} : joined'[s] = joined[s]
    BY <2>1, <2>2, <2>3 DEF IInv, TypeOK
  <2>6. LoadFits(r)' /\ JoinFits(r)' /\ AnswerFits(r)' /\ load'[joined'[r]].at # "off"
    BY <1>1, <1>2, <1>3, <2>1, <2>3, <2>4, <2>5 DEF LoadFits, JoinFits, AnswerFits, EndedOwn, Counts
  <2> QED
    BY <1>1, <1>2, <1>3, <2>1, <2>5, <2>6, CacheStays, GoneStays, OthersUndisturbed
<1> QED
  BY <1>4, <1>5

\* The load a request waits for is pinned to the request's block.
LEMMA ReceiveInv ==
    ASSUME IInv, NEW r \in Requests, Receive(r)
    PROVE  IInv'
<1> DEFINE l == joined[r]
           a == Capped(pin[r], load[l].result)
<1>1. /\ stage[r] = "wait" /\ load[l].at = "done"
      /\ stage' = [stage EXCEPT ![r] = "answered"] /\ answer' = [answer EXCEPT ![r] = a]
      /\ UNCHANGED <<head, pin, cache, load, joined, gone>>
  BY DEF Receive
<1>2. LoadFits(r) /\ JoinFits(r) /\ pin[r] # NoHead /\ l \in Requests
  BY <1>1 DEF IInv, PinFits, TypeOK
<1>3. /\ load[l].result \in Results /\ ResultFits(load[l].result, pin[r].block)
      /\ EndedOwn(load[l].result, r)
  <2>1. /\ LoadFits(l) /\ load[l] \in Loads /\ pin[l].block = pin[r].block
        /\ l # r => load[l].keyed
    BY <1>2 DEF IInv, TypeOK, JoinFits
  <2> QED
    BY <1>1, <2>1 DEF LoadFits, Loads, EndedOwn
<1>4. /\ a \in Results /\ ResultFits(a, pin[r].block) /\ EndedOwn(a, r)
      /\ a.kind = "receipt" => Number[a.block] <= Number[pin[r].block]
  <2>1. a = load[l].result \/ a.kind = "null"
    BY <1>2, <1>3, CappedFits, PinTyped
  <2> HIDE DEF l
  <2>2. EndedOwn(a, r)
    BY <1>3, <2>1 DEF EndedOwn
  <2> QED
    BY <1>2, <1>3, <2>2, CappedFits, PinTyped
<1> HIDE DEF a
<1>5. /\ stage' \in [Requests -> {"start", "lookup", "miss", "wait", "answered", "replied"}]
      /\ answer' \in [Requests -> Results] /\ stage'[r] = "answered" /\ answer'[r] = a
      /\ \A s \in Requests \ {r} : stage'[s] = stage[s] /\ answer'[s] = answer[s]
      /\ load' \in [Requests -> Loads] /\ joined' \in [Requests -> Requests]
  BY <1>1, <1>4 DEF IInv, TypeOK
<1>6. LoadFits(r)' /\ JoinFits(r)' /\ AnswerFits(r)'
  BY <1>1, <1>2, <1>4, <1>5 DEF LoadFits, JoinFits, AnswerFits, EndedOwn, Counts
<1> QED
  BY <1>1, <1>2, <1>5, <1>6, CacheStays, GoneStays, OthersUndisturbed

LEMMA ContextEndsInv ==
    ASSUME IInv, NEW r \in Requests, ContextEnds(r)
    PROVE  IInv'
<1>1. /\ stage[r] \in {"lookup", "miss", "wait"} /\ gone' = gone \cup {r}
      /\ UNCHANGED <<head, pin, stage, cache, load, joined, answer>>
  BY DEF ContextEnds
<1>2. LoadFits(r) /\ JoinFits(r) /\ AnswerFits(r) /\ gone' \subseteq Requests
  BY <1>1 DEF IInv, TypeOK
<1>3. LoadFits(r)' /\ JoinFits(r)' /\ AnswerFits(r)'
  BY <1>1, <1>2 DEF LoadFits, JoinFits, AnswerFits, EndedOwn, Counts
<1>4. TypeOK'
  BY <1>1, <1>2 DEF IInv, TypeOK
<1> QED
  BY <1>1, <1>2, <1>3, <1>4, CacheStays, GoneStays, OthersUndisturbed DEF TypeOK

LEMMA GiveUpInv ==
    ASSUME IInv, NEW r \in Requests, GiveUp(r)
    PROVE  IInv'
<1> DEFINE c == Cancelled(r)
<1>1. /\ r \in gone /\ stage[r] \in {"lookup", "wait"}
      /\ stage' = [stage EXCEPT ![r] = "answered"] /\ answer' = [answer EXCEPT ![r] = c]
      /\ UNCHANGED <<head, pin, cache, load, joined, gone>>
  BY DEF GiveUp
<1>2. LoadFits(r) /\ JoinFits(r) /\ pin[r] # NoHead /\ joined[r] \in Requests
  BY <1>1 DEF IInv, PinFits, TypeOK
<1>3. c \in Results /\ c.kind = "cancelled" /\ c.by = r
  BY CancelledTyped
<1> HIDE DEF c
<1>4. /\ stage' \in [Requests -> {"start", "lookup", "miss", "wait", "answered", "replied"}]
      /\ answer' \in [Requests -> Results] /\ stage'[r] = "answered" /\ answer'[r] = c
      /\ \A s \in Requests \ {r} : stage'[s] = stage[s] /\ answer'[s] = answer[s]
      /\ load' \in [Requests -> Loads] /\ joined' \in [Requests -> Requests]
      /\ gone' \subseteq Requests
  BY <1>1, <1>3 DEF IInv, TypeOK
<1>5. LoadFits(r)' /\ JoinFits(r)'
  BY <1>1, <1>2, <1>4 DEF LoadFits, JoinFits, EndedOwn, Counts
<1>6. AnswerFits(r)'
  BY <1>1, <1>3, <1>4 DEF AnswerFits, ResultFits, EndedOwn
<1> QED
  BY <1>1, <1>2, <1>4, <1>5, <1>6, CacheStays, GoneStays, OthersUndisturbed

LEMMA ReplyInv ==
    ASSUME IInv, NEW r \in Requests, Reply(r)
    PROVE  IInv'
<1>1. /\ stage[r] = "answered" /\ stage' = [stage EXCEPT ![r] = "replied"]
      /\ answer' = answer \/ answer' = [answer EXCEPT ![r] = Error]
      /\ UNCHANGED <<head, pin, cache, load, joined, gone>>
  BY DEF Reply
<1>2. LoadFits(r) /\ JoinFits(r) /\ AnswerFits(r) /\ joined[r] \in Requests
  BY DEF IInv, TypeOK
<1>3. /\ stage' \in [Requests -> {"start", "lookup", "miss", "wait", "answered", "replied"}]
      /\ answer' \in [Requests -> Results] /\ stage'[r] = "replied"
      /\ answer'[r] = answer[r] \/ answer'[r] = Error
      /\ \A s \in Requests \ {r} : stage'[s] = stage[s] /\ answer'[s] = answer[s]
      /\ load' \in [Requests -> Loads] /\ joined' \in [Requests -> Requests]
  BY <1>1, ErrorTyped DEF IInv, TypeOK
<1>4. LoadFits(r)' /\ JoinFits(r)'
  BY <1>1, <1>2, <1>3 DEF LoadFits, JoinFits, EndedOwn, Counts
<1>5. AnswerFits(r)'
  BY <1>1, <1>2, <1>3, ErrorTyped DEF AnswerFits, ResultFits, EndedOwn
<1> QED
  BY <1>1, <1>2, <1>3, <1>4, <1>5, CacheStays, GoneStays, OthersUndisturbed

\* A load whose next value fits its pin.
LEMMA LoadUpdate ==
    ASSUME IInv, NEW l \in Requests, load[l].at # "off",
           NEW v \in Loads, v.at # "off", v.keyed = load[l].keyed,
           load' = [load EXCEPT ![l] = v],
           UNCHANGED <<head, pin, stage, joined, answer, gone>>,
           CacheFits', cache' \in [0..MaxEpoch -> Inclusion \cup {NoBlock}],
           \A b \in v.above : Number[b] > Number[pin[l].block],
           v.at = "verify" => v.result.kind = "receipt" /\ ~v.result.cached,
           Counts(v),
           v.at = "done" => /\ ResultFits(v.result, pin[l].block) /\ EndedOwn(v.result, l)
                            /\ v.keyed => v.result.kind # "cancelled"
    PROVE  IInv'
<1>1. LoadFits(l) /\ JoinFits(l) /\ AnswerFits(l) /\ joined[l] \in Requests
  BY DEF IInv, TypeOK
<1>2. stage[l] \notin {"start", "lookup", "miss"}
  BY <1>1 DEF LoadFits
<1>3. /\ load' \in [Requests -> Loads] /\ load'[l] = v
      /\ \A s \in Requests \ {l} : load'[s] = load[s]
      /\ stage' \in [Requests -> {"start", "lookup", "miss", "wait", "answered", "replied"}]
      /\ joined' \in [Requests -> Requests] /\ answer' \in [Requests -> Results]
  BY DEF IInv, TypeOK
<1>4. LoadFits(l)' /\ JoinFits(l)' /\ AnswerFits(l)'
  <2>1. LoadFits(l)'
    BY <1>2, <1>3 DEF LoadFits, EndedOwn, Counts
  <2>2. JoinFits(l)'
    BY <1>1, <1>3 DEF JoinFits
  <2>3. AnswerFits(l)'
    BY <1>1 DEF AnswerFits, EndedOwn
  <2> QED
    BY <2>1, <2>2, <2>3
<1>5. stage'[l] = "wait" => load'[joined'[l]].at # "off"
  BY <1>1, <1>3 DEF IInv, TypeOK
<1> QED
  BY <1>1, <1>2, <1>3, <1>4, <1>5, GoneStays, OthersUndisturbed

\* A load that ends with a fitting result, and nothing else.
LEMMA EndsFits ==
    ASSUME IInv, NEW l \in Requests, load[l].at # "off",
           NEW result \in Results, Ends(l, result), ResultFits(result, pin[l].block),
           EndedOwn(result, l), load[l].keyed => result.kind # "cancelled",
           UNCHANGED <<head, pin, stage, joined, answer, gone>>,
           CacheFits', cache' \in [0..MaxEpoch -> Inclusion \cup {NoBlock}]
    PROVE  IInv'
<1> DEFINE w == NewLoad(load[l].keyed, "done")
           v == [w EXCEPT !.result = result]
<1>1. load[l] \in Loads /\ load[l].keyed \in BOOLEAN
  BY DEF IInv, TypeOK, Loads
<1>2. load' = [load EXCEPT ![l] = v]
  BY DEF Ends, IInv, TypeOK
<1>3. /\ w \in Loads /\ w.at = "done" /\ w.keyed = load[l].keyed /\ w.above = {}
      /\ Counts(w)
  BY <1>1, NewLoadTyped
<1> HIDE DEF w
<1>4. /\ v \in Loads /\ v.at = "done" /\ v.keyed = load[l].keyed /\ v.above = {}
      /\ v.result = result /\ Counts(v)
  BY <1>3 DEF Loads, Counts
<1> HIDE DEF v
<1> QED
  BY <1>2, <1>4, LoadUpdate

LEMMA RecheckInv ==
    ASSUME IInv, NEW l \in Requests, Recheck(l)
    PROVE  IInv'
<1> DEFINE b == cache[CacheKey(pin[l])]
<1>1. load[l].at = "recheck" /\ UNCHANGED <<head, pin, stage, cache, joined, answer, gone>>
  BY DEF Recheck
<1>2. LoadFits(l) /\ load[l] \in Loads /\ pin[l] # NoHead
  BY <1>1 DEF IInv, LoadFits, PinFits, TypeOK
<1>3. CASE b = NoBlock
  <2> DEFINE v == [load[l] EXCEPT !.at = "route"]
  <2>1. load' = [load EXCEPT ![l] = v]
    BY <1>3 DEF Recheck, IInv, TypeOK
  <2>2. /\ v \in Loads /\ v.at = "route" /\ v.keyed = load[l].keyed /\ v.above = load[l].above
        /\ v.nulls = load[l].nulls /\ v.eligible = load[l].eligible /\ v.failed = load[l].failed
    BY <1>2 DEF Loads
  <2> HIDE DEF v
  <2>3. Counts(v) /\ \A x \in v.above : Number[x] > Number[pin[l].block]
    BY <1>1, <1>2, <2>2 DEF LoadFits, Counts
  <2> QED
    BY <1>1, <2>1, <2>2, <2>3, CacheStays, LoadUpdate
<1>4. CASE b # NoBlock
  <2> DEFINE rec == Receipt(b, TRUE)
  <2>1. Ends(l, rec)
    BY <1>4 DEF Recheck
  <2>2. rec \in Results /\ ResultFits(rec, pin[l].block) /\ rec.kind # "cancelled"
    BY <1>2, <1>4, CachedFits DEF Receipt
  <2>3. EndedOwn(rec, l)
    BY <2>2 DEF EndedOwn
  <2> HIDE DEF rec
  <2> QED
    BY <1>1, <2>1, <2>2, <2>3, CacheStays, EndsFits
<1> QED
  BY <1>3, <1>4

\* A step of route that leaves the load asking.
LEMMA RouteStays ==
    ASSUME IInv, NEW l \in Requests, load[l].at = "route",
           NEW v \in Loads, v.at = "route", v.keyed = load[l].keyed, Counts(v),
           load' = [load EXCEPT ![l] = v],
           UNCHANGED <<head, pin, stage, cache, joined, answer, gone>>,
           \A b \in v.above \ load[l].above : Number[b] > Number[pin[l].block]
    PROVE  IInv'
<1>1. \A b \in v.above : Number[b] > Number[pin[l].block]
  BY DEF IInv, LoadFits
<1> QED
  BY <1>1, CacheStays, LoadUpdate

LEMMA AskInv ==
    ASSUME IInv, NEW l \in Requests, NEW p \in Providers, Ask(l, p)
    PROVE  IInv'
<1>1. load[l].at = "route" /\ UNCHANGED <<head, pin, stage, cache, joined, answer, gone>>
  BY DEF Ask
<1>2. load \in [Requests -> Loads] /\ load[l] \in Loads
  BY DEF IInv, TypeOK
<1> DEFINE told == [load[l] EXCEPT !.asked = @ \cup {p}]
           asks == [told EXCEPT !.eligible = @ + 1]
<1>3. \/ load' = [load EXCEPT ![l] = [asks EXCEPT !.nulls = @ + 1]]
      \/ load' = [load EXCEPT ![l] = [asks EXCEPT !.failed = TRUE]]
      \/ \E b \in Inclusion :
           load' = [load EXCEPT ![l] =
             IF Number[b] > Number[pin[l].block]
             THEN [asks EXCEPT !.nulls = @ + 1, !.above = @ \cup {b}]
             ELSE [asks EXCEPT !.at = "verify", !.result = Receipt(b, FALSE)]]
  <2> DEFINE one == [load[l] EXCEPT !.asked = @ \cup {p}, !.eligible = @ + 1]
  <2>1. \/ load' = [load EXCEPT ![l] = [one EXCEPT !.nulls = @ + 1]]
        \/ load' = [load EXCEPT ![l] = [one EXCEPT !.failed = TRUE]]
        \/ \E b \in Inclusion :
             load' = [load EXCEPT ![l] =
               IF Number[b] > Number[pin[l].block]
               THEN [one EXCEPT !.nulls = @ + 1, !.above = @ \cup {b}]
               ELSE [one EXCEPT !.at = "verify", !.result = Receipt(b, FALSE)]]
    BY Zenon DEF Ask
  <2>2. one = asks
    BY <1>2 DEF Loads
  <2> HIDE DEF one, asks
  <2> QED
    BY <2>1, <2>2, Zenon
<1>4. /\ told \in Loads /\ told.at = "route" /\ told.keyed = load[l].keyed
      /\ told.above = load[l].above /\ told.eligible = load[l].eligible
      /\ told.nulls = load[l].nulls /\ told.failed = load[l].failed
      /\ load[l].nulls \in Nat /\ load[l].eligible \in Nat
  BY <1>1, <1>2 DEF Loads
<1> HIDE DEF told
<1>5. /\ asks \in Loads /\ asks.at = "route" /\ asks.keyed = load[l].keyed
      /\ asks.above = load[l].above /\ asks.eligible = load[l].eligible + 1
      /\ asks.nulls = load[l].nulls /\ asks.failed = load[l].failed
      /\ asks.nulls \in Nat /\ asks.eligible \in Nat
  BY <1>4 DEF Loads
<1>6. asks.nulls < asks.eligible
  BY <1>1, <1>4, <1>5 DEF IInv, LoadFits, Counts
<1> HIDE DEF asks
<1>7. ASSUME load' = [load EXCEPT ![l] = [asks EXCEPT !.nulls = @ + 1]]
      PROVE  IInv'
  <2> DEFINE v == [asks EXCEPT !.nulls = @ + 1]
  <2>1. /\ v \in Loads /\ v.at = "route" /\ v.keyed = load[l].keyed /\ v.above = load[l].above
        /\ v.nulls = asks.nulls + 1 /\ v.eligible = asks.eligible /\ v.failed = load[l].failed
    BY <1>5 DEF Loads
  <2>2. Counts(v)
    <3>1. load[l].failed => load[l].nulls < load[l].eligible
      BY <1>1 DEF IInv, LoadFits, Counts
    <3> QED
      BY <1>4, <1>5, <1>6, <2>1, <3>1 DEF Counts
  <2>3. load' = [load EXCEPT ![l] = v]
    BY <1>7
  <2> HIDE DEF v
  <2> QED
    BY <1>1, <2>1, <2>2, <2>3, RouteStays
<1>8. ASSUME load' = [load EXCEPT ![l] = [asks EXCEPT !.failed = TRUE]]
      PROVE  IInv'
  <2> DEFINE v == [asks EXCEPT !.failed = TRUE]
  <2>1. /\ v \in Loads /\ v.at = "route" /\ v.keyed = load[l].keyed /\ v.above = load[l].above
        /\ v.nulls = asks.nulls /\ v.eligible = asks.eligible
    BY <1>5 DEF Loads
  <2>2. Counts(v)
    BY <1>4, <1>5, <1>6, <2>1 DEF Counts
  <2>3. load' = [load EXCEPT ![l] = v]
    BY <1>8
  <2> HIDE DEF v
  <2> QED
    BY <1>1, <2>1, <2>2, <2>3, RouteStays
<1>9. ASSUME NEW b \in Inclusion, Number[b] > Number[pin[l].block],
             load' = [load EXCEPT ![l] = [asks EXCEPT !.nulls = @ + 1, !.above = @ \cup {b}]]
      PROVE  IInv'
  <2> DEFINE u == [asks EXCEPT !.nulls = @ + 1]
             v == [u EXCEPT !.above = @ \cup {b}]
  <2>1. /\ u \in Loads /\ u.at = "route" /\ u.keyed = load[l].keyed /\ u.above = load[l].above
        /\ u.nulls = asks.nulls + 1 /\ u.eligible = asks.eligible /\ u.failed = load[l].failed
    BY <1>5 DEF Loads
  <2>2. load' = [load EXCEPT ![l] = v]
    BY <1>9
  <2> HIDE DEF u
  <2>3. /\ v \in Loads /\ v.at = "route" /\ v.keyed = load[l].keyed
        /\ v.above = load[l].above \cup {b}
        /\ v.nulls = asks.nulls + 1 /\ v.eligible = asks.eligible /\ v.failed = load[l].failed
    BY <2>1 DEF Loads
  <2>4. Counts(v)
    <3>1. load[l].failed => load[l].nulls < load[l].eligible
      BY <1>1 DEF IInv, LoadFits, Counts
    <3> QED
      BY <1>4, <1>5, <1>6, <2>3, <3>1 DEF Counts
  <2> HIDE DEF v
  <2> QED
    BY <1>1, <1>9, <2>2, <2>3, <2>4, RouteStays
<1>10. ASSUME NEW b \in Inclusion,
             load' = [load EXCEPT ![l] = [asks EXCEPT !.at = "verify", !.result = Receipt(b, FALSE)]]
      PROVE  IInv'
  <2> DEFINE rec == Receipt(b, FALSE)
             u == [asks EXCEPT !.at = "verify"]
             v == [u EXCEPT !.result = rec]
  <2>1. load' = [load EXCEPT ![l] = v]
    BY <1>10
  <2>2. rec \in Results /\ rec.kind = "receipt" /\ ~rec.cached
    BY ReceiptTyped
  <2> HIDE DEF rec
  <2>3. /\ u \in Loads /\ u.at = "verify" /\ u.keyed = load[l].keyed /\ u.above = load[l].above
        /\ u.nulls = asks.nulls /\ u.eligible = asks.eligible
    BY <1>5 DEF Loads
  <2> HIDE DEF u
  <2>4. /\ v \in Loads /\ v.at = "verify" /\ v.keyed = load[l].keyed
        /\ v.above = load[l].above /\ v.result = rec
        /\ v.nulls = asks.nulls /\ v.eligible = asks.eligible
    BY <2>2, <2>3 DEF Loads
  <2>5. Counts(v)
    BY <1>4, <1>5, <1>6, <2>4 DEF Counts
  <2> HIDE DEF v
  <2>6. \A x \in v.above : Number[x] > Number[pin[l].block]
    BY <1>1, <2>4 DEF IInv, LoadFits
  <2> QED
    BY <1>1, <2>1, <2>2, <2>4, <2>5, <2>6, CacheStays, LoadUpdate
<1> QED
  BY <1>3, <1>7, <1>8, <1>9, <1>10

LEMMA UnsupportedInv ==
    ASSUME IInv, NEW l \in Requests, NEW p \in Providers, Unsupported(l, p)
    PROVE  IInv'
<1> DEFINE v == [load[l] EXCEPT !.asked = @ \cup {p}]
<1>1. load[l].at = "route" /\ UNCHANGED <<head, pin, stage, cache, joined, answer, gone>>
  BY DEF Unsupported
<1>2. load' = [load EXCEPT ![l] = v]
  BY DEF Unsupported, IInv, TypeOK
<1>3. load[l] \in Loads
  BY DEF IInv, TypeOK
<1>4. /\ v \in Loads /\ v.at = "route" /\ v.keyed = load[l].keyed /\ v.above = load[l].above
      /\ v.nulls = load[l].nulls /\ v.eligible = load[l].eligible /\ v.failed = load[l].failed
  BY <1>1, <1>3 DEF Loads
<1>5. Counts(v)
  BY <1>1, <1>4 DEF IInv, LoadFits, Counts
<1> HIDE DEF v
<1> QED
  BY <1>1, <1>2, <1>4, <1>5, RouteStays

LEMMA ErrorFits ==
    ASSUME NEW p, NEW r \in Requests
    PROVE  ResultFits(Error, p) /\ EndedOwn(Error, r) /\ Error.kind # "cancelled"
BY ErrorTyped DEF ResultFits, EndedOwn

LEMMA RouteEndsInv ==
    ASSUME IInv, NEW l \in Requests, RouteEnds(l)
    PROVE  IInv'
<1>1. /\ load[l].at = "route" /\ UNCHANGED <<head, pin, stage, cache, joined, answer, gone>>
      /\ Ends(l, Exhausted(l)) \/ Ends(l, Error)
  BY DEF RouteEnds
<1>2. load[l].above \in SUBSET Inclusion /\ load[l].failed \in BOOLEAN
  BY DEF IInv, TypeOK, Loads
<1>3. /\ Exhausted(l) \in Results /\ ResultFits(Exhausted(l), pin[l].block)
      /\ EndedOwn(Exhausted(l), l) /\ Exhausted(l).kind # "cancelled"
  <2>1. CASE load[l].nulls > 0 /\ load[l].nulls = load[l].eligible
    <3> DEFINE n == Null(load[l].above, load[l].failed)
    <3>1. /\ n \in Results /\ n.kind = "null"
          /\ n.above = load[l].above /\ n.failed = load[l].failed
      BY <1>2, NullTyped
    <3>2. Exhausted(l) = n
      BY <2>1 DEF Exhausted
    <3> HIDE DEF n
    <3>3. \A b \in load[l].above : Number[b] > Number[pin[l].block]
      BY <1>1 DEF IInv, LoadFits
    <3>4. ~load[l].failed
      <4>1. load[l].nulls \in Nat /\ load[l].eligible \in Nat /\ Counts(load[l])
        BY <1>1 DEF IInv, TypeOK, Loads, LoadFits
      <4> QED
        BY <2>1, <4>1 DEF Counts
    <3> QED
      BY <3>1, <3>2, <3>3, <3>4 DEF ResultFits, EndedOwn
  <2>2. CASE ~(load[l].nulls > 0 /\ load[l].nulls = load[l].eligible)
    BY <2>2, ErrorTyped, ErrorFits DEF Exhausted
  <2> QED
    BY <2>1, <2>2
<1>4. CASE Ends(l, Exhausted(l))
  BY <1>1, <1>3, <1>4, CacheStays, EndsFits
<1>5. CASE Ends(l, Error)
  BY <1>1, <1>5, CacheStays, ErrorTyped, ErrorFits, EndsFits
<1> QED
  BY <1>1, <1>4, <1>5

\* Only a load that nobody can have joined ends with its request.
LEMMA LoadCancelledInv ==
    ASSUME IInv, NEW l \in Requests, LoadCancelled(l)
    PROVE  IInv'
<1> DEFINE c == Cancelled(l)
<1>1. /\ load[l].at = "route" /\ l \in gone /\ ~load[l].keyed /\ Ends(l, c)
      /\ UNCHANGED <<head, pin, stage, cache, joined, answer, gone>>
  BY DEF LoadCancelled, Detached
<1>2. c \in Results /\ c.kind = "cancelled" /\ c.by = l
  BY CancelledTyped
<1> HIDE DEF c
<1>3. ResultFits(c, pin[l].block) /\ EndedOwn(c, l)
  BY <1>1, <1>2 DEF ResultFits, EndedOwn
<1> QED
  BY <1>1, <1>2, <1>3, CacheStays, EndsFits

LEMMA LoadTimesOutInv ==
    ASSUME IInv, NEW l \in Requests, LoadTimesOut(l)
    PROVE  IInv'
<1>1. /\ load[l].at = "verify" /\ Ends(l, Error)
      /\ UNCHANGED <<head, pin, stage, cache, joined, answer, gone>>
  BY DEF LoadTimesOut
<1> QED
  BY <1>1, CacheStays, ErrorTyped, ErrorFits, EndsFits

(***************************************************************************)
(* The proof that admits a receipt to the cache was made at one pin; it    *)
(* holds for every pin of the epoch, because those lie on one linked       *)
(* chain: above the pin the block is still an ancestor, below it the       *)
(* ceiling withholds it.                                                   *)
(***************************************************************************)
LEMMA RetainedFits ==
    ASSUME IInv, NEW l \in Requests, pin[l] # NoHead, NEW b \in Inclusion,
           ContainsBlock(b, pin[l].block)
    PROVE  EntryFits(b, pin[l].epoch)
<1>1. /\ pin[l].block \in Blocks /\ head # NoHead /\ head.block \in Blocks /\ b \in Blocks
      /\ pin[l].epoch \in Nat /\ PinFits(l)
  BY PinTyped, ReceiptAssumption DEF IInv
<1>2. b \in Anc[pin[l].block]
  BY <1>1, ContainedIsAncestor
<1>3. pin[l].epoch <= head.epoch
  BY <1>1 DEF PinFits
<1>4. pin[l].epoch = head.epoch => ~head.pending /\ b \in Anc[head.block]
  BY <1>1, <1>2, AncTransitive DEF PinFits, Precedes
<1>5. ASSUME NEW r \in Requests, pin[r] # NoHead, pin[r].epoch = pin[l].epoch,
             Number[b] <= Number[pin[r].block]
      PROVE  b \in Anc[pin[r].block]
  <2>1. pin[r].block \in Blocks
    BY <1>5, PinTyped
  <2>2. CASE Precedes(pin[l].block, pin[r].block)
    BY <1>1, <1>2, <2>1, <2>2, AncTransitive DEF Precedes
  <2>3. CASE Precedes(pin[r].block, pin[l].block)
    <3> SUFFICES ASSUME b \notin Anc[pin[r].block] PROVE FALSE
      OBVIOUS
    <3>1. Number[pin[r].block] < Number[b]
      BY <1>1, <1>2, <2>1, <2>3, AbovePredecessor
    <3> QED
      BY <1>1, <1>5, <2>1, <3>1, HeaderAssumption
  <2> QED
    BY <1>5, <2>2, <2>3 DEF IInv, PinsOrdered
<1> QED
  BY <1>1, <1>3, <1>4, <1>5 DEF EntryFits

LEMMA VerifyAndPutInv ==
    ASSUME IInv, NEW l \in Requests, VerifyAndPut(l)
    PROVE  IInv'
<1> DEFINE res == load[l].result
           e == pin[l].epoch
<1>1. /\ load[l].at = "verify" /\ Ends(l, res)
      /\ UNCHANGED <<head, pin, stage, joined, answer, gone>>
      /\ \/ Retained(l) /\ cache' = [cache EXCEPT ![e] = res.block]
         \/ cache' = cache
  BY DEF VerifyAndPut, CacheKey
<1>2. /\ res \in Results /\ res.kind = "receipt" /\ ~res.cached /\ pin[l] # NoHead
  BY <1>1 DEF IInv, LoadFits, PinFits, TypeOK, Loads
<1>3. ResultFits(res, pin[l].block) /\ EndedOwn(res, l) /\ res.kind # "cancelled"
  BY <1>2 DEF ResultFits, EndedOwn
<1>4. CacheFits' /\ cache' \in [0..MaxEpoch -> Inclusion \cup {NoBlock}]
  <2>1. CASE cache' = cache
    BY <1>1, <2>1, CacheStays
  <2>2. CASE Retained(l) /\ cache' = [cache EXCEPT ![e] = res.block]
    <3>1. res.block \in Inclusion /\ e \in 0..MaxEpoch
      BY <1>2, ReceiptResult, PinTyped
    <3>2. EntryFits(res.block, e)
      BY <1>2, <2>2, <3>1, RetainedFits DEF Retained
    <3>3. cache \in [0..MaxEpoch -> Inclusion \cup {NoBlock}]
      BY DEF IInv, TypeOK
    <3>4. ASSUME NEW f \in 0..MaxEpoch, cache'[f] # NoBlock
          PROVE  EntryFits(cache'[f], f)
      BY <2>2, <3>1, <3>2, <3>3, <3>4 DEF IInv, CacheFits
    <3>5. ASSUME NEW f \in 0..MaxEpoch, cache'[f] # NoBlock
          PROVE  EntryFits(cache[f], f)'
      BY <1>1, <3>4, <3>5 DEF EntryFits
    <3>6. cache' \in [0..MaxEpoch -> Inclusion \cup {NoBlock}]
      BY <2>2, <3>1, <3>3
    <3> QED
      BY <3>5, <3>6 DEF CacheFits
  <2> QED
    BY <1>1, <2>1, <2>2
<1> HIDE DEF res
<1> QED
  BY <1>1, <1>2, <1>3, <1>4, EndsFits

-----------------------------------------------------------------------------
LEMMA InitInv == Init => IInv
<1> SUFFICES ASSUME Init PROVE IInv
  OBVIOUS
<1>1. TypeOK
  <2>1. NewLoad(FALSE, "off") \in Loads
    BY NewLoadTyped
  <2>2. Nothing \in Results
    BY DEF Nothing, Results
  <2>3. \A r \in Requests : stage[r] # "wait"
    BY DEF Init
  <2> QED
    BY <2>1, <2>2, <2>3 DEF Init, TypeOK
<1>2. PinsOrdered /\ CacheFits
  BY DEF Init, PinsOrdered, CacheFits
<1>3. \A r \in Requests : PinFits(r) /\ JoinFits(r) /\ AnswerFits(r)
  BY DEF Init, PinFits, JoinFits, AnswerFits, EndedOwn, Nothing
<1>4. \A r \in Requests : LoadFits(r)
  BY NewLoadTyped DEF Init, LoadFits
<1> QED
  BY <1>1, <1>2, <1>3, <1>4 DEF IInv, Init

LEMMA NextInv ==
    ASSUME IInv, [Next]_vars
    PROVE  IInv'
<1>1. ASSUME UNCHANGED vars PROVE IInv'
  BY <1>1 DEF vars, IInv, TypeOK, PinsOrdered, CacheFits, EntryFits, PinFits, LoadFits,
              JoinFits, AnswerFits, EndedOwn, Counts
<1>2. ASSUME NEW e \in 0..MaxEpoch, Evict(e) PROVE IInv'
  BY <1>2, EvictInv
<1>3. ASSUME NEW r \in Requests,
             \/ TakeSnapshot(r) \/ Bypass(r) \/ Lookup(r) \/ Join(r)
             \/ Receive(r) \/ ContextEnds(r) \/ GiveUp(r) \/ Reply(r)
      PROVE  IInv'
  BY <1>3, TakeSnapshotInv, BypassInv, LookupInv, JoinInv, ReceiveInv, ContextEndsInv,
     GiveUpInv, ReplyInv
<1>4. ASSUME NEW l \in Requests, LoadStep(l) PROVE IInv'
  BY <1>4, RecheckInv, RouteEndsInv, VerifyAndPutInv, LoadTimesOutInv, LoadCancelledInv, AskInv,
     UnsupportedInv
     DEF LoadStep
<1> QED
  BY <1>1, <1>2, <1>3, <1>4, HeadMovesInv DEF Next, Serve

LEMMA Invariance == Spec => []IInv
BY InitInv, NextInv, PTL DEF Spec

\* Requests, loads and cache stay well typed; who waits, waits for a load that
\* was started.
THEOREM TypeCorrect == Spec => []TypeOK
<1>1. IInv => TypeOK
  BY DEF IInv
<1> QED
  BY <1>1, Invariance, PTL

\* What the cache holds for the present epoch is on the accepted branch.
THEOREM CachedReceiptSafe == Spec => []CachedReceiptIsCanonical
<1>1. IInv => CachedReceiptIsCanonical
  <2> SUFFICES ASSUME IInv, head # NoHead, ~head.pending, cache[head.epoch] # NoBlock
               PROVE  cache[head.epoch] \in Anc[head.block]
    BY DEF CachedReceiptIsCanonical, CacheKey
  <2>1. head.epoch \in 0..MaxEpoch
    BY ReceiptAssumption DEF IInv, TypeOK, Accepted!AcceptedHeads
  <2> QED
    BY <2>1 DEF IInv, CacheFits, EntryFits
<1> QED
  BY <1>1, Invariance, PTL

\* A receipt is never above the reader's pin, and one out of the cache is on
\* the branch of that pin, whichever request put it there.
THEOREM OwnPinSafe == Spec => []ReceiptWithinOwnPin
<1>1. IInv => ReceiptWithinOwnPin
  <2> SUFFICES ASSUME IInv, NEW r \in Requests, Served(r), answer[r].kind = "receipt"
               PROVE  /\ Number[answer[r].block] <= Number[pin[r].block]
                      /\ answer[r].cached => answer[r].block \in Anc[pin[r].block]
    BY DEF ReceiptWithinOwnPin
  <2>1. AnswerFits(r) /\ stage[r] = "replied"
    BY DEF IInv, Served
  <2> QED
    BY <2>1 DEF AnswerFits, ResultFits
<1> QED
  BY <1>1, Invariance, PTL

\* A null withholds no inclusion at or below the reader's pin that the load came
\* across, and is never given when a provider that counts had failed.
THEOREM NullSafe == Spec => []NullIsAboutOwnPin
<1>1. IInv => NullIsAboutOwnPin
  <2> SUFFICES ASSUME IInv, NEW r \in Requests, Served(r), answer[r].kind = "null"
               PROVE  /\ \A b \in answer[r].above : Number[b] > Number[pin[r].block]
                      /\ ~answer[r].failed
    BY DEF NullIsAboutOwnPin
  <2>1. AnswerFits(r) /\ stage[r] = "replied"
    BY DEF IInv, Served
  <2> QED
    BY <2>1 DEF AnswerFits, ResultFits
<1> QED
  BY <1>1, Invariance, PTL

\* A request learns of no context's end but its own, whoever started the load it
\* waits for.
THEOREM CancellationSafe == Spec => []CancellationStaysOwn
<1>1. IInv => CancellationStaysOwn
  <2> SUFFICES ASSUME IInv, NEW r \in Requests, answer[r].kind = "cancelled"
               PROVE  r \in gone /\ answer[r].by = r
    BY DEF CancellationStaysOwn
  <2>1. AnswerFits(r)
    BY DEF IInv
  <2> QED
    BY <2>1 DEF AnswerFits, EndedOwn
<1> QED
  BY <1>1, Invariance, PTL
=============================================================================
