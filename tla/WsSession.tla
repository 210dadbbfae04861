----------------------------- MODULE WsSession -----------------------------
(***************************************************************************)
(* One WebSocket connection of a client that subscribes to newHeads.       *)
(*                                                                         *)
(* Three goroutines share it: readLoop serves the client's requests,       *)
(* eventLoop follows the stream of accepted heads from the checkpoint of   *)
(* the first subscription, and writeLoop sends what both put into the      *)
(* bounded queue.  Meanwhile the accepted head does whatever AcceptedHead  *)
(* allows, and the stream behind it is trimmed.                            *)
(***************************************************************************)
EXTENDS BlockTree, Sequences, FiniteSets, Functions

CONSTANTS
    NoHead,
    Subs,           \* subscription ids; every subscription gets a new one
    StreamMax,      \* MAXLEN of the events stream
    ReadMax,        \* events per read (64 in the code)
    QueueSize,      \* websocket_queue_size
    SubLimit,       \* subscriptions per connection (128 in the code)
    SeenLimit,      \* the deduplication window (65536 in the code)
    HistoryLimit,   \* headers kept to join a path (max(16, 2 * reorg_depth))
    MaxEpoch,       \* bound on recorded reorgs
    MaxGeneration,  \* bound on accepted heads
    MaxRequests     \* bound on the client's requests

ASSUME SessionAssumption ==
    /\ {StreamMax, ReadMax, QueueSize, SubLimit, SeenLimit, HistoryLimit} \subseteq Nat \ {0}
    /\ {MaxEpoch, MaxGeneration, MaxRequests} \subseteq Nat
    /\ NoHead \notin [block : Blocks, epoch : Nat, pending : BOOLEAN, generation : Nat]

VARIABLES
    head,        \* the accepted head in the store
    log,         \* log[g]: the head of generation g, trimmed or not
    open,        \* the session's context is not cancelled
    reader,      \* readLoop: "ready", "admission", "insert"
    requests,    \* requests so far
    checkpoint,  \* generation the session starts after, 0 for an empty stream
    subs,        \* active subscriptions
    pump,        \* eventLoop: "off", "run", "retention", "admission"
    cursor,      \* generation of the last event taken
    batch,       \* events read and not yet taken
    path,        \* heads of the present event and not yet announced
    last,        \* the head announced last, or skipped as a duplicate
    seen,        \* hashes announced
    history,     \* recent headers, oldest first
    notifying,   \* subscriptions the head announced last is still to be sent to
    queue,       \* messages not yet written
    received,    \* history: messages the client has received
    since,       \* history: cursor at the time of a subscription, -1 before it
    began        \* history: generation of the first event the loop is owed

shared == <<head, log>>
reading == <<reader, requests, checkpoint, subs, since>>
loopVars == <<cursor, batch, path, last, seen, history, notifying, began>>
vars == <<shared, reading, pump, loopVars, open, queue, received>>

Accepted == INSTANCE AcceptedHead

AckOf(s) == [kind |-> "ack", sub |-> s]
NewsOf(s, b) == [kind |-> "head", sub |-> s, block |-> b]
Answer == [kind |-> "reply"]

Init ==
    /\ head = NoHead
    /\ log = <<>>
    /\ open = TRUE
    /\ reader = "ready"
    /\ requests = 0
    /\ checkpoint = 0
    /\ subs = {}
    /\ pump = "off"
    /\ cursor = 0
    /\ batch = <<>> /\ path = <<>>
    /\ last = NoBlock
    /\ seen = {} /\ history = <<>> /\ notifying = {}
    /\ queue = <<>> /\ received = <<>>
    /\ since = [s \in Subs |-> -1]
    /\ began = 0

-----------------------------------------------------------------------------
(* The shared head and its stream. *)

\* A head of a new generation is appended to the stream.
HeadSeen ==
    /\ log' = IF head'.generation > Len(log) THEN Append(log, head'.block) ELSE log
    /\ UNCHANGED <<reading, pump, loopVars, open, queue, received>>

HeadMoves ==
    /\ Accepted!Next
    /\ head'.epoch <= MaxEpoch /\ head'.generation <= MaxGeneration
    /\ HeadSeen

\* Generations the stream still holds.
Retained(g) == g \in 1..Len(log) /\ g + StreamMax > Len(log)

-----------------------------------------------------------------------------
(* The queue: whoever finds it full ends the session. *)

Enqueue(message) ==
    IF Len(queue) < QueueSize
    THEN queue' = Append(queue, message) /\ UNCHANGED open
    ELSE open' = FALSE /\ UNCHANGED queue

\* writeLoop.
Write ==
    /\ open
    /\ queue # <<>>
    /\ received' = Append(received, Head(queue))
    /\ queue' = Tail(queue)
    /\ UNCHANGED <<shared, reading, pump, loopVars, open>>

\* The client leaves, or a write to it fails or takes too long.
Disconnect ==
    /\ open
    /\ open' = FALSE
    /\ UNCHANGED <<shared, reading, pump, loopVars, queue, received>>

-----------------------------------------------------------------------------
(* readLoop. *)

NextRequest ==
    /\ open
    /\ reader = "ready"
    /\ requests < MaxRequests
    /\ requests' = requests + 1

\* Anything that is answered without changing the session: malformed and
\* unsupported requests, unknown ids, a stream that cannot be read.
OtherRequest ==
    /\ NextRequest
    /\ Enqueue(Answer)
    /\ UNCHANGED <<shared, pump, loopVars, received, reader, checkpoint, subs, since>>

\* eth_subscribe.  The first one reads the checkpoint, then the accepted head.
Subscribe ==
    /\ NextRequest
    /\ Cardinality(subs) >= SubLimit \/ \E s \in Subs : since[s] = -1
    /\ IF pump = "off"
       THEN reader' = "admission" /\ checkpoint' = Len(log)
       ELSE reader' = "insert" /\ UNCHANGED checkpoint
    /\ UNCHANGED <<shared, pump, loopVars, open, queue, received, subs, since>>

Admit ==
    /\ open
    /\ reader = "admission"
    /\ head # NoHead /\ ~head.pending
    /\ reader' = "insert"
    /\ UNCHANGED <<shared, pump, loopVars, open, queue, received, requests, checkpoint, subs, since>>

\* There is no head, or it is pending, stale or unavailable.
Refuse ==
    /\ open
    /\ reader = "admission"
    /\ reader' = "ready"
    /\ Enqueue(Answer)
    /\ UNCHANGED <<shared, pump, loopVars, received, requests, checkpoint, subs, since>>

\* eventLoop begins after the checkpoint.
StartPump ==
    /\ pump' = "run"
    /\ cursor' = checkpoint
    /\ began' = checkpoint + 1
    /\ last' = IF checkpoint = 0 THEN NoBlock ELSE log[checkpoint]
    /\ history' = IF checkpoint = 0 THEN <<>> ELSE <<log[checkpoint]>>
    /\ UNCHANGED <<batch, path, seen, notifying>>

\* Mutant of Insert: the acknowledgment follows after the lock is released.
InsertThenAck(s) ==
    /\ open
    /\ reader = "insert"
    /\ \/ /\ since[s] = -1 /\ Cardinality(subs) < SubLimit
          /\ subs' = subs \cup {s}
          /\ since' = [since EXCEPT ![s] = IF pump = "off" THEN checkpoint ELSE cursor]
          /\ UNCHANGED <<reader, queue, open>>
       \/ /\ s \in subs
          /\ Enqueue(AckOf(s))
          /\ reader' = "ready"
          /\ UNCHANGED <<subs, since>>
    /\ IF pump = "off" THEN StartPump ELSE UNCHANGED <<pump, loopVars>>
    /\ UNCHANGED <<shared, received, requests, checkpoint>>

\* The id is registered and acknowledged under the lock notify takes.
Insert(s) ==
    /\ open
    /\ reader = "insert"
    /\ Cardinality(subs) < SubLimit
    /\ since[s] = -1
    /\ subs' = subs \cup {s}
    /\ since' = [since EXCEPT ![s] = IF pump = "off" THEN checkpoint ELSE cursor]
    /\ Enqueue(AckOf(s))
    /\ reader' = "ready"
    /\ IF pump = "off" THEN StartPump ELSE UNCHANGED <<pump, loopVars>>
    /\ UNCHANGED <<shared, received, requests, checkpoint>>

LimitReached ==
    /\ open
    /\ reader = "insert"
    /\ Cardinality(subs) >= SubLimit
    /\ reader' = "ready"
    /\ Enqueue(Answer)
    /\ UNCHANGED <<shared, pump, loopVars, received, requests, checkpoint, subs, since>>

\* eth_unsubscribe, answered unless it is a notification.
Unsubscribe(s) ==
    /\ NextRequest
    /\ s \in subs
    /\ subs' = subs \ {s}
    /\ Enqueue(Answer) \/ UNCHANGED <<queue, open>>
    /\ UNCHANGED <<shared, pump, loopVars, received, reader, checkpoint, since>>

-----------------------------------------------------------------------------
(* eventLoop. *)

Idle == pump = "run" /\ notifying = {} /\ path = <<>> /\ batch = <<>>

\* XREAD: the oldest retained events after the cursor; none once it times out.
ReadEvents ==
    /\ open
    /\ Idle
    /\ LET first == CHOOSE g \in cursor+1..Len(log)+1 :
                       /\ g = Len(log) + 1 \/ Retained(g)
                       /\ \A h \in cursor+1..g-1 : ~Retained(h)
           count == IF Len(log) + 1 - first < ReadMax THEN Len(log) + 1 - first ELSE ReadMax
       IN  batch' = [i \in 1..count |-> first + i - 1]
    /\ pump' = "retention"
    /\ UNCHANGED <<shared, reading, open, queue, received, cursor, path, last, seen, history, notifying, began>>

\* Mutant of CheckRetention: a trimmed checkpoint goes unnoticed.
TrustRetention ==
    /\ open
    /\ pump = "retention"
    /\ pump' = "admission"
    /\ UNCHANGED <<shared, reading, loopVars, open, queue, received>>

\* The event of the cursor must still be there, so that none after it was lost.
CheckRetention ==
    /\ open
    /\ pump = "retention"
    /\ cursor = 0 \/ Retained(cursor)
    /\ pump' = "admission"
    /\ UNCHANGED <<shared, reading, loopVars, open, queue, received>>

CheckAccepted ==
    /\ open
    /\ pump = "admission"
    /\ head # NoHead /\ ~head.pending
    /\ pump' = "run"
    /\ UNCHANGED <<shared, reading, loopVars, open, queue, received>>

\* closeWithError: the stream cannot be read, a checkpoint was trimmed, the
\* head is pending, stale or unavailable.
LoopCloses ==
    /\ open
    /\ Idle \/ pump \in {"retention", "admission"}
    /\ open' = FALSE
    /\ UNCHANGED <<shared, reading, pump, loopVars, queue, received>>

\* expandPath.  next needs no ancestry: there is no head yet, it is a one-block
\* replacement of the last head, or its child.
Adjacent(next) ==
    \/ last = NoBlock
    \/ Number[next] = Number[last] /\ Parent[next] = Parent[last]
    \/ IsChildOf(next, last)

Joins(b) == Parent[b] \in {last} \cup Range(history)

\* The headers of w, oldest first, lead up to next with every link checked.
LeadsTo(w, n, next) ==
    /\ w[n] = next
    /\ \A i \in 1..n : Linked(w[i])
    /\ \A i \in 1..n-1 : Parent[w[i+1]] = w[i]

\* Mutant of Walked: the headers that were missed are not filled in.
WalkedShort(next) ==
    {<<next>> : n \in {m \in 1..Depth :
        \E w \in [1..m -> Blocks] : LeadsTo(w, m, next) /\ Joins(w[1])}}

\* The headers from the first that joins what is known up to next; none if they
\* do not join within reorg_depth.
Walked(next) ==
    UNION {{w \in [1..n -> Blocks] : /\ LeadsTo(w, n, next) /\ Joins(w[1])
                                     /\ \A i \in 2..n : ~Joins(w[i])} : n \in 1..Depth}

Paths(next) ==
    IF next = last THEN {<<>>} ELSE IF Adjacent(next) THEN {<<next>>} ELSE Walked(next)

TakeEvent ==
    /\ open
    /\ pump = "run" /\ notifying = {} /\ path = <<>> /\ batch # <<>>
    /\ cursor' = Head(batch)
    /\ began' = IF cursor = 0 THEN Head(batch) ELSE began
    /\ batch' = Tail(batch)
    /\ path' \in Paths(log[Head(batch)])
    /\ UNCHANGED <<shared, reading, pump, open, queue, received, last, seen, history, notifying>>

\* A header in between cannot be fetched, or the path does not join.
GapTooWide ==
    /\ open
    /\ pump = "run" /\ notifying = {} /\ path = <<>> /\ batch # <<>>
    /\ LET next == log[Head(batch)]
       IN  next # last /\ ~Adjacent(next) /\ (Walked(next) = {} \/ ~Joins(next))
    /\ open' = FALSE
    /\ UNCHANGED <<shared, reading, pump, loopVars, queue, received>>

\* The headers kept, oldest first; a new one may push out the oldest.
Remembered(b) ==
    LET order == IF b \in Range(history) THEN history ELSE Append(history, b)
    IN  IF Len(order) > HistoryLimit THEN Tail(order) ELSE order

\* A head announced before is skipped; a new one goes to the subscriptions of
\* this moment.
Announce ==
    /\ open
    /\ pump = "run" /\ notifying = {} /\ path # <<>>
    /\ path' = Tail(path)
    /\ last' = Head(path)
    /\ \/ /\ Head(path) \in seen
          /\ UNCHANGED <<seen, history, notifying, open>>
       \/ /\ Head(path) \notin seen /\ Cardinality(seen) < SeenLimit
          /\ seen' = seen \cup {Head(path)}
          /\ history' = Remembered(Head(path))
          /\ notifying' = subs
          /\ UNCHANGED open
       \/ /\ Head(path) \notin seen /\ Cardinality(seen) >= SeenLimit
          /\ open' = FALSE
          /\ UNCHANGED <<seen, history, notifying>>
    /\ UNCHANGED <<shared, reading, pump, queue, received, cursor, batch, began>>

\* notify: the ids are random, so any of them may be first.
Notify(s) ==
    /\ open
    /\ s \in notifying
    /\ notifying' = notifying \ {s}
    /\ Enqueue(NewsOf(s, last))
    /\ UNCHANGED <<shared, reading, pump, received, cursor, batch, path, last, seen, history, began>>

-----------------------------------------------------------------------------
Serve ==
    \/ Write \/ Disconnect
    \/ OtherRequest \/ Subscribe \/ Admit \/ Refuse \/ LimitReached
    \/ ReadEvents \/ CheckRetention \/ CheckAccepted \/ LoopCloses
    \/ TakeEvent \/ GapTooWide \/ Announce
    \/ \E s \in Subs : Insert(s) \/ Unsubscribe(s) \/ Notify(s)

Next == HeadMoves \/ Serve

Spec == Init /\ [][Next]_vars

-----------------------------------------------------------------------------
Message == [kind : {"ack"}, sub : Subs] \cup [kind : {"reply"}]
           \cup [kind : {"head"}, sub : Subs, block : Blocks]

TypeOK ==
    /\ head \in Accepted!AcceptedHeads \cup {NoHead}
    /\ log \in Seq(Blocks)
    /\ open \in BOOLEAN
    /\ reader \in {"ready", "admission", "insert"}
    /\ requests \in Nat
    /\ checkpoint \in 0..Len(log) /\ cursor \in 0..Len(log)
    /\ subs \subseteq Subs /\ Cardinality(subs) <= SubLimit
    /\ pump \in {"off", "run", "retention", "admission"}
    /\ batch \in Seq(1..Len(log)) /\ path \in Seq(Blocks)
    /\ last \in Blocks \cup {NoBlock}
    /\ seen \subseteq Blocks /\ Cardinality(seen) <= SeenLimit
    /\ history \in Seq(Blocks) /\ Len(history) <= HistoryLimit
    /\ notifying \subseteq Subs
    /\ queue \in Seq(Message) /\ Len(queue) <= QueueSize
    /\ received \in Seq(Message)
    /\ since \in [Subs -> Nat \cup {-1}]
    /\ began \in Nat

\* What has been sent to the client, received or not.
Sent == received \o queue

(***************************************************************************)
(* A client never sees a head of a subscription it does not know yet: the  *)
(* acknowledgment of subscribe is ahead of every notification for its id.  *)
(***************************************************************************)
AckPrecedesHeads ==
    \A i \in 1..Len(Sent) :
        Sent[i].kind = "head" =>
            \E j \in 1..i-1 : Sent[j] = AckOf(Sent[i].sub)

\* Nothing of the events up to the cursor is still to be announced.
CaughtUp == open /\ pump # "off" /\ path = <<>> /\ notifying = {}

\* Nothing before the first event the loop is owed was there to be read: it
\* follows the checkpoint, or the stream was empty then and has been trimmed.
NothingBefore == began = checkpoint + 1 \/ (checkpoint = 0 /\ ~Retained(began - 1))

(***************************************************************************)
(* A subscription that exists since the checkpoint gets every head that    *)
(* the stream published after it, in spite of trimming between the read    *)
(* and the check, full queues, reorgs and suppressed duplicates; the       *)
(* alternative is a closed connection.  The exception is a checkpoint      *)
(* read from an empty stream: from "0-0" ReadEvents checks no retention,   *)
(* so heads trimmed before the first read are lost without a word, and     *)
(* the promise is only about those from the first one read.                *)
(***************************************************************************)
NoHeadSkipped ==
    \A s \in subs :
        CaughtUp /\ since[s] = checkpoint =>
            /\ NothingBefore
            /\ \A g \in began..cursor : NewsOf(s, log[g]) \in Range(Sent)

\* What a subscription made at the checkpoint can know before its i-th message.
Known(s, i) ==
    LET start == IF checkpoint > 0 THEN {log[checkpoint]} ELSE {}
    IN  start \cup {Parent[b] : b \in start}
        \cup {b \in Blocks : \E j \in 1..i-1 : Sent[j] = NewsOf(s, b)}

(***************************************************************************)
(* The heads of such a subscription are connected: the parent of each is   *)
(* the checkpoint, a head notified before, or the parent of the checkpoint *)
(* that was replaced at its height.  expandPath joins a new head to last   *)
(* or to history; neither may hold a head the client does not have.        *)
(***************************************************************************)
HeadsAreConnected ==
    \A s \in Subs, i \in 1..Len(Sent), b \in Blocks :
        checkpoint > 0 /\ since[s] = checkpoint /\ Sent[i] = NewsOf(s, b) =>
            Parent[b] \in Known(s, i)

(***************************************************************************)
(* "WebSocket clients receive accepted heads.  The proxy fills gaps and    *)
(* skips duplicate hashes." (README): a head accepted after a subscription *)
(* has been sent to the client at some time, on any of its subscriptions.  *)
(***************************************************************************)
ClientsReceiveAcceptedHeads ==
    \A s \in subs :
        CaughtUp /\ since[s] > 0 =>
            \A g \in since[s]+1..cursor :
                \E t \in Subs : NewsOf(t, log[g]) \in Range(Sent)
=============================================================================
