------------------------------ MODULE WsProofs ------------------------------
(***************************************************************************)
(* Why a client that subscribed at the checkpoint misses nothing and is    *)
(* never sent a head it cannot connect, for every block tree, any number   *)
(* of subscriptions and every limit on queue, stream and windows.          *)
(***************************************************************************)
EXTENDS WsSession, TLAPS

Types ==
    /\ head \in Accepted!AcceptedHeads \cup {NoHead}
    /\ log \in Seq(Blocks)
    /\ open \in BOOLEAN
    /\ pump \in {"off", "run", "retention", "admission"}
    /\ checkpoint \in 0..Len(log) /\ cursor \in 0..Len(log)
    /\ subs \subseteq Subs /\ notifying \subseteq Subs
    /\ batch \in Seq(Nat) /\ path \in Seq(Blocks)
    /\ \A i \in 1..Len(batch) : batch[i] \in 1..Len(log)
    /\ last \in Blocks \cup {NoBlock}
    /\ seen \subseteq Blocks /\ history \in Seq(Blocks)
    /\ queue \in Seq(Message) /\ received \in Seq(Message)
    /\ since \in [Subs -> Nat \cup {-1}] /\ began \in Nat

\* One entry per accepted head, none the same as the one before it.
LogFits ==
    /\ head = NoHead => log = <<>>
    /\ head # NoHead => /\ log # <<>> /\ head.generation = Len(log)
                        /\ log[Len(log)] = head.block
    /\ \A g \in 1..Len(log)-1 : log[g+1] # log[g]

\* Before the first subscription is inserted there is nothing.
OffFits ==
    pump = "off" =>
        /\ subs = {} /\ notifying = {} /\ seen = {} /\ batch = <<>> /\ path = <<>>
        /\ \A s \in Subs : since[s] = -1

\* Message i acknowledges s, or notifies s of b.
Acked(s) == \E j \in 1..Len(Sent) : Sent[j] = AckOf(s)
Got(s, b) == \E j \in 1..Len(Sent) : Sent[j] = NewsOf(s, b)

SubsFit ==
    /\ \A s \in subs \cup notifying : since[s] # -1 /\ (open => Acked(s))
    /\ \A i \in 1..Len(Sent) : Sent[i].kind = "head" => since[Sent[i].sub] # -1
    /\ notifying # {} => last \in seen

\* eventLoop is running, behind a checkpoint or from the beginning of the stream.
Running == open /\ pump # "off"
Following == Running /\ checkpoint > 0

\* Pages follow the cursor, or begin with what the stream still holds, or the
\* check of the cursor's event will fail.
BatchFits ==
    /\ \A i \in 1..Len(batch) : batch[i] = batch[1] + i - 1
    /\ Running /\ batch # <<>> =>
         \/ batch[1] = cursor + 1
         \/ cursor = 0 /\ ~Retained(batch[1] - 1)
         \/ cursor > 0 /\ pump = "retention" /\ cursor + 1 + StreamMax <= Len(log)

\* Whatever came since the loop began is announced, or on the path to the head
\* at the cursor.
LoopFits ==
    Running =>
        /\ checkpoint <= cursor
        /\ began \in checkpoint+1..Len(log)+1 /\ NothingBefore
        /\ cursor = checkpoint => seen = {} /\ path = <<>> /\ notifying = {}
        /\ path = <<>> => last = IF cursor = 0 THEN NoBlock ELSE log[cursor]
        /\ path # <<>> => path[Len(path)] = log[cursor]
        /\ \A g \in began..cursor : log[g] \in seen \/ (g = cursor /\ path # <<>>)

\* What every subscription since the checkpoint has from the start.
Start == {log[checkpoint], Parent[log[checkpoint]]}

\* What is known is the checkpoint and what was announced; a path leads from
\* there.
PathFits ==
    Following =>
        /\ last \in {log[checkpoint]} \cup seen
        /\ \A i \in 1..Len(history) : history[i] \in {log[checkpoint]} \cup seen
        /\ path # <<>> => Parent[path[1]] \in Start \cup seen
        /\ \A i \in 1..Len(path)-1 : Parent[path[i+1]] = path[i]
        /\ \A b \in seen : Parent[b] \in Start \cup (seen \ {b})

\* Everything announced was sent to the subscriptions made at the checkpoint.
NewsFits ==
    Running =>
        \A s \in subs \cup notifying, b \in seen :
            since[s] = checkpoint => Got(s, b) \/ (b = last /\ s \in notifying)

IInv ==
    /\ Types /\ LogFits /\ OffFits /\ SubsFit /\ BatchFits /\ LoopFits /\ PathFits /\ NewsFits
    /\ AckPrecedesHeads /\ HeadsAreConnected

-----------------------------------------------------------------------------
(* What has been sent *)

LEMMA MessageFacts ==
    ASSUME NEW s \in Subs
    PROVE  /\ AckOf(s) \in Message /\ AckOf(s).kind = "ack" /\ AckOf(s).sub = s
           /\ Answer \in Message /\ Answer.kind = "reply"
           /\ \A b \in Blocks : NewsOf(s, b) \in Message
           /\ \A b : NewsOf(s, b).kind = "head" /\ NewsOf(s, b).sub = s /\ NewsOf(s, b).block = b
BY DEF AckOf, Answer, NewsOf, Message

LEMMA AnswerTyped == Answer \in Message /\ Answer.kind = "reply"
BY DEF Answer, Message

LEMMA SentTyped ==
    ASSUME Types
    PROVE  /\ Sent \in Seq(Message) /\ Len(Sent) \in Nat
           /\ \A i \in 1..Len(Sent) : Sent[i] \in Message
BY DEF Types, Sent

\* One message more, and no other change.
Grown(m) ==
    /\ Len(Sent') = Len(Sent) + 1
    /\ Sent'[Len(Sent) + 1] = m
    /\ \A i \in 1..Len(Sent) : Sent'[i] = Sent[i]

\* Whoever finds the queue full ends the session.
LEMMA Enqueued ==
    ASSUME Types, NEW m \in Message, Enqueue(m), UNCHANGED received
    PROVE  /\ queue' \in Seq(Message) /\ received' \in Seq(Message)
           /\ \/ open' = open /\ Grown(m)
              \/ open' = FALSE /\ Sent' = Sent
<1>1. CASE Len(queue) < QueueSize
  <2>1. queue' = Append(queue, m) /\ open' = open
    BY <1>1 DEF Enqueue
  <2>2. queue \in Seq(Message) /\ received \in Seq(Message)
    BY DEF Types
  <2>3. queue' \in Seq(Message) /\ Len(queue') = Len(queue) + 1
    BY <2>1, <2>2
  <2>4. Len(Sent') = Len(Sent) + 1 /\ Len(Sent) = Len(received) + Len(queue)
    BY <2>2, <2>3 DEF Sent
  <2>5. \A i \in 1..Len(Sent) : Sent'[i] = Sent[i]
    BY <2>1, <2>2, <2>3, <2>4 DEF Sent
  <2>6. Sent'[Len(Sent) + 1] = m
    BY <2>1, <2>2, <2>3, <2>4 DEF Sent
  <2> QED
    BY <2>1, <2>2, <2>3, <2>4, <2>5, <2>6 DEF Grown
<1>2. CASE ~(Len(queue) < QueueSize)
  BY <1>2 DEF Enqueue, Types, Sent
<1> QED
  BY <1>1, <1>2

\* writeLoop moves a message from the queue to the client.
LEMMA Written ==
    ASSUME Types, Write
    PROVE  queue' \in Seq(Message) /\ received' \in Seq(Message) /\ Sent' = Sent
<1>1. /\ queue # <<>> /\ received' = Append(received, Head(queue)) /\ queue' = Tail(queue)
      /\ queue \in Seq(Message) /\ received \in Seq(Message)
  BY DEF Write, Types
<1>2. queue' \in Seq(Message) /\ received' \in Seq(Message)
  BY <1>1
<1>3. Len(Sent') = Len(Sent) /\ Len(Sent) = Len(received) + Len(queue) /\ Len(queue) > 0
  BY <1>1, <1>2 DEF Sent
<1>4. \A i \in 1..Len(Sent) : Sent'[i] = Sent[i]
  BY <1>1, <1>2, <1>3 DEF Sent
<1>5. Sent \in Seq(Message) /\ Sent' \in Seq(Message)
  BY <1>1, <1>2 DEF Sent
<1> QED
  BY <1>2, <1>3, <1>4, <1>5
\* What was sent stays sent.
LEMMA SentKept ==
    ASSUME Types, NEW m, Sent' = Sent \/ Grown(m)
    PROVE  \A s, b : (Acked(s) => Acked(s)') /\ (Got(s, b) => Got(s, b)')
<1>1. Len(Sent) \in Nat
  BY SentTyped
<1>2. CASE Sent' = Sent
  BY <1>2 DEF Acked, Got
<1>3. CASE Grown(m)
  <2>1. \A i \in 1..Len(Sent) : i \in 1..Len(Sent') /\ Sent'[i] = Sent[i]
    BY <1>1, <1>3 DEF Grown
  <2> QED
    BY <2>1 DEF Acked, Got
<1> QED
  BY <1>2, <1>3

LEMMA AcksKept ==
    ASSUME Types, AckPrecedesHeads, NEW m,
           Sent' = Sent \/ (Grown(m) /\ (m.kind = "head" => Acked(m.sub)))
    PROVE  AckPrecedesHeads'
<1>1. Len(Sent) \in Nat
  BY SentTyped
<1>2. CASE Sent' = Sent
  BY <1>2 DEF AckPrecedesHeads
<1>3. CASE Grown(m) /\ (m.kind = "head" => Acked(m.sub))
  <2> SUFFICES ASSUME NEW i \in 1..Len(Sent'), Sent'[i].kind = "head"
               PROVE  \E j \in 1..i-1 : Sent'[j] = AckOf(Sent'[i].sub)
    BY DEF AckPrecedesHeads
  <2>1. CASE i \in 1..Len(Sent)
    <3>1. Sent'[i] = Sent[i]
      BY <1>3, <2>1 DEF Grown
    <3>2. PICK j \in 1..i-1 : Sent[j] = AckOf(Sent[i].sub)
      BY <2>1, <3>1 DEF AckPrecedesHeads
    <3>3. j \in 1..Len(Sent)
      BY <1>1, <2>1
    <3> QED
      BY <1>3, <3>1, <3>2, <3>3 DEF Grown
  <2>2. CASE i = Len(Sent) + 1
    <3>1. Sent'[i] = m
      BY <1>3, <2>2 DEF Grown
    <3>2. PICK j \in 1..Len(Sent) : Sent[j] = AckOf(m.sub)
      BY <1>3, <3>1 DEF Acked
    <3> QED
      BY <1>1, <1>3, <2>2, <3>1, <3>2 DEF Grown
  <2> QED
    BY <1>1, <1>3, <2>1, <2>2 DEF Grown
<1> QED
  BY <1>2, <1>3

\* The heads stay connected when a message is sent whose parent its reader has.
LEMMA ConnectedKept ==
    ASSUME Types, HeadsAreConnected, UNCHANGED <<checkpoint, since>>,
           checkpoint > 0 => log'[checkpoint] = log[checkpoint],
           NEW m,
           \/ Sent' = Sent
           \/ /\ Grown(m)
              /\ \A s \in Subs, b \in Blocks :
                   m = NewsOf(s, b) /\ checkpoint > 0 /\ since[s] = checkpoint =>
                      Parent[b] \in Start \/ (Parent[b] \in Blocks /\ Got(s, Parent[b]))
    PROVE  HeadsAreConnected'
<1>1. Len(Sent) \in Nat
  BY SentTyped
<1> SUFFICES ASSUME NEW s \in Subs, NEW i \in 1..Len(Sent'), NEW b \in Blocks,
                    checkpoint > 0, since[s] = checkpoint, Sent'[i] = NewsOf(s, b)
             PROVE  Parent[b] \in Known(s, i)'
  BY DEF HeadsAreConnected
<1>2. /\ Known(s, i)' = Start \cup {c \in Blocks : \E j \in 1..i-1 : Sent'[j] = NewsOf(s, c)}
      /\ \A k : Known(s, k) = Start \cup {c \in Blocks : \E j \in 1..k-1 : Sent[j] = NewsOf(s, c)}
  BY DEF Known, Start
<1>3. CASE Sent' = Sent
  BY <1>2, <1>3 DEF HeadsAreConnected
<1>4. CASE Grown(m) /\ i \in 1..Len(Sent)
  <2>1. Parent[b] \in Known(s, i)
    BY <1>4 DEF HeadsAreConnected, Grown
  <2>2. \A j \in 1..i-1 : Sent'[j] = Sent[j]
    BY <1>1, <1>4 DEF Grown
  <2> QED
    BY <1>2, <2>1, <2>2
<1>5. CASE Sent' # Sent /\ Grown(m) /\ i = Len(Sent) + 1
  <2>1. m = NewsOf(s, b)
    BY <1>5 DEF Grown
  <2>2. CASE Parent[b] \in Start
    BY <1>2, <2>2
  <2>3. CASE Parent[b] \in Blocks /\ Got(s, Parent[b])
    <3>1. PICK j \in 1..Len(Sent) : Sent[j] = NewsOf(s, Parent[b])
      BY <2>3 DEF Got
    <3>2. j \in 1..i-1 /\ Sent'[j] = NewsOf(s, Parent[b])
      BY <1>1, <1>5, <3>1 DEF Grown
    <3> QED
      BY <1>2, <2>3, <3>2
  <2> QED
    BY <1>5, <2>1, <2>2, <2>3
<1> QED
  BY <1>1, <1>3, <1>4, <1>5 DEF Grown

\* Steps that leave eventLoop alone: requests that change nothing in it,
\* subscriptions that end, a session that ends.
LEMMA QuietStep ==
    ASSUME IInv, Types', UNCHANGED <<head, log, pump, loopVars, checkpoint, since>>,
           subs' \subseteq subs, open' => open,
           Sent' = Sent \/ Grown(Answer)
    PROVE  IInv'
<1>1. UNCHANGED <<cursor, batch, path, last, seen, history, notifying, began>>
  BY DEF loopVars
<1>2. LogFits' /\ OffFits'
  BY <1>1 DEF IInv, LogFits, OffFits
<1>3. Running' => Running
  BY DEF Running
<1>4. Types /\ (\A s, b : (Acked(s) => Acked(s)') /\ (Got(s, b) => Got(s, b)'))
  BY SentKept DEF IInv
<1>5. SubsFit'
  <2>1. \A s \in subs' \cup notifying' : since'[s] # -1 /\ (open' => Acked(s)')
    BY <1>1, <1>4 DEF IInv, SubsFit
  <2>2. \A i \in 1..Len(Sent') : Sent'[i].kind = "head" => since'[Sent'[i].sub] # -1
    <3>1. CASE Sent' = Sent
      BY <3>1 DEF IInv, SubsFit
    <3>2. CASE Grown(Answer)
      BY <1>4, <3>2, AnswerTyped, SentTyped DEF IInv, SubsFit, Grown
    <3> QED
      BY <3>1, <3>2
  <2> QED
    BY <1>1, <2>1, <2>2 DEF IInv, SubsFit
<1>6. BatchFits'
  BY <1>1, <1>3 DEF IInv, BatchFits, Retained
<1>7. LoopFits' /\ PathFits'
  BY <1>1, <1>3 DEF IInv, LoopFits, NothingBefore, Retained, PathFits, Following, Start
<1>8. NewsFits'
  BY <1>1, <1>3, <1>4 DEF IInv, NewsFits
<1>9. AckPrecedesHeads'
  BY <1>4, AnswerTyped, AcksKept DEF IInv
<1>10. HeadsAreConnected'
  <2>1. \A s, b : Answer # NewsOf(s, b)
    BY AnswerTyped DEF NewsOf
  <2> QED
    BY <1>4, <2>1, ConnectedKept DEF IInv
<1> QED
  BY <1>2, <1>5, <1>6, <1>7, <1>8, <1>9, <1>10 DEF IInv
-----------------------------------------------------------------------------
(* readLoop and writeLoop *)

LEMMA TypesStay ==
    ASSUME Types, UNCHANGED <<head, log, loopVars, checkpoint, since>>,
           pump' \in {"off", "run", "retention", "admission"}, subs' \subseteq Subs,
           open' \in BOOLEAN, queue' \in Seq(Message), received' \in Seq(Message)
    PROVE  Types'
BY DEF Types, loopVars

LEMMA WriteInv ==
    ASSUME IInv, Write
    PROVE  IInv'
<1>1. UNCHANGED <<head, log, pump, loopVars, checkpoint, since, subs, open>>
  BY DEF Write, shared, reading
<1>2. Types /\ queue' \in Seq(Message) /\ received' \in Seq(Message) /\ Sent' = Sent
  BY Written DEF IInv
<1>3. Types'
  BY <1>1, <1>2, TypesStay DEF Types
<1> QED
  BY <1>1, <1>2, <1>3, QuietStep

\* The session is closed and nothing else happens to eventLoop.
LEMMA CloseInv ==
    ASSUME IInv, open' = FALSE,
           UNCHANGED <<head, log, pump, loopVars, checkpoint, since, subs, queue, received>>
    PROVE  IInv'
<1>1. Sent' = Sent
  BY DEF Sent
<1>2. Types'
  BY TypesStay DEF IInv, Types
<1> QED
  BY <1>1, <1>2, QuietStep

\* A request that is answered without a change to eventLoop.
LEMMA AnswerInv ==
    ASSUME IInv, Enqueue(Answer), subs' \subseteq subs,
           UNCHANGED <<head, log, pump, loopVars, checkpoint, since, received>>
    PROVE  IInv'
<1>1. Types
  BY DEF IInv
<1>2. /\ queue' \in Seq(Message) /\ received' \in Seq(Message)
      /\ \/ open' = open /\ Grown(Answer)
         \/ open' = FALSE /\ Sent' = Sent
  BY <1>1, AnswerTyped, Enqueued
<1>3. Types'
  BY <1>1, <1>2, TypesStay DEF Types
<1> QED
  BY <1>2, <1>3, QuietStep

LEMMA SilentInv ==
    ASSUME IInv, subs' \subseteq subs,
           UNCHANGED <<head, log, pump, loopVars, checkpoint, since, open, queue, received>>
    PROVE  IInv'
<1>1. Sent' = Sent
  BY DEF Sent
<1>2. Types'
  BY TypesStay DEF IInv, Types
<1> QED
  BY <1>1, <1>2, QuietStep

\* The checkpoint is read while there is no subscription yet.
LEMMA SubscribeInv ==
    ASSUME IInv, Subscribe
    PROVE  IInv'
<1>1. /\ UNCHANGED <<head, log, pump, loopVars, open, queue, received, subs, since>>
      /\ checkpoint' = checkpoint \/ (pump = "off" /\ checkpoint' = Len(log))
  BY DEF Subscribe, shared
<1>2. CASE checkpoint' = checkpoint
  BY <1>1, <1>2, SilentInv
<1>3. CASE pump = "off" /\ checkpoint' = Len(log)
  <2>1. Types'
    <3>1. Len(log) \in 0..Len(log)
      BY DEF IInv, Types
    <3> QED
      BY <1>1, <1>3, <3>1 DEF IInv, Types, loopVars
  <2>2. Sent' = Sent
    BY <1>1 DEF Sent
  <2>3. LogFits' /\ OffFits' /\ SubsFit' /\ AckPrecedesHeads'
    BY <1>1, <2>2 DEF IInv, LogFits, OffFits, SubsFit, Acked, AckPrecedesHeads, loopVars
  <2>4. ~Running'
    BY <1>1, <1>3 DEF Running
  <2>5. LoopFits' /\ PathFits' /\ NewsFits' /\ BatchFits'
    BY <1>1, <2>4 DEF IInv, LoopFits, PathFits, NewsFits, BatchFits, Following, loopVars
  <2>6. HeadsAreConnected'
    <3>1. \A s \in Subs : since'[s] = -1
      BY <1>1, <1>3 DEF IInv, OffFits
    <3> QED
      BY <2>1, <3>1 DEF HeadsAreConnected, Types
  <2> QED
    BY <2>1, <2>3, <2>5, <2>6 DEF IInv
<1> QED
  BY <1>1, <1>2, <1>3

LEMMA ReaderSteps ==
    ASSUME IInv,
           \/ Disconnect \/ OtherRequest \/ Admit \/ Refuse \/ LimitReached
           \/ LoopCloses \/ GapTooWide \/ \E s \in Subs : Unsubscribe(s)
    PROVE  IInv'
<1>1. CASE Disconnect \/ LoopCloses \/ GapTooWide
  BY <1>1, CloseInv DEF Disconnect, LoopCloses, GapTooWide, shared, reading
<1>2. CASE OtherRequest \/ Refuse \/ LimitReached
  BY <1>2, AnswerInv DEF OtherRequest, Refuse, LimitReached, shared
<1>3. CASE Admit
  BY <1>3, SilentInv DEF Admit, shared
<1>4. ASSUME NEW s \in Subs, Unsubscribe(s) PROVE IInv'
  <2>1. /\ subs' \subseteq subs
        /\ UNCHANGED <<head, log, pump, loopVars, checkpoint, since, received>>
        /\ Enqueue(Answer) \/ UNCHANGED <<queue, open>>
    BY <1>4 DEF Unsubscribe, shared
  <2> QED
    BY <2>1, AnswerInv, SilentInv
<1> QED
  BY <1>1, <1>2, <1>3, <1>4

(***************************************************************************)
(* The acknowledgment is queued in the same step that makes the id known   *)
(* to notify, or the session ends.                                         *)
(***************************************************************************)
LEMMA InsertInv ==
    ASSUME IInv, NEW s \in Subs, Insert(s)
    PROVE  IInv'
<1>1. /\ open /\ since[s] = -1 /\ subs' = subs \cup {s}
      /\ since' = [since EXCEPT ![s] = IF pump = "off" THEN checkpoint ELSE cursor]
      /\ Enqueue(AckOf(s))
      /\ UNCHANGED <<head, log, received, checkpoint>>
      /\ \/ pump = "off" /\ StartPump
         \/ pump # "off" /\ UNCHANGED <<pump, loopVars>>
  BY DEF Insert, shared
<1>2. UNCHANGED <<batch, path, seen, notifying>>
  BY <1>1 DEF StartPump, loopVars
<1>3. Types /\ since \in [Subs -> Nat \cup {-1}]
  BY DEF IInv, Types
<1>4. /\ queue' \in Seq(Message) /\ received' \in Seq(Message)
      /\ \/ open' = open /\ Grown(AckOf(s))
         \/ open' = FALSE /\ Sent' = Sent
  BY <1>1, <1>3, MessageFacts, Enqueued
<1>5. /\ since' \in [Subs -> Nat \cup {-1}]
      /\ since'[s] = (IF pump = "off" THEN checkpoint ELSE cursor) /\ since'[s] # -1
      /\ \A t \in Subs \ {s} : since'[t] = since[t]
  <2>1. checkpoint \in Nat /\ cursor \in Nat
    BY <1>3 DEF Types
  <2> QED
    BY <1>1, <1>3, <2>1
<1>6. Types'
  <2>1. /\ pump' \in {"off", "run", "retention", "admission"} /\ cursor' \in 0..Len(log)
        /\ last' \in Blocks \cup {NoBlock} /\ history' \in Seq(Blocks) /\ began' \in Nat
    <3>1. CASE pump = "off" /\ StartPump
      <4>1. /\ pump' = "run" /\ cursor' = checkpoint /\ began' = checkpoint + 1
            /\ last' = IF checkpoint = 0 THEN NoBlock ELSE log[checkpoint]
            /\ history' = IF checkpoint = 0 THEN <<>> ELSE <<log[checkpoint]>>
        BY <3>1 DEF StartPump
      <4>2. checkpoint # 0 => log[checkpoint] \in Blocks
        BY <1>3 DEF Types
      <4> QED
        BY <1>3, <4>1, <4>2 DEF Types
    <3>2. CASE UNCHANGED <<pump, loopVars>>
      BY <1>3, <3>2 DEF Types, loopVars
    <3> QED
      BY <1>1, <3>1, <3>2
  <2>2. subs' \subseteq Subs /\ open' \in BOOLEAN
    BY <1>1, <1>3, <1>4 DEF Types
  <2> QED
    BY <1>1, <1>2, <1>3, <1>4, <1>5, <2>1, <2>2 DEF Types
<1>7. \A t, b : (Acked(t) => Acked(t)') /\ (Got(t, b) => Got(t, b)')
  BY <1>3, <1>4, SentKept
<1>8. LogFits' /\ OffFits'
  <2>1. pump' # "off"
    BY <1>1 DEF StartPump
  <2> QED
    BY <1>1, <2>1 DEF IInv, LogFits, OffFits
<1>9. \A i \in 1..Len(Sent') : Sent'[i].kind = "head" => i \in 1..Len(Sent) /\ Sent'[i] = Sent[i]
  BY <1>3, <1>4, MessageFacts, SentTyped DEF Grown
<1>10. \A i \in 1..Len(Sent') : Sent'[i].kind = "head" =>
          Sent'[i].sub # s /\ Sent'[i].sub \in Subs /\ since'[Sent'[i].sub] # -1
  <2> SUFFICES ASSUME NEW i \in 1..Len(Sent), Sent[i].kind = "head"
               PROVE  Sent[i].sub # s /\ Sent[i].sub \in Subs /\ since'[Sent[i].sub] # -1
    BY <1>9
  <2>1. Sent[i] \in Message /\ since[Sent[i].sub] # -1
    BY <1>3, SentTyped DEF IInv, SubsFit
  <2>2. Sent[i].sub \in Subs
    BY <2>1 DEF Message
  <2> QED
    BY <1>1, <1>5, <2>1, <2>2
<1>11. SubsFit'
  <2>1. open' => Acked(s)'
    <3>1. Grown(AckOf(s)) => Acked(s)'
      BY <1>3, SentTyped DEF Grown, Acked
    <3> QED
      BY <1>4, <3>1
  <2>2. \A t \in subs \cup notifying : since'[t] # -1 /\ (open' => Acked(t)')
    BY <1>1, <1>3, <1>4, <1>5, <1>7 DEF IInv, SubsFit, Types
  <2>3. notifying' # {} => last' \in seen'
    BY <1>1, <1>2 DEF IInv, SubsFit, OffFits, loopVars
  <2> QED
    BY <1>1, <1>2, <1>5, <1>10, <2>1, <2>2, <2>3 DEF SubsFit
<1>12. AckPrecedesHeads'
  BY <1>3, <1>4, MessageFacts, AcksKept DEF IInv
<1>13. ASSUME pump # "off" PROVE BatchFits' /\ LoopFits' /\ PathFits' /\ NewsFits'
  <2>1. UNCHANGED <<pump, cursor, batch, path, last, seen, history, notifying, began>>
    BY <1>1, <1>13 DEF loopVars
  <2>2. Running' => Running
    BY <1>1, <2>1 DEF Running
  <2>3. BatchFits' /\ LoopFits' /\ PathFits'
    BY <1>1, <2>1, <2>2 DEF IInv, BatchFits, LoopFits, NothingBefore, Retained, PathFits, Following, Start
  <2>4. NewsFits'
    <3> SUFFICES ASSUME Running', NEW t \in subs' \cup notifying, NEW b \in seen,
                        since'[t] = checkpoint
                 PROVE  Got(t, b)' \/ (b = last /\ t \in notifying)
      BY <1>1, <2>1 DEF NewsFits
    <3>1. CASE t = s
      BY <1>5, <1>13, <2>2, <3>1 DEF IInv, LoopFits
    <3>2. CASE t # s
      BY <1>1, <1>3, <1>5, <1>7, <2>2, <3>2 DEF IInv, NewsFits, Types
    <3> QED
      BY <3>1, <3>2
  <2> QED
    BY <2>3, <2>4
<1>14. ASSUME pump = "off" PROVE BatchFits' /\ LoopFits' /\ PathFits' /\ NewsFits'
  <2>1. seen = {} /\ path = <<>> /\ batch = <<>> /\ notifying = {}
    BY <1>14 DEF IInv, OffFits
  <2>2. /\ cursor' = checkpoint /\ began' = checkpoint + 1
        /\ checkpoint = 0 => last' = NoBlock
        /\ checkpoint > 0 => last' = log[checkpoint] /\ history' = <<log[checkpoint]>>
    BY <1>1, <1>14 DEF StartPump
  <2>3. BatchFits' /\ NewsFits'
    BY <1>2, <2>1 DEF BatchFits, NewsFits
  <2>4. /\ checkpoint \in 0..Len(log) /\ Len(log) \in Nat /\ Len(path') = 0
        /\ seen' = {} /\ path' = <<>> /\ notifying' = {} /\ checkpoint' = checkpoint /\ log' = log
    BY <1>1, <1>2, <1>3, <2>1 DEF Types
  <2>5. LoopFits'
    <3>1. began' \in checkpoint+1..Len(log)+1 /\ NothingBefore' /\ began'..cursor' = {}
      BY <2>2, <2>4 DEF NothingBefore
    <3>2. last' = IF cursor' = 0 THEN NoBlock ELSE log[cursor']
      BY <2>2, <2>4
    <3> QED
      BY <2>2, <2>4, <3>1, <3>2 DEF LoopFits
  <2>6. PathFits'
    <3> SUFFICES ASSUME checkpoint > 0 PROVE PathFits'
      BY <1>1 DEF PathFits, Following
    <3>1. /\ last' = log[checkpoint] /\ Len(history') = 1 /\ history'[1] = log[checkpoint]
      BY <1>3, <2>2
    <3>2. \A i \in 1..Len(history') : history'[i] \in {log'[checkpoint']} \cup seen'
      BY <2>4, <3>1
    <3>3. 1..Len(path')-1 = {}
      BY <2>4
    <3> QED
      BY <2>4, <3>1, <3>2, <3>3 DEF PathFits
  <2> QED
    BY <2>3, <2>5, <2>6
<1>15. HeadsAreConnected'
  <2> SUFFICES ASSUME NEW t \in Subs, NEW i \in 1..Len(Sent'), NEW b \in Blocks,
                      checkpoint > 0, since'[t] = checkpoint, Sent'[i] = NewsOf(t, b)
               PROVE  Parent[b] \in Known(t, i)'
    BY <1>1 DEF HeadsAreConnected
  <2>1. t # s /\ i \in 1..Len(Sent) /\ Sent'[i] = Sent[i]
    BY <1>9, <1>10, MessageFacts
  <2>2. since[t] = checkpoint
    BY <1>5, <2>1
  <2>3. Parent[b] \in Known(t, i)
    BY <2>1, <2>2 DEF IInv, HeadsAreConnected
  <2>4. \A j \in 1..i-1 : Sent'[j] = Sent[j]
    BY <1>3, <1>4, <2>1, SentTyped DEF Grown
  <2> QED
    BY <1>1, <2>3, <2>4 DEF Known
<1> QED
  BY <1>6, <1>8, <1>11, <1>12, <1>13, <1>14, <1>15 DEF IInv
-----------------------------------------------------------------------------
(* The shared head and its stream *)

\* Every head that is accepted anew is a new entry of the stream.
LEMMA LogStep ==
    ASSUME Types, LogFits, HeadMoves
    PROVE  /\ head' \in Accepted!AcceptedHeads \cup {NoHead}
           /\ log' \in Seq(Blocks) /\ Len(log) <= Len(log')
           /\ \A g \in 1..Len(log) : log'[g] = log[g]
           /\ LogFits'
<1> DEFINE Heads == Accepted!AcceptedHeads
<1>1. NoHead \notin Heads
  BY SessionAssumption DEF Accepted!AcceptedHeads
<1>2. /\ Accepted!Next
      /\ log' = IF head'.generation > Len(log) THEN Append(log, head'.block) ELSE log
  BY DEF HeadMoves, HeadSeen
<1>3. log \in Seq(Blocks) /\ Len(log) \in Nat
  BY DEF Types
<1>4. ASSUME head' \in Heads, log' = Append(log, head'.block), head'.generation = Len(log) + 1,
             log # <<>> => head'.block # log[Len(log)]
      PROVE  log' \in Seq(Blocks) /\ Len(log) <= Len(log')
             /\ (\A g \in 1..Len(log) : log'[g] = log[g]) /\ LogFits'
  <2>1. head'.block \in Blocks
    BY <1>4 DEF Accepted!AcceptedHeads
  <2>2. /\ log' \in Seq(Blocks) /\ Len(log') = Len(log) + 1 /\ log'[Len(log) + 1] = head'.block
        /\ \A g \in 1..Len(log) : log'[g] = log[g]
    BY <1>3, <1>4, <2>1
  <2>3. \A g \in 1..Len(log')-1 : log'[g+1] # log'[g]
    <3> SUFFICES ASSUME NEW g \in 1..Len(log) PROVE log'[g+1] # log'[g]
      BY <1>3, <2>2
    <3>1. CASE g = Len(log)
      BY <1>3, <1>4, <2>2, <3>1
    <3>2. CASE g # Len(log)
      <4>1. g \in 1..Len(log)-1 /\ g + 1 \in 1..Len(log)
        BY <1>3, <3>2
      <4> QED
        BY <2>2, <4>1 DEF LogFits
    <3> QED
      BY <3>1, <3>2
  <2>4. log' # <<>>
    BY <1>3, <2>2
  <2> QED
    BY <1>1, <1>3, <1>4, <2>2, <2>3, <2>4 DEF LogFits
<1>5. ASSUME head # NoHead, head' \in Heads, head'.generation = head.generation,
             head'.block = head.block
      PROVE  log' = log /\ LogFits'
  <2>1. head.generation = Len(log)
    BY <1>5 DEF LogFits
  <2>2. log' = log
    BY <1>2, <1>3, <1>5, <2>1
  <2> QED
    BY <1>1, <1>5, <2>2 DEF LogFits
<1>6. ASSUME NEW b \in Blocks, head # NoHead, head' = Accepted!MovedTo(b)
      PROVE  /\ head' \in Heads /\ head'.block = b
             /\ b = head.block => head'.generation = head.generation
             /\ b # head.block => head'.generation = head.generation + 1
  <2> DEFINE g == IF b = head.block THEN head.generation ELSE head.generation + 1
  <2>1. head.epoch \in Nat /\ head.generation \in Nat
    BY <1>6 DEF Types, Accepted!AcceptedHeads
  <2>2. head' = [block |-> b, epoch |-> head.epoch, pending |-> FALSE, generation |-> g]
    BY <1>6 DEF Accepted!MovedTo
  <2>3. /\ g \in Nat /\ (b = head.block => g = head.generation)
        /\ (b # head.block => g = head.generation + 1)
    BY <2>1
  <2> HIDE DEF g
  <2> QED
    BY <2>1, <2>2, <2>3 DEF Accepted!AcceptedHeads
<1>7. CASE Accepted!Fence
  <2> DEFINE g == [head EXCEPT !.epoch = @ + 1]
  <2>1. head # NoHead /\ head' = [g EXCEPT !.pending = TRUE] /\ head \in Heads
    BY <1>7 DEF Accepted!Fence, Types
  <2>2. g \in Heads /\ g.block = head.block /\ g.generation = head.generation
    BY <2>1 DEF Accepted!AcceptedHeads
  <2> HIDE DEF g
  <2>3. head' \in Heads /\ head'.block = head.block /\ head'.generation = head.generation
    BY <2>1, <2>2 DEF Accepted!AcceptedHeads
  <2> QED
    BY <1>3, <1>5, <2>1, <2>3
<1>8. ASSUME NEW b \in Blocks, Accepted!First(b)
      PROVE  /\ head' \in Heads /\ log' \in Seq(Blocks) /\ Len(log) <= Len(log')
             /\ (\A g \in 1..Len(log) : log'[g] = log[g]) /\ LogFits'
  <2>1. head = NoHead /\ head' \in Heads /\ head'.generation = 1
    BY <1>8 DEF Accepted!First, Accepted!AcceptedHeads
  <2>2. log = <<>> /\ Len(log) = 0
    BY <1>3, <2>1 DEF LogFits
  <2> QED
    BY <1>2, <1>4, <2>1, <2>2
<1>9. ASSUME NEW b \in Blocks, head # NoHead, head' = Accepted!MovedTo(b)
      PROVE  /\ head' \in Heads /\ log' \in Seq(Blocks) /\ Len(log) <= Len(log')
             /\ (\A g \in 1..Len(log) : log'[g] = log[g]) /\ LogFits'
  <2>1. /\ head' \in Heads /\ head'.block = b
        /\ b = head.block => head'.generation = head.generation
        /\ b # head.block => head'.generation = head.generation + 1
    BY <1>6, <1>9
  <2>2. head.generation = Len(log) /\ log[Len(log)] = head.block /\ log # <<>>
    BY <1>9 DEF LogFits
  <2>3. CASE b = head.block
    BY <1>3, <1>5, <1>9, <2>1, <2>3
  <2>4. CASE b # head.block
    <3>1. log' = Append(log, head'.block)
      BY <1>2, <1>3, <2>1, <2>2, <2>4
    <3> QED
      BY <1>4, <2>1, <2>2, <2>4, <3>1
  <2> QED
    BY <2>3, <2>4
<1> QED
  BY <1>2, <1>7, <1>8, <1>9 DEF Accepted!Next, Accepted!Advance, Accepted!Recover

LEMMA HeadMovesInv ==
    ASSUME IInv, HeadMoves
    PROVE  IInv'
<1>1. /\ UNCHANGED <<reader, requests, checkpoint, subs, since, pump, open, queue, received>>
      /\ UNCHANGED <<cursor, batch, path, last, seen, history, notifying, began>>
  BY DEF HeadMoves, HeadSeen, reading, loopVars
<1>2. Types
  BY DEF IInv
<1>3. /\ head' \in Accepted!AcceptedHeads \cup {NoHead}
      /\ log' \in Seq(Blocks) /\ Len(log) <= Len(log') /\ LogFits'
      /\ \A g \in 1..Len(log) : log'[g] = log[g]
  BY LogStep DEF IInv
<1>4. Len(log) \in Nat /\ Len(log') \in Nat /\ checkpoint \in 0..Len(log) /\ cursor \in 0..Len(log)
  BY <1>2, <1>3 DEF Types
<1>5. Types'
  BY <1>1, <1>2, <1>3, <1>4 DEF Types
<1>6. Sent' = Sent
  BY <1>1 DEF Sent
<1>7. OffFits' /\ SubsFit' /\ AckPrecedesHeads'
  BY <1>1, <1>6 DEF IInv, OffFits, SubsFit, Acked, AckPrecedesHeads
<1>8. (Running' <=> Running) /\ (Following' <=> Following)
  BY <1>1 DEF Running, Following
<1>14. \A g \in 0..Len(log) : ~Retained(g) => ~Retained(g)'
  BY <1>3, <1>4, SessionAssumption DEF Retained
<1>9. BatchFits'
  <2>1. cursor + 1 + StreamMax <= Len(log) => cursor + 1 + StreamMax <= Len(log')
    BY <1>3, <1>4, SessionAssumption
  <2>2. batch # <<>> => batch[1] - 1 \in 0..Len(log)
    <3> SUFFICES ASSUME batch # <<>> PROVE batch[1] - 1 \in 0..Len(log)
      OBVIOUS
    <3>1. 1 \in 1..Len(batch)
      BY <1>2 DEF Types
    <3> QED
      BY <1>2, <1>4, <3>1 DEF Types
  <2>3. batch # <<>> /\ ~Retained(batch[1] - 1) => ~Retained(batch[1] - 1)'
    BY <1>1, <1>14, <2>2 DEF Retained
  <2> QED
    BY <1>1, <1>8, <2>1, <2>3 DEF IInv, BatchFits
<1>10. checkpoint > 0 => log'[checkpoint] = log[checkpoint]
  BY <1>3, <1>4
<1>15. LoopFits'
  <2> SUFFICES ASSUME Running PROVE LoopFits'
    BY <1>8 DEF LoopFits
  <2>1. began \in checkpoint+1..Len(log)+1 /\ NothingBefore
    BY DEF IInv, LoopFits
  <2>2. began \in checkpoint+1..Len(log')+1
    BY <1>3, <1>4, <2>1
  <2>3. NothingBefore'
    <3>1. began - 1 \in 0..Len(log)
      BY <1>4, <2>1
    <3> QED
      BY <1>1, <1>14, <2>1, <3>1 DEF NothingBefore, Retained
  <2>4. /\ \A g \in began..cursor : log'[g] = log[g]
        /\ cursor # 0 => log'[cursor] = log[cursor]
    BY <1>3, <1>4, <2>1
  <2>5. path # <<>> => cursor # 0
    BY <1>4 DEF IInv, LoopFits
  <2> QED
    BY <1>1, <2>2, <2>3, <2>4, <2>5 DEF IInv, LoopFits
<1>11. PathFits'
  BY <1>1, <1>8, <1>10 DEF IInv, PathFits, Following, Start
<1>12. NewsFits'
  BY <1>1, <1>6, <1>8 DEF IInv, NewsFits, Got
<1>13. HeadsAreConnected'
  BY <1>1, <1>2, <1>6, <1>10, ConnectedKept DEF IInv
<1> QED
  BY <1>3, <1>5, <1>7, <1>9, <1>11, <1>12, <1>13, <1>15 DEF IInv
-----------------------------------------------------------------------------
(* eventLoop *)

\* A step of eventLoop that sends nothing and announces nothing.
LEMMA LoopStep ==
    ASSUME IInv, Types', BatchFits', LoopFits', PathFits', NewsFits',
           UNCHANGED <<head, log, checkpoint, subs, since, open, queue, received, seen, notifying>>,
           notifying # {} => UNCHANGED last,
           pump # "off", pump' # "off"
    PROVE  IInv'
<1>1. Types /\ Sent' = Sent
  BY DEF IInv, Sent
<1>2. LogFits' /\ OffFits' /\ SubsFit' /\ AckPrecedesHeads'
  BY <1>1 DEF IInv, LogFits, OffFits, SubsFit, Acked, AckPrecedesHeads
<1>3. HeadsAreConnected'
  BY <1>1, ConnectedKept DEF IInv
<1> QED
  BY <1>2, <1>3 DEF IInv

LEMMA ReadEventsInv ==
    ASSUME IInv, ReadEvents
    PROVE  IInv'
<1> DEFINE Found(g) == /\ g = Len(log) + 1 \/ Retained(g)
                       /\ \A h \in cursor+1..g-1 : ~Retained(h)
           first == CHOOSE g \in cursor+1..Len(log)+1 : Found(g)
           count == IF Len(log) + 1 - first < ReadMax THEN Len(log) + 1 - first ELSE ReadMax
<1>1. /\ open /\ pump = "run" /\ batch = <<>> /\ pump' = "retention"
      /\ UNCHANGED <<head, log, checkpoint, subs, since, open, queue, received>>
      /\ UNCHANGED <<cursor, path, last, seen, history, notifying, began>>
      /\ batch' = [i \in 1..count |-> first + i - 1]
  BY DEF ReadEvents, Idle, shared, reading
<1>2. /\ Len(log) \in Nat /\ cursor \in 0..Len(log) /\ StreamMax \in Nat \ {0} /\ ReadMax \in Nat \ {0}
  BY SessionAssumption DEF IInv, Types
<1>3. \E g \in cursor+1..Len(log)+1 : Found(g)
  <2>1. CASE cursor + 1 + StreamMax > Len(log)
    <3>1. Found(cursor + 1)
      BY <1>2, <2>1 DEF Retained
    <3> QED
      BY <1>2, <3>1
  <2>2. CASE ~(cursor + 1 + StreamMax > Len(log))
    <3> DEFINE m == Len(log) - StreamMax + 1
    <3>1. m \in cursor+1..Len(log)+1 /\ Found(m)
      BY <1>2, <2>2 DEF Retained
    <3> QED
      BY <3>1
  <2> QED
    BY <2>1, <2>2
<1>4. first \in cursor+1..Len(log)+1 /\ Found(first)
  BY <1>3
<1>5. first \in Nat /\ count \in Nat /\ count <= Len(log) + 1 - first
  BY <1>2, <1>4
<1>6. count > 0 => /\ \/ first = cursor + 1
                      \/ cursor + 1 + StreamMax <= Len(log)
                   /\ first = cursor + 1 \/ ~Retained(first - 1)
  <2>1. first # cursor + 1 => first - 1 \in cursor+1..first-1
    BY <1>2, <1>4
  <2>2. first # cursor + 1 => ~Retained(first - 1)
    BY <1>4, <2>1
  <2>3. first # cursor + 1 => ~Retained(cursor + 1)
    BY <1>2, <1>4
  <2>4. count > 0 => cursor + 1 \in 1..Len(log)
    BY <1>2, <1>4, <1>5
  <2> HIDE DEF first, count
  <2>5. ~Retained(cursor + 1) /\ cursor + 1 \in 1..Len(log) => cursor + 1 + StreamMax <= Len(log)
    BY <1>2 DEF Retained
  <2> QED
    BY <2>2, <2>3, <2>4, <2>5
<1> HIDE DEF first, count, Found
<1>7. /\ batch' \in Seq(Nat) /\ Len(batch') = count
      /\ \A i \in 1..count : batch'[i] = first + i - 1
  BY <1>1, <1>5
<1>8. \A i \in 1..Len(batch') : batch'[i] \in 1..Len(log)
  BY <1>2, <1>4, <1>5, <1>7
<1>9. Types'
  BY <1>1, <1>7, <1>8 DEF IInv, Types
<1>10. Running' => Running
  BY <1>1 DEF Running
<1>11. BatchFits'
  <2>1. \A i \in 1..Len(batch') : batch'[i] = batch'[1] + i - 1
    BY <1>5, <1>7
  <2>2. batch' # <<>> => count > 0 /\ batch'[1] = first
    BY <1>5, <1>7
  <2>3. cursor = 0 \/ cursor > 0
    BY <1>2
  <2> QED
    BY <1>1, <1>6, <2>1, <2>2, <2>3 DEF BatchFits, Retained
<1>12. LoopFits' /\ PathFits' /\ NewsFits'
  BY <1>1, <1>10 DEF IInv, LoopFits, NothingBefore, Retained, PathFits, NewsFits, Following, Start, Got, Sent
<1> QED
  BY <1>1, <1>9, <1>11, <1>12, LoopStep

\* A page that does not follow the cursor does not survive this check, made
\* after the read: the event of the cursor was trimmed before its successor.
LEMMA ChecksInv ==
    ASSUME IInv, CheckRetention \/ CheckAccepted
    PROVE  IInv'
<1>1. /\ open /\ pump # "off" /\ pump' \in {"run", "admission"}
      /\ UNCHANGED <<head, log, checkpoint, subs, since, open, queue, received>>
      /\ UNCHANGED <<cursor, batch, path, last, seen, history, notifying, began>>
      /\ \/ cursor = 0 \/ Retained(cursor)
         \/ pump = "admission"
  BY DEF CheckRetention, CheckAccepted, shared, reading, loopVars
<1>2. Types /\ Types'
  BY <1>1 DEF IInv, Types
<1>3. Running' => Running
  BY <1>1 DEF Running
<1>4. LoopFits' /\ PathFits' /\ NewsFits'
  BY <1>1, <1>3 DEF IInv, LoopFits, NothingBefore, Retained, PathFits, NewsFits, Following, Start, Got, Sent
<1>5. BatchFits'
  <2>1. \A i \in 1..Len(batch') : batch'[i] = batch'[1] + i - 1
    BY <1>1 DEF IInv, BatchFits
  <2>2. ASSUME Running, batch # <<>>
        PROVE  batch[1] = cursor + 1 \/ (cursor = 0 /\ ~Retained(batch[1] - 1))
    <3>1. cursor \in Nat /\ Len(log) \in Nat
      BY <1>2 DEF Types
    <3>2. \/ batch[1] = cursor + 1
          \/ cursor = 0 /\ ~Retained(batch[1] - 1)
          \/ cursor > 0 /\ pump = "retention" /\ cursor + 1 + StreamMax <= Len(log)
      BY <2>2 DEF IInv, BatchFits
    <3>3. CASE cursor > 0 /\ pump = "retention" /\ cursor + 1 + StreamMax <= Len(log)
      BY <1>1, <3>1, <3>3, SessionAssumption DEF Retained
    <3> QED
      BY <3>2, <3>3
  <2> QED
    BY <1>1, <1>3, <2>1, <2>2 DEF BatchFits, Retained
<1> QED
  BY <1>1, <1>2, <1>4, <1>5, LoopStep

\* A path is a sequence of blocks that ends with the new head, and its first
\* block joins what is known.
LEMMA PathFacts ==
    ASSUME Types, NEW next \in Blocks, next # last, NEW p \in Paths(next)
    PROVE  /\ p \in Seq(Blocks) /\ Len(p) > 0 /\ p[Len(p)] = next
           /\ \A i \in 1..Len(p)-1 : Parent[p[i+1]] = p[i]
           /\ \/ last = NoBlock
              \/ Parent[p[1]] = Parent[last]
              \/ Parent[p[1]] = last
              \/ \E i \in 1..Len(history) : Parent[p[1]] = history[i]
<1>1. CASE Adjacent(next)
  <2>1. p = <<next>>
    BY <1>1 DEF Paths
  <2> QED
    BY <1>1, <2>1 DEF Adjacent, IsChildOf
<1>2. CASE ~Adjacent(next)
  <2>1. p \in Walked(next)
    BY <1>2 DEF Paths
  <2>2. PICK n \in 1..Depth : p \in [1..n -> Blocks] /\ LeadsTo(p, n, next) /\ Joins(p[1])
    BY <2>1 DEF Walked
  <2>3. n \in Nat /\ n > 0 /\ p \in Seq(Blocks) /\ Len(p) = n
    BY <2>2, DepthAssumption
  <2>4. Parent[p[1]] = last \/ \E i \in 1..Len(history) : Parent[p[1]] = history[i]
    <3>1. history \in Seq(Blocks)
      BY DEF Types
    <3> QED
      BY <2>2, <3>1 DEF Joins, Range
  <2> QED
    BY <2>2, <2>3, <2>4 DEF LeadsTo
<1> QED
  BY <1>1, <1>2

\* The next event is the next generation, and a path leads to it from what the
\* subscriptions since the checkpoint have.
LEMMA TakeEventInv ==
    ASSUME IInv, TakeEvent
    PROVE  IInv'
<1> DEFINE next == log[Head(batch)]
<1>1. /\ open /\ pump = "run" /\ notifying = {} /\ path = <<>> /\ batch # <<>>
      /\ cursor' = Head(batch) /\ batch' = Tail(batch) /\ path' \in Paths(next)
      /\ began' = IF cursor = 0 THEN Head(batch) ELSE began
      /\ UNCHANGED <<head, log, checkpoint, subs, since, open, queue, received, pump>>
      /\ UNCHANGED <<last, seen, history, notifying>>
  BY DEF TakeEvent, shared, reading
<1>2. Types
  BY DEF IInv
<1>3. /\ batch \in Seq(Nat) /\ Head(batch) = batch[1] /\ Len(batch) \in Nat \ {0}
      /\ Head(batch) \in 1..Len(log) /\ Len(log) \in Nat /\ cursor \in 0..Len(log)
      /\ checkpoint \in 0..Len(log)
  BY <1>1, <1>2 DEF Types
<1>4. next \in Blocks
  BY <1>2, <1>3 DEF Types
<1>5. /\ batch' \in Seq(Nat) /\ Len(batch') = Len(batch) - 1
      /\ \A i \in 1..Len(batch') : i + 1 \in 1..Len(batch) /\ batch'[i] = batch[i+1]
  BY <1>1, <1>3
<1>6. path' \in Seq(Blocks)
  <2>1. CASE next = last
    BY <1>1, <2>1 DEF Paths
  <2>2. CASE next # last
    BY <1>1, <1>2, <1>4, <2>2, PathFacts
  <2> QED
    BY <2>1, <2>2
<1>7. Types'
  <2>1. cursor' \in 0..Len(log) /\ \A i \in 1..Len(batch') : batch'[i] \in 1..Len(log)
    BY <1>1, <1>2, <1>3, <1>5 DEF Types
  <2> QED
    BY <1>1, <1>2, <1>5, <1>6, <2>1 DEF Types
<1>8. (Running' => Running) /\ (Following' => Following)
  BY <1>1 DEF Running, Following
<1>9. NewsFits'
  BY <1>1, <1>8 DEF IInv, NewsFits, Got, Sent
<1>10. \A i \in 1..Len(batch) : batch[i] = batch[1] + i - 1
  BY DEF IInv, BatchFits
<1>11. BatchFits'
  <2>1. \A i \in 1..Len(batch') : batch'[i] = batch[1] + i
    BY <1>3, <1>5, <1>10
  <2>2. batch' # <<>> => 1 \in 1..Len(batch')
    BY <1>5
  <2>3. \A i \in 1..Len(batch') : batch'[1] = batch[1] + 1 /\ batch'[i] = batch'[1] + i - 1
    <3> SUFFICES ASSUME NEW i \in 1..Len(batch')
                 PROVE  batch'[1] = batch[1] + 1 /\ batch'[i] = batch'[1] + i - 1
      OBVIOUS
    <3>1. Len(batch') \in Nat /\ 1 \in 1..Len(batch') /\ batch[1] \in Nat
      BY <1>3, <1>5
    <3>2. batch'[1] = batch[1] + 1 /\ batch'[i] = batch[1] + i
      BY <2>1, <3>1
    <3> QED
      BY <3>1, <3>2
  <2>4. batch' # <<>> => batch'[1] = cursor' + 1
    BY <1>1, <1>3, <2>2, <2>3
  <2> QED
    BY <2>3, <2>4 DEF BatchFits
<1>12. ASSUME Running
       PROVE  /\ checkpoint <= cursor /\ (checkpoint > 0 => cursor > 0)
              /\ cursor = 0 => last = NoBlock
              /\ cursor > 0 => last = log[cursor] /\ Head(batch) = cursor + 1
              /\ cursor = 0 => Head(batch) = 1 \/ ~Retained(Head(batch) - 1)
              /\ \A g \in began..cursor : log[g] \in seen
  BY <1>1, <1>3, <1>12 DEF IInv, LoopFits, BatchFits
<1>13. Running => next # last /\ Len(path') > 0 /\ path'[Len(path')] = next /\ path' # <<>>
  <2> SUFFICES ASSUME Running PROVE next # last
    BY <1>1, <1>2, <1>4, <1>6, PathFacts
  <2>1. CASE cursor = 0
    BY <1>4, <1>12, <2>1, HeaderAssumption
  <2>2. CASE cursor > 0
    <3>1. cursor \in 1..Len(log)-1
      BY <1>3, <1>12, <2>2
    <3> QED
      BY <1>12, <2>2, <3>1 DEF IInv, LogFits
  <2> QED
    BY <1>3, <2>1, <2>2
<1>14. LoopFits'
  <2> SUFFICES ASSUME Running PROVE LoopFits'
    BY <1>8 DEF LoopFits
  <2>1. checkpoint < cursor' /\ log'[cursor'] = next /\ cursor' \in 1..Len(log)
    BY <1>1, <1>3, <1>12
  <2>2. began' \in checkpoint+1..Len(log)+1 /\ NothingBefore'
    <3>1. CASE cursor = 0
      BY <1>1, <1>3, <1>12, <2>1, <3>1 DEF NothingBefore, Retained
    <3>2. CASE cursor > 0
      <4>1. began' = began /\ began \in checkpoint+1..Len(log)+1 /\ NothingBefore
        BY <1>1, <3>2 DEF IInv, LoopFits
      <4> QED
        BY <1>1, <4>1 DEF NothingBefore, Retained
    <3> QED
      BY <1>3, <3>1, <3>2
  <2>3. \A g \in began'..cursor' : g = cursor' \/ log[g] \in seen
    <3>1. CASE cursor = 0
      BY <1>1, <1>3, <3>1
    <3>2. CASE cursor > 0
      <4>1. began' = began /\ began \in Nat /\ cursor' = cursor + 1
        BY <1>1, <1>2, <1>12, <3>2 DEF Types
      <4>2. \A g \in began..cursor+1 : g \in began..cursor \/ g = cursor + 1
        BY <1>3, <4>1
      <4> QED
        BY <1>12, <4>1, <4>2
    <3> QED
      BY <1>3, <3>1, <3>2
  <2> HIDE DEF next
  <2> QED
    BY <1>1, <1>3, <1>13, <2>1, <2>2, <2>3 DEF LoopFits
<1>15. PathFits'
  <2> SUFFICES ASSUME Following PROVE PathFits'
    BY <1>8 DEF PathFits
  <2>1. /\ last = log[cursor] /\ cursor > 0
        /\ last \in {log[checkpoint]} \cup seen
        /\ \A i \in 1..Len(history) : history[i] \in {log[checkpoint]} \cup seen
        /\ \A b \in seen : Parent[b] \in Start \cup (seen \ {b})
    BY <1>12 DEF IInv, PathFits, Following
  <2>2. last \in Blocks /\ last # NoBlock /\ next # last
    BY <1>2, <1>3, <1>13, <2>1, HeaderAssumption DEF Types, Following
  <2> HIDE DEF next
  <2>3. /\ \A i \in 1..Len(path')-1 : Parent[path'[i+1]] = path'[i]
        /\ \/ Parent[path'[1]] \in {Parent[last], last}
           \/ \E i \in 1..Len(history) : Parent[path'[1]] = history[i]
    BY <1>1, <1>2, <1>4, <2>2, PathFacts
  <2>4. Parent[path'[1]] \in Start \cup seen /\ Start' = Start
    BY <1>1, <2>1, <2>3 DEF Start
  <2> QED
    BY <1>1, <2>1, <2>3, <2>4 DEF PathFits
<1> QED
  BY <1>1, <1>7, <1>9, <1>11, <1>14, <1>15, LoopStep

\* The history holds what it held and the new header.
LEMMA RememberedFacts ==
    ASSUME Types, NEW b \in Blocks
    PROVE  /\ Remembered(b) \in Seq(Blocks)
           /\ \A i \in 1..Len(Remembered(b)) :
                 \/ Remembered(b)[i] = b
                 \/ \E j \in 1..Len(history) : Remembered(b)[i] = history[j]
<1> DEFINE order == IF b \in Range(history) THEN history ELSE Append(history, b)
<1>1. history \in Seq(Blocks) /\ HistoryLimit \in Nat \ {0}
  BY SessionAssumption DEF Types
<1>2. /\ order \in Seq(Blocks)
      /\ \A i \in 1..Len(order) : order[i] = b \/ \E j \in 1..Len(history) : order[i] = history[j]
  <2>1. CASE b \in Range(history)
    BY <1>1, <2>1
  <2>2. CASE b \notin Range(history)
    <3>1. order = Append(history, b)
      BY <2>2
    <3>2. /\ order \in Seq(Blocks) /\ Len(order) = Len(history) + 1 /\ order[Len(history) + 1] = b
          /\ \A i \in 1..Len(history) : order[i] = history[i]
      BY <1>1, <3>1
    <3>3. \A i \in 1..Len(history) + 1 : i \in 1..Len(history) \/ i = Len(history) + 1
      BY <1>1
    <3> QED
      BY <3>2, <3>3
  <2> QED
    BY <2>1, <2>2
<1>3. Remembered(b) = IF Len(order) > HistoryLimit THEN Tail(order) ELSE order
  BY DEF Remembered
<1> HIDE DEF order
<1>4. CASE Len(order) > HistoryLimit
  <2>1. Remembered(b) = Tail(order) /\ Len(order) > 1
    BY <1>1, <1>2, <1>3, <1>4
  <2>2. /\ Tail(order) \in Seq(Blocks)
        /\ \A i \in 1..Len(Tail(order)) : i + 1 \in 1..Len(order) /\ Tail(order)[i] = order[i+1]
    BY <1>2, <2>1
  <2> QED
    BY <1>2, <2>1, <2>2
<1>5. CASE ~(Len(order) > HistoryLimit)
  BY <1>2, <1>3, <1>5
<1> QED
  BY <1>4, <1>5

LEMMA AnnounceInv ==
    ASSUME IInv, Announce
    PROVE  IInv'
<1> DEFINE x == Head(path)
<1>1. /\ open /\ pump = "run" /\ notifying = {} /\ path # <<>>
      /\ path' = Tail(path) /\ last' = x
      /\ UNCHANGED <<head, log, checkpoint, subs, since, queue, received, pump, cursor, batch, began>>
  BY DEF Announce, shared, reading
<1>2. \/ /\ x \in seen
         /\ UNCHANGED <<seen, history, notifying, open>>
      \/ /\ x \notin seen /\ seen' = seen \cup {x}
         /\ history' = Remembered(x) /\ notifying' = subs /\ UNCHANGED open
      \/ /\ open' = FALSE
         /\ UNCHANGED <<seen, history, notifying>>
  BY DEF Announce
<1>3. Types
  BY DEF IInv
<1>4. /\ path \in Seq(Blocks) /\ x = path[1] /\ x \in Blocks /\ Len(path) \in Nat \ {0}
      /\ path' \in Seq(Blocks) /\ Len(path') = Len(path) - 1
      /\ \A i \in 1..Len(path') : path'[i] = path[i+1]
  BY <1>1, <1>3 DEF Types
<1> HIDE DEF x
<1>5. Types'
  <2>1. seen' \subseteq Blocks /\ history' \in Seq(Blocks) /\ notifying' \subseteq Subs /\ open' \in BOOLEAN
    BY <1>1, <1>2, <1>3, <1>4, RememberedFacts DEF Types
  <2> QED
    BY <1>1, <1>3, <1>4, <2>1 DEF Types
<1>6. Sent' = Sent
  BY <1>1 DEF Sent
<1>7. LogFits' /\ OffFits' /\ AckPrecedesHeads'
  BY <1>1, <1>6 DEF IInv, LogFits, OffFits, AckPrecedesHeads
<1>8. SubsFit'
  BY <1>1, <1>2, <1>6 DEF IInv, SubsFit, Acked
<1>9. HeadsAreConnected'
  BY <1>1, <1>3, <1>6, ConnectedKept DEF IInv
<1>10. (Running' => Running) /\ (Following' => Following)
  BY <1>1 DEF Running, Following
<1>11. BatchFits'
  BY <1>1, <1>10 DEF IInv, BatchFits, Retained
<1>12. Running' => x \in seen' /\ seen' = seen \cup {x}
  BY <1>2 DEF Running
<1>13. NewsFits'
  <2> SUFFICES ASSUME Running', NEW s \in subs' \cup notifying', NEW b \in seen',
                      since'[s] = checkpoint'
               PROVE  Got(s, b)' \/ (b = last' /\ s \in notifying')
    BY DEF NewsFits
  <2>1. s \in subs
    BY <1>1, <1>2
  <2>2. CASE b \in seen
    BY <1>1, <1>6, <1>10, <2>1, <2>2 DEF IInv, NewsFits, Got
  <2>3. CASE b \notin seen
    <3>1. b = x /\ notifying' = subs
      BY <1>2, <1>12, <2>3 DEF Running
    <3> QED
      BY <1>1, <2>1, <3>1
  <2> QED
    BY <2>2, <2>3
<1>14. LoopFits'
  <2> SUFFICES ASSUME Running' PROVE LoopFits'
    BY DEF LoopFits
  <2>1. Running /\ seen' = seen \cup {x}
    BY <1>10, <1>12
  <2>2. /\ checkpoint <= cursor /\ cursor # checkpoint /\ cursor # 0
        /\ path[Len(path)] = log[cursor]
        /\ began \in checkpoint+1..Len(log)+1 /\ NothingBefore
        /\ \A g \in began..cursor : log[g] \in seen \/ g = cursor
    BY <1>1, <1>3, <2>1 DEF IInv, LoopFits, Types
  <2>3. path' = <<>> => x = log[cursor]
    <3> SUFFICES ASSUME path' = <<>> PROVE x = log[cursor]
      OBVIOUS
    <3>1. Len(path) = 1
      BY <1>4
    <3> QED
      BY <1>4, <2>2, <3>1
  <2>4. path' # <<>> => path'[Len(path')] = log[cursor]
    <3> SUFFICES ASSUME path' # <<>> PROVE path'[Len(path')] = log[cursor]
      OBVIOUS
    <3>1. Len(path') \in Nat \ {0} /\ Len(path) > 1
      BY <1>4
    <3> QED
      BY <1>4, <2>2, <3>1
  <2>5. \A g \in began..cursor : log[g] \in seen' \/ (g = cursor /\ path' # <<>>)
    BY <2>1, <2>2, <2>3
  <2> QED
    BY <1>1, <2>2, <2>3, <2>4, <2>5 DEF LoopFits, NothingBefore, Retained
<1>15. PathFits'
  <2> SUFFICES ASSUME Following' PROVE PathFits'
    BY DEF PathFits
  <2>1. Following /\ Start' = Start /\ seen' = seen \cup {x} /\ checkpoint > 0
    BY <1>1, <1>10, <1>12 DEF Start, Following
  <2>2. /\ \A i \in 1..Len(history) : history[i] \in {log[checkpoint]} \cup seen
        /\ Parent[path[1]] \in Start \cup seen
        /\ \A i \in 1..Len(path)-1 : Parent[path[i+1]] = path[i]
        /\ \A b \in seen : Parent[b] \in Start \cup (seen \ {b})
    BY <1>1, <2>1 DEF IInv, PathFits
  <2>4. path' # <<>> => Parent[path'[1]] = x
    <3> SUFFICES ASSUME path' # <<>> PROVE Parent[path'[1]] = x
      OBVIOUS
    <3>1. Len(path') \in Nat \ {0} /\ Len(path) > 1
      BY <1>4
    <3>2. path'[1] = path[2]
      BY <1>4, <3>1
    <3>3. Parent[path[2]] = path[1]
      BY <1>4, <2>2, <3>1
    <3> QED
      BY <1>4, <3>2, <3>3
  <2>5. \A i \in 1..Len(path')-1 : Parent[path'[i+1]] = path'[i]
    <3> SUFFICES ASSUME NEW i \in 1..Len(path')-1 PROVE Parent[path'[i+1]] = path'[i]
      OBVIOUS
    <3>1. /\ i \in 1..Len(path') /\ i + 1 \in 1..Len(path') /\ i + 1 \in 1..Len(path)-1
      BY <1>4
    <3> QED
      BY <1>4, <2>2, <3>1
  <2>6. \A i \in 1..Len(history') : history'[i] \in {log[checkpoint]} \cup seen'
    <3>1. CASE history' = history
      BY <2>1, <2>2, <3>1
    <3>2. CASE history' = Remembered(x)
      <4>1. \A i \in 1..Len(Remembered(x)) :
              \/ Remembered(x)[i] = x
              \/ \E j \in 1..Len(history) : Remembered(x)[i] = history[j]
        BY <1>3, <1>4, RememberedFacts
      <4> QED
        BY <2>1, <2>2, <3>2, <4>1
    <3>3. history' = history \/ history' = Remembered(x)
      BY <1>2
    <3> QED
      BY <3>1, <3>2, <3>3
  <2>7. \A b \in seen' : Parent[b] \in Start \cup (seen' \ {b})
    <3> SUFFICES ASSUME NEW b \in seen' PROVE Parent[b] \in Start \cup (seen' \ {b})
      OBVIOUS
    <3>1. CASE b \in seen
      BY <2>1, <2>2, <3>1
    <3>2. CASE b \notin seen
      <4>1. b = x /\ Parent[x] \in Start \cup seen
        BY <1>4, <2>1, <2>2, <3>2
      <4> QED
        BY <2>1, <3>2, <4>1
    <3> QED
      BY <3>1, <3>2
  <2> QED
    BY <1>1, <2>1, <2>2, <2>4, <2>5, <2>6, <2>7 DEF PathFits
<1> QED
  BY <1>5, <1>7, <1>8, <1>9, <1>11, <1>13, <1>14, <1>15 DEF IInv

\* A subscription is sent the head announced last, whose parent it already has.
LEMMA NotifyInv ==
    ASSUME IInv, NEW s \in Subs, Notify(s)
    PROVE  IInv'
<1> DEFINE m == NewsOf(s, last)
<1>1. /\ open /\ s \in notifying /\ notifying' = notifying \ {s} /\ Enqueue(m)
      /\ UNCHANGED <<head, log, checkpoint, subs, since, received, pump>>
      /\ UNCHANGED <<cursor, batch, path, last, seen, history, began>>
  BY DEF Notify, shared, reading
<1>2. Types
  BY DEF IInv
<1>3. last \in seen /\ last \in Blocks /\ since[s] # -1 /\ Acked(s) /\ pump # "off"
  BY <1>1, <1>2 DEF IInv, SubsFit, OffFits, Types
<1>4. m \in Message /\ m.kind = "head" /\ m.sub = s
  BY <1>3, MessageFacts
<1>5. \A t \in Subs, b \in Blocks : m = NewsOf(t, b) => t = s /\ b = last
  BY <1>3, MessageFacts
<1> HIDE DEF m
<1>6. /\ queue' \in Seq(Message) /\ received' \in Seq(Message)
      /\ \/ open' = open /\ Grown(m)
         \/ open' = FALSE /\ Sent' = Sent
  BY <1>1, <1>2, <1>4, Enqueued
<1>7. Types'
  BY <1>1, <1>2, <1>6 DEF Types
<1>8. \A t, b : (Acked(t) => Acked(t)') /\ (Got(t, b) => Got(t, b)')
  BY <1>2, <1>6, SentKept
<1>9. LogFits' /\ OffFits'
  BY <1>1, <1>3 DEF IInv, LogFits, OffFits
<1>10. SubsFit'
  <2>1. \A t \in subs' \cup notifying' : since'[t] # -1 /\ (open' => Acked(t)')
    BY <1>1, <1>8 DEF IInv, SubsFit
  <2>2. \A i \in 1..Len(Sent') : Sent'[i].kind = "head" => since'[Sent'[i].sub] # -1
    <3>1. CASE Sent' = Sent
      BY <1>1, <3>1 DEF IInv, SubsFit
    <3>2. CASE Grown(m)
      <4>1. \A i \in 1..Len(Sent') : i \in 1..Len(Sent) \/ i = Len(Sent) + 1
        BY <1>2, <3>2, SentTyped DEF Grown
      <4> QED
        BY <1>1, <1>3, <1>4, <3>2, <4>1 DEF IInv, SubsFit, Grown
    <3> QED
      BY <1>6, <3>1, <3>2
  <2> QED
    BY <1>1, <1>3, <2>1, <2>2 DEF SubsFit
<1>11. (Running' => Running) /\ (Following' => Following)
  BY <1>1 DEF Running, Following
<1>12. BatchFits' /\ PathFits'
  BY <1>1, <1>11 DEF IInv, BatchFits, Retained, PathFits, Start
<1>16. LoopFits'
  BY <1>1, <1>3, <1>11 DEF IInv, LoopFits, NothingBefore, Retained
<1>13. NewsFits'
  <2> SUFFICES ASSUME Running', NEW t \in subs' \cup notifying', NEW b \in seen',
                      since'[t] = checkpoint'
               PROVE  Got(t, b)' \/ (b = last' /\ t \in notifying')
    BY DEF NewsFits
  <2>1. Grown(m)
    BY <1>6 DEF Running
  <2>2. Got(t, b) \/ (b = last /\ t \in notifying)
    BY <1>1, <1>11 DEF IInv, NewsFits
  <2>3. CASE b = last /\ t = s
    <3>1. Sent'[Len(Sent) + 1] = NewsOf(t, b) /\ Len(Sent) + 1 \in 1..Len(Sent')
      BY <1>2, <2>1, <2>3, SentTyped DEF Grown, m
    <3> QED
      BY <3>1 DEF Got
  <2> QED
    BY <1>1, <1>8, <2>2, <2>3
<1>14. AckPrecedesHeads'
  BY <1>2, <1>3, <1>4, <1>6, AcksKept DEF IInv
<1>15. HeadsAreConnected'
  <2>1. ASSUME NEW t \in Subs, NEW b \in Blocks,
               m = NewsOf(t, b), checkpoint > 0, since[t] = checkpoint
        PROVE  Parent[b] \in Start \/ (Parent[b] \in Blocks /\ Got(t, Parent[b]))
    <3>1. t = s /\ b = last /\ Following
      BY <1>1, <1>3, <1>5, <2>1 DEF Running, Following
    <3>2. Parent[last] \in Start \cup (seen \ {last})
      BY <1>3, <3>1 DEF IInv, PathFits
    <3>3. CASE Parent[last] \in seen \ {last}
      <4>1. Parent[last] \in Blocks /\ (Got(s, Parent[last]) \/ Parent[last] = last)
        BY <1>1, <1>2, <2>1, <3>1, <3>3 DEF IInv, NewsFits, Types, Following
      <4> QED
        BY <3>1, <3>3, <4>1
    <3> QED
      BY <3>1, <3>2, <3>3
  <2> QED
    BY <1>1, <1>2, <1>6, <2>1, ConnectedKept DEF IInv
<1> QED
  BY <1>7, <1>9, <1>10, <1>12, <1>13, <1>14, <1>15, <1>16 DEF IInv

-----------------------------------------------------------------------------
(* The theorems *)

LEMMA InitInv == Init => IInv
<1> SUFFICES ASSUME Init PROVE IInv
  OBVIOUS
<1>1. Types
  BY DEF Init, Types
<1>2. Sent = <<>> /\ Len(Sent) = 0
  BY DEF Init, Sent
<1>3. LogFits /\ OffFits /\ BatchFits /\ LoopFits /\ PathFits /\ NewsFits
  BY DEF Init, LogFits, OffFits, BatchFits, LoopFits, PathFits, NewsFits, Running, Following
<1>4. SubsFit /\ AckPrecedesHeads /\ HeadsAreConnected
  BY <1>2 DEF Init, SubsFit, AckPrecedesHeads, HeadsAreConnected
<1> QED
  BY <1>1, <1>3, <1>4 DEF IInv

LEMMA NextInv == IInv /\ [Next]_vars => IInv'
<1> SUFFICES ASSUME IInv, [Next]_vars PROVE IInv'
  OBVIOUS
<1>1. CASE UNCHANGED vars
  BY <1>1, SilentInv DEF vars, shared, reading
<1>2. CASE HeadMoves
  BY <1>2, HeadMovesInv
<1>3. CASE Write
  BY <1>3, WriteInv
<1>4. CASE Subscribe
  BY <1>4, SubscribeInv
<1>5. CASE ReadEvents
  BY <1>5, ReadEventsInv
<1>6. CASE CheckRetention \/ CheckAccepted
  BY <1>6, ChecksInv
<1>7. CASE TakeEvent
  BY <1>7, TakeEventInv
<1>8. CASE Announce
  BY <1>8, AnnounceInv
<1>9. ASSUME NEW s \in Subs, Insert(s) PROVE IInv'
  BY <1>9, InsertInv
<1>10. ASSUME NEW s \in Subs, Notify(s) PROVE IInv'
  BY <1>10, NotifyInv
<1>11. CASE \/ Disconnect \/ OtherRequest \/ Admit \/ Refuse \/ LimitReached
            \/ LoopCloses \/ GapTooWide \/ \E s \in Subs : Unsubscribe(s)
  BY <1>11, ReaderSteps
<1> QED
  BY <1>1, <1>2, <1>3, <1>4, <1>5, <1>6, <1>7, <1>8, <1>9, <1>10, <1>11 DEF Next, Serve

LEMMA Invariance == Spec => []IInv
BY InitInv, NextInv, PTL DEF Spec

(***************************************************************************)
(* A client never receives a head of a subscription before the             *)
(* acknowledgment that tells it the id: handleSubscribe registers the id   *)
(* and enqueues the answer under the lock that notify takes.               *)
(***************************************************************************)
THEOREM AckSafe == Spec => []AckPrecedesHeads
<1>1. IInv => AckPrecedesHeads
  BY DEF IInv
<1> QED
  BY <1>1, Invariance, PTL

(***************************************************************************)
(* A subscription made at the checkpoint is sent every head published      *)
(* after it, or the session is closed.  The retention check after the read *)
(* is what makes the events of a page consecutive with the cursor.  Where  *)
(* the code makes no such check, at a checkpoint read from an empty        *)
(* stream, it is sent every head from the first one read, and that one     *)
(* follows nothing but heads that were trimmed.                            *)
(***************************************************************************)
THEOREM NoHeadLost == Spec => []NoHeadSkipped
<1>1. IInv => NoHeadSkipped
  <2> SUFFICES ASSUME IInv, NEW s \in subs, CaughtUp, since[s] = checkpoint
               PROVE  /\ NothingBefore
                      /\ \A g \in began..cursor : NewsOf(s, log[g]) \in Range(Sent)
    BY DEF NoHeadSkipped
  <2>1. Running /\ path = <<>> /\ notifying = {}
    BY DEF CaughtUp, Running
  <2>2. NothingBefore /\ \A g \in began..cursor : log[g] \in seen
    BY <2>1 DEF IInv, LoopFits
  <2>3. \A b \in seen : Got(s, b)
    BY <2>1 DEF IInv, NewsFits
  <2>4. Sent \in Seq(Message)
    BY SentTyped DEF IInv
  <2> QED
    BY <2>2, <2>3, <2>4 DEF Got, Range
<1> QED
  BY <1>1, Invariance, PTL

(***************************************************************************)
(* The heads sent to such a subscription are connected: expandPath joins a *)
(* new head only to what the subscription was sent or started with.        *)
(***************************************************************************)
THEOREM HeadsConnect == Spec => []HeadsAreConnected
<1>1. IInv => HeadsAreConnected
  BY DEF IInv
<1> QED
  BY <1>1, Invariance, PTL
=============================================================================
