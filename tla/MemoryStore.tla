---------------------------- MODULE MemoryStore ----------------------------
(***************************************************************************)
(* The in-memory head store of one EVM chain, called by coordinators that  *)
(* keep using the tokens they were once given and by readers of its event  *)
(* list.  Every method runs under the store's mutex.  Unlike Redis it uses *)
(* one counter for tokens and generations, keeps a lease that has run out, *)
(* and never trims its events.                                             *)
(***************************************************************************)
EXTENDS Naturals, SequencesExt

CONSTANTS
    Blocks, Owners, NoToken, NoHead,
    Readers,  \* callers of ReadEvents
    Count,    \* the count argument of ReadEvents
    MaxGen    \* bound on the counter

ASSUME MemoryAssumption ==
    /\ Count \in Nat \ {0} /\ MaxGen \in Nat
    /\ NoToken \notin [owner : Owners, fence : Nat]
    /\ NoHead \notin [block : Blocks, epoch : Nat, pending : BOOLEAN, generation : Nat]

VARIABLES
    lease,     \* leaders[chain]: its token and whether its time has run out
    gen,       \* the counter
    head,      \* heads[chain]["latest"], or NoHead
    events,    \* events[chain]
    issued,    \* tokens issued so far (history)
    reply,     \* the last call and whether it succeeded (history)
    cursor,    \* cursor[d]: reader d's position, the ID of an event, 0 for "0-0"
    received   \* received[d]: what d has read (history)

storeVars == <<lease, gen, head, events, issued, reply>>
readerVars == <<cursor, received>>
vars == <<storeVars, readerVars>>

NoLease == [token |-> NoToken, over |-> TRUE]

Init ==
    /\ lease = NoLease
    /\ gen = 0
    /\ head = NoHead
    /\ events = <<>>
    /\ issued = {}
    /\ reply = [call |-> "none", ok |-> FALSE]
    /\ cursor = [d \in Readers |-> 0]
    /\ received = [d \in Readers |-> <<>>]

\* The lease is the caller's and its time has not run out.
Holds(t) == lease.token = t /\ ~lease.over

Answer(call, t, ok) == reply' = [call |-> call, token |-> t, ok |-> ok]

-----------------------------------------------------------------------------
(* Leadership. *)

TimeRunsOut ==
    /\ ~lease.over
    /\ lease' = [lease EXCEPT !.over = TRUE]
    /\ reply' = [call |-> "none", ok |-> FALSE]
    /\ UNCHANGED <<gen, head, events, issued, readerVars>>

Acquire(o) ==
    LET t == [owner |-> o, fence |-> gen + 1] IN
    /\ gen < MaxGen
    /\ IF lease.over
       THEN /\ gen' = gen + 1
            /\ lease' = [token |-> t, over |-> FALSE]
            /\ issued' = issued \cup {t}
            /\ Answer("acquire", t, TRUE)
       ELSE Answer("acquire", NoToken, FALSE) /\ UNCHANGED <<gen, lease, issued>>
    /\ UNCHANGED <<head, events, readerVars>>

Renew(t) ==
    /\ Answer("renew", t, Holds(t))
    /\ UNCHANGED <<lease, gen, head, events, issued, readerVars>>

\* The holder's lease is removed even if its time has run out.
Release(t) ==
    /\ lease' = IF lease.token = t THEN NoLease ELSE lease
    /\ Answer("release", t, TRUE)
    /\ UNCHANGED <<gen, head, events, issued, readerVars>>

-----------------------------------------------------------------------------
(* The accepted head. *)

StoredEpoch == IF head = NoHead THEN 0 ELSE head.epoch

\* Mutant of Confirmed: the same head counts as a new one.
ConfirmedAnew(h) == [h EXCEPT !.pending = FALSE, !.generation = gen + 1]

\* The accepted head is published again.
Confirmed(h) == [h EXCEPT !.pending = FALSE]

Publish(t, b, epoch) ==
    /\ gen < MaxGen
    /\ LET accepted == Holds(t) /\ epoch = StoredEpoch IN
       /\ reply' = [call |-> "publish", token |-> t, epoch |-> epoch, ok |-> accepted]
       /\ IF ~accepted
          THEN UNCHANGED <<gen, head, events>>
          ELSE IF head # NoHead /\ head.block = b
          THEN /\ head' = Confirmed(head)
               /\ UNCHANGED <<gen, events>>
          ELSE /\ gen' = gen + 1
               /\ head' = [block |-> b, epoch |-> epoch, pending |-> FALSE, generation |-> gen + 1]
               /\ events' = Append(events, [id |-> gen + 1, block |-> b])
    /\ UNCHANGED <<lease, issued, readerVars>>

BeginReorg(t) ==
    /\ LET accepted == Holds(t) /\ head # NoHead IN
       /\ Answer("begin", t, accepted)
       /\ head' = IF accepted /\ ~head.pending
                  THEN [head EXCEPT !.epoch = @ + 1, !.pending = TRUE] ELSE head
    /\ UNCHANGED <<lease, gen, events, issued, readerVars>>

-----------------------------------------------------------------------------
(* Readers of the events. *)

\* Mutant of After: a page starts at the cursor.
FromCursor(c) == SelectSeq(events, LAMBDA e : e.id >= c)

\* The events behind cursor c.  A cursor whose event is missing is a gap, which
\* cannot happen here: no event is ever dropped.
After(c) ==
    LET at == {i \in DOMAIN events : events[i].id = c}
    IN  IF at = {} THEN events ELSE SubSeq(events, Max(at) + 1, Len(events))

\* ReadEvents returns at most Count events; without any it waits, and a publish
\* or the timeout wakes it.
ReadEvents(d) ==
    LET page == SubSeq(After(cursor[d]), 1, Min({Count, Len(After(cursor[d]))})) IN
    /\ page # <<>>
    /\ received' = [received EXCEPT ![d] = @ \o page]
    /\ cursor' = [cursor EXCEPT ![d] = Last(page).id]
    /\ UNCHANGED storeVars

\* StreamStart: a reader begins at the last event.
StreamStart(d) ==
    /\ received[d] = <<>> /\ cursor[d] = 0
    /\ events # <<>>
    /\ cursor' = [cursor EXCEPT ![d] = Last(events).id]
    /\ received' = [received EXCEPT ![d] = <<Last(events)>>]
    /\ UNCHANGED storeVars

-----------------------------------------------------------------------------
Next ==
    \/ TimeRunsOut
    \/ \E o \in Owners : Acquire(o)
    \/ \E t \in issued : Renew(t) \/ Release(t) \/ BeginReorg(t)
    \/ \E t \in issued, b \in Blocks, epoch \in 0..MaxGen : Publish(t, b, epoch)
    \/ \E d \in Readers : ReadEvents(d) \/ StreamStart(d)

Spec == Init /\ [][Next]_vars

-----------------------------------------------------------------------------
Promise == INSTANCE StorePromise WITH
    holder <- IF lease.over THEN NoToken ELSE lease.token

(***************************************************************************)
(* The in-memory store keeps the promise of a head store, although it      *)
(* forgets nothing of a lease that has run out and shares one counter      *)
(* between tokens and generations.                                         *)
(***************************************************************************)
KeepsPromise == Promise!Spec

(***************************************************************************)
(* What a reader has received is a piece of the events without hole or     *)
(* repetition: pages of ReadEvents join up whatever is published between   *)
(* them.                                                                   *)
(***************************************************************************)
PagesJoinUp ==
    \A d \in Readers :
        \E i \in 0..(Len(events) - Len(received[d])) :
            received[d] = SubSeq(events, i + 1, i + Len(received[d]))
=============================================================================
