------------------------------ MODULE HeadFeed ------------------------------
(***************************************************************************)
(* How the heads of an EVM chain's providers reach the leader: for each    *)
(* provider with a websocket URL a watcher keeps a newHeads subscription,  *)
(* and the leader's ticker polls the providers whose subscription is not   *)
(* fresh.  One term of one leader.                                         *)
(*                                                                         *)
(* The websocket backend of a provider is not the node that answers its    *)
(* HTTP calls: it may miss heads, and keep the connection busy with the    *)
(* last head or with older ones, which the provider still serves.          *)
(***************************************************************************)
EXTENDS Naturals, Sequences

CONSTANTS
    Providers,    \* the chain's upstreams
    Subscribing,  \* those with a websocket URL
    IdleTimeout,  \* websocket_idle_timeout, in ticks of the clock
    MaxHead,      \* bound on the heads the chain goes through
    MaxFaults     \* bound on failed calls, dropped connections, open circuits

ASSUME FeedAssumption ==
    /\ Subscribing \subseteq Providers
    /\ IdleTimeout \in Nat \ {0}
    /\ {MaxHead, MaxFaults} \subseteq Nat

VARIABLES
    reliable, \* websocket backends send every head
    tip,    \* tip[p]: the latest head of provider p
    up,      \* up[p]: p is validated and its circuit is closed
    faults,  \* faults so far
    session,   \* session[p]: where p's watcher is
    wire,    \* wire[p]: notifications sent on p's subscription and not read
    last,    \* last[p]: the lastHead of p's session
    age,     \* age[p]: time since last[p] was observed
    polling, \* a poll round is running
    asked,   \* providers of the round that have not answered
    got,     \* heads the round has collected
    seen     \* heads handed to runLeader

watcherVars == <<session, wire, last, age>>
roundVars == <<polling, asked, got>>
feedVars == <<tip, up, faults, watcherVars, roundVars, seen>>
vars == <<reliable, feedVars>>

Heads == 0..MaxHead
Sessions == {"off", "dialing", "subscribed", "answered", "live"}

Init ==
    /\ reliable \in BOOLEAN
    /\ tip = [p \in Providers |-> 0]
    /\ up = [p \in Providers |-> TRUE]
    /\ faults = 0
    /\ session = [p \in Providers |-> "off"]
    /\ wire = [p \in Providers |-> <<>>]
    /\ last = [p \in Providers |-> 0]
    /\ age = [p \in Providers |-> 0]
    /\ polling = FALSE
    /\ asked = {}
    /\ got = {}
    /\ seen = {}

Fault == faults < MaxFaults /\ faults' = faults + 1

-----------------------------------------------------------------------------
(* The providers. *)

\* Mutant of Listening: the watcher bootstraps before it subscribes.
ListeningWhenLive(p) == session[p] = "live"

\* The subscription exists at the provider: its heads are sent to us.
Listening(p) == session[p] \in {"subscribed", "answered", "live"}

\* The provider's head moves on, possibly past several blocks at once.
NewHead(p, h) ==
    /\ h > tip[p]
    /\ tip' = [tip EXCEPT ![p] = h]
    /\ wire' = [wire EXCEPT ![p] = IF Listening(p) THEN Append(@, h) ELSE @]
    /\ UNCHANGED <<up, faults, session, last, age, roundVars, seen>>

\* The websocket backend misses a head.
HeadNotSent(p, h) ==
    /\ ~reliable
    /\ h > tip[p]
    /\ tip' = [tip EXCEPT ![p] = h]
    /\ UNCHANGED <<up, faults, watcherVars, roundVars, seen>>

\* The websocket backend repeats the last head, or sends an unrelated frame.
Repeat(p) ==
    /\ Listening(p)
    /\ wire[p] = <<>>
    /\ wire' = [wire EXCEPT ![p] = <<last[p]>>]
    /\ UNCHANGED <<tip, up, faults, session, last, age, roundVars, seen>>

\* The websocket backend sends a head late, or an old one once more.
Resend(p, h) ==
    /\ ~reliable
    /\ Listening(p)
    /\ wire[p] = <<>>
    /\ h <= tip[p] /\ h # last[p]
    /\ wire' = [wire EXCEPT ![p] = <<h>>]
    /\ UNCHANGED <<tip, up, faults, session, last, age, roundVars, seen>>

\* p fails validation or its circuit opens, and later recovers.
GoDown(p) ==
    /\ up[p]
    /\ Fault
    /\ up' = [up EXCEPT ![p] = FALSE]
    /\ UNCHANGED <<tip, watcherVars, roundVars, seen>>

ComeBack(p) ==
    /\ ~up[p]
    /\ up' = [up EXCEPT ![p] = TRUE]
    /\ UNCHANGED <<tip, faults, watcherVars, roundVars, seen>>

-----------------------------------------------------------------------------
(* watchEVM and watchEVMSession. *)

\* hasFreshSubscription: the subscriptions map has an entry for p, and it is
\* younger than the idle timeout.
Fresh(p) == session[p] = "live" /\ age[p] < IdleTimeout

\* The session returns; waitReconnect ends with the next Dial.
EndSession(p) ==
    /\ session' = [session EXCEPT ![p] = "off"]
    /\ wire' = [wire EXCEPT ![p] = <<>>]
    /\ UNCHANGED <<last, age>>

Dial(p) ==
    /\ session[p] = "off"
    /\ up[p]
    /\ session' = [session EXCEPT ![p] = "dialing"]
    /\ UNCHANGED <<tip, up, faults, wire, last, age, roundVars, seen>>

\* eth_subscribe is acknowledged.
Acknowledge(p) ==
    /\ session[p] = "dialing"
    /\ session' = [session EXCEPT ![p] = "subscribed"]
    /\ UNCHANGED <<tip, up, faults, wire, last, age, roundVars, seen>>

\* The provider answers pollOne with its head of that moment.
Bootstrap(p) ==
    /\ session[p] = "subscribed"
    /\ up[p]
    /\ session' = [session EXCEPT ![p] = "answered"]
    /\ last' = [last EXCEPT ![p] = tip[p]]
    /\ UNCHANGED <<tip, up, faults, wire, age, roundVars, seen>>

\* The answer is here: the head goes to runLeader and polling of p stops.
GoLive(p) ==
    /\ session[p] = "answered"
    /\ session' = [session EXCEPT ![p] = "live"]
    /\ age' = [age EXCEPT ![p] = 0]
    /\ seen' = seen \cup {last[p]}
    /\ UNCHANGED <<tip, up, faults, wire, last, roundVars>>

\* The dial, the acknowledgment, the bootstrap or the connection fails.
SessionFails(p) ==
    /\ session[p] # "off"
    /\ IF session[p] = "subscribed" /\ ~up[p] THEN UNCHANGED faults ELSE Fault
    /\ EndSession(p)
    /\ UNCHANGED <<tip, up, roundVars, seen>>


\* A head equal to the last one is dropped and the deadline stays.
ReadDuplicate(p) ==
    /\ Fresh(p)
    /\ wire[p] # <<>> /\ Head(wire[p]) = last[p]
    /\ wire' = [wire EXCEPT ![p] = Tail(@)]
    /\ UNCHANGED <<tip, up, faults, session, last, age, roundVars, seen>>

\* A different head that the provider serves over HTTP goes to runLeader.  The
\* check over HTTP may outlast the deadline of the read.
ReadHead(p) ==
    /\ session[p] = "live"
    /\ wire[p] # <<>> /\ Head(wire[p]) # last[p]
    /\ up[p]
    /\ wire' = [wire EXCEPT ![p] = Tail(@)]
    /\ last' = [last EXCEPT ![p] = Head(wire[p])]
    /\ age' = [age EXCEPT ![p] = 0]
    /\ seen' = seen \cup {Head(wire[p])}
    /\ UNCHANGED <<tip, up, faults, session, roundVars>>

\* A different head from a provider that is down, or that has not got it yet
\* over HTTP, ends the session.
HeadUnavailable(p) ==
    /\ session[p] = "live"
    /\ wire[p] # <<>> /\ Head(wire[p]) # last[p]
    /\ IF up[p] THEN Fault ELSE UNCHANGED faults
    /\ EndSession(p)
    /\ UNCHANGED <<tip, up, roundVars, seen>>

\* Time passes for p's session; at the deadline its read fails.
Tick(p) ==
    /\ Fresh(p)
    /\ age' = [age EXCEPT ![p] = @ + 1]
    /\ UNCHANGED <<tip, up, faults, session, wire, last, roundVars, seen>>

IdleOut(p) ==
    /\ session[p] = "live"
    /\ age[p] = IdleTimeout
    /\ EndSession(p)
    /\ UNCHANGED <<tip, up, faults, roundVars, seen>>

-----------------------------------------------------------------------------
(* poll: one round at a time. *)

PollStart ==
    /\ ~polling
    /\ polling' = TRUE
    /\ asked' = {p \in Providers : up[p] /\ ~Fresh(p)}
    /\ got' = {}
    /\ UNCHANGED <<tip, up, faults, watcherVars, seen>>

PollAnswer(p) ==
    /\ p \in asked
    /\ up[p]
    /\ asked' = asked \ {p}
    /\ got' = got \cup {tip[p]}
    /\ UNCHANGED <<tip, up, faults, watcherVars, polling, seen>>

PollFails(p) ==
    /\ p \in asked
    /\ IF up[p] THEN Fault ELSE UNCHANGED faults
    /\ asked' = asked \ {p}
    /\ UNCHANGED <<tip, up, watcherVars, polling, got, seen>>

\* selectFreshest goes first, but every distinct head is handed over.
PollEnd ==
    /\ polling /\ asked = {}
    /\ polling' = FALSE
    /\ got' = {}
    /\ seen' = seen \cup got
    /\ UNCHANGED <<tip, up, faults, watcherVars, asked>>

\* The accepted head cannot be read: the round is dropped.
PollSnapshotFails ==
    /\ polling /\ asked = {} /\ got # {}
    /\ Fault
    /\ polling' = FALSE
    /\ got' = {}
    /\ UNCHANGED <<tip, up, watcherVars, asked, seen>>

-----------------------------------------------------------------------------
Provider(p) == \/ \E h \in Heads : NewHead(p, h) \/ HeadNotSent(p, h) \/ Resend(p, h)
               \/ Repeat(p) \/ GoDown(p) \/ ComeBack(p)

Watcher(p) == \/ Dial(p) \/ Acknowledge(p) \/ Bootstrap(p) \/ GoLive(p)
              \/ SessionFails(p)
              \/ ReadDuplicate(p) \/ ReadHead(p) \/ HeadUnavailable(p)
              \/ Tick(p) \/ IdleOut(p)

Poller == PollStart \/ PollEnd \/ PollSnapshotFails
          \/ \E p \in Providers : PollAnswer(p) \/ PollFails(p)

Next ==
    /\ Poller \/ (\E p \in Providers : Provider(p)) \/ \E p \in Subscribing : Watcher(p)
    /\ UNCHANGED reliable

(***************************************************************************)
(* The ticker starts a round whenever the last one is over and every call  *)
(* has a timeout; time passes for every session; a read that found a       *)
(* message returns.  Nothing is promised of new connections or of the      *)
(* websocket backends.                                                     *)
(***************************************************************************)
Fairness ==
    /\ WF_feedVars(PollStart)
    /\ WF_feedVars(PollEnd \/ PollSnapshotFails)
    /\ \A p \in Providers : WF_feedVars(PollAnswer(p) \/ PollFails(p)) /\ WF_feedVars(ComeBack(p))
    /\ \A p \in Subscribing : /\ WF_feedVars(Tick(p))
                              /\ WF_feedVars(IdleOut(p))
                              /\ WF_feedVars(ReadDuplicate(p) \/ ReadHead(p) \/ HeadUnavailable(p))

Spec == Init /\ [][Next]_vars /\ Fairness

-----------------------------------------------------------------------------
TypeOK ==
    /\ reliable \in BOOLEAN
    /\ tip \in [Providers -> Heads] /\ last \in [Providers -> Heads]
    /\ up \in [Providers -> BOOLEAN] /\ polling \in BOOLEAN
    /\ faults \in 0..MaxFaults
    /\ session \in [Providers -> Sessions]
    /\ wire \in [Providers -> Seq(Heads)]
    /\ age \in [Providers -> 0..IdleTimeout]
    /\ asked \subseteq Providers /\ got \subseteq Heads /\ seen \subseteq Heads

(***************************************************************************)
(* "Subscribe before bootstrapping so heads arriving during the HTTP read  *)
(* are not lost": with a backend that sends every head, a provider is left *)
(* out of the polls only while its latest head has been handed over or is  *)
(* on its way in the subscription.                                         *)
(***************************************************************************)
NotPolledOnlyWhenCovered ==
    reliable =>
        \A p \in Subscribing :
            Fresh(p) => tip[p] \in seen \cup {wire[p][i] : i \in DOMAIN wire[p]}

\* Old heads that differ from the last one are news to the session.
SendsOldHead(p) == \E h \in Heads : h < tip[p] /\ Resend(p, h)

(***************************************************************************)
(* The head a provider settles on reaches runLeader, although its          *)
(* websocket backend misses it: "Only a verified different head extends    *)
(* the deadline, not duplicates or unrelated frames", so that one that is  *)
(* silent or repeats itself does not keep the provider from being polled   *)
(* for ever.  Only one that sends older heads in turn, without end, can:   *)
(* each differs from the head before it, which is all the session asks.    *)
(***************************************************************************)
SettledHeadIsObserved ==
    \A p \in Providers :
        []<>(tip[p] \in seen) \/ []<><<SendsOldHead(p)>>_feedVars
=============================================================================
