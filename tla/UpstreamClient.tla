--------------------------- MODULE UpstreamClient ---------------------------
(***************************************************************************)
(* The client of one upstream: Call lets at most max_concurrency requests  *)
(* through at a time, and a circuit refuses calls for ten seconds after    *)
(* five failures without a success in between.  Everybody shares it: the   *)
(* gateway's requests, the coordinator's polls and the availability        *)
(* checks.  The coordinator's header requests, alone among them, have no   *)
(* deadline; the HTTP client bounds the wait for a response's header and   *)
(* not the reading of its body.                                            *)
(***************************************************************************)
EXTENDS Naturals, FiniteSets

CONSTANTS
    Callers,         \* goroutines that call the upstream, one call at a time
    Unbounded,       \* those whose context has no deadline
    MaxConcurrency,  \* max_concurrency of the upstream
    Threshold        \* failures that open the circuit (5 in the code)

ASSUME ClientAssumption ==
    /\ IsFiniteSet(Callers)
    /\ Unbounded \subseteq Callers
    /\ MaxConcurrency \in Nat \ {0}
    /\ Threshold \in Nat \ {0}

VARIABLES
    phase,     \* phase[c]: "idle", "waiting" for a slot, or "sent"
    slots,     \* elements in the semaphore channel
    failures,  \* failures since the last success or opening
    open,      \* the time is before openUntil
    admitted   \* calls under way since the circuit last opened (history)

clientVars == <<phase, slots, failures, open, admitted>>

ClientInit ==
    /\ phase = [c \in Callers |-> "idle"]
    /\ slots = 0
    /\ failures = 0
    /\ open = FALSE
    /\ admitted = {}

\* Mutant of Healthy: a call starts whatever the circuit says.
AlwaysHealthy(c) == TRUE

Healthy(c) == ~open

StartCall(c) ==
    /\ phase[c] = "idle"
    /\ Healthy(c)
    /\ phase' = [phase EXCEPT ![c] = "waiting"]
    /\ UNCHANGED <<slots, failures, open, admitted>>

\* The semaphore has room.  The circuit is not asked again.
Send(c) ==
    /\ phase[c] = "waiting"
    /\ slots < MaxConcurrency
    /\ slots' = slots + 1
    /\ phase' = [phase EXCEPT ![c] = "sent"]
    /\ UNCHANGED <<failures, open, admitted>>

\* The caller's context ends while it waits: no failure of the upstream.
GiveUp(c) ==
    /\ phase[c] = "waiting"
    /\ phase' = [phase EXCEPT ![c] = "idle"]
    /\ admitted' = admitted \ {c}
    /\ UNCHANGED <<slots, failures, open>>

\* The deferred receive gives the slot back on every path out of Call.
GiveBack(c) ==
    /\ phase' = [phase EXCEPT ![c] = "idle"]
    /\ slots' = slots - 1

\* recordSuccess: a valid response, an RPC error included.  It closes a circuit
\* that others have opened meanwhile.
Succeed(c) ==
    /\ phase[c] = "sent"
    /\ GiveBack(c)
    /\ failures' = 0
    /\ open' = FALSE
    /\ admitted' = admitted \ {c}

\* The circuit opens while calls are under way, or stays as it is.
CountFailure(c) ==
    IF failures + 1 >= Threshold
    THEN /\ open' = TRUE
         /\ failures' = 0
         /\ admitted' = {d \in Callers \ {c} : phase[d] # "idle"}
    ELSE /\ failures' = failures + 1
         /\ admitted' = admitted \ {c}
         /\ UNCHANGED open

\* Mutant of Fail: the slot is not given back.
FailWithoutReturn(c) ==
    /\ phase[c] = "sent"
    /\ phase' = [phase EXCEPT ![c] = "idle"]
    /\ CountFailure(c)
    /\ UNCHANGED slots

\* recordFailure: a transport error, which the end of the caller's context is
\* too, a bad status or an invalid response.
Fail(c) ==
    /\ phase[c] = "sent"
    /\ GiveBack(c)
    /\ CountFailure(c)

\* The request cannot be built: neither a success nor a failure.
Unsendable(c) ==
    /\ phase[c] = "sent"
    /\ GiveBack(c)
    /\ admitted' = admitted \ {c}
    /\ UNCHANGED <<failures, open>>

\* Ten seconds have passed.
Close ==
    /\ open
    /\ open' = FALSE
    /\ UNCHANGED <<phase, slots, failures, admitted>>

CallStep(c) == Send(c) \/ GiveUp(c) \/ Succeed(c) \/ Fail(c) \/ Unsendable(c)

ClientNext == Close \/ \E c \in Callers : StartCall(c) \/ CallStep(c)

\* Nothing but its deadline ends a call whose response does not: the others
\* may wait, and hold their slots, for ever.
ClientSpec ==
    /\ ClientInit /\ [][ClientNext]_clientVars
    /\ \A c \in Callers \ Unbounded : WF_clientVars(CallStep(c))

-----------------------------------------------------------------------------
InCall == {c \in Callers : phase[c] # "idle"}

(***************************************************************************)
(* An open circuit drains: Call asks it before the wait for a slot and not *)
(* after, but the calls that go on while it is open are the ones that were *)
(* under way when it opened, each of them once.                            *)
(***************************************************************************)
OpenCircuitDrains == open => InCall \subseteq admitted

(***************************************************************************)
(* A full semaphore does not stay full, so that callers that wait are let  *)
(* through again: a call gives its slot back on every path out of Call.    *)
(* Only calls without a deadline can keep slots, and only by never ending: *)
(* all of them full for ever means that each is held by such a call.       *)
(***************************************************************************)
SlotsComeFree ==
    \/ []<>(slots < MaxConcurrency)
    \/ <>[](Cardinality({c \in Unbounded : phase[c] = "sent"}) = MaxConcurrency)
=============================================================================
