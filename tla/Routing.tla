------------------------------ MODULE Routing ------------------------------
(***************************************************************************)
(* Routing of reads pinned to one block, and the availability checks they  *)
(* rest on: Gateway.route tries the healthy providers that hold the block, *)
(* each once, and waits for the others to catch up; Runtime.probe caches   *)
(* for a short time whether a provider holds the block and lets concurrent *)
(* checks share one call.  Subscriptions check the headers they are sent   *)
(* through the same cache.                                                 *)
(*                                                                         *)
(* All targets name the same block hash.  "hash" asks for nothing more,    *)
(* "header" also for the block's height and parent, and "forged" is a      *)
(* header that carries the hash with another height or parent.             *)
(***************************************************************************)
EXTENDS Naturals, FiniteSets

CONSTANTS
    Providers,   \* the chain's upstreams
    Requests,    \* reads and header checks
    Mixes,       \* what the requests may ask for, as functions to Targets
    Patient,     \* reads whose deadline is far away
    MaxRecords,  \* bound on the availability map (4096 in the code)
    MaxFaults    \* bound on failed calls, lost blocks, open circuits

Targets == {"hash", "header", "forged"}

ASSUME RoutingAssumption ==
    /\ IsFiniteSet(Providers)
    /\ Patient \subseteq Requests
    /\ Mixes \subseteq [Requests -> Targets]
    /\ \A f \in Mixes, r \in Patient : f[r] # "forged"
    /\ MaxRecords \in Nat \ {0} /\ MaxFaults \in Nat

VARIABLES
    target,       \* target[r]: what request r asks for
    has,          \* has[p]: provider p serves the block
    up,           \* up[p]: p is validated and its circuit is closed
    unsupported,  \* providers that have rejected the read's method
    faults,       \* faults so far
    record,       \* record[k]: the availability record of key k
    flight,       \* flight[k]: the shared check of key k
    pc,           \* pc[r]: where request r is
    cands,        \* cands[r]: the candidates of r's current round
    todo,         \* todo[r]: those it has still to look at
    at,           \* at[r]: the one it is looking at
    eligible,     \* eligible[r]: some candidate of the round was tried
    attempted,    \* attempted[r]: providers r has tried
    result        \* result[r]: how r ended

providerVars == <<has, up, unsupported>>
requestVars == <<pc, cands, todo, at, eligible, attempted, result>>
routeVars == <<providerVars, faults, record, flight, requestVars>>
vars == <<target, routeVars>>

\* The header checks of a subscription; the others are reads.
Checks == {r \in Requests : target[r] = "forged"}

\* Mutant of Key: the constraints on the header are not part of the key.
HashKey(p, t) == <<p, "hash">>

Key(p, t) == <<p, t>>

Keys == Providers \X Targets
Recorded == {k \in Keys : record[k] # "none"}
Live == {k \in Keys : record[k] \in {"yes", "no"}}

Init ==
    /\ target \in Mixes
    /\ has \in [Providers -> BOOLEAN]
    /\ up = [p \in Providers |-> TRUE]
    /\ unsupported = {}
    /\ faults = 0
    /\ record = [k \in Keys |-> "none"]
    /\ flight = [k \in Keys |-> "none"]
    /\ pc = [r \in Requests |-> IF r \in Checks THEN "scan" ELSE "round"]
    /\ cands = [r \in Requests |-> {}]
    /\ todo \in {f \in [Requests -> SUBSET Providers] :
                    \A r \in Requests : Cardinality(f[r]) = IF r \in Checks THEN 1 ELSE 0}
    /\ at \in {[r \in Requests |-> p] : p \in Providers}
    /\ eligible = [r \in Requests |-> FALSE]
    /\ attempted = [r \in Requests |-> {}]
    /\ result = [r \in Requests |-> "none"]

Fault == faults < MaxFaults /\ faults' = faults + 1

-----------------------------------------------------------------------------
(* The providers. *)

CatchUp(p) ==
    /\ ~has[p]
    /\ has' = [has EXCEPT ![p] = TRUE]
    /\ UNCHANGED <<up, unsupported, faults, record, flight, requestVars>>

\* Another backend answers for p, or p reorganizes: the block is gone.
LoseBlock(p) ==
    /\ has[p]
    /\ Fault
    /\ has' = [has EXCEPT ![p] = FALSE]
    /\ UNCHANGED <<up, unsupported, record, flight, requestVars>>

GoDown(p) ==
    /\ up[p]
    /\ Fault
    /\ up' = [up EXCEPT ![p] = FALSE]
    /\ UNCHANGED <<has, unsupported, record, flight, requestVars>>

ComeBack(p) ==
    /\ ~up[p]
    /\ up' = [up EXCEPT ![p] = TRUE]
    /\ UNCHANGED <<has, unsupported, faults, record, flight, requestVars>>

-----------------------------------------------------------------------------
(* How a request goes on. *)

Finish(r, how) ==
    /\ pc' = [pc EXCEPT ![r] = "done"]
    /\ result' = [result EXCEPT ![r] = how]
    /\ UNCHANGED <<cands, todo, at, eligible, attempted>>

\* The requests of set rs learn that their candidate holds the target: a check
\* is over, a read tries the candidate.
Available(rs) ==
    LET reads == rs \ Checks IN
    /\ pc' = [r \in Requests |-> IF r \in reads THEN "call"
                                 ELSE IF r \in rs THEN "done" ELSE pc[r]]
    /\ result' = [r \in Requests |-> IF r \in rs \cap Checks THEN "available" ELSE result[r]]
    /\ eligible' = [r \in Requests |-> eligible[r] \/ r \in reads]
    /\ attempted' = [r \in Requests |-> IF r \in reads THEN attempted[r] \cup {at'[r]}
                                        ELSE attempted[r]]
    /\ UNCHANGED cands

\* They learn that it does not, or cannot tell: a read looks at the next one.
NotAvailable(rs) ==
    /\ pc' = [r \in Requests |-> IF r \in rs \cap Checks THEN "done"
                                 ELSE IF r \in rs THEN "scan" ELSE pc[r]]
    /\ result' = [r \in Requests |-> IF r \in rs \cap Checks THEN "missing" ELSE result[r]]
    /\ UNCHANGED <<cands, eligible, attempted>>

-----------------------------------------------------------------------------
(* Runtime.probe: the cache and the shared checks. *)

\* Mutant of Expire: a negative record has no time to live.
ExpirePositive(k) ==
    /\ record[k] = "yes"
    /\ record' = [record EXCEPT ![k] = "expired"]
    /\ UNCHANGED <<providerVars, faults, flight, requestVars>>

\* A record outlives its time in the map, but is not used any more.
Expire(k) ==
    /\ record[k] \in {"yes", "no"}
    /\ record' = [record EXCEPT ![k] = "expired"]
    /\ UNCHANGED <<providerVars, faults, flight, requestVars>>

Waiters(k) == {r \in Requests : pc[r] = "probe" /\ Key(at[r], target[r]) = k}

\* A header check compares the provider's header with the target.
Holds(p, t) == has[p] /\ t # "forged"

\* The provider answers the check started for target t.
ProbeAnswer(p, t) ==
    LET k == Key(p, t) IN
    /\ flight[k] = t
    /\ up[p]
    /\ flight' = [flight EXCEPT ![k] = IF Holds(p, t) THEN "yes" ELSE "no"]
    /\ UNCHANGED <<providerVars, faults, record, requestVars>>

\* The check fails: nothing is recorded, and its waiters look elsewhere.
ProbeFails(p, t) ==
    LET k == Key(p, t) IN
    /\ flight[k] = t
    /\ IF up[p] THEN Fault ELSE UNCHANGED faults
    /\ flight' = [flight EXCEPT ![k] = "none"]
    /\ NotAvailable(Waiters(k))
    /\ UNCHANGED <<providerVars, record, todo, at>>

\* The time r has for one check is over; the check goes on for the others.
StopsWaiting(r) ==
    /\ pc[r] = "probe"
    /\ Fault
    /\ NotAvailable({r})
    /\ UNCHANGED <<providerVars, record, flight, todo, at>>

\* A full map drops its expired records, then any others until one fits.
Kept(survivors) ==
    Cardinality(survivors) = IF Cardinality(Live) >= MaxRecords THEN MaxRecords - 1
                             ELSE Cardinality(Live)

\* The answer is recorded and handed to everyone who waits for it.
ProbeStore(k) ==
    /\ flight[k] \in {"yes", "no"}
    /\ \E survivors \in SUBSET Recorded :
          /\ IF Cardinality(Recorded) < MaxRecords
             THEN survivors = Recorded
             ELSE survivors \subseteq Live /\ Kept(survivors)
          /\ record' = [j \in Keys |-> IF j = k THEN flight[k]
                                       ELSE IF j \in survivors THEN record[j] ELSE "none"]
    /\ flight' = [flight EXCEPT ![k] = "none"]
    /\ at' = at
    /\ IF flight[k] = "yes" THEN Available(Waiters(k)) ELSE NotAvailable(Waiters(k))
    /\ UNCHANGED <<providerVars, faults, todo>>

Invalidate(p, t) == record' = [record EXCEPT ![Key(p, t)] = "none"]

-----------------------------------------------------------------------------
(* Gateway.route. *)

\* A round looks at the healthy candidates r has not tried.
Round(r) ==
    /\ pc[r] = "round"
    /\ LET healthy == {p \in Providers : up[p]} IN
          /\ cands' = [cands EXCEPT ![r] = healthy]
          /\ todo' = [todo EXCEPT ![r] = healthy \ (attempted[r] \cup unsupported)]
    /\ eligible' = [eligible EXCEPT ![r] = FALSE]
    /\ pc' = [pc EXCEPT ![r] = "scan"]
    /\ UNCHANGED <<providerVars, faults, record, flight, at, attempted, result>>

\* getCachedAvailability
Cached(k) == IF record[k] = "expired" THEN "none" ELSE record[k]

\* The availability check of one candidate: answered from the cache, or joined
\* to the check that is under way, or started.
Look(r, p) ==
    LET k == Key(p, target[r]) IN
    /\ pc[r] = "scan"
    /\ p \in todo[r]
    /\ todo' = [todo EXCEPT ![r] = @ \ {p}]
    /\ at' = [at EXCEPT ![r] = p]
    /\ CASE Cached(k) = "yes" -> Available({r}) /\ UNCHANGED flight
         [] Cached(k) = "no" -> NotAvailable({r}) /\ UNCHANGED flight
         [] Cached(k) = "none" ->
              /\ flight' = [flight EXCEPT ![k] = IF @ = "none" THEN target[r] ELSE @]
              /\ pc' = [pc EXCEPT ![r] = "probe"]
              /\ UNCHANGED <<cands, eligible, attempted, result>>
    /\ UNCHANGED <<providerVars, faults, record>>

Goes(r, where) ==
    /\ pc' = [pc EXCEPT ![r] = where]
    /\ UNCHANGED <<cands, todo, at, eligible, attempted, result>>

\* A provider without the block answers an error that says so, or null.
Replies(p) == IF has[p] THEN {"state"} ELSE {"unavailable", "null"}

\* IsUnavailableRPCError and verifyEVMResponse
Accepted(reply) == reply \notin {"unavailable", "null"}

Reply(r, reply) ==
    /\ pc[r] = "call"
    /\ up[at[r]]
    /\ reply \in Replies(at[r])
    /\ IF Accepted(reply)
       THEN Finish(r, reply) /\ UNCHANGED record
       ELSE Goes(r, "scan") /\ Invalidate(at[r], target[r])
    /\ UNCHANGED <<providerVars, faults, flight>>

\* The call fails, or its reply is not usable for another reason.
CallFails(r) ==
    /\ pc[r] = "call"
    /\ IF up[at[r]] THEN Fault ELSE UNCHANGED faults
    /\ Goes(r, "scan")
    /\ UNCHANGED <<providerVars, record, flight>>

MethodNotFound(r) ==
    /\ pc[r] = "call"
    /\ up[at[r]]
    /\ Fault
    /\ unsupported' = unsupported \cup {at[r]}
    /\ Goes(r, "scan")
    /\ UNCHANGED <<has, up, record, flight>>

\* Any other error of the provider is the answer.
RpcError(r) ==
    /\ pc[r] = "call"
    /\ up[at[r]]
    /\ Fault
    /\ Finish(r, "error")
    /\ UNCHANGED <<providerVars, record, flight>>

NothingLeft(r) ==
    /\ ~eligible[r]
    /\ Cardinality(attempted[r]) >= Cardinality(cands[r])
    /\ cands[r] # {}

\* All candidates have been looked at: give up, or start over after 75 ms.
EndRound(r) ==
    /\ pc[r] = "scan" /\ todo[r] = {} /\ r \notin Checks
    /\ IF NothingLeft(r) THEN Finish(r, "exhausted") ELSE Goes(r, "round")
    /\ UNCHANGED <<providerVars, faults, record, flight>>

\* The request's time is over; a check it has started goes on without it.
Deadline(r) ==
    /\ r \notin Patient
    /\ pc[r] # "done"
    /\ Finish(r, "deadline")
    /\ UNCHANGED <<providerVars, faults, record, flight>>

-----------------------------------------------------------------------------
RequestStep(r) ==
    \/ Round(r) \/ EndRound(r)
    \/ \E p \in Providers : Look(r, p)
    \/ \E reply \in {"state", "unavailable", "null"} : Reply(r, reply)
    \/ CallFails(r) \/ MethodNotFound(r) \/ RpcError(r)

ProbeStep(k) ==
    \/ ProbeAnswer(k[1], k[2]) \/ ProbeFails(k[1], k[2]) \/ ProbeStore(k)

Next ==
    /\ \/ \E p \in Providers : CatchUp(p) \/ LoseBlock(p) \/ GoDown(p) \/ ComeBack(p)
       \/ \E k \in Keys : ProbeStep(k) \/ Expire(k)
       \/ \E r \in Requests : RequestStep(r) \/ StopsWaiting(r) \/ Deadline(r)
    /\ UNCHANGED target

\* Calls have timeouts and records have a time to live; providers catch up.
Fairness ==
    /\ \A r \in Requests : WF_routeVars(RequestStep(r))
    /\ \A k \in Keys : WF_routeVars(ProbeStep(k)) /\ WF_routeVars(Expire(k))
    /\ \A p \in Providers : WF_routeVars(CatchUp(p)) /\ WF_routeVars(ComeBack(p))

Spec == Init /\ [][Next]_vars /\ Fairness

-----------------------------------------------------------------------------
TypeOK ==
    /\ target \in Mixes
    /\ has \in [Providers -> BOOLEAN] /\ up \in [Providers -> BOOLEAN]
    /\ unsupported \subseteq Providers
    /\ faults \in 0..MaxFaults
    /\ record \in [Keys -> {"none", "yes", "no", "expired"}]
    /\ flight \in [Keys -> {"none", "yes", "no"} \cup Targets]
    /\ pc \in [Requests -> {"round", "scan", "probe", "call", "done"}]
    /\ cands \in [Requests -> SUBSET Providers] /\ todo \in [Requests -> SUBSET Providers]
    /\ at \in [Requests -> Providers]
    /\ eligible \in [Requests -> BOOLEAN]
    /\ attempted \in [Requests -> SUBSET Providers]
    /\ result \in [Requests -> {"none", "state", "null", "error", "exhausted", "deadline",
                                "available", "missing"}]
    /\ Cardinality(Recorded) <= MaxRecords

(***************************************************************************)
(* "Hash-only checks must not satisfy stricter coordinator checks of a     *)
(* header's height and parent": whichever checks run before it or share a  *)
(* call with it, a header that does not fit its hash is never reported     *)
(* available.                                                              *)
(***************************************************************************)
ForgedHeaderNeverPasses ==
    \A r \in Requests : target[r] = "forged" => result[r] # "available"

(***************************************************************************)
(* "If a provider cannot serve it, the proxy tries another or waits for it *)
(* to catch up" (README): a read that gives up before its deadline has     *)
(* tried every candidate that supports its method.  It does not hold:      *)
(* route compares how many providers it has tried with how many candidates *)
(* there are, not which.  When one it has tried becomes unhealthy, one     *)
(* that has only to catch up is not waited for.                            *)
(***************************************************************************)
GivesUpOnlyWhenAllTried ==
    \A r \in Requests : result[r] = "exhausted" => cands[r] \subseteq attempted[r] \cup unsupported

(***************************************************************************)
(* A read with time left ends: when providers catch up it does not go on   *)
(* finding them unavailable, and no abandoned check leaves it waiting.     *)
(* Only a read that finds every provider it has not tried marked as        *)
(* rejecting its method, by the errors other reads received, has nobody to *)
(* try and still waits for its deadline: route counts the providers it has *)
(* tried, and those are not among them.                                    *)
(***************************************************************************)
PatientReadsEnd ==
    \A r \in Patient :
        LET untried == Providers \ attempted[r]
        IN  <>(pc[r] = "done" \/ (untried # {} /\ untried \subseteq unsupported))
=============================================================================
