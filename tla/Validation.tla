----------------------------- MODULE Validation -----------------------------
(***************************************************************************)
(* The checks of a chain's upstreams at startup: Validate checks all of    *)
(* them concurrently, for an EVM upstream it also probes every state       *)
(* method concurrently with a known and an unknown block hash, and the     *)
(* proxy serves when all of them have ended.  Nothing is checked again     *)
(* later.  Every call of a check may fail.                                 *)
(***************************************************************************)
EXTENDS Naturals, FiniteSets, Sequences

CONSTANTS
    Upstreams,
    Methods     \* the EVM state methods

ASSUME UpstreamsAssumption == IsFiniteSet(Upstreams)

VARIABLES
    chain,        \* the family of the chain: "evm" or "solana"
    withGenesis,  \* genesis_hash is configured
    identity,     \* identity[u]: the chain u really serves
    pins,         \* pins[u][m]: what u makes of a block hash in method m
    state,        \* state[u]: the stage of validateUpstream for u
    passed,       \* passed[u]: checks u has passed
    probe,        \* probe[u][m]: the stage of the probe of m, or its verdict
    eip1898,      \* upstreams that support hashes in some method
    valid,        \* upstreams that passed validation
    errors,       \* errors in the channel validationErrors
    serving,      \* Validate has returned
    unlucky       \* upstreams with a failed call (history)

worldVars == <<chain, withGenesis, identity, pins>>
startupVars == <<worldVars, state, passed, probe, eip1898, valid, errors, serving, unlucky>>

\* "fork" has the chain ID of the configured chain and another genesis block.
Identities == {"same", "fork", "other"}

\* A method takes a hash as it should, answers for its own head instead, does
\* not take hashes, or does not say that it lacks a block the way we expect.
Treatments == {"honours", "ignores", "rejects", "vague"}

StartupInit ==
    /\ chain \in {"evm", "solana"}
    /\ withGenesis \in {TRUE, chain = "solana"}
    /\ identity \in [Upstreams -> Identities]
    /\ pins \in [Upstreams -> [Methods -> Treatments]]
    /\ state = [u \in Upstreams |-> "checking"]
    /\ passed = [u \in Upstreams |-> 0]
    /\ probe = [u \in Upstreams |-> [m \in Methods |-> "none"]]
    /\ eip1898 = {} /\ valid = {} /\ unlucky = {}
    /\ errors = 0
    /\ serving = FALSE

-----------------------------------------------------------------------------
(* validateUpstream *)

Checks ==
    IF chain = "solana" THEN <<"genesis", "slot", "minContextSlot">>
    ELSE IF withGenesis THEN <<"chainId", "genesis", "latest">>
    ELSE <<"chainId", "latest">>

Fits(u, check) ==
    /\ check = "chainId" => identity[u] # "other"
    /\ check = "genesis" => identity[u] = "same"

CurrentCheck(u) == Checks[passed[u] + 1]

AllPassed(u) == passed[u] = Len(Checks)

CheckPasses(u) ==
    /\ state[u] = "checking" /\ ~AllPassed(u)
    /\ Fits(u, CurrentCheck(u))
    /\ passed' = [passed EXCEPT ![u] = @ + 1]
    /\ UNCHANGED <<worldVars, state, probe, eip1898, valid, errors, serving, unlucky>>

\* The call fails, or its answer is another chain's.
CheckFails(u) ==
    /\ state[u] = "checking" /\ ~AllPassed(u)
    /\ state' = [state EXCEPT ![u] = "failed"]
    /\ unlucky' = IF Fits(u, CurrentCheck(u)) THEN unlucky \cup {u} ELSE unlucky
    /\ UNCHANGED <<worldVars, passed, probe, eip1898, valid, errors, serving>>

\* probeEVMStateMethods starts a goroutine for each method.
ChecksEnd(u) ==
    /\ state[u] = "checking" /\ AllPassed(u)
    /\ IF chain = "evm"
       THEN /\ state' = [state EXCEPT ![u] = "probing"]
            /\ probe' = [probe EXCEPT ![u] = [m \in Methods |-> "positive"]]
       ELSE state' = [state EXCEPT ![u] = "passed"] /\ UNCHANGED probe
    /\ UNCHANGED <<worldVars, passed, eip1898, valid, errors, serving, unlucky>>

\* Mutant of Verdict: an answer to the known hash is enough.
VerdictOfPositive(u, m, stage) == pins[u][m] # "rejects"

\* The known hash must be answered and the unknown one must be unavailable.
Verdict(u, m, stage) ==
    IF stage = "positive" THEN pins[u][m] # "rejects" ELSE pins[u][m] = "honours"

ProbeAnswered(u, m) ==
    /\ probe[u][m] \in {"positive", "negative"}
    /\ probe' = [probe EXCEPT ![u][m] = IF ~Verdict(u, m, @) THEN "no"
                                        ELSE IF @ = "positive" THEN "negative" ELSE "yes"]
    /\ UNCHANGED <<worldVars, state, passed, eip1898, valid, errors, serving, unlucky>>

ProbeFails(u, m) ==
    /\ probe[u][m] \in {"positive", "negative"}
    /\ probe' = [probe EXCEPT ![u][m] = "no"]
    /\ unlucky' = unlucky \cup {u}
    /\ UNCHANGED <<worldVars, state, passed, eip1898, valid, errors, serving>>

\* Mutant of ProbesOver: nobody waits for the goroutines.
ProbesStarted(u) == state[u] = "probing"

\* pending.Wait
ProbesOver(u) == state[u] = "probing" /\ \A m \in Methods : probe[u][m] \in {"yes", "no"}

ProbesEnd(u) ==
    /\ ProbesOver(u)
    /\ state' = [state EXCEPT ![u] = "passed"]
    /\ eip1898' = IF \E m \in Methods : probe[u][m] = "yes" THEN eip1898 \cup {u} ELSE eip1898
    /\ UNCHANGED <<worldVars, passed, probe, valid, errors, serving, unlucky>>

-----------------------------------------------------------------------------
(* Validate *)

\* Mutant of Capacity: the channel has no buffer.
Unbuffered == 0

Capacity == Cardinality(Upstreams)

\* The outcome is stored and an error sent, under validMu.
Record(u) ==
    /\ \/ state[u] = "passed" /\ valid' = valid \cup {u} /\ UNCHANGED errors
       \/ /\ state[u] = "failed" /\ errors < Capacity
          /\ errors' = errors + 1 /\ UNCHANGED valid
    /\ state' = [state EXCEPT ![u] = "done"]
    /\ UNCHANGED <<worldVars, passed, probe, eip1898, serving, unlucky>>

\* wg.Wait, then the errors are read and the proxy goes on with those it has.
StartServing ==
    /\ ~serving
    /\ \A u \in Upstreams : state[u] = "done"
    /\ serving' = TRUE
    /\ errors' = 0
    /\ UNCHANGED <<worldVars, state, passed, probe, eip1898, valid, unlucky>>

Check(u) ==
    \/ CheckPasses(u) \/ CheckFails(u) \/ ChecksEnd(u) \/ ProbesEnd(u) \/ Record(u)

Probe(u, m) == ProbeAnswered(u, m) \/ ProbeFails(u, m)

StartupNext ==
    \/ StartServing
    \/ \E u \in Upstreams : Check(u) \/ \E m \in Methods : Probe(u, m)

\* Every call ends with the timeout of the validation context at the latest.
StartupSpec ==
    /\ StartupInit /\ [][StartupNext]_startupVars
    /\ WF_startupVars(StartServing)
    /\ \A u \in Upstreams : WF_startupVars(Check(u)) /\ \A m \in Methods : WF_startupVars(Probe(u, m))

-----------------------------------------------------------------------------
\* Candidates and route: where a pinned read of method m can go.
Eligible(u, m) ==
    /\ serving /\ u \in valid
    /\ chain = "evm" => u \in eip1898 /\ probe[u][m] = "yes"

Genuine(u) == identity[u] = "same" \/ (identity[u] = "fork" /\ ~withGenesis)

(***************************************************************************)
(* "Startup probes reject methods that successfully answer an unknown      *)
(* block hash" (consistency audit): a pinned read goes to an upstream only *)
(* if that serves the configured chain and takes the hash of this method   *)
(* seriously.                                                              *)
(***************************************************************************)
PinnedReadsGoToProvenUpstreams ==
    \A u \in Upstreams, m \in Methods :
        Eligible(u, m) => Genuine(u) /\ (chain = "evm" => pins[u][m] = "honours")

(***************************************************************************)
(* A good upstream is not lost for the life of the process by the order in *)
(* which its probes end: if none of its calls failed it gets the reads of  *)
(* every method in which it honours hashes.                                *)
(***************************************************************************)
GoodUpstreamsServe ==
    \A u \in Upstreams \ unlucky, m \in Methods :
        serving /\ Genuine(u) /\ (chain = "evm" => pins[u][m] = "honours")
        => Eligible(u, m)

(***************************************************************************)
(* The proxy starts however many upstreams fail their checks: reporting an *)
(* error never waits for the reader, who waits for the checks.             *)
(***************************************************************************)
StartupEnds == <>serving
=============================================================================
