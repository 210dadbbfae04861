------------------------------ MODULE MCParts -------------------------------
(***************************************************************************)
(* Seven parts that share no state, checked together: the first state says *)
(* which of them moves, the others rest in one of their initial states.    *)
(* The ancestry walk and the log reads work on two branches of different   *)
(* lengths over a common prefix, and headers x and z0 whose numbers do not *)
(* follow their parents':                                                  *)
(*                                                                         *)
(*      g0 -- a1 -- a2 -- a3 -- a4                                         *)
(*        \     \-- b2 -- b3                                               *)
(*         \-- x (number 2)  -- y3                                         *)
(*      o1: its parent is not served by anyone                             *)
(*      z0: number 0, but its parent is a3                                 *)
(***************************************************************************)
EXTENDS EvmTransition, LogRead, ConsistencyLabel, ResponseCache, UpstreamClient, Validation,
        HeadFeed, TLC

CONSTANTS g0, a1, a2, a3, a4, b2, b3, x, y3, o1, z0, u2

MCBlocks == {g0, a1, a2, a3, a4, b2, b3, x, y3, o1, z0}

MCNumber ==
    (g0 :> 0) @@ (z0 :> 0) @@ (a1 :> 1) @@ (o1 :> 1) @@ (a2 :> 2) @@ (b2 :> 2) @@ (x :> 2)
    @@ (a3 :> 3) @@ (b3 :> 3) @@ (y3 :> 3) @@ (a4 :> 4)

MCParent ==
    (g0 :> NoBlock) @@ (o1 :> NoBlock) @@ (a1 :> g0) @@ (x :> g0) @@ (a2 :> a1) @@ (b2 :> a1)
    @@ (a3 :> a2) @@ (a4 :> a3) @@ (z0 :> a3) @@ (b3 :> b2) @@ (y3 :> x)

MCAnc ==
    LET reach[n \in 0..4, b \in MCBlocks] ==
            IF n = 0 \/ MCParent[b] = NoBlock
            THEN {b} ELSE {b} \cup reach[n - 1, MCParent[b]]
    IN  [b \in MCBlocks |-> reach[4, b]]

VARIABLE part  \* the part that moves

Parts == {"walk", "logs", "label", "cache", "client", "startup", "feed"}

\* One upstream of any kind starts beside one, of any chain, that honours hashes.
OneHonours == \A m \in Methods : pins[u2][m] = "honours"

AllGood ==
    /\ identity = [u \in Upstreams |-> "same"]
    /\ pins = [u \in Upstreams |-> [m \in Methods |-> "honours"]]

PartsInit ==
    /\ part \in Parts
    /\ part = "walk" \/ (current = a1 /\ candidate = a2)
    /\ WalkInit
    /\ part = "logs" \/ (view = a1 /\ pin = a1)
    /\ LogInit
    /\ part = "label" \/ (family = "evm" /\ batch = <<>>)
    /\ LabelInit
    /\ CacheInit
    /\ ClientInit
    /\ part = "startup" \/ (chain = "evm" /\ withGenesis = TRUE /\ AllGood)
    /\ StartupInit /\ OneHonours
    /\ Init
    /\ part = "feed" \/ reliable

PartsNext ==
    /\ \/ /\ part = "walk" /\ WalkNext
          /\ UNCHANGED <<logVars, labelVars, cacheVars, clientVars, startupVars, vars>>
       \/ /\ part = "logs" /\ LogNext
          /\ UNCHANGED <<walkVars, labelVars, cacheVars, clientVars, startupVars, vars>>
       \/ /\ part = "label" /\ LabelNext
          /\ UNCHANGED <<walkVars, logVars, cacheVars, clientVars, startupVars, vars>>
       \/ /\ part = "cache" /\ CacheNext
          /\ UNCHANGED <<walkVars, logVars, labelVars, clientVars, startupVars, vars>>
       \/ /\ part = "client" /\ ClientNext
          /\ UNCHANGED <<walkVars, logVars, labelVars, cacheVars, startupVars, vars>>
       \/ /\ part = "startup" /\ StartupNext
          /\ UNCHANGED <<walkVars, logVars, labelVars, cacheVars, clientVars, vars>>
       \/ /\ part = "feed" /\ Next
          /\ UNCHANGED <<walkVars, logVars, labelVars, cacheVars, clientVars, startupVars>>
    /\ UNCHANGED part

\* The fairness of WalkSpec, ClientSpec, StartupSpec and, of HeadFeed, Spec.
PartsFairness ==
    /\ WF_walkVars(part = "walk" /\ ~AwaitsHeader /\ WalkNext)
    /\ \A c \in Callers \ Unbounded : WF_clientVars(part = "client" /\ CallStep(c))
    /\ WF_startupVars(part = "startup" /\ StartServing)
    /\ \A u \in Upstreams :
          /\ WF_startupVars(part = "startup" /\ Check(u))
          /\ \A m \in Methods : WF_startupVars(part = "startup" /\ Probe(u, m))
    /\ WF_feedVars(part = "feed" /\ PollStart)
    /\ WF_feedVars(part = "feed" /\ (PollEnd \/ PollSnapshotFails))
    /\ \A p \in Providers :
          /\ WF_feedVars(part = "feed" /\ (PollAnswer(p) \/ PollFails(p)))
          /\ WF_feedVars(part = "feed" /\ ComeBack(p))
    /\ \A p \in Subscribing :
          /\ WF_feedVars(part = "feed" /\ Tick(p))
          /\ WF_feedVars(part = "feed" /\ IdleOut(p))
          /\ WF_feedVars(part = "feed" /\ (ReadDuplicate(p) \/ ReadHead(p) \/ HeadUnavailable(p)))

PartsSpec ==
    /\ PartsInit
    /\ [][PartsNext]_<<part, walkVars, logVars, labelVars, cacheVars, clientVars, startupVars, vars>>
    /\ PartsFairness

-----------------------------------------------------------------------------
(***************************************************************************)
(* validateEVMTransition returns, within its bound on header requests and  *)
(* whatever numbers the headers carry, unless one is never answered.       *)
(***************************************************************************)
WalkEnds == part = "walk" => Terminates

(***************************************************************************)
(* The proxy starts however many upstreams fail their checks.              *)
(***************************************************************************)
StartupCompletes == part = "startup" => StartupEnds

=============================================================================
