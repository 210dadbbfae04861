----------------------------- MODULE RedisStore -----------------------------
(***************************************************************************)
(* The methods of RedisStore over the scripts of HeadStore, called in any  *)
(* order by callers that keep using the tokens they were once given.       *)
(***************************************************************************)
EXTENDS HeadStore

CONSTANTS
    MaxFence,      \* bound on leases
    MaxGeneration, \* bound on accepted heads
    MaxEpoch       \* bound on the epochs callers acknowledge

VARIABLES
    issued,  \* tokens issued so far (history)
    reply    \* the last call and whether it succeeded (history)

vars == <<storeVars, issued, reply>>

Init ==
    /\ StoreInit
    /\ issued = {}
    /\ reply = [call |-> "none", ok |-> FALSE]

Answer(call, t, ok) == reply' = [call |-> call, token |-> t, ok |-> ok]

\* acquired is whether the script found no lease.
Acquire(o) ==
    /\ fence < MaxFence
    /\ AcquireScript(o)
    /\ issued' = issued \cup {NextToken(o)}
    /\ Answer("acquire", NextToken(o), TRUE)

AcquireRefused ==
    /\ leader # NoToken
    /\ Answer("acquire", NoToken, FALSE)
    /\ UNCHANGED <<storeVars, issued>>

Renew(t) ==
    /\ Answer("renew", t, RenewScript(t))
    /\ UNCHANGED <<storeVars, issued>>

Release(t) ==
    /\ ReleaseScript(t)
    /\ Answer("release", t, TRUE)
    /\ UNCHANGED issued

\* ErrLeadershipLost and ErrReorgFence are the refusals.
Publish(t, b, epoch) ==
    /\ generation < MaxGeneration
    /\ PublishScript(t, b, epoch)
    /\ reply' = [call |-> "publish", token |-> t, epoch |-> epoch,
                 ok |-> PublishAccepted(t, epoch)]
    /\ UNCHANGED issued

BeginReorg(t) ==
    /\ BeginReorgScript(t)
    /\ Answer("begin", t, BeginReorgAccepted(t))
    /\ UNCHANGED issued

LeaseExpires ==
    /\ Expire
    /\ reply' = [call |-> "none", ok |-> FALSE]
    /\ UNCHANGED issued

Next ==
    \/ AcquireRefused \/ LeaseExpires
    \/ \E o \in Owners : Acquire(o)
    \/ \E t \in issued : Renew(t) \/ Release(t) \/ BeginReorg(t)
    \/ \E t \in issued, b \in Blocks, epoch \in 0..MaxEpoch : Publish(t, b, epoch)

Spec == Init /\ [][Next]_vars

Promise == INSTANCE StorePromise WITH holder <- leader

(***************************************************************************)
(* The Redis store keeps the promise of a head store: whatever tokens,     *)
(* also of earlier leases and of a process with the same name, its callers *)
(* come back with.                                                         *)
(***************************************************************************)
KeepsPromise == Promise!Spec
=============================================================================
