---------------------------- MODULE StorePromise ----------------------------
(***************************************************************************)
(* What a head store promises its callers, whichever way it is built: a    *)
(* token is never issued twice and at most one is valid, a call that does  *)
(* not come from its holder changes nothing, a publish succeeds only if it *)
(* acknowledges the current reorg epoch, and generations only go up.       *)
(***************************************************************************)
EXTENDS Naturals

CONSTANTS NoToken, NoHead

VARIABLES
    holder,  \* the valid token, or NoToken
    issued,  \* tokens issued so far
    head,    \* the accepted head, or NoHead
    reply    \* the last call and whether it succeeded

vars == <<holder, issued, head, reply>>

EpochOf(h) == IF h = NoHead THEN 0 ELSE h.epoch
GenerationOf(h) == IF h = NoHead THEN 0 ELSE h.generation

Init ==
    /\ holder = NoToken
    /\ issued = {}
    /\ head = NoHead
    /\ ~reply.ok

\* A call that is turned down has no effect, except that a lease may end.
Refused == ~reply'.ok /\ UNCHANGED <<issued, head>> /\ holder' \in {holder, NoToken}

Granted ==
    /\ holder = NoToken
    /\ reply'.ok /\ reply'.call = "acquire"
    /\ holder' = reply'.token /\ holder' \notin issued
    /\ issued' = issued \cup {holder'}
    /\ UNCHANGED head

Renewed ==
    /\ reply'.ok /\ reply'.call = "renew"
    /\ reply'.token = holder
    /\ UNCHANGED <<holder, issued, head>>

\* Releasing a lease one does not hold is not an error.
Released ==
    /\ reply'.ok /\ reply'.call = "release"
    /\ holder' = IF reply'.token = holder THEN NoToken ELSE holder
    /\ UNCHANGED <<issued, head>>

Published ==
    /\ reply'.ok /\ reply'.call = "publish"
    /\ reply'.token = holder /\ reply'.epoch = EpochOf(head)
    /\ head' # NoHead /\ ~head'.pending /\ head'.epoch = EpochOf(head)
    /\ IF head # NoHead /\ head'.block = head.block
       THEN head'.generation = head.generation
       ELSE head'.generation > GenerationOf(head)
    /\ UNCHANGED <<holder, issued>>

Fenced ==
    /\ reply'.ok /\ reply'.call = "begin"
    /\ reply'.token = holder
    /\ head # NoHead
    /\ head' = [head EXCEPT !.epoch = IF head.pending THEN @ ELSE @ + 1, !.pending = TRUE]
    /\ UNCHANGED <<holder, issued>>

Next == Refused \/ Granted \/ Renewed \/ Released \/ Published \/ Fenced

Spec == Init /\ [][Next]_vars
=============================================================================
