--------------------------- MODULE EvmTransition ---------------------------
(***************************************************************************)
(* validateEVMTransition, one header request at a time.                    *)
(*                                                                         *)
(* The coordinator asks whether candidate extends the accepted head, lags  *)
(* behind it, or forks from it.  Every request for a parent header can     *)
(* fail (all providers down, header pruned) or stay unanswered, and the    *)
(* call that records the divergence in Redis can fail.                     *)
(***************************************************************************)
EXTENDS BlockTree

VARIABLES
    pc,               \* "start", "parent", "climb", "collect", "report", "descend", "done"
    current,          \* the accepted head the caller read
    candidate,        \* the observed head, different from current
    candidateCursor,  \* the candidate's ancestor at the accepted height
    cursor,           \* position of the collecting and of the last walk
    step,             \* iterations of the present loop
    ancestors,        \* currentAncestors
    reported,         \* onDivergence has been called
    result,           \* "same": (false, nil), "reorg": (true, nil), "error"
    clean,            \* no header request and no divergence report failed
    requests          \* header requests so far

walkVars == <<pc, current, candidate, candidateCursor, cursor, step, ancestors,
          reported, result, clean, requests>>

inputs == <<current, candidate>>

Return(r) == pc' = "done" /\ result' = r

\* An accepted head has passed the linkage check of its publication.
WalkInit ==
    /\ current \in Blocks /\ Sound(current)
    /\ candidate \in Blocks \ {current}
    /\ pc = "start"
    /\ candidateCursor = candidate
    /\ cursor = current
    /\ step = 0
    /\ ancestors = {current}
    /\ reported = FALSE
    /\ result = "none"
    /\ clean = TRUE
    /\ requests = 0

\* Mutant of ReportThen: the divergence is never recorded.
ReportNothing(next) == pc' = next /\ UNCHANGED <<reported, result, clean>>

(***************************************************************************)
(* reportDivergence calls onDivergence at most once; an error of that call *)
(* ends the walk.                                                          *)
(***************************************************************************)
ReportThen(next) ==
    \/ /\ reported
       /\ pc' = next
       /\ UNCHANGED <<reported, result, clean>>
    \/ /\ ~reported
       /\ reported' = TRUE
       /\ \/ pc' = next /\ UNCHANGED <<result, clean>>
          \/ Return("error") /\ clean' = FALSE

(***************************************************************************)
(* EVMBlockByHash for the parent of b: no provider answers (the only       *)
(* outcome when the parent hash cannot be resolved), the header answered   *)
(* does not link to b, or it is b's parent.                                *)
(***************************************************************************)
FetchFails       == clean' = FALSE
FetchUnlinked(b) == Parent[b] \in Blocks /\ ~Linked(b) /\ UNCHANGED clean
FetchParent(b)   == Linked(b) /\ UNCHANGED clean

\* The accepted head's child, or its parent: the two headers settle it.
Adjacent ==
    /\ pc = "start"
    /\ IsChildOf(candidate, current) \/ IsChildOf(current, candidate)
    /\ Return("same")
    /\ UNCHANGED <<inputs, candidateCursor, cursor, step, ancestors, reported, clean>>

Start ==
    /\ pc = "start"
    /\ ~IsChildOf(candidate, current) /\ ~IsChildOf(current, candidate)
    /\ IF PlainFork(current, candidate)
       THEN ReportThen("parent")
       ELSE pc' = "parent" /\ UNCHANGED <<reported, result, clean>>
    /\ UNCHANGED <<inputs, candidateCursor, cursor, step, ancestors>>

VerifyCandidateParent ==
    /\ pc = "parent"
    /\ \/ Number[candidate] = 0 /\ pc' = "climb" /\ UNCHANGED <<result, clean>>
       \/ Number[candidate] > 0 /\ (FetchFails \/ FetchUnlinked(candidate)) /\ Return("error")
       \/ Number[candidate] > 0 /\ FetchParent(candidate) /\ pc' = "climb" /\ UNCHANGED result
    /\ UNCHANGED <<inputs, candidateCursor, cursor, step, ancestors, reported>>

\* Follow the candidate's parents down to the accepted height.
Climb ==
    /\ pc = "climb"
    /\ Number[candidateCursor] > Number[current]
    /\ \/ /\ step >= Depth
          /\ Return("error")
          /\ UNCHANGED <<candidateCursor, step, clean>>
       \/ /\ step < Depth
          /\ FetchFails \/ FetchUnlinked(candidateCursor)
          /\ Return("error")
          /\ UNCHANGED <<candidateCursor, step>>
       \/ /\ step < Depth
          /\ FetchParent(candidateCursor)
          /\ candidateCursor' = Parent[candidateCursor]
          /\ step' = step + 1
          /\ UNCHANGED <<pc, result>>
    /\ UNCHANGED <<inputs, cursor, ancestors, reported>>

\* At or below the accepted height: an extension ends here; another block of
\* the accepted height is a divergence.
Level ==
    /\ pc = "climb"
    /\ Number[candidateCursor] <= Number[current]
    /\ \/ candidateCursor = current /\ Return("same") /\ UNCHANGED <<reported, clean>>
       \/ /\ candidateCursor # current
          /\ Number[candidateCursor] = Number[current]
          /\ ReportThen("collect")
       \/ /\ Number[candidateCursor] < Number[current]
          /\ pc' = "collect"
          /\ UNCHANGED <<reported, result, clean>>
    /\ step' = 0
    /\ UNCHANGED <<inputs, candidateCursor, cursor, ancestors>>

\* Mutant of Collect: the cursor stays where it is.
CollectInPlace ==
    /\ pc = "collect"
    /\ step < Depth
    /\ Number[cursor] > 0
    /\ FetchParent(cursor)
    /\ ancestors' = ancestors \cup {Parent[cursor]}
    /\ UNCHANGED <<inputs, pc, candidateCursor, cursor, step, reported, result>>

\* Collect up to Depth ancestors of the accepted head.  A request that fails
\* ends the collection, not the function.
Collect ==
    /\ pc = "collect"
    /\ step < Depth
    /\ Number[cursor] > 0
    /\ \/ /\ FetchFails
          /\ pc' = "report"
          /\ UNCHANGED <<cursor, step, ancestors, result>>
       \/ /\ FetchUnlinked(cursor)
          /\ Return("error")
          /\ UNCHANGED <<cursor, step, ancestors>>
       \/ /\ FetchParent(cursor)
          /\ cursor' = Parent[cursor]
          /\ ancestors' = ancestors \cup {Parent[cursor]}
          /\ step' = step + 1
          /\ IF Parent[cursor] = candidate
             THEN Return("same")
             ELSE UNCHANGED <<pc, result>>
    /\ UNCHANGED <<inputs, candidateCursor, reported>>

CollectEnds ==
    /\ pc = "collect"
    /\ step >= Depth \/ Number[cursor] = 0
    /\ pc' = "report"
    /\ UNCHANGED <<inputs, candidateCursor, cursor, step, ancestors, reported, result, clean>>

Report ==
    /\ pc = "report"
    /\ ReportThen("descend")
    /\ cursor' = candidateCursor
    /\ step' = 0
    /\ UNCHANGED <<inputs, candidateCursor, ancestors>>

\* Look for the shared ancestor from the candidate's side.
Descend ==
    /\ pc = "descend"
    /\ \/ /\ cursor \in ancestors
          /\ Return("reorg")
          /\ UNCHANGED <<cursor, step, clean>>
       \/ /\ cursor \notin ancestors
          /\ Number[cursor] = 0 \/ step = Depth
          /\ Return("error")
          /\ UNCHANGED <<cursor, step, clean>>
       \/ /\ cursor \notin ancestors
          /\ Number[cursor] > 0 /\ step < Depth
          /\ FetchFails \/ FetchUnlinked(cursor)
          /\ Return("error")
          /\ UNCHANGED <<cursor, step>>
       \/ /\ cursor \notin ancestors
          /\ Number[cursor] > 0 /\ step < Depth
          /\ FetchParent(cursor)
          /\ cursor' = Parent[cursor]
          /\ step' = step + 1
          /\ UNCHANGED <<pc, result>>
    /\ UNCHANGED <<inputs, candidateCursor, ancestors, reported>>

\* The function has returned.
Done == pc = "done" /\ UNCHANGED walkVars

WalkStep ==
    \/ Adjacent \/ Start \/ VerifyCandidateParent \/ Climb \/ Level
    \/ Collect \/ CollectEnds \/ Report \/ Descend \/ Done

\* The next step is the answer to an EVMBlockByHash.
AwaitsHeader ==
    \/ pc = "parent" /\ Number[candidate] > 0
    \/ pc = "climb" /\ Number[candidateCursor] > Number[current] /\ step < Depth
    \/ pc = "collect" /\ Number[cursor] > 0 /\ step < Depth
    \/ pc = "descend" /\ cursor \notin ancestors /\ Number[cursor] > 0 /\ step < Depth

\* One request for the candidate's parent and one per step of each loop.
RequestsAreBounded == requests <= 3 * Depth + 1

\* Requests are counted until they are too many.
WalkNext ==
    /\ WalkStep
    /\ requests' = IF AwaitsHeader /\ RequestsAreBounded THEN requests + 1 ELSE requests

\* The walk is a sequential function that runs until it returns.  Its header
\* requests may stay unanswered: they are made on runLeader's context, which
\* has no deadline, over an HTTP client that does not bound the reading of a
\* body.  The report to Redis is bounded by that client's timeouts.
WalkSpec == WalkInit /\ [][WalkNext]_walkVars /\ WF_walkVars(~AwaitsHeader /\ WalkNext)

-----------------------------------------------------------------------------
(***************************************************************************)
(* The answer of validateEVMTransition is one the caller may act on:       *)
(* "same" only for a proved extension or a proved ancestor and without a   *)
(* reported divergence, "reorg" only for two branches with a shared        *)
(* ancestor and after the divergence was reported, an error only if a      *)
(* request failed or the branches do not meet within reorg_depth, and      *)
(* never silently for a block that contradicts the accepted height.        *)
(***************************************************************************)
AnswerMeetsContract ==
    pc = "done" =>
        [result |-> result, reported |-> reported]
            \in TransitionOutcomes(current, candidate, clean)

(***************************************************************************)
(* The three loops of the walk end whatever numbers the headers carry and  *)
(* whichever requests fail: it returns, after no more header requests than *)
(* reorg_depth allows for, or waits for one of them for ever.              *)
(***************************************************************************)
Terminates == []RequestsAreBounded /\ (<>(pc = "done") \/ <>[]AwaitsHeader)
=============================================================================
