------------------------------- MODULE Proxy --------------------------------
(***************************************************************************)
(* The proxy of one EVM chain as run starts it: the coordinators of all    *)
(* replicas over one Redis, and what a gateway serves from the same store, *)
(* here a batch of reads, requests for one receipt and a WebSocket         *)
(* session.  ReadFence, ReceiptCache and WsSession let the accepted head   *)
(* do whatever AcceptedHead allows.  Here it does what the coordinators    *)
(* make of it, late writes of abandoned attempts included, and nothing     *)
(* asks a step of theirs to keep the promise.                              *)
(***************************************************************************)
EXTENDS LateWrites, Sequences

CONSTANTS
    Items, Kind, Height, Hash,                               \* the batch
    Requests, Inclusion,                                     \* the receipt
    Subs, ReadMax, QueueSize, SubLimit, SeenLimit,           \* the session
    HistoryLimit, MaxRequests,
    MaxGeneration                                            \* bound on accepted heads

VARIABLES
    fresh, phase, snapshot, pinFresh, storeDown, replies, verdict, final, reorgSince,
    pin, stage, cache, load, joined, answer, gone,
    log, open, reader, requests, checkpoint, subs, pump, cursor, batch, path, last,
    seen, history, notifying, queue, received, since, began

Batch == INSTANCE ReadFenceProofs
Receipts == INSTANCE ReceiptProofs
Session == INSTANCE WsProofs

readVars == <<fresh, phase, snapshot, pinFresh, storeDown, replies, verdict, final, reorgSince>>
receiptVars == <<pin, stage, cache, load, joined, answer, gone>>
sessionVars == <<log, open, reader, requests, checkpoint, subs, pump, cursor, batch, path,
                 last, seen, history, notifying, queue, received, since, began>>
proxyVars == <<lateVars, readVars, receiptVars, sessionVars>>

ProxyInit == LateInit /\ Batch!Init /\ Receipts!Init /\ Session!Init

\* A coordinator writes another head, or one that nobody can tell from the last
\* but for its time of observation, or nothing.
CoordinatorStep ==
    /\ LateNext
    /\ \/ /\ head' # head
          /\ head'.epoch <= MaxEpoch /\ head'.generation <= MaxGeneration
          /\ Batch!HeadSeen /\ Receipts!HeadSeen /\ Session!HeadSeen
       \/ /\ head' = head
          /\ Batch!HeadRefreshed \/ UNCHANGED readVars
          /\ UNCHANGED <<receiptVars, sessionVars>>

\* Handlers only read the store, and share nothing else but the cache.
GatewayStep ==
    /\ UNCHANGED <<lateVars, log>>
    /\ \/ Batch!Serve /\ UNCHANGED <<receiptVars, sessionVars>>
       \/ Receipts!Serve /\ UNCHANGED <<readVars, sessionVars>>
       \/ Session!Serve /\ UNCHANGED <<readVars, receiptVars>>

ProxyNext == CoordinatorStep \/ GatewayStep

ProxySpec == ProxyInit /\ [][ProxyNext]_proxyVars

-----------------------------------------------------------------------------
(***************************************************************************)
(* What XREAD finds in Redis is what WsSession takes it to find: the       *)
(* newest StreamMax of all heads ever published, each once, at the         *)
(* generation that the head carried, across reorgs, changes of leader and  *)
(* late writes.                                                            *)
(***************************************************************************)
StreamHoldsTheLog ==
    {<<e.generation, e.block>> : e \in events} =
        {<<g, log[g]>> : g \in {h \in 1..Len(log) : Session!Retained(h)}}
=============================================================================
