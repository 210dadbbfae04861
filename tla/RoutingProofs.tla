--------------------------- MODULE RoutingProofs ---------------------------
(***************************************************************************)
(* Proofs about routing and the availability cache, for any number of      *)
(* providers, reads and header checks, whatever fails and expires.         *)
(***************************************************************************)
EXTENDS Routing, FiniteSetTheorems, TLAPS

\* Nothing the cache or a shared check says of a forged header is "yes".
NoForgedYes ==
    \A p \in Providers :
        record[<<p, "forged">>] # "yes" /\ flight[<<p, "forged">>] # "yes"

RequestFits(r) == result[r] = "available" => target[r] # "forged"

IInv ==
    /\ TypeOK
    /\ NoForgedYes
    /\ \A r \in Requests : RequestFits(r)

\* The parts of TypeOK that belong to the requests, and the others.
RequestTypes ==
    /\ pc \in [Requests -> {"round", "scan", "probe", "call", "done"}]
    /\ cands \in [Requests -> SUBSET Providers] /\ todo \in [Requests -> SUBSET Providers]
    /\ at \in [Requests -> Providers]
    /\ eligible \in [Requests -> BOOLEAN]
    /\ attempted \in [Requests -> SUBSET Providers]
    /\ result \in [Requests -> {"none", "state", "null", "error", "exhausted", "deadline",
                                "available", "missing"}]

MapTypes ==
    /\ record \in [Keys -> {"none", "yes", "no", "expired"}]
    /\ flight \in [Keys -> {"none", "yes", "no"} \cup Targets]
    /\ Cardinality(Recorded) <= MaxRecords

ProviderTypes ==
    /\ has \in [Providers -> BOOLEAN] /\ up \in [Providers -> BOOLEAN]
    /\ unsupported \subseteq Providers
    /\ faults \in 0..MaxFaults

LEMMA TypesSplit == TypeOK <=> target \in Mixes /\ RequestTypes /\ MapTypes /\ ProviderTypes
BY DEF TypeOK, RequestTypes, MapTypes, ProviderTypes

LEMMA Reassembled ==
    ASSUME target' \in Mixes, RequestTypes', MapTypes', ProviderTypes', NoForgedYes',
           \A r \in Requests : RequestFits(r)'
    PROVE  IInv'
BY DEF IInv, TypeOK, RequestTypes, MapTypes, ProviderTypes

LEMMA KeyFacts ==
    ASSUME NEW k \in Keys
    PROVE  k[1] \in Providers /\ k[2] \in Targets /\ k = Key(k[1], k[2])
BY DEF Keys, Key

-----------------------------------------------------------------------------
(* Requests *)

LEMMA FaultTyped ==
    ASSUME faults \in 0..MaxFaults, Fault \/ UNCHANGED faults
    PROVE  faults' \in 0..MaxFaults
BY RoutingAssumption DEF Fault

LEMMA RequestsIdle ==
    ASSUME IInv, UNCHANGED <<target, requestVars>>, unsupported \subseteq unsupported'
    PROVE  RequestTypes' /\ target' \in Mixes /\ \A r \in Requests : RequestFits(r)'
<1>1. RequestTypes' /\ target' \in Mixes
  BY DEF IInv, TypeOK, RequestTypes, requestVars
<1>2. \A r \in Requests : RequestFits(r)'
  BY DEF IInv, RequestFits, requestVars
<1> QED
  BY <1>1, <1>2

\* A step of some of the requests.
LEMMA RequestsGoOn ==
    ASSUME IInv, UNCHANGED target, unsupported \subseteq unsupported', RequestTypes',
           NEW rs \in SUBSET Requests,
           \A r \in rs : RequestFits(r)',
           \A r \in Requests \ rs : /\ pc'[r] = pc[r] /\ result'[r] = result[r]
                                    /\ attempted'[r] = attempted[r] /\ cands'[r] = cands[r]
    PROVE  RequestTypes' /\ target' \in Mixes /\ \A r \in Requests : RequestFits(r)'
<1>1. target' \in Mixes
  BY DEF IInv, TypeOK
<1>2. ASSUME NEW r \in Requests PROVE RequestFits(r)'
  <2>1. CASE r \in rs
    BY <2>1
  <2>2. CASE r \notin rs
    <3>1. RequestFits(r)
      BY DEF IInv
    <3> QED
      BY <2>2, <3>1 DEF RequestFits
  <2> QED
    BY <2>1, <2>2
<1> QED
  BY <1>1, <1>2

LEMMA AvailableFits ==
    ASSUME IInv, UNCHANGED <<target, unsupported>>, NEW rs \in SUBSET Requests,
           Available(rs), at' \in [Requests -> Providers],
           todo' \in [Requests -> SUBSET Providers],
           \A r \in rs : target[r] # "forged" /\ pc[r] # "done"
    PROVE  RequestTypes' /\ target' \in Mixes /\ \A r \in Requests : RequestFits(r)'
<1>1. /\ pc' = [r \in Requests |-> IF r \in rs \ Checks THEN "call"
                                   ELSE IF r \in rs THEN "done" ELSE pc[r]]
      /\ result' = [r \in Requests |-> IF r \in rs \cap Checks THEN "available" ELSE result[r]]
      /\ eligible' = [r \in Requests |-> eligible[r] \/ r \in rs \ Checks]
      /\ attempted' = [r \in Requests |-> IF r \in rs \ Checks THEN attempted[r] \cup {at'[r]}
                                          ELSE attempted[r]]
      /\ cands' = cands
  BY DEF Available
<1>2. RequestTypes
  BY TypesSplit DEF IInv
<1>3. pc' \in [Requests -> {"round", "scan", "probe", "call", "done"}]
  BY <1>1, <1>2 DEF RequestTypes
<1>4. attempted' \in [Requests -> SUBSET Providers]
  BY <1>1, <1>2 DEF RequestTypes
<1>5. /\ result' \in [Requests -> {"none", "state", "null", "error", "exhausted", "deadline",
                                   "available", "missing"}]
      /\ eligible' \in [Requests -> BOOLEAN] /\ cands' \in [Requests -> SUBSET Providers]
  BY <1>1, <1>2 DEF RequestTypes
<1>6. RequestTypes'
  BY <1>3, <1>4, <1>5 DEF RequestTypes
<1>7. \A r \in rs : RequestFits(r)'
  BY <1>1 DEF RequestFits
<1>8. \A r \in Requests \ rs : /\ pc'[r] = pc[r] /\ result'[r] = result[r]
                               /\ attempted'[r] = attempted[r] /\ cands'[r] = cands[r]
  BY <1>1, <1>2 DEF RequestTypes
<1> QED
  BY <1>6, <1>7, <1>8, RequestsGoOn

LEMMA NotAvailableFits ==
    ASSUME IInv, UNCHANGED <<target, unsupported>>, NEW rs \in SUBSET Requests,
           NotAvailable(rs), at' \in [Requests -> Providers],
           todo' \in [Requests -> SUBSET Providers],
           \A r \in rs : pc[r] # "done"
    PROVE  RequestTypes' /\ target' \in Mixes /\ \A r \in Requests : RequestFits(r)'
<1>1. /\ pc' = [r \in Requests |-> IF r \in rs \cap Checks THEN "done"
                                   ELSE IF r \in rs THEN "scan" ELSE pc[r]]
      /\ result' = [r \in Requests |-> IF r \in rs \cap Checks THEN "missing" ELSE result[r]]
      /\ UNCHANGED <<cands, eligible, attempted>>
  BY DEF NotAvailable
<1>2. RequestTypes
  BY TypesSplit DEF IInv
<1>3. RequestTypes'
  BY <1>1, <1>2 DEF RequestTypes
<1>4. \A r \in rs : RequestFits(r)
  BY DEF IInv
<1>5. \A r \in rs : RequestFits(r)'
  BY <1>1, <1>4 DEF RequestFits
<1>6. \A r \in Requests \ rs : /\ pc'[r] = pc[r] /\ result'[r] = result[r]
                               /\ attempted'[r] = attempted[r] /\ cands'[r] = cands[r]
  BY <1>1, <1>2 DEF RequestTypes
<1> QED
  BY <1>3, <1>5, <1>6, RequestsGoOn

LEMMA FinishFits ==
    ASSUME IInv, UNCHANGED target, unsupported \subseteq unsupported', NEW r \in Requests,
           NEW how \in {"state", "error", "exhausted", "deadline"}, Finish(r, how)
    PROVE  RequestTypes' /\ target' \in Mixes /\ \A s \in Requests : RequestFits(s)'
<1>1. /\ pc' = [pc EXCEPT ![r] = "done"] /\ result' = [result EXCEPT ![r] = how]
      /\ UNCHANGED <<cands, todo, at, eligible, attempted>>
  BY DEF Finish
<1>2. RequestTypes
  BY TypesSplit DEF IInv
<1>3. RequestTypes' /\ result'[r] = how /\ pc'[r] = "done"
  BY <1>1, <1>2 DEF RequestTypes
<1>4. RequestFits(r)'
  BY <1>1, <1>3 DEF RequestFits
<1>5. \A s \in Requests \ {r} : pc'[s] = pc[s] /\ result'[s] = result[s]
  BY <1>1, <1>2 DEF RequestTypes
<1>6. {r} \in SUBSET Requests /\ \A s \in {r} : RequestFits(s)'
  BY <1>4
<1>7. \A s \in Requests \ {r} : /\ pc'[s] = pc[s] /\ result'[s] = result[s]
                                /\ attempted'[s] = attempted[s] /\ cands'[s] = cands[s]
  BY <1>1, <1>5
<1> QED
  BY <1>3, <1>6, <1>7, RequestsGoOn

LEMMA GoesFits ==
    ASSUME IInv, UNCHANGED target, unsupported \subseteq unsupported', NEW r \in Requests,
           pc[r] # "done", NEW where \in {"round", "scan"}, Goes(r, where)
    PROVE  RequestTypes' /\ target' \in Mixes /\ \A s \in Requests : RequestFits(s)'
<1>1. /\ pc' = [pc EXCEPT ![r] = where]
      /\ UNCHANGED <<cands, todo, at, eligible, attempted, result>>
  BY DEF Goes
<1>2. RequestTypes
  BY TypesSplit DEF IInv
<1>3. RequestTypes' /\ \A s \in Requests \ {r} : pc'[s] = pc[s]
  BY <1>1, <1>2 DEF RequestTypes
<1>4. RequestFits(r)
  BY DEF IInv
<1>5. RequestFits(r)'
  BY <1>1, <1>4 DEF RequestFits
<1>6. {r} \in SUBSET Requests /\ \A s \in {r} : RequestFits(s)'
  BY <1>5
<1>7. \A s \in Requests \ {r} : /\ pc'[s] = pc[s] /\ result'[s] = result[s]
                                /\ attempted'[s] = attempted[s] /\ cands'[s] = cands[s]
  BY <1>1, <1>3
<1> QED
  BY <1>3, <1>6, <1>7, RequestsGoOn

-----------------------------------------------------------------------------
(* The availability map *)

LEMMA MapIdle ==
    ASSUME IInv, UNCHANGED <<record, flight>>
    PROVE  MapTypes' /\ NoForgedYes'
BY DEF IInv, TypeOK, MapTypes, NoForgedYes, Recorded

LEMMA KeysFinite == IsFiniteSet(Keys)
<1>1. IsFiniteSet(Targets)
  <2>1. IsFiniteSet({"hash"}) /\ IsFiniteSet({"header"}) /\ IsFiniteSet({"forged"})
    BY FS_Singleton
  <2>2. Targets = ({"hash"} \cup {"header"}) \cup {"forged"}
    BY DEF Targets
  <2> QED
    BY <2>1, <2>2, FS_Union
<1> QED
  BY <1>1, RoutingAssumption, FS_Product DEF Keys

\* A step that adds no record and sets no record of a forged header to "yes".
LEMMA RecordsShrink ==
    ASSUME IInv, record' \in [Keys -> {"none", "yes", "no", "expired"}],
           \A k \in Keys : record'[k] # "none" => record[k] # "none",
           \A k \in Keys : record'[k] = "yes" => record[k] = "yes",
           UNCHANGED flight
    PROVE  MapTypes' /\ NoForgedYes'
<1>1. Recorded' \subseteq Recorded /\ Recorded \subseteq Keys
  BY DEF Recorded
<1>2. IsFiniteSet(Recorded)
  BY <1>1, KeysFinite, FS_Subset
<1>3. Cardinality(Recorded') <= Cardinality(Recorded)
  BY <1>1, <1>2, FS_Subset
<1>4. Cardinality(Recorded') \in Nat /\ Cardinality(Recorded) \in Nat
  BY <1>1, <1>2, FS_Subset, FS_CardinalityType
<1>5. MapTypes'
  BY <1>3, <1>4, RoutingAssumption DEF IInv, TypeOK, MapTypes
<1>6. \A p \in Providers : <<p, "forged">> \in Keys
  BY DEF Keys, Targets
<1> QED
  BY <1>5, <1>6 DEF IInv, NoForgedYes

\* A step that changes the shared checks alone.
LEMMA FlightsChange ==
    ASSUME IInv, UNCHANGED record, flight' \in [Keys -> {"none", "yes", "no"} \cup Targets],
           \A p \in Providers : flight'[<<p, "forged">>] # "yes"
    PROVE  MapTypes' /\ NoForgedYes'
BY DEF IInv, TypeOK, MapTypes, NoForgedYes, Recorded

-----------------------------------------------------------------------------
(* The steps *)

\* A request that waits for a check has not ended.
LEMMA WaitersFacts ==
    ASSUME IInv, NEW k \in Keys
    PROVE  /\ Waiters(k) \in SUBSET Requests
           /\ \A r \in Waiters(k) : /\ pc[r] # "done"
                                    /\ k = <<at[r], target[r]>>
<1>1. \A r \in Requests : RequestFits(r)
  BY DEF IInv
<1> QED
  BY <1>1 DEF Waiters, Key, RequestFits

LEMMA ProviderSteps ==
    ASSUME IInv, UNCHANGED target, NEW p \in Providers,
           CatchUp(p) \/ LoseBlock(p) \/ GoDown(p) \/ ComeBack(p)
    PROVE  IInv'
<1>1. UNCHANGED <<unsupported, record, flight, requestVars>> /\ (Fault \/ UNCHANGED faults)
  BY DEF CatchUp, LoseBlock, GoDown, ComeBack
<1>2. ProviderTypes
  BY TypesSplit DEF IInv
<1>3. faults' \in 0..MaxFaults
  BY <1>1, <1>2, FaultTyped DEF ProviderTypes
<1>4. ProviderTypes'
  BY <1>1, <1>2, <1>3 DEF ProviderTypes, CatchUp, LoseBlock, GoDown, ComeBack
<1> QED
  BY <1>1, <1>4, RequestsIdle, MapIdle, Reassembled

LEMMA ExpireInv ==
    ASSUME IInv, UNCHANGED target, NEW k \in Keys, Expire(k)
    PROVE  IInv'
<1>1. /\ record[k] \in {"yes", "no"} /\ record' = [record EXCEPT ![k] = "expired"]
      /\ UNCHANGED <<providerVars, faults, flight, requestVars>>
  BY DEF Expire
<1>2. ProviderTypes' /\ unsupported' = unsupported
  BY <1>1, TypesSplit DEF IInv, ProviderTypes, providerVars
<1>3. MapTypes' /\ NoForgedYes'
  <2>1. record \in [Keys -> {"none", "yes", "no", "expired"}]
    BY DEF IInv, TypeOK
  <2> QED
    BY <1>1, <2>1, RecordsShrink
<1> QED
  BY <1>1, <1>2, <1>3, RequestsIdle, Reassembled

\* The header a provider serves is not the forged one.
LEMMA ProbeAnswerInv ==
    ASSUME IInv, UNCHANGED target, NEW p \in Providers, NEW t \in Targets, ProbeAnswer(p, t)
    PROVE  IInv'
<1> DEFINE k == <<p, t>>
<1>1. /\ flight' = [flight EXCEPT ![k] = IF Holds(p, t) THEN "yes" ELSE "no"]
      /\ UNCHANGED <<providerVars, faults, record, requestVars>>
  BY DEF ProbeAnswer, Key
<1>2. ProviderTypes' /\ unsupported' = unsupported
  BY <1>1, TypesSplit DEF IInv, ProviderTypes, providerVars
<1>3. MapTypes' /\ NoForgedYes'
  <2>1. flight \in [Keys -> {"none", "yes", "no"} \cup Targets] /\ k \in Keys
    BY DEF IInv, TypeOK, Keys
  <2>2. flight' \in [Keys -> {"none", "yes", "no"} \cup Targets]
    BY <1>1, <2>1
  <2>3. ASSUME NEW q \in Providers PROVE flight'[<<q, "forged">>] # "yes"
    <3>1. <<q, "forged">> \in Keys /\ flight[<<q, "forged">>] # "yes"
      BY DEF IInv, NoForgedYes, Keys, Targets
    <3>2. CASE k = <<q, "forged">>
      BY <1>1, <2>1, <3>2 DEF Holds
    <3>3. CASE k # <<q, "forged">>
      BY <1>1, <2>1, <3>1, <3>3
    <3> QED
      BY <3>2, <3>3
  <2> QED
    BY <1>1, <2>2, <2>3, FlightsChange
<1> QED
  BY <1>1, <1>2, <1>3, RequestsIdle, Reassembled

LEMMA ProbeFailsInv ==
    ASSUME IInv, UNCHANGED target, NEW p \in Providers, NEW t \in Targets, ProbeFails(p, t)
    PROVE  IInv'
<1> DEFINE k == <<p, t>>
<1>1. /\ flight' = [flight EXCEPT ![k] = "none"] /\ NotAvailable(Waiters(k))
      /\ Fault \/ UNCHANGED faults
      /\ UNCHANGED <<has, up, unsupported, record, todo, at>>
  BY DEF ProbeFails, Key, providerVars
<1>2. ProviderTypes /\ RequestTypes /\ k \in Keys
  BY TypesSplit DEF IInv, Keys
<1>3. ProviderTypes'
  BY <1>1, <1>2, FaultTyped DEF ProviderTypes
<1>4. MapTypes' /\ NoForgedYes'
  <2>1. flight \in [Keys -> {"none", "yes", "no"} \cup Targets]
    BY DEF IInv, TypeOK
  <2>2. flight' \in [Keys -> {"none", "yes", "no"} \cup Targets]
    BY <1>1, <2>1
  <2>3. \A q \in Providers : <<q, "forged">> \in Keys /\ flight[<<q, "forged">>] # "yes"
    BY DEF IInv, NoForgedYes, Keys, Targets
  <2>4. \A q \in Providers : flight'[<<q, "forged">>] # "yes"
    BY <1>1, <2>1, <2>3
  <2> QED
    BY <1>1, <2>2, <2>4, FlightsChange
<1>5. RequestTypes' /\ target' \in Mixes /\ \A r \in Requests : RequestFits(r)'
  <2>1. at' \in [Requests -> Providers] /\ todo' \in [Requests -> SUBSET Providers]
    BY <1>1, <1>2 DEF RequestTypes
  <2> HIDE DEF k
  <2> QED
    BY <1>1, <1>2, <2>1, WaitersFacts, NotAvailableFits
<1> QED
  BY <1>3, <1>4, <1>5, Reassembled

LEMMA StopsWaitingInv ==
    ASSUME IInv, UNCHANGED target, NEW r \in Requests, StopsWaiting(r)
    PROVE  IInv'
<1>1. /\ pc[r] = "probe" /\ NotAvailable({r}) /\ Fault
      /\ UNCHANGED <<has, up, unsupported, record, flight, todo, at>>
  BY DEF StopsWaiting, providerVars
<1>2. ProviderTypes /\ RequestTypes
  BY TypesSplit DEF IInv
<1>3. ProviderTypes'
  BY <1>1, <1>2, FaultTyped DEF ProviderTypes
<1>4. {r} \in SUBSET Requests /\ \A s \in {r} : pc[s] # "done"
  BY <1>1
<1>5. at' \in [Requests -> Providers] /\ todo' \in [Requests -> SUBSET Providers]
  BY <1>1, <1>2 DEF RequestTypes
<1>6. RequestTypes' /\ target' \in Mixes /\ \A s \in Requests : RequestFits(s)'
  BY <1>1, <1>4, <1>5, NotAvailableFits
<1> QED
  BY <1>1, <1>3, <1>6, MapIdle, Reassembled

\* The map never outgrows its bound, and "yes" enters it only from a check.
LEMMA ProbeStoreInv ==
    ASSUME IInv, UNCHANGED target, NEW k \in Keys, ProbeStore(k)
    PROVE  IInv'
<1>1. PICK survivors \in SUBSET Recorded :
        /\ IF Cardinality(Recorded) < MaxRecords
           THEN survivors = Recorded
           ELSE survivors \subseteq Live /\ Kept(survivors)
        /\ record' = [j \in Keys |-> IF j = k THEN flight[k]
                                     ELSE IF j \in survivors THEN record[j] ELSE "none"]
  BY DEF ProbeStore
<1>2. /\ flight[k] \in {"yes", "no"} /\ flight' = [flight EXCEPT ![k] = "none"]
      /\ UNCHANGED <<has, up, unsupported, faults, todo, at>>
      /\ \/ flight[k] = "yes" /\ Available(Waiters(k))
         \/ flight[k] = "no" /\ NotAvailable(Waiters(k))
  BY DEF ProbeStore, providerVars
<1>3. ProviderTypes /\ RequestTypes /\ MapTypes
  BY TypesSplit DEF IInv
<1>4. ProviderTypes'
  BY <1>2, <1>3 DEF ProviderTypes
<1>5. record' \in [Keys -> {"none", "yes", "no", "expired"}]
  BY <1>1, <1>2, <1>3 DEF MapTypes, Recorded
<1>6. flight' \in [Keys -> {"none", "yes", "no"} \cup Targets]
  BY <1>2, <1>3 DEF MapTypes
<1>7. Cardinality(Recorded') <= MaxRecords
  <2>1. Recorded' \subseteq survivors \cup {k} /\ survivors \subseteq Keys /\ Live \subseteq Keys
        /\ Recorded \subseteq Keys
    BY <1>1 DEF Recorded, Live
  <2>2. IsFiniteSet(survivors) /\ IsFiniteSet(Live) /\ IsFiniteSet(Recorded)
    BY <2>1, KeysFinite, FS_Subset
  <2>3. /\ Cardinality(survivors) \in Nat /\ Cardinality(Live) \in Nat
        /\ Cardinality(Recorded) \in Nat
    BY <2>2, FS_CardinalityType
  <2>4. Cardinality(survivors) <= MaxRecords - 1
    BY <1>1, <2>3, RoutingAssumption DEF Kept
  <2>5. /\ IsFiniteSet(survivors \cup {k})
        /\ Cardinality(survivors \cup {k}) \in {Cardinality(survivors), Cardinality(survivors) + 1}
    BY <2>2, FS_AddElement
  <2>6. Cardinality(Recorded') <= Cardinality(survivors \cup {k}) /\ IsFiniteSet(Recorded')
    BY <2>1, <2>5, FS_Subset
  <2>7. Cardinality(Recorded') \in Nat
    BY <2>6, FS_CardinalityType
  <2> QED
    BY <2>3, <2>4, <2>5, <2>6, <2>7, RoutingAssumption
<1>8. ASSUME NEW q \in Providers
      PROVE  record'[<<q, "forged">>] # "yes" /\ flight'[<<q, "forged">>] # "yes"
  <2>1. /\ <<q, "forged">> \in Keys /\ flight[<<q, "forged">>] # "yes"
        /\ record[<<q, "forged">>] # "yes"
    BY DEF IInv, NoForgedYes, Keys, Targets
  <2>2. flight'[<<q, "forged">>] # "yes"
    BY <1>2, <1>3, <2>1 DEF MapTypes
  <2>3. record'[<<q, "forged">>] # "yes"
    BY <1>1, <2>1
  <2> QED
    BY <2>2, <2>3
<1>9. RequestTypes' /\ target' \in Mixes /\ \A r \in Requests : RequestFits(r)'
  <2>1. at' \in [Requests -> Providers] /\ todo' \in [Requests -> SUBSET Providers]
    BY <1>2, <1>3 DEF RequestTypes
  <2>2. CASE flight[k] = "yes" /\ Available(Waiters(k))
    <3>1. \A r \in Waiters(k) : target[r] # "forged"
      <4> SUFFICES ASSUME NEW r \in Waiters(k), target[r] = "forged" PROVE FALSE
        OBVIOUS
      <4>1. k = <<at[r], "forged">> /\ at[r] \in Providers
        BY <1>3, WaitersFacts DEF RequestTypes
      <4> QED
        BY <2>2, <4>1 DEF IInv, NoForgedYes
    <3> QED
      BY <1>2, <2>1, <2>2, <3>1, WaitersFacts, AvailableFits
  <2>3. CASE NotAvailable(Waiters(k))
    BY <1>2, <2>1, <2>3, WaitersFacts, NotAvailableFits
  <2> QED
    BY <1>2, <2>2, <2>3
<1>10. MapTypes' /\ NoForgedYes'
  BY <1>5, <1>6, <1>7, <1>8 DEF MapTypes, NoForgedYes
<1> QED
  BY <1>4, <1>9, <1>10, Reassembled

LEMMA RoundInv ==
    ASSUME IInv, UNCHANGED target, NEW r \in Requests, Round(r)
    PROVE  IInv'
<1> DEFINE healthy == {p \in Providers : up[p]}
<1>1. /\ pc[r] = "round" /\ pc' = [pc EXCEPT ![r] = "scan"]
      /\ cands' = [cands EXCEPT ![r] = healthy]
      /\ todo' = [todo EXCEPT ![r] = healthy \ (attempted[r] \cup unsupported)]
      /\ eligible' = [eligible EXCEPT ![r] = FALSE]
      /\ UNCHANGED <<has, up, unsupported, faults, record, flight, at, attempted, result>>
  BY DEF Round, providerVars
<1>2. ProviderTypes /\ RequestTypes
  BY TypesSplit DEF IInv
<1>3. RequestTypes'
  BY <1>1, <1>2 DEF RequestTypes
<1>4. RequestFits(r) /\ RequestFits(r)'
  BY <1>1 DEF IInv, RequestFits
<1>5. {r} \in SUBSET Requests /\ \A s \in {r} : RequestFits(s)'
  BY <1>4
<1>6. \A s \in Requests \ {r} : /\ pc'[s] = pc[s] /\ result'[s] = result[s]
                                /\ attempted'[s] = attempted[s] /\ cands'[s] = cands[s]
  BY <1>1, <1>2 DEF RequestTypes
<1>7. ProviderTypes'
  BY <1>1, <1>2 DEF ProviderTypes
<1> QED
  BY <1>1, <1>3, <1>5, <1>6, <1>7, RequestsGoOn, MapIdle, Reassembled

LEMMA LookInv ==
    ASSUME IInv, UNCHANGED target, NEW r \in Requests, NEW p \in Providers, Look(r, p)
    PROVE  IInv'
<1> DEFINE k == <<p, target[r]>>
<1>1. /\ pc[r] = "scan"
      /\ todo' = [todo EXCEPT ![r] = @ \ {p}] /\ at' = [at EXCEPT ![r] = p]
      /\ UNCHANGED <<has, up, unsupported, faults, record>>
  BY DEF Look, providerVars
<1>2. ProviderTypes /\ RequestTypes /\ MapTypes
  BY TypesSplit DEF IInv
<1>3. target[r] \in Targets /\ k \in Keys
  BY RoutingAssumption DEF IInv, TypeOK, Keys
<1>4. at' \in [Requests -> Providers] /\ todo' \in [Requests -> SUBSET Providers]
  BY <1>1, <1>2 DEF RequestTypes
<1>5. ProviderTypes'
  BY <1>1, <1>2 DEF ProviderTypes
<1>6. RequestFits(r)
  BY <1>1 DEF IInv, RequestFits
<1>7. {r} \in SUBSET Requests
  OBVIOUS
<1>8. Cached(k) \in {"yes", "no", "none"} /\ (Cached(k) = "yes" => record[k] = "yes")
  BY <1>2, <1>3 DEF MapTypes, Cached
<1>9. CASE Cached(k) = "yes"
  <2>1. Available({r}) /\ flight' = flight
    BY <1>9 DEF Look, Key
  <2>2. \A s \in {r} : target[s] # "forged" /\ pc[s] # "done"
    BY <1>1, <1>6, <1>8, <1>9 DEF IInv, NoForgedYes
  <2>3. RequestTypes' /\ target' \in Mixes /\ \A s \in Requests : RequestFits(s)'
    BY <1>1, <1>4, <1>7, <2>1, <2>2, AvailableFits
  <2> QED
    BY <1>1, <1>5, <2>1, <2>3, MapIdle, Reassembled
<1>10. CASE Cached(k) = "no"
  <2>1. NotAvailable({r}) /\ flight' = flight
    BY <1>10 DEF Look, Key
  <2>2. \A s \in {r} : pc[s] # "done"
    BY <1>1
  <2>3. RequestTypes' /\ target' \in Mixes /\ \A s \in Requests : RequestFits(s)'
    BY <1>1, <1>4, <1>7, <2>1, <2>2, NotAvailableFits
  <2> QED
    BY <1>1, <1>5, <2>1, <2>3, MapIdle, Reassembled
<1>11. CASE Cached(k) = "none"
  <2>1. /\ flight' = [flight EXCEPT ![k] = IF @ = "none" THEN target[r] ELSE @]
        /\ pc' = [pc EXCEPT ![r] = "probe"]
        /\ UNCHANGED <<cands, eligible, attempted, result>>
    BY <1>11 DEF Look, Key
  <2>2. RequestTypes'
    BY <1>2, <1>4, <2>1 DEF RequestTypes
  <2>3. RequestFits(r)'
    BY <1>6, <2>1 DEF RequestFits
  <2>4. \A s \in {r} : RequestFits(s)'
    BY <2>3
  <2>5. \A s \in Requests \ {r} : /\ pc'[s] = pc[s] /\ result'[s] = result[s]
                                  /\ attempted'[s] = attempted[s] /\ cands'[s] = cands[s]
    BY <1>2, <2>1 DEF RequestTypes
  <2>6. RequestTypes' /\ target' \in Mixes /\ \A s \in Requests : RequestFits(s)'
    BY <1>1, <1>7, <2>2, <2>4, <2>5, RequestsGoOn
  <2>7. flight' \in [Keys -> {"none", "yes", "no"} \cup Targets]
    BY <1>2, <1>3, <2>1 DEF MapTypes
  <2>8. ASSUME NEW q \in Providers PROVE flight'[<<q, "forged">>] # "yes"
    <3>1. <<q, "forged">> \in Keys /\ flight[<<q, "forged">>] # "yes"
      BY DEF IInv, NoForgedYes, Keys, Targets
    <3>2. target[r] # "yes"
      BY <1>3 DEF Targets
    <3> HIDE DEF k
    <3> QED
      BY <1>2, <2>1, <3>1, <3>2 DEF MapTypes
  <2>9. MapTypes' /\ NoForgedYes'
    BY <1>1, <2>7, <2>8, FlightsChange
  <2> QED
    BY <1>5, <2>6, <2>9, Reassembled
<1> QED
  BY <1>8, <1>9, <1>10, <1>11

LEMMA ReplyInv ==
    ASSUME IInv, UNCHANGED target, NEW r \in Requests,
           NEW reply \in {"state", "unavailable", "null"}, Reply(r, reply)
    PROVE  IInv'
<1>1. pc[r] = "call" /\ UNCHANGED <<has, up, unsupported, faults, flight>>
  BY DEF Reply, providerVars
<1>2. ProviderTypes'
  BY <1>1, TypesSplit DEF IInv, ProviderTypes
<1>3. CASE Accepted(reply)
  <2>1. Finish(r, reply) /\ record' = record /\ reply = "state"
    BY <1>3 DEF Reply, Accepted
  <2>2. RequestTypes' /\ target' \in Mixes /\ \A s \in Requests : RequestFits(s)'
    BY <1>1, <2>1, FinishFits
  <2> QED
    BY <1>1, <1>2, <2>1, <2>2, MapIdle, Reassembled
<1>4. CASE ~Accepted(reply)
  <2>1. Goes(r, "scan") /\ record' = [record EXCEPT ![Key(at[r], target[r])] = "none"]
    BY <1>4 DEF Reply, Invalidate
  <2>2. RequestTypes' /\ target' \in Mixes /\ \A s \in Requests : RequestFits(s)'
    BY <1>1, <2>1, GoesFits
  <2>3. record \in [Keys -> {"none", "yes", "no", "expired"}]
    BY DEF IInv, TypeOK
  <2>4. /\ record' \in [Keys -> {"none", "yes", "no", "expired"}]
        /\ \A k \in Keys : record'[k] # "none" => record[k] # "none"
        /\ \A k \in Keys : record'[k] = "yes" => record[k] = "yes"
    BY <2>1, <2>3
  <2> QED
    BY <1>1, <1>2, <2>2, <2>4, RecordsShrink, Reassembled
<1> QED
  BY <1>3, <1>4

LEMMA CallEndsInv ==
    ASSUME IInv, UNCHANGED target, NEW r \in Requests,
           CallFails(r) \/ MethodNotFound(r) \/ RpcError(r)
    PROVE  IInv'
<1>1. /\ pc[r] = "call" /\ (Fault \/ UNCHANGED faults)
      /\ UNCHANGED <<has, up, record, flight>>
      /\ unsupported' = unsupported \/ unsupported' = unsupported \cup {at[r]}
      /\ Goes(r, "scan") \/ Finish(r, "error")
  BY DEF CallFails, MethodNotFound, RpcError, providerVars
<1>2. ProviderTypes /\ RequestTypes
  BY TypesSplit DEF IInv
<1>3. faults' \in 0..MaxFaults
  BY <1>1, <1>2, FaultTyped DEF ProviderTypes
<1>4. ProviderTypes'
  BY <1>1, <1>2, <1>3 DEF ProviderTypes, RequestTypes
<1>5. unsupported \subseteq unsupported'
  BY <1>1
<1>6. RequestTypes' /\ target' \in Mixes /\ \A s \in Requests : RequestFits(s)'
  BY <1>1, <1>5, GoesFits, FinishFits
<1> QED
  BY <1>1, <1>4, <1>6, MapIdle, Reassembled

LEMMA EndsInv ==
    ASSUME IInv, UNCHANGED target, NEW r \in Requests, EndRound(r) \/ Deadline(r)
    PROVE  IInv'
<1>1. /\ pc[r] # "done" /\ UNCHANGED <<has, up, unsupported, faults, record, flight>>
      /\ \/ Finish(r, "exhausted") \/ Goes(r, "round") \/ Finish(r, "deadline")
  BY DEF EndRound, Deadline, providerVars
<1>2. ProviderTypes'
  BY <1>1, TypesSplit DEF IInv, ProviderTypes
<1>3. RequestTypes' /\ target' \in Mixes /\ \A s \in Requests : RequestFits(s)'
  BY <1>1, GoesFits, FinishFits
<1> QED
  BY <1>1, <1>2, <1>3, MapIdle, Reassembled

-----------------------------------------------------------------------------
LEMMA InitInv == Init => IInv
<1> SUFFICES ASSUME Init PROVE IInv
  OBVIOUS
<1>1. RequestTypes
  BY DEF Init, RequestTypes
<1>2. MapTypes
  <2>1. Recorded = {}
    BY DEF Init, Recorded
  <2>2. Cardinality(Recorded) = 0
    BY <2>1, FS_EmptySet
  <2> QED
    BY <2>2, RoutingAssumption DEF Init, MapTypes
<1>3. ProviderTypes /\ target \in Mixes
  BY RoutingAssumption DEF Init, ProviderTypes
<1>4. NoForgedYes
  BY DEF Init, NoForgedYes, Keys, Targets
<1>5. \A r \in Requests : RequestFits(r)
  BY DEF Init, RequestFits
<1> QED
  BY <1>1, <1>2, <1>3, <1>4, <1>5, TypesSplit DEF IInv

LEMMA NextInv ==
    ASSUME IInv, [Next]_vars
    PROVE  IInv'
<1>1. ASSUME UNCHANGED vars PROVE IInv'
  BY <1>1 DEF vars, routeVars, providerVars, requestVars, IInv, TypeOK, NoForgedYes,
              RequestFits, Recorded
<1>2. ASSUME NEW k \in Keys, ProbeStep(k) \/ Expire(k), UNCHANGED target PROVE IInv'
  BY <1>2, KeyFacts, ProbeAnswerInv, ProbeFailsInv, ProbeStoreInv, ExpireInv DEF ProbeStep
<1>3. ASSUME NEW r \in Requests, RequestStep(r) \/ StopsWaiting(r) \/ Deadline(r),
             UNCHANGED target
      PROVE  IInv'
  BY <1>3, RoundInv, EndsInv, LookInv, ReplyInv, CallEndsInv, StopsWaitingInv DEF RequestStep
<1> QED
  BY <1>1, <1>2, <1>3, ProviderSteps DEF Next

LEMMA Invariance == Spec => []IInv
BY InitInv, NextInv, PTL DEF Spec

\* Requests, availability records and shared checks stay well typed, and the
\* availability map stays within its bound.
THEOREM TypeCorrect == Spec => []TypeOK
<1>1. IInv => TypeOK
  BY DEF IInv
<1> QED
  BY <1>1, Invariance, PTL

\* No check, cached, shared or fresh, passes a header that does not fit its hash.
THEOREM ForgedHeaderSafe == Spec => []ForgedHeaderNeverPasses
<1>1. IInv => ForgedHeaderNeverPasses
  BY DEF IInv, RequestFits, ForgedHeaderNeverPasses
<1> QED
  BY <1>1, Invariance, PTL
=============================================================================
