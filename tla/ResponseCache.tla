--------------------------- MODULE ResponseCache ---------------------------
(***************************************************************************)
(* The response cache of a gateway: get, put and remove of                 *)
(* requestcache.Service, each under its mutex, called in any order by the  *)
(* loads that finish.  An entry is its key and its size in bytes.          *)
(***************************************************************************)
EXTENDS Naturals, SequencesExt

CONSTANTS
    Keys,
    Sizes,         \* sizes of responses, with key and upstream name
    MaxEntries, MaxBytes, MaxEntryBytes

\* What Config.Validate makes sure of.
ASSUME CacheAssumption ==
    /\ Sizes \subseteq Nat
    /\ {MaxEntries, MaxBytes, MaxEntryBytes} \subseteq Nat \ {0}
    /\ MaxEntryBytes <= MaxBytes

VARIABLES
    recent,    \* the list of entries, the most recently used one first
    bytes,     \* the counter of bytes
    panicked,  \* remove was called with no element
    newer      \* newer[k]: the keys called since the last call of k (history)

cacheVars == <<recent, bytes, panicked, newer>>

CacheInit ==
    /\ recent = <<>> /\ bytes = 0 /\ panicked = FALSE
    /\ newer = [k \in Keys |-> {}]

Called(k) == newer' = [j \in Keys |-> IF j = k THEN {} ELSE newer[j] \cup {k}]

\* Totals(entries)[n]: the bytes of the first n entries.
Totals(entries) ==
    LET sum[n \in 0..Len(entries)] == IF n = 0 THEN 0 ELSE sum[n - 1] + entries[n].size
    IN  sum
Size(entries) == Totals(entries)[Len(entries)]

\* Where the map has the entry of k.
Places(k) == {i \in DOMAIN recent : recent[i].key = k}

-----------------------------------------------------------------------------
\* Mutant of MoveToFront: the entry stays where it is.
HitInPlace(i) == UNCHANGED recent

MoveToFront(i) == recent' = <<recent[i]>> \o RemoveAt(recent, i)

Get(k) ==
    /\ \E i \in Places(k) : MoveToFront(i)
    /\ Called(k)
    /\ UNCHANGED <<bytes, panicked>>

\* A call for an entry that has expired removes it.
GetExpired(k) ==
    /\ \E i \in Places(k) :
          /\ recent' = RemoveAt(recent, i)
          /\ bytes' = bytes - recent[i].size
    /\ Called(k)
    /\ UNCHANGED panicked

Retainable(size) == size <= MaxEntryBytes

\* Mutant of Others: the key's previous entry is not removed.
AllOthers(k) == recent

\* put first removes the previous entry of its key.
Others(k) ==
    IF Places(k) = {} THEN recent ELSE RemoveAt(recent, CHOOSE i \in Places(k) : TRUE)

\* The counter when n of the others are left.
CountedAt(k, n) == bytes - (Size(recent) - Totals(Others(k))[n])

\* The loop of put takes entries from the back until one more fits.
Fitting(k, size) ==
    {n \in 0..Len(Others(k)) : n < MaxEntries /\ CountedAt(k, n) <= MaxBytes - size}

Put(k, size) ==
    LET left == Max(Fitting(k, size)) IN
    /\ ~panicked
    /\ Retainable(size)
    /\ IF Fitting(k, size) = {}
       THEN panicked' = TRUE /\ UNCHANGED <<recent, bytes>>
       ELSE /\ recent' = <<[key |-> k, size |-> size]>> \o SubSeq(Others(k), 1, left)
            /\ bytes' = CountedAt(k, left) + size
            /\ UNCHANGED panicked
    /\ Called(k)

CacheNext == \E k \in Keys :
            Get(k) \/ GetExpired(k) \/ \E size \in Sizes : Put(k, size)

CacheSpec == CacheInit /\ [][CacheNext]_cacheVars

-----------------------------------------------------------------------------
KeysOf(entries) == {entries[i].key : i \in DOMAIN entries}

(***************************************************************************)
(* The cache stays within its budget: the counter agrees with the entries  *)
(* after every mixture of hits, expiries, replacements and evictions, a    *)
(* key has one entry, and both limits hold; and the loop that makes room   *)
(* ends before the list is empty, it would otherwise remove an element     *)
(* that is not there and bring the process down.                           *)
(***************************************************************************)
WithinBudget ==
    /\ ~panicked
    /\ bytes = Size(recent) /\ bytes <= MaxBytes
    /\ Len(recent) <= MaxEntries
    /\ \A i, n \in DOMAIN recent : recent[i].key = recent[n].key => i = n

(***************************************************************************)
(* "Uses least-recently-used eviction" (request-caching.md): what a put    *)
(* drops to make room was used before everything it keeps.  (The entry of  *)
(* the key that is called itself goes because it has expired.)             *)
(***************************************************************************)
LeastRecentGoesFirst ==
    [][\A k \in KeysOf(recent) \ KeysOf(recent') :
          newer'[k] # {} => KeysOf(recent') \subseteq newer'[k]]_cacheVars
=============================================================================
