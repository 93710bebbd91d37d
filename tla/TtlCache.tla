------------------------------- MODULE TtlCache -------------------------------
(***************************************************************************)
(* The relay's in-process cache (apps/relay/src/ttl-cache.ts), as its      *)
(* users drive it: a value is computed by a query, and forgotten after a   *)
(* write that changes it (contest/service.ts).                             *)
(***************************************************************************)
EXTENDS Naturals, FiniteSets, Sequences, SequencesExt

CONSTANTS
  Key,
  Computation,  \* computations in progress
  maxEntries,
  MaxWrites     \* bound

ASSUME TtlCacheAssumption == maxEntries \in Nat \ {0} /\ MaxWrites \in Nat

VARIABLES
  truth,     \* what a query would return: how often the data has changed
  unforgotten, \* changed, and not yet forgotten
  order,     \* keys of entries, oldest first
  value,     \* their values
  inFlight,  \* per key: the computation callers share, or NoComputation
  computing, \* per computation: its key and what its query returned
  overtaken, \* history: computations whose answer was no longer true at a forget
  stale      \* history: keys whose last value an overtaken computation stored

cacheVars == <<truth, unforgotten, order, value, inFlight, computing, overtaken, stale>>

NoComputation == [stage |-> "none"]
\* Computations of k about to store an answer that a write has made untrue.
Answered(k) ==
  {c \in Computation : /\ computing[c].stage = "settle" /\ computing[c].key = k
                       /\ computing[c].value # truth[k]}

CacheInit ==
  /\ truth = [k \in Key |-> 0] /\ unforgotten = {}
  /\ order = <<>> /\ value = [k \in Key |-> 0]
  /\ inFlight = [k \in Key |-> {}]
  /\ computing = [c \in Computation |-> NoComputation]
  /\ overtaken = {} /\ stale = {}

\* A caller finds no entry and no computation to share.
resolve(k, c) ==
  /\ k \notin ToSet(order)
  /\ inFlight[k] = {}
  /\ computing[c] = NoComputation
  /\ computing' = [computing EXCEPT ![c] = [stage |-> "query", key |-> k]]
  /\ inFlight' = [inFlight EXCEPT ![k] = {c}]
  /\ UNCHANGED <<truth, unforgotten, order, value, overtaken, stale>>

Query(c) ==
  /\ computing[c].stage = "query"
  /\ computing' = [computing EXCEPT ![c] = [stage |-> "settle", key |-> @.key,
                                            value |-> truth[computing[c].key]]]
  /\ UNCHANGED <<truth, unforgotten, order, value, inFlight, overtaken, stale>>

\* Oldest first.
Evicted(s) == IF Len(s) > maxEntries THEN SubSeq(s, 1 + Len(s) - maxEntries, Len(s)) ELSE s

\* set, which moves the key to the end; then the share is dropped, whosever it is.
Settle(c) ==
  /\ computing[c].stage = "settle"
  /\ LET k == computing[c].key
     IN /\ order' = Evicted(Append(RemoveFirst(order, k), k))
        /\ value' = [value EXCEPT ![k] = computing[c].value]
        /\ inFlight' = [inFlight EXCEPT ![k] = {}]
        /\ stale' = IF c \in overtaken THEN stale \cup {k} ELSE stale \ {k}
  /\ overtaken' = overtaken \ {c}
  /\ computing' = [computing EXCEPT ![c] = NoComputation]
  /\ UNCHANGED <<truth, unforgotten>>

\* The query fails: nothing is stored, and the next caller tries again.
Reject(c) ==
  /\ computing[c].stage = "query"
  /\ inFlight' = [inFlight EXCEPT ![computing[c].key] = {}]
  /\ computing' = [computing EXCEPT ![c] = NoComputation]
  /\ UNCHANGED <<truth, unforgotten, order, value, overtaken, stale>>

\* A write commits; the cache is told afterwards.
Write(k) ==
  /\ truth[k] < MaxWrites
  /\ truth' = [truth EXCEPT ![k] = @ + 1]
  /\ unforgotten' = unforgotten \cup {k}
  /\ UNCHANGED <<order, value, inFlight, computing, overtaken, stale>>

\* Only the share is dropped, the entry stays.
forget_Share(k) ==
  /\ k \in unforgotten
  /\ unforgotten' = unforgotten \ {k}
  /\ inFlight' = [inFlight EXCEPT ![k] = {}]
  /\ overtaken' = overtaken \cup Answered(k)
  /\ UNCHANGED <<truth, order, value, computing, stale>>

\* Only the entry is dropped: later callers share a computation that began before.
forget_Entry(k) ==
  /\ k \in unforgotten
  /\ unforgotten' = unforgotten \ {k}
  /\ order' = RemoveFirst(order, k)
  /\ overtaken' = overtaken \cup Answered(k)
  /\ UNCHANGED <<truth, value, inFlight, computing, stale>>

\* Entry and share; a computation in progress goes on.
forget(k) ==
  /\ k \in unforgotten
  /\ unforgotten' = unforgotten \ {k}
  /\ order' = RemoveFirst(order, k)
  /\ inFlight' = [inFlight EXCEPT ![k] = {}]
  /\ overtaken' = overtaken \cup Answered(k)
  /\ UNCHANGED <<truth, value, computing, stale>>

\* get, of an entry that has expired.
ExpireEntry(k) ==
  /\ k \in ToSet(order)
  /\ order' = RemoveFirst(order, k)
  /\ UNCHANGED <<truth, unforgotten, value, inFlight, computing, overtaken, stale>>

CacheNext ==
  \/ \E k \in Key, c \in Computation : resolve(k, c)
  \/ \E c \in Computation : Query(c) \/ Settle(c) \/ Reject(c)
  \/ \E k \in Key : Write(k) \/ forget(k) \/ ExpireEntry(k)

CacheSpec == CacheInit /\ [][CacheNext]_cacheVars

-------------------------------------------------------------------------------
(* Properties. *)

\* What the cache returns after a key was forgotten is not older than that, whether from
\* an entry or from a computation shared with earlier callers (ttl-cache.ts:73-76).
\* Excepted is an entry that a computation overtaken by the forget stored after it (:52);
\* it lasts until the next value is stored or the key is forgotten again.
ForgottenIsFresh ==
  \A k \in Key \ unforgotten :
    /\ k \in ToSet(order) \ stale => value[k] = truth[k]
    /\ \A c \in inFlight[k] : computing[c].stage = "settle" => computing[c].value = truth[k]
===============================================================================
