---------------------------- MODULE CachedStore ----------------------------
(***************************************************************************)
(* The key-value state machine of one server and the cache before it.      *)
(* Entries are applied in log order, reads go through the cache; both run  *)
(* under the server's lock, so each is one step.  The log they come from   *)
(* is the business of RaftCluster: here any entry may be applied next.     *)
(***************************************************************************)
EXTENDS Caches

CONSTANTS
  Key, Value,   \* keys other than the empty one, and values
  NoValue,      \* the empty string, the answer for a key that is missing
  Capacities,   \* the cache sizes to consider
  MaxFrequency  \* bound: LFU counts no further than this

ASSUME CapacityAssumption == Capacities \subseteq Nat \ {0}
ASSUME NoneAssumption == None \notin Key

VARIABLES
  machine,   \* _state_machine
  cache,     \* _cache
  strategy,  \* _cache_write_strategy
  answer,    \* history: key and value of the latest Get
  recency,   \* history: the cached keys by their latest use, oldest first
  lastRead,  \* history: the cached key whose Get was the latest hit, or None
  used       \* history: keys hit or updated since the latest eviction

vars == <<machine, cache, strategy, answer, recency, lastRead, used>>

Strategies == {"write_through", "write_invalidate"}

Forgotten == recency' = <<>> /\ lastRead' = None /\ used' = {}

Init ==
  /\ machine = Empty
  /\ cache \in {NoCache} \cup {CreateCache(p, n) : p \in Policies, n \in Capacities}
  /\ strategy \in Strategies
  /\ answer = [key |-> NoValue, value |-> NoValue]
  /\ recency = <<>>
  /\ lastRead = None
  /\ used = {}

(* How a step that uses key k moves the histories: a key keeps its place   *)
(* until it is evicted, and k, while it is cached, is the most recent one. *)
Use(k) ==
  LET evicted == Cached(cache) \ (Cached(cache') \cup {k})
      others == Remove(recency, k)
      kept == IF evicted = {} THEN others
              ELSE Remove(others, CHOOSE j \in evicted : TRUE)
  IN  /\ recency' = IF k \in Cached(cache') THEN Append(kept, k) ELSE kept
      /\ used' = IF Cached(cache) \subseteq Cached(cache')
                 THEN used \cup ({k} \cap Cached(cache))
                 ELSE IF k \in Cached(cache) THEN used \ {k} ELSE {}

Applied(k, v) == Assign(machine, k, v)

CacheAfterApply_Kept(k, v) ==
  IF strategy = "write_through" THEN AfterPut(cache, k, v) ELSE {cache}

(* The cache after an entry was applied. *)
CacheAfterApply(k, v) ==
  IF strategy = "write_through" THEN AfterPut(cache, k, v) ELSE {AfterInvalidate(cache, k)}

(* The bound on frequencies. *)
MayCount(k) ==
  cache.policy \in {"lfu", "lfu_decay"} /\ k \in Cached(cache) =>
    cache.freq[k] < MaxFrequency

(* One round of _apply_committed_entries, for an entry that is no no-op. *)
ApplyEntry(k, v) ==
  /\ MayCount(k)
  /\ machine' = Applied(k, v)
  /\ cache' \in CacheAfterApply(k, v)
  /\ Use(k)
  /\ lastRead' = IF lastRead \in Cached(cache') THEN lastRead ELSE None
  /\ UNCHANGED <<strategy, answer>>

GetHit(k) ==
  /\ k \in Cached(cache)
  /\ MayCount(k)
  /\ cache' = AfterGet(cache, k)
  /\ answer' = [key |-> k, value |-> cache.data[k]]
  /\ Use(k)
  /\ lastRead' = k
  /\ UNCHANGED <<machine, strategy>>

(* A miss fills the cache with what is read from the state machine. *)
GetMiss(k) ==
  /\ k \in DOMAIN machine \ Cached(cache)
  /\ cache' \in AfterPut(AfterGet(cache, k), k, machine[k])
  /\ answer' = [key |-> k, value |-> machine[k]]
  /\ Use(k)
  /\ lastRead' = IF lastRead \in Cached(cache') THEN lastRead ELSE None
  /\ UNCHANGED <<machine, strategy>>

GetMissing(k) ==
  /\ k \notin DOMAIN machine \cup Cached(cache)
  /\ cache' = AfterGet(cache, k)
  /\ answer' = [key |-> k, value |-> NoValue]
  /\ UNCHANGED <<machine, strategy, recency, lastRead, used>>

Get(k) == GetHit(k) \/ GetMiss(k) \/ GetMissing(k)

(* A process that starts again has neither state machine nor cache. *)
Restart ==
  /\ machine' = Empty
  /\ cache' = IF cache.policy = "none" THEN cache
              ELSE CreateCache(cache.policy, cache.capacity)
  /\ Forgotten
  /\ UNCHANGED <<strategy, answer>>

(* clear. No server calls it; a cache used by itself may be cleared at any  *)
(* time, and is then filled again from what it stands before.              *)
ClearCache ==
  /\ cache' = AfterClear(cache)
  /\ Forgotten
  /\ UNCHANGED <<machine, strategy, answer>>

Next ==
  \/ \E k \in Key, v \in Value : ApplyEntry(k, v)
  \/ \E k \in Key : Get(k)
  \/ ClearCache
  \/ Restart

Spec == Init /\ [][Next]_vars

-----------------------------------------------------------------------------

(* The state machine with NoValue for the keys it lacks. *)
FullMachine == [k \in Key |-> IF k \in DOMAIN machine THEN machine[k] ELSE NoValue]

Plain == INSTANCE Store WITH machine <- FullMachine

(* Reads through a cache are reads of the state machine, whatever the      *)
(* policy evicts and whichever write strategy is chosen: no Get is         *)
(* answered with a value that a later entry has replaced.                  *)
ImplementsStore == Plain!Spec

(* The statistic current_size is the number of cached keys, and never more *)
(* than the capacity.                                                      *)
WithinCapacity ==
  cache.policy # "none" =>
    /\ cache.size = Cardinality(Cached(cache))
    /\ cache.size <= cache.capacity

(* The structures each policy keeps beside its data, indices, buckets,     *)
(* queues, segments and the hand, describe exactly the keys it caches; a   *)
(* stale one raises in the next put, or evicts a key that is not there.    *)
BookkeepingAgrees == BooksAgree(cache)

(* This step drops key j to make room for another. *)
Evicts(j) ==
  /\ j \in Cached(cache) \ Cached(cache')
  /\ Cached(cache') \ Cached(cache) # {}

Older(i, j) == IndexOf(recency, i) < IndexOf(recency, j)

(* LRU evicts the key whose latest use, by a Get, an update or its         *)
(* insertion, lies furthest back.                                          *)
LeastRecentGoes ==
  [][cache.policy = "lru" =>
       \A j \in Cached(cache) : Evicts(j) => recency[1] = j]_vars

(* LFU evicts a key of least frequency, decayed or not, and without decay  *)
(* the least recently used of them.                                        *)
LeastFrequentGoes ==
  [][cache.policy \in {"lfu", "lfu_decay"} =>
       \A j \in Cached(cache) : Evicts(j) =>
         \A i \in Cached(cache) :
           /\ cache.freq[j] <= cache.freq[i]
           /\ cache.freq[j] = cache.freq[i] /\ cache.policy = "lfu" => ~Older(i, j)]_vars

(* SLRU with room for two: the key read last stays, however many new keys  *)
(* are put or read for the first time after it.                            *)
ScanResistance ==
  [][cache.policy = "slru" /\ cache.capacity >= 2 => ~Evicts(lastRead)]_vars

(* SIEVE evicts a key used since the latest eviction only when no cached   *)
(* key was left unused since the hand last passed it.                      *)
SecondChance ==
  [][cache.policy = "sieve" =>
       \A j \in used : Evicts(j) => Cached(cache) \subseteq cache.visited]_vars
=============================================================================
