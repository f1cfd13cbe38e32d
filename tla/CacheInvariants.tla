-------------------------- MODULE CacheInvariants --------------------------
(***************************************************************************)
(* What holds of the state machine, of the cache and of the histories of   *)
(* CachedStore in every state, strong enough to be inductive.              *)
(***************************************************************************)
EXTENDS CachedStore

(* order lists the elements of S, each once. *)
Enumerates(order, S) ==
  /\ order \in Seq(S)
  /\ Elements(order) = S
  /\ \A i, j \in DOMAIN order : order[i] = order[j] => i = j

(* x stands before y. *)
Before(order, x, y) ==
  \E i, j \in DOMAIN order : i < j /\ order[i] = x /\ order[j] = y

(* current_size is true and within the capacity. *)
SizeInv(c) ==
  /\ Cached(c) \subseteq Key
  /\ IsFiniteSet(Cached(c))
  /\ c.size = Cardinality(Cached(c))
  /\ c.size <= c.capacity

(* FIFO and LRU have the same structures and use them differently. *)
QueueInv(c, policy) ==
  /\ c.policy = policy
  /\ c \in [policy : Policies, capacity : Nat \ {0}, size : Nat, data : [Cached(c) -> Value],
            order : Seq(Key)]
  /\ SizeInv(c)
  /\ Enumerates(c.order, Cached(c))

RandomInv(c) ==
  /\ c.policy = "random"
  /\ c \in [policy : Policies, capacity : Nat \ {0}, size : Nat, data : [Cached(c) -> Value],
            keys : Seq(Key), keyIndex : [Cached(c) -> Nat]]
  /\ SizeInv(c)
  /\ Enumerates(c.keys, Cached(c))
  /\ \A k \in Cached(c) : c.keyIndex[k] \in DOMAIN c.keys /\ c.keys[c.keyIndex[k]] = k

(* The keys of frequency f. *)
With(freq, f) == {k \in DOMAIN freq : freq[k] = f}

(* Every key is in the bucket of its frequency, and no bucket is empty. *)
Bucketed(buckets, freq) ==
  /\ buckets \in [{freq[k] : k \in DOMAIN freq} -> Seq(Key)]
  /\ \A f \in DOMAIN buckets : Enumerates(buckets[f], With(freq, f))

(* Within a bucket the keys stand in the order of order. *)
Follows(buckets, order) ==
  \A f \in DOMAIN buckets : \A x, y \in Key :
    Before(buckets[f], x, y) => Before(order, x, y)

LfuInv(c, policy, interval) ==
  /\ c.policy = policy
  /\ c \in [policy : Policies, capacity : Nat \ {0}, size : Nat, data : [Cached(c) -> Value],
            freq : [Cached(c) -> Nat \ {0}], buckets : [DOMAIN c.buckets -> Seq(Key)],
            minFreq : Nat, interval : {interval}, updates : Nat]
  /\ SizeInv(c)
  /\ Bucketed(c.buckets, c.freq)
  /\ c.minFreq = IF Cached(c) = {} THEN 0 ELSE Least(DOMAIN c.buckets)

(* p and q list disjoint sets that make up S. *)
Segments(p, q, S) ==
  /\ Enumerates(p, Elements(p))
  /\ Enumerates(q, Elements(q))
  /\ Elements(p) \cap Elements(q) = {}
  /\ S = Elements(p) \cup Elements(q)

SlruInv(c) ==
  /\ c.policy = "slru"
  /\ c \in [policy : Policies, capacity : Nat \ {0}, size : Nat, data : [Cached(c) -> Value],
            probation : Seq(Key), protected : Seq(Key), protectedCap : Nat]
  /\ SizeInv(c)
  /\ Segments(c.probation, c.protected, Cached(c))
  /\ c.protectedCap < c.capacity
  /\ c.capacity >= 2 => c.protectedCap >= 1
  /\ Len(c.protected) <= c.protectedCap

SieveInv(c) ==
  /\ c.policy = "sieve"
  /\ c \in [policy : Policies, capacity : Nat \ {0}, size : Nat, data : [Cached(c) -> Value],
            order : Seq(Key), visited : SUBSET Key, hand : Key \cup {None}]
  /\ SizeInv(c)
  /\ Enumerates(c.order, Cached(c))
  /\ c.visited \subseteq Cached(c)
  /\ c.hand \in Cached(c) \cup {None}

CacheInv(c) ==
  \/ c = NoCache
  \/ QueueInv(c, "fifo")
  \/ QueueInv(c, "lru")
  \/ RandomInv(c)
  \/ LfuInv(c, "lfu", 0)
  \/ LfuInv(c, "lfu_decay", DecayInterval)
  \/ SlruInv(c)
  \/ SieveInv(c)

(* The state machine holds values, and the cache agrees with it. *)
AgreementInv ==
  /\ DOMAIN machine \subseteq Key
  /\ machine \in [DOMAIN machine -> Value]
  /\ strategy \in Strategies
  /\ \A k \in Cached(cache) : k \in DOMAIN machine /\ cache.data[k] = machine[k]

(* The histories follow the cache, and the records the policies keep       *)
(* follow the histories.                                                   *)
HistoryInv ==
  /\ Enumerates(recency, Cached(cache))
  /\ lastRead \in Cached(cache) \cup {None}
  /\ used \subseteq Cached(cache)
  /\ cache.policy = "lru" => recency = cache.order
  /\ cache.policy = "lfu" => Follows(cache.buckets, recency)
  /\ cache.policy = "slru" /\ cache.capacity >= 2 /\ lastRead # None =>
       lastRead \in Elements(cache.protected)
  /\ cache.policy = "sieve" => used \subseteq cache.visited

StoreInv == CacheInv(cache) /\ AgreementInv /\ (cache.policy # "none" => HistoryInv)
=============================================================================
