------------------------------- MODULE Caches -------------------------------
(***************************************************************************)
(* The abstract class CachePolicy and create_cache: operations that go to  *)
(* the policy of the cache they are given.                                 *)
(***************************************************************************)
EXTENDS RandomCache, FifoCache, LruCache, LfuCache, SlruCache, SieveCache

CONSTANT
  DecayInterval  \* updates between two decays; at least 128 in the code,
                 \* small in the model so that decay happens

ASSUME DecayIntervalAssumption == DecayInterval \in Nat \ {0}

Policies == {"random", "fifo", "lru", "lfu", "lfu_decay", "slru", "sieve"}

(* "lfu" is LFU without decay. *)
CreateCache(policy, capacity) ==
  CASE policy = "random" -> RandomNew(capacity)
    [] policy = "fifo" -> FifoNew(capacity)
    [] policy = "lru" -> LruNew(capacity)
    [] policy = "lfu" -> LfuNew(policy, capacity, 0)
    [] policy = "lfu_decay" -> LfuNew(policy, capacity, DecayInterval)
    [] policy = "slru" -> SlruNew(capacity)
    [] policy = "sieve" -> SieveNew(capacity)

(* A server configured without a cache. *)
NoCache == [policy |-> "none", data |-> Empty]

(* The cache after get; the value returned is data[k]. *)
AfterGet(c, k) ==
  CASE c.policy = "random" -> RandomGet(c, k)
    [] c.policy = "fifo" -> FifoGet(c, k)
    [] c.policy = "lru" -> LruGet(c, k)
    [] c.policy \in {"lfu", "lfu_decay"} -> LfuGet(c, k)
    [] c.policy = "slru" -> SlruGet(c, k)
    [] c.policy = "sieve" -> SieveGet(c, k)
    [] c.policy = "none" -> c

(* The caches that put may leave. *)
AfterPut(c, k, v) ==
  CASE c.policy = "random" -> RandomPut(c, k, v)
    [] c.policy = "fifo" -> {FifoPut(c, k, v)}
    [] c.policy = "lru" -> {LruPut(c, k, v)}
    [] c.policy \in {"lfu", "lfu_decay"} -> {LfuPut(c, k, v)}
    [] c.policy = "slru" -> {SlruPut(c, k, v)}
    [] c.policy = "sieve" -> {SievePut(c, k, v)}
    [] c.policy = "none" -> {c}

AfterInvalidate(c, k) ==
  CASE c.policy = "random" -> RandomInvalidate(c, k)
    [] c.policy = "fifo" -> FifoInvalidate(c, k)
    [] c.policy = "lru" -> LruInvalidate(c, k)
    [] c.policy \in {"lfu", "lfu_decay"} -> LfuInvalidate(c, k)
    [] c.policy = "slru" -> SlruInvalidate(c, k)
    [] c.policy = "sieve" -> SieveInvalidate(c, k)
    [] c.policy = "none" -> c

AfterClear(c) ==
  CASE c.policy = "random" -> RandomClear(c)
    [] c.policy = "fifo" -> FifoClear(c)
    [] c.policy = "lru" -> LruClear(c)
    [] c.policy \in {"lfu", "lfu_decay"} -> LfuClear(c)
    [] c.policy = "slru" -> SlruClear(c)
    [] c.policy = "sieve" -> SieveClear(c)
    [] c.policy = "none" -> c

(* What a policy keeps beside the data agrees with the data. *)
BooksAgree(c) ==
  CASE c.policy = "random" -> RandomBooksAgree(c)
    [] c.policy = "fifo" -> FifoBooksAgree(c)
    [] c.policy = "lru" -> LruBooksAgree(c)
    [] c.policy \in {"lfu", "lfu_decay"} -> LfuBooksAgree(c)
    [] c.policy = "slru" -> SlruBooksAgree(c)
    [] c.policy = "sieve" -> SieveBooksAgree(c)
    [] c.policy = "none" -> TRUE
=============================================================================
