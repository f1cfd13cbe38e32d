------------------------------ MODULE LfuCache ------------------------------
(***************************************************************************)
(* LFUEviction.  Each key has a frequency; buckets maps a frequency to its *)
(* keys, least recent first; minFreq names the bucket to evict from.  With *)
(* an interval above 0, frequencies are halved after so many updates.      *)
(***************************************************************************)
EXTENDS CacheBase

LfuNew(policy, capacity, interval) ==
  [policy |-> policy, capacity |-> capacity, size |-> 0, data |-> Empty,
   freq |-> Empty, buckets |-> Empty, minFreq |-> 0,
   interval |-> interval, updates |-> 0]

(* A bucket that becomes empty is deleted. *)
TakeOut(buckets, f, k) ==
  IF Remove(buckets[f], k) = <<>>
  THEN Without(buckets, f)
  ELSE [buckets EXCEPT ![f] = Remove(@, k)]

Bucket(buckets, f) == IF f \in DOMAIN buckets THEN buckets[f] ELSE <<>>

PutIn(buckets, f, k) == Assign(buckets, f, Append(Bucket(buckets, f), k))

Halved(f) == IF f < 2 THEN 1 ELSE f \div 2

(* Buckets are emptied in the order of their frequencies into the new ones. *)
HalvedBuckets(buckets) ==
  [g \in {Halved(f) : f \in DOMAIN buckets} |->
     (IF g = 1 THEN Bucket(buckets, 1) ELSE <<>>)
       \o Bucket(buckets, 2 * g) \o Bucket(buckets, 2 * g + 1)]

Decay_MinimumLeft(c) ==
  [c EXCEPT !.freq = [k \in DOMAIN @ |-> Halved(@[k])],
            !.buckets = HalvedBuckets(c.buckets)]

Decay(c) ==
  LET freq == [k \in DOMAIN c.freq |-> Halved(c.freq[k])]
  IN  [c EXCEPT !.freq = freq, !.buckets = HalvedBuckets(c.buckets),
                !.minFreq = Least({freq[k] : k \in DOMAIN freq})]

MaybeDecay(c) ==
  CASE c.interval = 0 -> c
    [] c.interval > 0 /\ c.updates + 1 < c.interval -> [c EXCEPT !.updates = @ + 1]
    [] OTHER -> Decay([c EXCEPT !.updates = 0])

(* The least frequency moves along with the last key that had it. *)
Touch(c, k) ==
  LET old == c.freq[k]
      rest == TakeOut(c.buckets, old, k)
      last == old \notin DOMAIN rest
  IN  MaybeDecay([c EXCEPT !.freq[k] = old + 1,
                           !.buckets = PutIn(rest, old + 1, k),
                           !.minFreq = IF last /\ @ = old THEN old + 1 ELSE @])

LfuGet(c, k) == IF k \in Cached(c) THEN Touch(c, k) ELSE c

LfuEvict_MostRecent(c) ==
  LET bucket == c.buckets[c.minFreq]
      victim == bucket[Len(bucket)]
  IN  [c EXCEPT !.data = Without(@, victim), !.freq = Without(@, victim),
                !.buckets = TakeOut(@, c.minFreq, victim)]

(* min_freq is left for the insertion that follows to set. *)
LfuEvict(c) ==
  LET victim == Head(c.buckets[c.minFreq])
  IN  [c EXCEPT !.data = Without(@, victim), !.freq = Without(@, victim),
                !.buckets = TakeOut(@, c.minFreq, victim)]

LfuInsert(c, k, v) ==
  MaybeDecay(Sized([c EXCEPT !.data = Assign(@, k, v), !.freq = Assign(@, k, 1),
                             !.minFreq = 1, !.buckets = PutIn(@, 1, k)]))

LfuPut(c, k, v) ==
  IF k \in Cached(c)
  THEN Touch([c EXCEPT !.data[k] = v], k)
  ELSE LfuInsert(IF Full(c) THEN LfuEvict(c) ELSE c, k, v)

Discard(c, k) ==
  LET freq == Without(c.freq, k)
  IN  Sized([c EXCEPT !.data = Without(@, k), !.freq = freq,
                      !.buckets = TakeOut(@, c.freq[k], k),
                      !.minFreq = IF DOMAIN freq = {} THEN 0
                                  ELSE Least({freq[j] : j \in DOMAIN freq})])

LfuInvalidate(c, k) == IF k \in Cached(c) THEN Discard(c, k) ELSE c

LfuClear(c) ==
  [c EXCEPT !.data = Empty, !.freq = Empty, !.buckets = Empty, !.minFreq = 0,
            !.updates = 0, !.size = 0]

(* The buckets are the frequencies the other way round, none is empty, and *)
(* minFreq is the least of them.                                           *)
LfuBooksAgree(c) ==
  /\ DOMAIN c.freq = Cached(c)
  /\ DOMAIN c.buckets = {c.freq[k] : k \in Cached(c)}
  /\ \A f \in DOMAIN c.buckets : Lists(c.buckets[f], {k \in Cached(c) : c.freq[k] = f})
  /\ c.minFreq = IF Cached(c) = {} THEN 0 ELSE Least(DOMAIN c.buckets)
=============================================================================
