----------------------------- MODULE CacheBase -----------------------------
(***************************************************************************)
(* What the caches of cache.py share.  A cache is a record with the name   *)
(* of its policy, its capacity, the cached data as a function from keys to *)
(* values, and the statistic current_size; each policy adds fields of its  *)
(* own.  The keys of deques and OrderedDicts are sequences, oldest first.  *)
(***************************************************************************)
EXTENDS Integers, Sequences, FiniteSets

Empty == [k \in {} |-> 0]

Assign(f, k, v) == [j \in DOMAIN f \cup {k} |-> IF j = k THEN v ELSE f[j]]

Without(f, k) == [j \in DOMAIN f \ {k} |-> f[j]]

Elements(order) == {order[i] : i \in DOMAIN order}

IndexOf(order, k) == CHOOSE i \in DOMAIN order : order[i] = k

(* No key is listed twice. *)
Remove(order, k) ==
  IF k \in Elements(order)
  THEN SubSeq(order, 1, IndexOf(order, k) - 1)
         \o SubSeq(order, IndexOf(order, k) + 1, Len(order))
  ELSE order

MoveToEnd(order, k) == Append(Remove(order, k), k)

(* order lists every element of S once. *)
Lists(order, S) == Elements(order) = S /\ Len(order) = Cardinality(S)

Least(S) == CHOOSE x \in S : \A y \in S : x <= y

Cached(c) == DOMAIN c.data

Full_OffByOne(c) == Cardinality(Cached(c)) > c.capacity

Full(c) == Cardinality(Cached(c)) >= c.capacity

(* current_size is set to len(data) after every change of the keys. *)
Sized(c) == [c EXCEPT !.size = Cardinality(Cached(c))]
=============================================================================
