------------------------------ MODULE LruCache ------------------------------
(***************************************************************************)
(* LRUEviction.  One OrderedDict: data holds its items, order its keys.    *)
(***************************************************************************)
EXTENDS CacheBase

LruNew(capacity) ==
  [policy |-> "lru", capacity |-> capacity, size |-> 0, data |-> Empty, order |-> <<>>]

LruGet_NoMove(c, k) == c

LruGet(c, k) == IF k \in Cached(c) THEN [c EXCEPT !.order = MoveToEnd(c.order, k)] ELSE c

LruEvict(c) == [c EXCEPT !.data = Without(c.data, Head(c.order)), !.order = Tail(c.order)]

LruInsert(c, k, v) ==
  Sized([c EXCEPT !.data = Assign(c.data, k, v), !.order = Append(c.order, k)])

LruPut(c, k, v) ==
  IF k \in Cached(c)
  THEN [c EXCEPT !.data[k] = v, !.order = MoveToEnd(c.order, k)]
  ELSE LruInsert(IF Full(c) THEN LruEvict(c) ELSE c, k, v)

LruInvalidate(c, k) ==
  IF k \in Cached(c)
  THEN Sized([c EXCEPT !.data = Without(c.data, k), !.order = Remove(c.order, k)])
  ELSE c

LruClear(c) == [c EXCEPT !.data = Empty, !.order = <<>>, !.size = 0]

LruBooksAgree(c) == Lists(c.order, Cached(c))
=============================================================================
