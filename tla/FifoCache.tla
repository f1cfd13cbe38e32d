----------------------------- MODULE FifoCache -----------------------------
(***************************************************************************)
(* FIFOEviction.  A queue of the keys in the order they were inserted.     *)
(***************************************************************************)
EXTENDS CacheBase

FifoNew(capacity) ==
  [policy |-> "fifo", capacity |-> capacity, size |-> 0, data |-> Empty, order |-> <<>>]

FifoGet(c, k) == c

FifoEvict(c) == [c EXCEPT !.data = Without(c.data, Head(c.order)), !.order = Tail(c.order)]

FifoInsert(c, k, v) ==
  Sized([c EXCEPT !.data = Assign(c.data, k, v), !.order = Append(c.order, k)])

FifoPut(c, k, v) ==
  IF k \in Cached(c)
  THEN [c EXCEPT !.data[k] = v]
  ELSE FifoInsert(IF Full(c) THEN FifoEvict(c) ELSE c, k, v)

FifoInvalidate(c, k) ==
  IF k \in Cached(c)
  THEN Sized([c EXCEPT !.data = Without(c.data, k), !.order = Remove(c.order, k)])
  ELSE c

FifoClear(c) == [c EXCEPT !.data = Empty, !.order = <<>>, !.size = 0]

FifoBooksAgree(c) == Lists(c.order, Cached(c))
=============================================================================
