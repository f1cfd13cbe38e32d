----------------------------- MODULE SieveCache -----------------------------
(***************************************************************************)
(* SIEVEEviction.  The linked list, from its tail to its head, is order:   *)
(* oldest first, so node.prev is the key that follows.  visited holds the  *)
(* keys whose bit is set, hand the key the hand points at or None.         *)
(***************************************************************************)
EXTENDS CacheBase

CONSTANT None  \* Python's None

SieveNew(capacity) ==
  [policy |-> "sieve", capacity |-> capacity, size |-> 0, data |-> Empty,
   order |-> <<>>, visited |-> {}, hand |-> None]

SieveGet_NotVisited(c, k) == c

SieveGet(c, k) == IF k \in Cached(c) THEN [c EXCEPT !.visited = @ \cup {k}] ELSE c

(* node.prev: the next newer key. *)
Newer(c, k) ==
  LET i == IndexOf(c.order, k) IN IF i = Len(c.order) THEN None ELSE c.order[i + 1]

RemoveNode_HandKept(c, k) ==
  Sized([c EXCEPT !.data = Without(@, k), !.order = Remove(@, k), !.visited = @ \ {k}])

(* A hand that points at the removed key moves on. *)
RemoveNode(c, k) ==
  Sized([c EXCEPT !.data = Without(@, k),
                  !.order = Remove(@, k),
                  !.visited = @ \ {k},
                  !.hand = IF @ = k THEN Newer(c, k) ELSE @])

(* The keys in the order the hand meets them, from where it stands, going  *)
(* on at the tail after the head.                                          *)
Walk(c) ==
  LET start == IF c.hand = None THEN 1 ELSE IndexOf(c.order, c.hand)
  IN  SubSeq(c.order, start, Len(c.order)) \o SubSeq(c.order, 1, start - 1)

(* The hand clears bits until it meets a key without one, which may be the *)
(* key it started from, after a whole lap.                                 *)
SieveEvict(c) ==
  LET walk == Walk(c)
      unvisited == {i \in DOMAIN walk : walk[i] \notin c.visited}
      stop == IF unvisited = {} THEN 1 ELSE Least(unvisited)
      victim == walk[stop]
      cleared == IF unvisited = {} THEN Elements(walk) ELSE {walk[i] : i \in 1..(stop - 1)}
  IN  RemoveNode([c EXCEPT !.visited = @ \ cleared, !.hand = Newer(c, victim)], victim)

SieveInsert(c, k, v) == Sized([c EXCEPT !.data = Assign(@, k, v), !.order = Append(@, k)])

SievePut(c, k, v) ==
  IF k \in Cached(c)
  THEN [c EXCEPT !.data[k] = v, !.visited = @ \cup {k}]
  ELSE SieveInsert(IF Full(c) THEN SieveEvict(c) ELSE c, k, v)

SieveInvalidate(c, k) == IF k \in Cached(c) THEN RemoveNode(c, k) ELSE c

(* The bits go with the nodes that hold them. *)
SieveClear(c) ==
  [c EXCEPT !.data = Empty, !.order = <<>>, !.visited = {}, !.hand = None, !.size = 0]

(* Bits and hand belong to nodes of the list. *)
SieveBooksAgree(c) ==
  /\ Lists(c.order, Cached(c))
  /\ c.visited \subseteq Cached(c)
  /\ c.hand \in Cached(c) \cup {None}
=============================================================================
