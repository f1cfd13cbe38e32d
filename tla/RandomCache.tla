---------------------------- MODULE RandomCache ----------------------------
(***************************************************************************)
(* RandomEviction.  The victim is any key: random.randrange is a choice.   *)
(* A list of the keys, with each key's index in it, makes removal cheap;   *)
(* indices count from 1 here.                                              *)
(***************************************************************************)
EXTENDS CacheBase

RandomNew(capacity) ==
  [policy |-> "random", capacity |-> capacity, size |-> 0, data |-> Empty,
   keys |-> <<>>, keyIndex |-> Empty]

RandomGet(c, k) == c

(* The last key takes the place of the removed one. *)
RemoveKey(c, k) ==
  LET i == c.keyIndex[k]
      last == c.keys[Len(c.keys)]
      filled == [c.keys EXCEPT ![i] = last]
  IN  Sized([c EXCEPT !.data = Without(c.data, k),
                      !.keys = SubSeq(filled, 1, Len(filled) - 1),
                      !.keyIndex = Without([c.keyIndex EXCEPT ![last] = i], k)])

Evictions(c) == {RemoveKey(c, c.keys[i]) : i \in DOMAIN c.keys}

RandomInsert(c, k, v) ==
  Sized([c EXCEPT !.data = Assign(c.data, k, v),
                  !.keys = Append(c.keys, k),
                  !.keyIndex = Assign(c.keyIndex, k, Len(c.keys) + 1)])

(* The caches that may result. *)
RandomPut(c, k, v) ==
  IF k \in Cached(c)
  THEN {[c EXCEPT !.data[k] = v]}
  ELSE {RandomInsert(e, k, v) : e \in IF Full(c) THEN Evictions(c) ELSE {c}}

RandomInvalidate(c, k) == IF k \in Cached(c) THEN RemoveKey(c, k) ELSE c

RandomClear(c) == [c EXCEPT !.data = Empty, !.keys = <<>>, !.keyIndex = Empty, !.size = 0]

(* keys lists the cached keys, and keyIndex says where. *)
RandomBooksAgree(c) ==
  /\ Lists(c.keys, Cached(c))
  /\ DOMAIN c.keyIndex = Cached(c)
  /\ \A k \in Cached(c) : c.keyIndex[k] \in DOMAIN c.keys /\ c.keys[c.keyIndex[k]] = k
=============================================================================
