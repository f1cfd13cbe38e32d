----------------------------- MODULE SlruCache -----------------------------
(***************************************************************************)
(* SLRUEviction.  Two OrderedDicts: probation, where keys enter and leave, *)
(* and protected, for keys that were read again.  data holds the items of  *)
(* both.                                                                   *)
(***************************************************************************)
EXTENDS CacheBase

(* 0.8 of the capacity, at least 1, leaving 1 for probation. *)
ProtectedCap(capacity) ==
  LET share == (capacity * 8) \div 10
      atLeast1 == IF share < 1 THEN 1 ELSE share
  IN  IF capacity - atLeast1 < 1 THEN capacity - 1 ELSE atLeast1

SlruNew(capacity) ==
  [policy |-> "slru", capacity |-> capacity, size |-> 0, data |-> Empty,
   probation |-> <<>>, protected |-> <<>>, protectedCap |-> ProtectedCap(capacity)]

IsProtected(c, k) == k \in Elements(c.protected)

Promote_Not(c, k) == [c EXCEPT !.probation = Append(@, k)]

(* k has left probation; a full protected segment gives its oldest key up. *)
Promote(c, k) ==
  CASE c.protectedCap = 0 ->
         [c EXCEPT !.probation = Append(@, k)]
    [] c.protectedCap > 0 /\ Len(c.protected) >= c.protectedCap ->
         [c EXCEPT !.probation = Append(@, Head(c.protected)),
                   !.protected = Append(Tail(@), k)]
    [] OTHER ->
         [c EXCEPT !.protected = Append(@, k)]

SlruGet(c, k) ==
  CASE IsProtected(c, k) -> [c EXCEPT !.protected = MoveToEnd(@, k)]
    [] k \in Cached(c) /\ ~IsProtected(c, k) ->
         Promote([c EXCEPT !.probation = Remove(@, k)], k)
    [] OTHER -> c

SlruEvict(c) ==
  IF c.probation # <<>>
  THEN [c EXCEPT !.data = Without(@, Head(c.probation)), !.probation = Tail(@)]
  ELSE [c EXCEPT !.data = Without(@, Head(c.protected)), !.protected = Tail(@)]

SlruInsert(c, k, v) == Sized([c EXCEPT !.data = Assign(@, k, v), !.probation = Append(@, k)])

(* An update does not promote. *)
SlruPut(c, k, v) ==
  CASE IsProtected(c, k) -> [c EXCEPT !.data[k] = v, !.protected = MoveToEnd(@, k)]
    [] k \in Cached(c) /\ ~IsProtected(c, k) -> [c EXCEPT !.data[k] = v]
    [] OTHER -> SlruInsert(IF Full(c) THEN SlruEvict(c) ELSE c, k, v)

SlruInvalidate(c, k) ==
  IF k \in Cached(c)
  THEN Sized([c EXCEPT !.data = Without(@, k), !.probation = Remove(@, k),
                       !.protected = Remove(@, k)])
  ELSE c

SlruClear(c) ==
  [c EXCEPT !.data = Empty, !.probation = <<>>, !.protected = <<>>, !.size = 0]

(* A cached key is in one of the segments, once, and neither is too long. *)
SlruBooksAgree(c) ==
  /\ Lists(c.probation \o c.protected, Cached(c))
  /\ Len(c.protected) <= c.protectedCap
=============================================================================
