----------------------------- MODULE CacheProofs -----------------------------
(***************************************************************************)
(* Proofs about CachedStore: that reads through the cache are reads of the *)
(* state machine, that every policy's books are right and within the       *)
(* capacity, and that LRU, LFU, SLRU and SIEVE evict the key they promise. *)
(***************************************************************************)
EXTENDS CacheInvariants, FiniteSetTheorems, NaturalsInduction, SequenceTheorems, TLAPS

-----------------------------------------------------------------------------
(* Sets of numbers. *)

\* Every non-empty set of naturals has a least element.
LEMMA LeastExists ==
    ASSUME NEW S \in SUBSET Nat, S # {}
    PROVE  \E x \in S : \A y \in S : x <= y
<1>1. PICK x \in S : \A y \in S : ~(<<y, x>> \in OpToRel(<, Nat))
    BY NatLessThanWellFounded, WFMin
<1>2. \A y \in S : ~(y < x)
    BY <1>1 DEF OpToRel
<1> QED
    BY <1>2

\* Least picks it.
LEMMA LeastIsLeast ==
    ASSUME NEW S \in SUBSET Nat, S # {}
    PROVE  /\ Least(S) \in S
           /\ \A y \in S : Least(S) <= y
BY LeastExists DEF Least

\* It is the only one.
LEMMA OneLeast ==
    ASSUME NEW S \in SUBSET Nat, NEW x \in S, \A y \in S : x <= y
    PROVE  Least(S) = x
<1>1. Least(S) \in S /\ Least(S) <= x
    BY LeastIsLeast
<1>2. x <= Least(S)
    BY <1>1
<1>3. x \in Nat /\ Least(S) \in Nat
    BY <1>1, Zenon
<1> QED
    BY <1>1, <1>2, <1>3

-----------------------------------------------------------------------------
(* Sequences that list a set. *)

\* A list of a set is a sequence over it, and over every larger set.
LEMMA ListOf ==
    ASSUME NEW S, NEW order, Enumerates(order, S)
    PROVE  /\ order \in Seq(S)
           /\ Len(order) \in Nat
           /\ DOMAIN order = 1..Len(order)
           /\ \A i \in 1..Len(order) : order[i] \in S
           /\ \A i, j \in 1..Len(order) : order[i] = order[j] => i = j
           /\ \A k \in S : \E i \in 1..Len(order) : order[i] = k
           /\ \A T : S \subseteq T => order \in Seq(T)
           /\ order = <<>> <=> S = {}
<1>1. order \in Seq(S) /\ Elements(order) = S
    BY DEF Enumerates
<1>2. DOMAIN order = 1..Len(order) /\ Len(order) \in Nat
    BY <1>1
<1>3. \A i, j \in 1..Len(order) : order[i] = order[j] => i = j
    BY <1>2 DEF Enumerates
<1>4. \A k \in S : \E i \in 1..Len(order) : order[i] = k
    BY <1>1, <1>2 DEF Elements
<1>5. \A T : S \subseteq T => order \in Seq(T)
    BY <1>1
<1>6. \A i \in 1..Len(order) : order[i] \in S
    BY <1>1, <1>2
<1>7. order = <<>> <=> S = {}
    BY <1>1, <1>4, <1>6
<1> QED
    BY <1>1, <1>2, <1>3, <1>4, <1>5, <1>6, <1>7

\* And whoever has these properties is a list of S.
LEMMA IsList ==
    ASSUME NEW S, NEW order \in Seq(S),
           \A i, j \in 1..Len(order) : order[i] = order[j] => i = j,
           \A k \in S : \E i \in 1..Len(order) : order[i] = k
    PROVE  Enumerates(order, S)
<1>1. DOMAIN order = 1..Len(order) /\ \A i \in 1..Len(order) : order[i] \in S
    OBVIOUS
<1>2. Elements(order) = S
    BY <1>1 DEF Elements
<1> QED
    BY <1>1, <1>2 DEF Enumerates

\* Listing a set is what Lists says of it.
LEMMA ListsSet ==
    ASSUME NEW S, NEW order, Enumerates(order, S)
    PROVE  /\ IsFiniteSet(S)
           /\ Len(order) = Cardinality(S)
           /\ Lists(order, S)
<1>1. order \in Bijection(1..Len(order), S)
  <2>1. order \in [1..Len(order) -> S]
      BY ListOf
  <2>2. IsInjective(order)
    <3>1. \A i, j \in DOMAIN order : order[i] = order[j] => i = j
        BY DEF Enumerates
    <3> QED
        BY <3>1 DEF IsInjective
  <2>3. \A k \in S : \E i \in 1..Len(order) : order[i] = k
      BY ListOf
  <2> QED
      BY <2>1, <2>2, <2>3 DEF Bijection, Injection, Surjection
<1>2. IsFiniteSet(1..Len(order)) /\ Cardinality(1..Len(order)) = Len(order)
  <2>1. Len(order) \in Nat
      BY ListOf
  <2>2. /\ IsFiniteSet(1..Len(order))
        /\ Cardinality(1..Len(order)) = IF 1 > Len(order) THEN 0 ELSE Len(order) - 1 + 1
      BY <2>1, FS_Interval
  <2> QED
      BY <2>1, <2>2
<1>3. IsFiniteSet(S) /\ Cardinality(S) = Len(order)
    BY <1>1, <1>2, FS_Bijection DEF ExistsBijection
<1>4. Elements(order) = S
    BY DEF Enumerates
<1> QED
    BY <1>3, <1>4 DEF Lists

\* The empty sequence.
LEMMA NothingListed == Enumerates(<<>>, {})
BY DEF Enumerates, Elements

\* Where a key stands.
LEMMA IndexOfKey ==
    ASSUME NEW S, NEW order, Enumerates(order, S), NEW k \in S
    PROVE  /\ IndexOf(order, k) \in 1..Len(order)
           /\ order[IndexOf(order, k)] = k
           /\ k \in Elements(order)
BY ListOf DEF IndexOf, Elements

\* Removing a key closes the gap.
LEMMA RemovedKey ==
    ASSUME NEW S, NEW order, Enumerates(order, S), NEW k \in S
    PROVE  /\ Remove(order, k) \in Seq(S)
           /\ Len(Remove(order, k)) = Len(order) - 1
           /\ \A j \in 1..(Len(order) - 1) :
                Remove(order, k)[j] = IF j < IndexOf(order, k) THEN order[j] ELSE order[j + 1]
<1> DEFINE i == IndexOf(order, k)
           front == SubSeq(order, 1, i - 1)
           rest == SubSeq(order, i + 1, Len(order))
<1>1. order \in Seq(S) /\ Len(order) \in Nat /\ i \in 1..Len(order)
    BY ListOf, IndexOfKey
<1>2. Remove(order, k) = front \o rest
    BY IndexOfKey DEF Remove
<1> HIDE DEF i
<1>3. /\ front \in Seq(S) /\ Len(front) = i - 1
      /\ \A j \in 1..(i - 1) : front[j] = order[j]
    BY <1>1
<1>4. /\ rest \in Seq(S) /\ Len(rest) = Len(order) - i
      /\ \A j \in 1..(Len(order) - i) : rest[j] = order[j + i]
    BY <1>1
<1> HIDE DEF front, rest
<1>5. /\ front \o rest \in Seq(S)
      /\ Len(front \o rest) = Len(front) + Len(rest)
      /\ \A j \in 1..(Len(front) + Len(rest)) :
           (front \o rest)[j] = IF j <= Len(front) THEN front[j] ELSE rest[j - Len(front)]
    BY <1>3, <1>4, ConcatProperties
<1>6. ASSUME NEW j \in 1..(Len(order) - 1)
      PROVE  (front \o rest)[j] = IF j < i THEN order[j] ELSE order[j + 1]
  <2>1. CASE j < i
      BY <1>1, <1>3, <1>4, <1>5, <2>1
  <2>2. CASE j >= i
    <3>1. j - Len(front) \in 1..(Len(order) - i)
        BY <1>1, <1>3, <2>2
    <3>2. rest[j - Len(front)] = order[j - Len(front) + i]
        BY <1>4, <3>1
    <3>3. j - Len(front) + i = j + 1 /\ ~(j <= Len(front)) /\ j \in 1..(Len(front) + Len(rest))
        BY <1>1, <1>3, <1>4, <2>2
    <3>4. (front \o rest)[j] = order[j + 1]
        BY <1>5, <3>2, <3>3
    <3>5. ~(j < i)
        BY <1>1, <2>2
    <3> QED
        BY <3>4, <3>5
  <2>3. j < i \/ j >= i
      BY <1>1
  <2> QED
      BY <2>1, <2>2, <2>3, Zenon
<1> QED
    BY <1>1, <1>2, <1>3, <1>4, <1>5, <1>6 DEF i

\* A key that is not listed is not removed.
LEMMA NothingRemoved ==
    ASSUME NEW S, NEW order, Enumerates(order, S), NEW k, k \notin S
    PROVE  Remove(order, k) = order
BY DEF Enumerates, Remove

\* What remains is a list of the other keys, in the same order.
LEMMA RemoveFromList ==
    ASSUME NEW S, NEW order, Enumerates(order, S), NEW k
    PROVE  /\ Enumerates(Remove(order, k), S \ {k})
           /\ \A x, y \in S \ {k} : Before(order, x, y) => Before(Remove(order, k), x, y)
<1>1. CASE k \notin S
  <2>1. S \ {k} = S /\ Remove(order, k) = order
      BY <1>1, NothingRemoved
  <2> QED
      BY <2>1
<1>2. CASE k \in S
  <2> DEFINE i == IndexOf(order, k)
             new == Remove(order, k)
             n == Len(order)
  <2>1. /\ new \in Seq(S) /\ Len(new) = n - 1 /\ n \in Nat
        /\ \A j \in 1..(n - 1) : new[j] = IF j < i THEN order[j] ELSE order[j + 1]
      BY <1>2, RemovedKey, ListOf
  <2>2. /\ i \in 1..n /\ order[i] = k
        /\ \A a, b \in 1..n : order[a] = order[b] => a = b
        /\ \A x \in S : \E a \in 1..n : order[a] = x
        /\ \A a \in 1..n : order[a] \in S
        /\ DOMAIN order = 1..n
    <3>1. i \in 1..n /\ order[i] = k
        BY <1>2, IndexOfKey
    <3> QED
        BY <3>1, ListOf
  <2> HIDE DEF i, new, n
  \* From a position of the new list to the one of the old, and back.
  <2> DEFINE Old(j) == IF j < i THEN j ELSE j + 1
             New(a) == IF a < i THEN a ELSE a - 1
  <2>3. \A j \in 1..(n - 1) : Old(j) \in 1..n /\ Old(j) # i /\ new[j] = order[Old(j)]
      BY <2>1, <2>2
  <2>4. \A a \in 1..n : a # i => New(a) \in 1..(n - 1) /\ Old(New(a)) = a
      BY <2>1, <2>2
  <2>5. \A a, b \in 1..n : a # i /\ b # i /\ a < b => New(a) < New(b)
      BY <2>1, <2>2
  <2>6. \A a, b \in 1..(n - 1) : Old(a) = Old(b) => a = b
      BY <2>1, <2>2
  <2> HIDE DEF Old, New
  <2>7. DOMAIN new = 1..(n - 1)
      BY <2>1
  <2>8. \A j \in 1..(n - 1) : new[j] \in S \ {k}
      BY <2>2, <2>3
  <2>9. new \in Seq(S \ {k})
      BY <2>1, <2>8
  <2>10. \A a, b \in 1..Len(new) : new[a] = new[b] => a = b
      BY <2>1, <2>2, <2>3, <2>6
  <2>11. \A x \in S \ {k} : \E a \in 1..Len(new) : new[a] = x
    <3> SUFFICES ASSUME NEW x \in S \ {k}
                 PROVE  \E a \in 1..Len(new) : new[a] = x
        OBVIOUS
    <3>1. PICK a \in 1..n : order[a] = x
        BY <2>2
    <3>2. a # i
        BY <2>2, <3>1
    <3> QED
        BY <2>1, <2>3, <2>4, <3>1, <3>2
  <2>12. Enumerates(new, S \ {k})
      BY <2>9, <2>10, <2>11, IsList
  <2>13. ASSUME NEW x \in S \ {k}, NEW y \in S \ {k}, Before(order, x, y)
         PROVE  Before(new, x, y)
    <3>1. PICK a \in 1..n, b \in 1..n : a < b /\ order[a] = x /\ order[b] = y
        BY <2>2, <2>13 DEF Before
    <3>2. a # i /\ b # i
        BY <2>2, <3>1
    <3>3. new[New(a)] = x /\ new[New(b)] = y /\ New(a) < New(b)
        BY <2>3, <2>4, <2>5, <3>1, <3>2
    <3>4. New(a) \in DOMAIN new /\ New(b) \in DOMAIN new
        BY <2>4, <2>7, <3>2
    <3> QED
        BY <3>3, <3>4 DEF Before
  <2> QED
      BY <2>12, <2>13 DEF new
<1> QED
    BY <1>1, <1>2

\* Appending a new key.
LEMMA AppendToList ==
    ASSUME NEW S, NEW order, Enumerates(order, S), NEW k, k \notin S
    PROVE  /\ Enumerates(Append(order, k), S \cup {k})
           /\ \A x, y \in S : Before(order, x, y) => Before(Append(order, k), x, y)
           /\ \A x \in S : Before(Append(order, k), x, k)
<1> DEFINE n == Len(order)
           new == Append(order, k)
<1>1. /\ order \in Seq(S \cup {k}) /\ n \in Nat /\ DOMAIN order = 1..n
      /\ \A a, b \in 1..n : order[a] = order[b] => a = b
      /\ \A x \in S : \E a \in 1..n : order[a] = x
      /\ \A a \in 1..n : order[a] \in S
    BY ListOf
<1>2. /\ new \in Seq(S \cup {k}) /\ Len(new) = n + 1 /\ DOMAIN new = 1..(n + 1)
      /\ \A a \in 1..n : new[a] = order[a]
      /\ new[n + 1] = k
    BY <1>1, AppendProperties
<1> HIDE DEF n, new
<1>3. \A a, b \in 1..Len(new) : new[a] = new[b] => a = b
  <2> SUFFICES ASSUME NEW a \in 1..(n + 1), NEW b \in 1..(n + 1), new[a] = new[b]
               PROVE  a = b
      BY <1>2
  <2>1. (a \in 1..n \/ a = n + 1) /\ (b \in 1..n \/ b = n + 1)
      BY <1>1
  <2> QED
      BY <1>1, <1>2, <2>1
<1>4. 1..n \subseteq 1..(n + 1) /\ n + 1 \in 1..(n + 1) /\ \A a \in 1..n : a < n + 1
    BY <1>1
<1>5. \A x \in S \cup {k} : \E a \in 1..Len(new) : new[a] = x
    BY <1>1, <1>2, <1>4
<1>6. Enumerates(new, S \cup {k})
    BY <1>2, <1>3, <1>5, IsList
<1>7. \A x, y \in S : Before(order, x, y) => Before(new, x, y)
    BY <1>1, <1>2, <1>4 DEF Before
<1>8. \A x \in S : Before(new, x, k)
    BY <1>1, <1>2, <1>4 DEF Before
<1> QED
    BY <1>6, <1>7, <1>8 DEF new

\* Moving a key to the end.
LEMMA MoveInList ==
    ASSUME NEW S, NEW order, Enumerates(order, S), NEW k \in S
    PROVE  Enumerates(MoveToEnd(order, k), S)
<1>1. Enumerates(Remove(order, k), S \ {k})
    BY RemoveFromList
<1>2. Enumerates(Append(Remove(order, k), k), (S \ {k}) \cup {k})
    BY <1>1, AppendToList
<1>3. (S \ {k}) \cup {k} = S
    OBVIOUS
<1> QED
    BY <1>2, <1>3 DEF MoveToEnd

\* Taking the first key.
LEMMA TakeFirst ==
    ASSUME NEW S, NEW order, Enumerates(order, S), S # {}
    PROVE  /\ Head(order) \in S
           /\ Head(order) = order[1]
           /\ 1 \in DOMAIN order
           /\ Tail(order) = Remove(order, Head(order))
           /\ Enumerates(Tail(order), S \ {Head(order)})
<1> DEFINE n == Len(order)
           h == Head(order)
<1>1. /\ order \in Seq(S) /\ n \in Nat /\ order # <<>> /\ n > 0 /\ DOMAIN order = 1..n
      /\ \A a, b \in 1..n : order[a] = order[b] => a = b
    BY ListOf
<1>2. /\ h \in S /\ h = order[1]
      /\ Tail(order) \in Seq(S) /\ Len(Tail(order)) = n - 1
      /\ \A i \in 1..(n - 1) : Tail(order)[i] = order[i + 1]
    BY <1>1, HeadTailProperties
<1> HIDE DEF n, h
<1>3. IndexOf(order, h) = 1
    BY <1>1, <1>2, IndexOfKey DEF n
<1>4. /\ Remove(order, h) \in Seq(S) /\ Len(Remove(order, h)) = n - 1
      /\ \A j \in 1..(n - 1) : Remove(order, h)[j] = IF j < 1 THEN order[j] ELSE order[j + 1]
  <2>1. /\ Remove(order, h) \in Seq(S) /\ Len(Remove(order, h)) = Len(order) - 1
        /\ \A j \in 1..(Len(order) - 1) :
             Remove(order, h)[j] = IF j < IndexOf(order, h) THEN order[j] ELSE order[j + 1]
    <3>1. h \in S
        BY <1>2
    <3> QED
        BY <3>1, RemovedKey
  <2> QED
      BY <1>3, <2>1 DEF n
<1>5. Tail(order) = Remove(order, h)
    BY <1>1, <1>2, <1>4, SeqEqual
<1>6. Enumerates(Remove(order, h), S \ {h})
    BY RemoveFromList
<1>7. 1 \in DOMAIN order
    BY <1>1
<1> QED
    BY <1>2, <1>5, <1>6, <1>7 DEF h

\* Joining lists of different keys.
LEMMA JoinLists ==
    ASSUME NEW S, NEW T, NEW s, NEW t, Enumerates(s, S), Enumerates(t, T), S \cap T = {}
    PROVE  Enumerates(s \o t, S \cup T)
<1> DEFINE m == Len(s)
           n == Len(t)
           new == s \o t
<1>1. /\ s \in Seq(S \cup T) /\ m \in Nat
      /\ \A a, b \in 1..m : s[a] = s[b] => a = b
      /\ \A x \in S : \E a \in 1..m : s[a] = x
      /\ \A a \in 1..m : s[a] \in S
    BY ListOf
<1>2. /\ t \in Seq(S \cup T) /\ n \in Nat
      /\ \A a, b \in 1..n : t[a] = t[b] => a = b
      /\ \A x \in T : \E a \in 1..n : t[a] = x
      /\ \A a \in 1..n : t[a] \in T
    BY ListOf
<1>3. /\ new \in Seq(S \cup T) /\ Len(new) = m + n
      /\ \A i \in 1..(m + n) : new[i] = IF i <= m THEN s[i] ELSE t[i - m]
    BY <1>1, <1>2, ConcatProperties
<1> HIDE DEF m, n, new
<1>4. \A i \in 1..(m + n) : \/ i \in 1..m /\ new[i] = s[i]
                            \/ i - m \in 1..n /\ new[i] = t[i - m]
    BY <1>1, <1>2, <1>3
<1>5. \A a, b \in 1..Len(new) : new[a] = new[b] => a = b
  <2> SUFFICES ASSUME NEW a \in 1..(m + n), NEW b \in 1..(m + n), new[a] = new[b]
               PROVE  a = b
      BY <1>3
  <2>1. CASE a \in 1..m /\ new[a] = s[a] /\ b \in 1..m /\ new[b] = s[b]
      BY <1>1, <2>1
  <2>2. CASE a \in 1..m /\ new[a] = s[a] /\ b - m \in 1..n /\ new[b] = t[b - m]
      BY <1>1, <1>2, <2>2
  <2>3. CASE a - m \in 1..n /\ new[a] = t[a - m] /\ b \in 1..m /\ new[b] = s[b]
      BY <1>1, <1>2, <2>3
  <2>4. CASE a - m \in 1..n /\ new[a] = t[a - m] /\ b - m \in 1..n /\ new[b] = t[b - m]
    <3>1. a - m = b - m
        BY <1>2, <2>4
    <3> QED
        BY <1>1, <3>1
  <2> QED
      BY <1>4, <2>1, <2>2, <2>3, <2>4
<1>6. \A x \in S \cup T : \E a \in 1..Len(new) : new[a] = x
  <2> SUFFICES ASSUME NEW x \in S \cup T
               PROVE  \E a \in 1..(m + n) : new[a] = x
      BY <1>3
  <2>1. CASE x \in S
    <3>1. PICK a \in 1..m : s[a] = x
        BY <1>1, <2>1
    <3>2. a \in 1..(m + n) /\ a <= m
        BY <1>1, <1>2
    <3> QED
        BY <1>3, <3>1, <3>2
  <2>2. CASE x \in T
    <3>1. PICK b \in 1..n : t[b] = x
        BY <1>2, <2>2
    <3>2. b + m \in 1..(m + n) /\ (b + m) - m = b /\ ~(b + m <= m)
        BY <1>1, <1>2
    <3>3. \A i \in 1..(m + n) : i - m = b /\ ~(i <= m) => new[i] = x
        BY <1>3, <3>1
    <3>4. new[b + m] = x
        BY <1>1, <1>2, <3>2, <3>3
    <3> QED
        BY <1>1, <1>2, <3>2, <3>4
  <2> QED
      BY <2>1, <2>2
<1>7. Enumerates(new, S \cup T)
    BY <1>3, <1>5, <1>6, IsList
<1> QED
    BY <1>7 DEF new

-----------------------------------------------------------------------------
(* What every policy keeps of its promises. *)

\* d is the cache c after k was put with the value v.
HasPut(c, d, k, v) ==
  /\ d.policy = c.policy
  /\ k \in Cached(d) /\ d.data[k] = v
  /\ \A j \in Cached(d) \ {k} : j \in Cached(c) /\ d.data[j] = c.data[j]
  /\ k \in Cached(c) => Cached(d) = Cached(c)
  /\ k \notin Cached(c) =>
       \/ Cached(d) = Cached(c) \cup {k}
       \/ \E victim \in Cached(c) : Cached(d) = (Cached(c) \ {victim}) \cup {k}

\* d is the cache c after k was dropped.
HasDropped(c, d, k) ==
  /\ d.policy = c.policy
  /\ Cached(d) = Cached(c) \ {k}
  /\ \A j \in Cached(d) : d.data[j] = c.data[j]

\* d holds what c holds.
HoldsTheSame(c, d) == d.policy = c.policy /\ d.data = c.data

\* A map without one of its keys.
LEMMA WithoutKey ==
    ASSUME NEW f, NEW k, NEW T, f \in [DOMAIN f -> T]
    PROVE  /\ DOMAIN Without(f, k) = DOMAIN f \ {k}
           /\ Without(f, k) \in [DOMAIN f \ {k} -> T]
           /\ \A j \in DOMAIN f \ {k} : Without(f, k)[j] = f[j]
BY DEF Without

\* A map with one more, or another value for one.
LEMMA AssignKey ==
    ASSUME NEW f, NEW k, NEW T, f \in [DOMAIN f -> T], NEW v \in T
    PROVE  /\ DOMAIN Assign(f, k, v) = DOMAIN f \cup {k}
           /\ Assign(f, k, v) \in [DOMAIN f \cup {k} -> T]
           /\ Assign(f, k, v)[k] = v
           /\ \A j \in DOMAIN f \ {k} : Assign(f, k, v)[j] = f[j]
BY DEF Assign

\* The number of keys, one more or one less.
LEMMA CountKeys ==
    ASSUME NEW S, IsFiniteSet(S), NEW k
    PROVE  /\ Cardinality(S) \in Nat
           /\ IsFiniteSet(S \ {k}) /\ IsFiniteSet(S \cup {k})
           /\ Cardinality(S \ {k}) \in Nat /\ Cardinality(S \cup {k}) \in Nat
           /\ k \in S => Cardinality(S \ {k}) = Cardinality(S) - 1
           /\ k \notin S => Cardinality(S \cup {k}) = Cardinality(S) + 1
           /\ Cardinality(S \ {k}) <= Cardinality(S)
<1>1. Cardinality(S) \in Nat
    BY FS_CardinalityType
<1>2. /\ IsFiniteSet(S \ {k})
      /\ Cardinality(S \ {k}) = IF k \in S THEN Cardinality(S) - 1 ELSE Cardinality(S)
    BY FS_RemoveElement
<1>3. /\ IsFiniteSet(S \cup {k})
      /\ Cardinality(S \cup {k}) = IF k \in S THEN Cardinality(S) ELSE Cardinality(S) + 1
    BY FS_AddElement
<1>4. Cardinality(S \ {k}) \in Nat /\ Cardinality(S \cup {k}) \in Nat
    BY <1>2, <1>3, FS_CardinalityType
<1> QED
    BY <1>1, <1>2, <1>3, <1>4

-----------------------------------------------------------------------------
(* FIFO and LRU. *)

\* What a queue is, whatever its statistic says.
QueueShape(c, policy) ==
  /\ c.policy = policy
  /\ c \in [policy : Policies, capacity : Nat \ {0}, size : Nat, data : [Cached(c) -> Value],
            order : Seq(Key)]
  /\ Cached(c) \subseteq Key
  /\ IsFiniteSet(Cached(c))
  /\ Enumerates(c.order, Cached(c))

\* Evicting the first key.
LEMMA QueueEviction ==
    ASSUME NEW c, NEW policy, QueueShape(c, policy), Cached(c) # {}
    PROVE  /\ QueueShape(LruEvict(c), policy)
           /\ FifoEvict(c) = LruEvict(c)
           /\ Head(c.order) \in Cached(c)
           /\ Cached(LruEvict(c)) = Cached(c) \ {Head(c.order)}
           /\ \A j \in Cached(LruEvict(c)) : LruEvict(c).data[j] = c.data[j]
           /\ LruEvict(c).order = Remove(c.order, Head(c.order))
           /\ LruEvict(c).capacity = c.capacity
<1> DEFINE h == Head(c.order)
           d == LruEvict(c)
<1>1. /\ c \in [policy : Policies, capacity : Nat \ {0}, size : Nat, data : [Cached(c) -> Value],
                order : Seq(Key)]
      /\ Cached(c) \subseteq Key /\ IsFiniteSet(Cached(c)) /\ Enumerates(c.order, Cached(c))
    BY DEF QueueShape
<1>2. /\ h \in Cached(c) /\ Tail(c.order) = Remove(c.order, h)
      /\ Enumerates(Tail(c.order), Cached(c) \ {h})
    BY <1>1, TakeFirst
<1>3. /\ DOMAIN Without(c.data, h) = Cached(c) \ {h}
      /\ Without(c.data, h) \in [Cached(c) \ {h} -> Value]
      /\ \A j \in Cached(c) \ {h} : Without(c.data, h)[j] = c.data[j]
    BY <1>1 DEF Without, Cached
<1>4. Tail(c.order) \in Seq(Key)
    BY <1>1, <1>2, ListOf
<1>5. FifoEvict(c) = d
    BY DEF FifoEvict, LruEvict
<1>6. /\ d.policy = c.policy /\ d.capacity = c.capacity
      /\ d.data = Without(c.data, h) /\ d.order = Tail(c.order)
    BY <1>1 DEF LruEvict
<1>7. d \in [policy : Policies, capacity : Nat \ {0}, size : Nat, data : [Cached(c) \ {h} -> Value],
             order : Seq(Key)]
    BY <1>1, <1>3, <1>4 DEF LruEvict
<1> HIDE DEF h, d
<1>8. Cached(d) = Cached(c) \ {h}
    BY <1>3, <1>6 DEF Cached
<1>9. QueueShape(d, policy)
  <2>1. d.policy = policy
      BY <1>6 DEF QueueShape
  <2> QED
      BY <1>1, <1>2, <1>6, <1>7, <1>8, <2>1, CountKeys DEF QueueShape
<1>10. \A j \in Cached(d) : d.data[j] = c.data[j]
    BY <1>3, <1>6, <1>8
<1>11. d.order = Remove(c.order, h)
    BY <1>2, <1>6
<1> QED
    BY <1>2, <1>5, <1>6, <1>8, <1>9, <1>10, <1>11 DEF h, d

\* A queue whose statistic is right.
LEMMA QueueIsShape ==
    ASSUME NEW c, NEW policy
    PROVE  QueueInv(c, policy) <=>
             QueueShape(c, policy) /\ c.size = Cardinality(Cached(c)) /\ c.size <= c.capacity
BY DEF QueueInv, QueueShape, SizeInv

\* A full cache is not empty, and without one of its keys no longer full.
LEMMA RoomAfterEviction ==
    ASSUME NEW S, IsFiniteSet(S), NEW n \in Nat \ {0}, Cardinality(S) <= n
    PROVE  /\ Cardinality(S) >= n => S # {}
           /\ \A k \in S : Cardinality(S \ {k}) < n
           /\ ~(Cardinality(S) >= n) => Cardinality(S) < n
<1>1. Cardinality(S) \in Nat
    BY FS_CardinalityType
<1>2. S = {} => Cardinality(S) = 0
    BY FS_EmptySet
<1>3. \A k \in S : Cardinality(S \ {k}) = Cardinality(S) - 1
    BY CountKeys
<1> QED
    BY <1>1, <1>2, <1>3

\* Inserting a new key where there is room.
LEMMA QueueInsertion ==
    ASSUME NEW c, NEW policy, QueueShape(c, policy), Cardinality(Cached(c)) < c.capacity,
           NEW k \in Key, k \notin Cached(c), NEW v \in Value
    PROVE  /\ QueueInv(LruInsert(c, k, v), policy)
           /\ FifoInsert(c, k, v) = LruInsert(c, k, v)
           /\ Cached(LruInsert(c, k, v)) = Cached(c) \cup {k}
           /\ LruInsert(c, k, v).data[k] = v
           /\ \A j \in Cached(c) : LruInsert(c, k, v).data[j] = c.data[j]
           /\ LruInsert(c, k, v).order = Append(c.order, k)
<1> DEFINE e == [c EXCEPT !.data = Assign(c.data, k, v), !.order = Append(c.order, k)]
           d == LruInsert(c, k, v)
           S == Cached(c) \cup {k}
<1>1. /\ c \in [policy : Policies, capacity : Nat \ {0}, size : Nat, data : [Cached(c) -> Value],
                order : Seq(Key)]
      /\ Cached(c) \subseteq Key /\ IsFiniteSet(Cached(c)) /\ Enumerates(c.order, Cached(c))
    BY DEF QueueShape
<1>2. /\ IsFiniteSet(S) /\ Cardinality(S) \in Nat /\ Cardinality(S) = Cardinality(Cached(c)) + 1
      /\ Cardinality(Cached(c)) \in Nat /\ c.capacity \in Nat
    BY <1>1, CountKeys
<1>3. /\ DOMAIN Assign(c.data, k, v) = S /\ Assign(c.data, k, v) \in [S -> Value]
      /\ Assign(c.data, k, v)[k] = v
      /\ \A j \in Cached(c) : Assign(c.data, k, v)[j] = c.data[j]
    BY <1>1 DEF Assign, Cached
<1>4. Enumerates(Append(c.order, k), S) /\ S \subseteq Key
    BY <1>1, AppendToList
<1>5. Append(c.order, k) \in Seq(Key)
    BY <1>1
<1>6. /\ e.policy = c.policy /\ e.capacity = c.capacity
      /\ e.data = Assign(c.data, k, v) /\ e.order = Append(c.order, k)
      /\ e \in [policy : Policies, capacity : Nat \ {0}, size : Nat, data : [S -> Value],
                order : Seq(Key)]
    BY <1>1, <1>3, <1>5
<1>7. d = [e EXCEPT !.size = Cardinality(S)]
    BY <1>3, <1>6 DEF LruInsert, Sized, Cached
<1>8. FifoInsert(c, k, v) = d
    BY DEF FifoInsert, LruInsert
<1> HIDE DEF e, d, S
<1>9. /\ d.policy = c.policy /\ d.capacity = c.capacity /\ d.size = Cardinality(S)
      /\ d.data = Assign(c.data, k, v) /\ d.order = Append(c.order, k)
      /\ d \in [policy : Policies, capacity : Nat \ {0}, size : Nat, data : [S -> Value],
                order : Seq(Key)]
    BY <1>2, <1>6, <1>7
<1>10. Cached(d) = S
    BY <1>3, <1>9 DEF Cached
<1>11. QueueShape(d, policy)
  <2>1. d.policy = policy
      BY <1>9 DEF QueueShape
  <2> QED
      BY <1>2, <1>4, <1>9, <1>10, <2>1 DEF QueueShape
<1>12. QueueInv(d, policy)
    BY <1>2, <1>9, <1>10, <1>11, QueueIsShape
<1> QED
    BY <1>3, <1>8, <1>9, <1>10, <1>12 DEF d, S

\* The list that LRU keeps after put: k at its end, the evicted key gone.
LruOrderAfter(c, d, k) ==
  /\ k \in Cached(c) => d.order = MoveToEnd(c.order, k)
  /\ k \notin Cached(c) =>
       \/ Cached(d) = Cached(c) \cup {k} /\ d.order = Append(c.order, k)
       \/ /\ Head(c.order) \in Cached(c)
          /\ Cached(d) = (Cached(c) \ {Head(c.order)}) \cup {k}
          /\ d.order = Append(Remove(c.order, Head(c.order)), k)

\* put of a key that is not cached.
LEMMA QueueNewKey ==
    ASSUME NEW c, NEW policy, QueueInv(c, policy), NEW k \in Key, k \notin Cached(c), NEW v \in Value
    PROVE  LET d == LruPut(c, k, v)
           IN  /\ FifoPut(c, k, v) = d
               /\ QueueInv(d, policy)
               /\ HasPut(c, d, k, v)
               /\ LruOrderAfter(c, d, k)
<1> DEFINE e == IF Full(c) THEN LruEvict(c) ELSE c
           d == LruPut(c, k, v)
           h == Head(c.order)
<1>1. /\ QueueShape(c, policy) /\ c.size = Cardinality(Cached(c)) /\ c.size <= c.capacity
      /\ IsFiniteSet(Cached(c)) /\ c.capacity \in Nat \ {0}
    BY QueueIsShape DEF QueueShape
<1>2. d = LruInsert(e, k, v)
    BY DEF LruPut
<1>3. FifoPut(c, k, v) = FifoInsert(IF Full(c) THEN FifoEvict(c) ELSE c, k, v)
    BY DEF FifoPut
<1>4. CASE Full(c)
  <2>1. Cached(c) # {}
      BY <1>1, <1>4, RoomAfterEviction DEF Full
  <2>2. /\ QueueShape(e, policy) /\ FifoEvict(c) = e /\ h \in Cached(c)
        /\ Cached(e) = Cached(c) \ {h}
        /\ \A j \in Cached(e) : e.data[j] = c.data[j]
        /\ e.order = Remove(c.order, h) /\ e.capacity = c.capacity
      BY <1>1, <1>4, <2>1, QueueEviction
  <2> HIDE DEF e, d, h
  <2>3. Cardinality(Cached(e)) < e.capacity
      BY <1>1, <2>2, RoomAfterEviction
  <2>4. k \notin Cached(e)
      BY <2>2
  <2>5. /\ QueueInv(d, policy) /\ FifoInsert(e, k, v) = d /\ Cached(d) = Cached(e) \cup {k}
        /\ d.data[k] = v
        /\ \A j \in Cached(e) : d.data[j] = e.data[j]
        /\ d.order = Append(e.order, k)
    <3>1. QueueShape(e, policy)
        BY <2>2
    <3> QED
        BY <1>2, <2>3, <2>4, <3>1, QueueInsertion
  <2>6. FifoPut(c, k, v) = d
      BY <1>3, <1>4, <2>2, <2>5
  <2>7. d.policy = c.policy
      BY <1>1, <2>5 DEF QueueInv, QueueShape
  <2>8. HasPut(c, d, k, v)
      BY <2>2, <2>5, <2>7 DEF HasPut
  <2>9. LruOrderAfter(c, d, k)
      BY <2>2, <2>5 DEF LruOrderAfter, h
  <2> QED
      BY <2>5, <2>6, <2>8, <2>9 DEF d
<1>5. CASE ~Full(c)
  <2>1. e = c
      BY <1>5
  <2> HIDE DEF e, d
  <2>2. Cardinality(Cached(c)) < c.capacity
      BY <1>1, <1>5, RoomAfterEviction DEF Full
  <2>3. /\ QueueInv(d, policy) /\ FifoInsert(c, k, v) = d /\ Cached(d) = Cached(c) \cup {k}
        /\ d.data[k] = v
        /\ \A j \in Cached(c) : d.data[j] = c.data[j]
        /\ d.order = Append(c.order, k)
      BY <1>1, <1>2, <2>1, <2>2, QueueInsertion
  <2>4. FifoPut(c, k, v) = d
      BY <1>3, <1>5, <2>3
  <2>5. d.policy = c.policy
      BY <1>1, <2>3 DEF QueueInv, QueueShape
  <2>6. HasPut(c, d, k, v)
      BY <2>3, <2>5 DEF HasPut
  <2>7. LruOrderAfter(c, d, k)
      BY <2>3 DEF LruOrderAfter
  <2> QED
      BY <2>3, <2>4, <2>6, <2>7 DEF d
<1> QED
    BY <1>4, <1>5

\* A queue with another value for a cached key, or another order.
LEMMA QueueUpdate ==
    ASSUME NEW c, NEW policy, QueueInv(c, policy), NEW d,
           d.policy = c.policy, d.capacity = c.capacity, d.size = c.size,
           d.data \in [Cached(c) -> Value], Enumerates(d.order, Cached(c)),
           d \in [policy : Policies, capacity : Nat \ {0}, size : Nat,
                  data : [Cached(c) -> Value], order : Seq(Key)]
    PROVE  QueueInv(d, policy) /\ Cached(d) = Cached(c)
<1>1. Cached(d) = Cached(c)
    BY DEF Cached
<1>2. QueueShape(c, policy) /\ c.size = Cardinality(Cached(c)) /\ c.size <= c.capacity
    BY QueueIsShape
<1>3. QueueShape(d, policy)
    BY <1>1, <1>2 DEF QueueShape
<1> QED
    BY <1>1, <1>2, <1>3, QueueIsShape

\* put of a key that is cached.
LEMMA LruUpdate ==
    ASSUME NEW c, NEW policy, QueueInv(c, policy), NEW k \in Cached(c), NEW v \in Value
    PROVE  LET d == LruPut(c, k, v)
           IN  /\ QueueInv(d, policy)
               /\ HasPut(c, d, k, v)
               /\ LruOrderAfter(c, d, k)
<1> DEFINE d == LruPut(c, k, v)
           data == [c.data EXCEPT ![k] = v]
<1>1. /\ c \in [policy : Policies, capacity : Nat \ {0}, size : Nat, data : [Cached(c) -> Value],
                order : Seq(Key)]
      /\ Cached(c) \subseteq Key /\ Enumerates(c.order, Cached(c))
    BY DEF QueueInv, SizeInv
<1>2. /\ data \in [Cached(c) -> Value] /\ data[k] = v
      /\ \A j \in Cached(c) \ {k} : data[j] = c.data[j]
    BY <1>1 DEF Cached
<1>3. Enumerates(MoveToEnd(c.order, k), Cached(c))
    BY <1>1, MoveInList
<1>4. MoveToEnd(c.order, k) \in Seq(Key)
    BY <1>1, <1>3, ListOf
<1>5. d = [c EXCEPT !.data = data, !.order = MoveToEnd(c.order, k)]
    BY <1>1 DEF LruPut
<1> HIDE DEF d, data
<1>6. /\ d.policy = c.policy /\ d.capacity = c.capacity /\ d.size = c.size
      /\ d.data = data /\ d.order = MoveToEnd(c.order, k)
      /\ d \in [policy : Policies, capacity : Nat \ {0}, size : Nat, data : [Cached(c) -> Value],
                order : Seq(Key)]
    BY <1>1, <1>2, <1>4, <1>5
<1>7. QueueInv(d, policy) /\ Cached(d) = Cached(c)
    BY <1>2, <1>3, <1>6, QueueUpdate
<1>8. HasPut(c, d, k, v)
    BY <1>2, <1>6, <1>7 DEF HasPut
<1>9. LruOrderAfter(c, d, k)
    BY <1>6 DEF LruOrderAfter
<1> QED
    BY <1>7, <1>8, <1>9 DEF d

LEMMA FifoUpdate ==
    ASSUME NEW c, NEW policy, QueueInv(c, policy), NEW k \in Cached(c), NEW v \in Value
    PROVE  LET d == FifoPut(c, k, v) IN QueueInv(d, policy) /\ HasPut(c, d, k, v)
<1> DEFINE d == FifoPut(c, k, v)
           data == [c.data EXCEPT ![k] = v]
<1>1. /\ c \in [policy : Policies, capacity : Nat \ {0}, size : Nat, data : [Cached(c) -> Value],
                order : Seq(Key)]
      /\ Enumerates(c.order, Cached(c))
    BY DEF QueueInv
<1>2. /\ data \in [Cached(c) -> Value] /\ data[k] = v
      /\ \A j \in Cached(c) \ {k} : data[j] = c.data[j]
    BY <1>1 DEF Cached
<1>3. d = [c EXCEPT !.data = data]
    BY <1>1 DEF FifoPut
<1> HIDE DEF d, data
<1>4. /\ d.policy = c.policy /\ d.capacity = c.capacity /\ d.size = c.size
      /\ d.data = data /\ d.order = c.order
      /\ d \in [policy : Policies, capacity : Nat \ {0}, size : Nat, data : [Cached(c) -> Value],
                order : Seq(Key)]
    BY <1>1, <1>2, <1>3
<1>5. QueueInv(d, policy) /\ Cached(d) = Cached(c)
    BY <1>1, <1>2, <1>4, QueueUpdate
<1>6. HasPut(c, d, k, v)
    BY <1>2, <1>4, <1>5 DEF HasPut
<1> QED
    BY <1>5, <1>6 DEF d

\* put, get, invalidate, clear and the constructor of both.
LEMMA QueuePut ==
    ASSUME NEW c, NEW policy, QueueInv(c, policy), NEW k \in Key, NEW v \in Value
    PROVE  /\ QueueInv(FifoPut(c, k, v), policy) /\ HasPut(c, FifoPut(c, k, v), k, v)
           /\ QueueInv(LruPut(c, k, v), policy) /\ HasPut(c, LruPut(c, k, v), k, v)
           /\ LruOrderAfter(c, LruPut(c, k, v), k)
<1>1. CASE k \in Cached(c)
    BY <1>1, LruUpdate, FifoUpdate
<1>2. CASE k \notin Cached(c)
    BY <1>2, QueueNewKey
<1> QED
    BY <1>1, <1>2

LEMMA LruGetKeeps ==
    ASSUME NEW c, NEW policy, QueueInv(c, policy), NEW k
    PROVE  LET d == LruGet(c, k)
           IN  /\ QueueInv(d, policy)
               /\ HoldsTheSame(c, d)
               /\ k \in Cached(c) => d.order = MoveToEnd(c.order, k)
               /\ k \notin Cached(c) => d = c
<1> DEFINE d == LruGet(c, k)
<1>1. CASE k \notin Cached(c)
  <2>1. d = c
      BY <1>1 DEF LruGet
  <2> QED
      BY <1>1, <2>1 DEF HoldsTheSame
<1>2. CASE k \in Cached(c)
  <2>1. /\ c \in [policy : Policies, capacity : Nat \ {0}, size : Nat, data : [Cached(c) -> Value],
                  order : Seq(Key)]
        /\ Cached(c) \subseteq Key /\ Enumerates(c.order, Cached(c))
      BY DEF QueueInv, SizeInv
  <2>2. Enumerates(MoveToEnd(c.order, k), Cached(c))
      BY <1>2, <2>1, MoveInList
  <2>3. MoveToEnd(c.order, k) \in Seq(Key)
      BY <2>1, <2>2, ListOf
  <2>4. d = [c EXCEPT !.order = MoveToEnd(c.order, k)]
      BY <1>2 DEF LruGet
  <2> HIDE DEF d
  <2>5. /\ d.policy = c.policy /\ d.capacity = c.capacity /\ d.size = c.size
        /\ d.data = c.data /\ d.order = MoveToEnd(c.order, k)
        /\ d \in [policy : Policies, capacity : Nat \ {0}, size : Nat, data : [Cached(c) -> Value],
                  order : Seq(Key)]
      BY <2>1, <2>3, <2>4
  <2>6. d.data \in [Cached(c) -> Value]
      BY <2>5
  <2>7. QueueInv(d, policy)
      BY <2>2, <2>5, <2>6, QueueUpdate
  <2> QED
      BY <1>2, <2>5, <2>7 DEF d, HoldsTheSame
<1> QED
    BY <1>1, <1>2

LEMMA QueueInvalidate ==
    ASSUME NEW c, NEW policy, QueueInv(c, policy), NEW k
    PROVE  LET d == LruInvalidate(c, k)
           IN  /\ FifoInvalidate(c, k) = d
               /\ QueueInv(d, policy)
               /\ HasDropped(c, d, k)
               /\ d.order = Remove(c.order, k)
<1> DEFINE d == LruInvalidate(c, k)
           S == Cached(c) \ {k}
           e == [c EXCEPT !.data = Without(c.data, k), !.order = Remove(c.order, k)]
<1>1. /\ c \in [policy : Policies, capacity : Nat \ {0}, size : Nat, data : [Cached(c) -> Value],
                order : Seq(Key)]
      /\ Cached(c) \subseteq Key /\ IsFiniteSet(Cached(c)) /\ Enumerates(c.order, Cached(c))
      /\ c.policy = policy /\ c.size = Cardinality(Cached(c)) /\ c.size <= c.capacity
    BY DEF QueueInv, SizeInv
<1>2. FifoInvalidate(c, k) = d
    BY DEF FifoInvalidate, LruInvalidate
<1>3. CASE k \notin Cached(c)
  <2>1. d = c /\ S = Cached(c)
      BY <1>3 DEF LruInvalidate
  <2>2. Remove(c.order, k) = c.order
      BY <1>1, <1>3, NothingRemoved
  <2> QED
      BY <1>2, <2>1, <2>2 DEF HasDropped
<1>4. CASE k \in Cached(c)
  <2>1. Enumerates(Remove(c.order, k), S)
      BY <1>1, RemoveFromList
  <2>2. Remove(c.order, k) \in Seq(Key)
      BY <1>1, <2>1, ListOf
  <2>3. /\ DOMAIN Without(c.data, k) = S /\ Without(c.data, k) \in [S -> Value]
        /\ \A j \in S : Without(c.data, k)[j] = c.data[j]
      BY <1>1 DEF Without, Cached
  <2>4. /\ e.policy = c.policy /\ e.capacity = c.capacity
        /\ e.data = Without(c.data, k) /\ e.order = Remove(c.order, k)
        /\ e \in [policy : Policies, capacity : Nat \ {0}, size : Nat, data : [S -> Value],
                  order : Seq(Key)]
      BY <1>1, <2>2, <2>3
  <2>5. d = [e EXCEPT !.size = Cardinality(S)]
      BY <1>4, <2>3, <2>4 DEF LruInvalidate, Sized, Cached
  <2>6. /\ IsFiniteSet(S) /\ Cardinality(S) \in Nat /\ Cardinality(S) <= Cardinality(Cached(c))
        /\ Cardinality(Cached(c)) \in Nat /\ c.capacity \in Nat
      BY <1>1, CountKeys
  <2> HIDE DEF d, e, S
  <2>7. /\ d.policy = c.policy /\ d.capacity = c.capacity /\ d.size = Cardinality(S)
        /\ d.data = Without(c.data, k) /\ d.order = Remove(c.order, k)
        /\ d \in [policy : Policies, capacity : Nat \ {0}, size : Nat, data : [S -> Value],
                  order : Seq(Key)]
      BY <2>4, <2>5, <2>6
  <2>8. Cached(d) = S
      BY <2>3, <2>7 DEF Cached
  <2>9. QueueShape(d, policy)
    <3>1. S \subseteq Key
        BY <1>1 DEF S
    <3> QED
        BY <1>1, <2>1, <2>6, <2>7, <2>8, <3>1 DEF QueueShape
  <2>10. d.size <= d.capacity
      BY <1>1, <2>6, <2>7
  <2>11. QueueInv(d, policy)
      BY <2>7, <2>8, <2>9, <2>10, QueueIsShape
  <2>12. HasDropped(c, d, k)
      BY <2>3, <2>7, <2>8 DEF HasDropped, S
  <2> QED
      BY <1>2, <2>7, <2>11, <2>12 DEF d
<1> QED
    BY <1>3, <1>4

\* An empty cache of any policy.
LEMMA NothingCached ==
    /\ DOMAIN Empty = {} /\ \A T : Empty \in [{} -> T]
    /\ IsFiniteSet({}) /\ Cardinality({}) = 0
BY FS_EmptySet DEF Empty

LEMMA QueueNew ==
    ASSUME NEW n \in Nat \ {0}
    PROVE  /\ QueueInv(FifoNew(n), "fifo") /\ Cached(FifoNew(n)) = {}
           /\ QueueInv(LruNew(n), "lru") /\ Cached(LruNew(n)) = {} /\ LruNew(n).order = <<>>
<1>1. /\ Empty \in [{} -> Value] /\ <<>> \in Seq(Key) /\ n \in Nat /\ n > 0 /\ 0 <= n
      /\ "fifo" \in Policies /\ "lru" \in Policies
    BY NothingCached DEF Policies
<1>2. /\ FifoNew(n).policy = "fifo" /\ FifoNew(n).data = Empty /\ FifoNew(n).order = <<>>
      /\ FifoNew(n).size = 0 /\ FifoNew(n).capacity = n
      /\ FifoNew(n) \in [policy : Policies, capacity : Nat \ {0}, size : Nat,
                          data : [{} -> Value], order : Seq(Key)]
    BY <1>1 DEF FifoNew
<1>3. /\ LruNew(n).policy = "lru" /\ LruNew(n).data = Empty /\ LruNew(n).order = <<>>
      /\ LruNew(n).size = 0 /\ LruNew(n).capacity = n
      /\ LruNew(n) \in [policy : Policies, capacity : Nat \ {0}, size : Nat,
                         data : [{} -> Value], order : Seq(Key)]
    BY <1>1 DEF LruNew
<1>4. Cached(FifoNew(n)) = {} /\ Cached(LruNew(n)) = {}
    BY <1>2, <1>3, NothingCached DEF Cached
<1> QED
    BY <1>1, <1>2, <1>3, <1>4, NothingCached, NothingListed DEF QueueInv, SizeInv

LEMMA QueueClear ==
    ASSUME NEW c, NEW policy, QueueInv(c, policy)
    PROVE  LET d == LruClear(c)
           IN  /\ FifoClear(c) = d
               /\ QueueInv(d, policy) /\ Cached(d) = {} /\ d.policy = c.policy
               /\ d.order = <<>>
<1> DEFINE d == LruClear(c)
<1>1. /\ c \in [policy : Policies, capacity : Nat \ {0}, size : Nat, data : [Cached(c) -> Value],
                order : Seq(Key)]
      /\ c.policy = policy
    BY DEF QueueInv
<1>2. FifoClear(c) = d
    BY DEF FifoClear, LruClear
<1>3. /\ d.policy = c.policy /\ d.capacity = c.capacity /\ d.size = 0
      /\ d.data = Empty /\ d.order = <<>>
      /\ d \in [policy : Policies, capacity : Nat \ {0}, size : Nat, data : [{} -> Value],
                order : Seq(Key)]
  <2>1. Empty \in [{} -> Value] /\ <<>> \in Seq(Key) /\ 0 \in Nat
      BY NothingCached
  <2> QED
      BY <1>1, <2>1 DEF LruClear
<1> HIDE DEF d
<1>4. Cached(d) = {}
    BY <1>3, NothingCached DEF Cached
<1>5. QueueInv(d, policy)
    BY <1>1, <1>3, <1>4, NothingCached, NothingListed DEF QueueInv, SizeInv
<1> QED
    BY <1>2, <1>3, <1>4, <1>5 DEF d

-----------------------------------------------------------------------------
(* Random eviction. *)

\* What the cache is, whatever its statistic says.
RandomShape(c) ==
  /\ c.policy = "random"
  /\ c \in [policy : Policies, capacity : Nat \ {0}, size : Nat, data : [Cached(c) -> Value],
            keys : Seq(Key), keyIndex : [Cached(c) -> Nat]]
  /\ Cached(c) \subseteq Key
  /\ IsFiniteSet(Cached(c))
  /\ Enumerates(c.keys, Cached(c))
  /\ \A k \in Cached(c) : c.keyIndex[k] \in DOMAIN c.keys /\ c.keys[c.keyIndex[k]] = k

LEMMA RandomIsShape ==
    ASSUME NEW c
    PROVE  RandomInv(c) <=>
             RandomShape(c) /\ c.size = Cardinality(Cached(c)) /\ c.size <= c.capacity
BY DEF RandomInv, RandomShape, SizeInv

\* Swapping the last key into the place of the removed one.
SwappedKeys(keys, i) ==
  LET filled == [keys EXCEPT ![i] = keys[Len(keys)]]
  IN  SubSeq(filled, 1, Len(filled) - 1)

SwappedIndex(index, last, i, k) == Without([index EXCEPT ![last] = i], k)

Indexes(index, keys, S) ==
  index \in [S -> Nat] /\ \A j \in S : index[j] \in DOMAIN keys /\ keys[index[j]] = j

LEMMA SwapRemove ==
    ASSUME NEW S, NEW keys, Enumerates(keys, S), NEW index, Indexes(index, keys, S), NEW k \in S
    PROVE  /\ Enumerates(SwappedKeys(keys, index[k]), S \ {k})
           /\ Indexes(SwappedIndex(index, keys[Len(keys)], index[k], k),
                      SwappedKeys(keys, index[k]), S \ {k})
<1> DEFINE n == Len(keys)
           i == index[k]
           last == keys[n]
           filled == [keys EXCEPT ![i] = last]
           keys2 == SubSeq(filled, 1, Len(filled) - 1)
           index2 == SwappedIndex(index, last, i, k)
<1>1. /\ keys \in Seq(S) /\ n \in Nat /\ DOMAIN keys = 1..n
      /\ \A a \in 1..n : keys[a] \in S
      /\ \A a, b \in 1..n : keys[a] = keys[b] => a = b
      /\ \A x \in S : index[x] \in 1..n /\ keys[index[x]] = x
  <2>1. /\ keys \in Seq(S) /\ n \in Nat /\ DOMAIN keys = 1..n
        /\ \A a \in 1..n : keys[a] \in S
        /\ \A a, b \in 1..n : keys[a] = keys[b] => a = b
      BY ListOf
  <2> QED
      BY <2>1 DEF Indexes
<1>2. /\ i \in 1..n /\ keys[i] = k /\ n > 0 /\ n \in 1..n
      /\ last \in S /\ index[last] = n
    BY <1>1
<1>3. /\ filled \in Seq(S) /\ Len(filled) = n
      /\ \A a \in 1..n : filled[a] = IF a = i THEN last ELSE keys[a]
    BY <1>1, <1>2
<1>4. /\ DOMAIN index2 = S \ {k} /\ index2 \in [S \ {k} -> Nat]
      /\ \A j \in S \ {k} : index2[j] = IF j = last THEN i ELSE index[j]
    BY <1>1, <1>2 DEF Without, SwappedIndex, Indexes
<1>0. keys2 = SwappedKeys(keys, i)
    BY DEF SwappedKeys
<1> HIDE DEF filled, index2
<1>5. /\ keys2 \in Seq(S) /\ Len(keys2) = n - 1
      /\ \A a \in 1..(n - 1) : keys2[a] = IF a = i THEN last ELSE keys[a]
  <2>1. \A a \in 1..(n - 1) : a \in 1..n
      BY <1>1
  <2>2. /\ keys2 \in Seq(S) /\ Len(keys2) = n - 1
        /\ \A a \in 1..(n - 1) : keys2[a] = filled[a]
      BY <1>1, <1>2, <1>3
  <2> QED
      BY <1>3, <2>1, <2>2
<1> HIDE DEF keys2, n, i, last
<1>6. \A a \in 1..(n - 1) : a \in 1..n /\ a # n
    BY <1>1
<1>7. \A a \in 1..(n - 1) : keys2[a] \in S \ {k}
  <2> SUFFICES ASSUME NEW a \in 1..(n - 1)
               PROVE  keys2[a] \in S \ {k}
      OBVIOUS
  <2>1. CASE a = i
    <3>1. i # n
        BY <1>6, <2>1
    <3>2. last # k
        BY <1>1, <1>2, <3>1 DEF last
    <3> QED
        BY <1>2, <1>5, <2>1, <3>2
  <2>2. CASE a # i
      BY <1>1, <1>2, <1>5, <1>6, <2>2
  <2> QED
      BY <2>1, <2>2
<1>8. \A a, b \in 1..(n - 1) : keys2[a] = keys2[b] => a = b
  <2> SUFFICES ASSUME NEW a \in 1..(n - 1), NEW b \in 1..(n - 1), keys2[a] = keys2[b]
               PROVE  a = b
      OBVIOUS
  <2>1. keys[a] # last /\ keys[b] # last
      BY <1>1, <1>2, <1>6 DEF last
  <2>2. keys[a] = keys[b] => a = b
      BY <1>1, <1>6
  <2> QED
      BY <1>5, <2>1, <2>2
<1>9. ASSUME NEW j \in S \ {k}
      PROVE  index2[j] \in 1..(n - 1) /\ keys2[index2[j]] = j
  <2>1. CASE j = last
    <3>1. i # n
        BY <1>2, <2>1 DEF last
    <3>2. i \in 1..(n - 1)
        BY <1>1, <1>2, <3>1
    <3> QED
        BY <1>4, <1>5, <2>1, <3>2
  <2>2. CASE j # last
    <3>1. index[j] # n /\ index[j] # i
        BY <1>1, <1>2, <2>2 DEF last
    <3>2. index[j] \in 1..(n - 1)
        BY <1>1, <3>1
    <3> QED
        BY <1>1, <1>4, <1>5, <2>2, <3>1, <3>2
  <2> QED
      BY <2>1, <2>2
<1>10. keys2 \in Seq(S \ {k})
    BY <1>5, <1>7
<1>11. Enumerates(keys2, S \ {k})
  <2>1. \A x \in S \ {k} : \E a \in 1..(n - 1) : keys2[a] = x
      BY <1>9
  <2> QED
      BY <1>5, <1>8, <1>10, <2>1, IsList
<1>12. DOMAIN keys2 = 1..(n - 1)
    BY <1>5
<1>13. Indexes(index2, keys2, S \ {k})
    BY <1>4, <1>9, <1>12 DEF Indexes
<1> QED
    BY <1>0, <1>11, <1>13 DEF index2, i, last, n

\* Removing any key.
LEMMA RandomRemoval ==
    ASSUME NEW c, RandomShape(c), NEW k \in Cached(c)
    PROVE  LET d == RemoveKey(c, k)
           IN  /\ RandomShape(d) /\ d.capacity = c.capacity
               /\ d.size = Cardinality(Cached(d))
               /\ HasDropped(c, d, k)
<1> DEFINE d == RemoveKey(c, k)
           S == Cached(c) \ {k}
           i == c.keyIndex[k]
           last == c.keys[Len(c.keys)]
           keys == SwappedKeys(c.keys, i)
           index == SwappedIndex(c.keyIndex, last, i, k)
           e == [c EXCEPT !.data = Without(c.data, k), !.keys = keys, !.keyIndex = index]
<1>1. /\ c \in [policy : Policies, capacity : Nat \ {0}, size : Nat, data : [Cached(c) -> Value],
                keys : Seq(Key), keyIndex : [Cached(c) -> Nat]]
      /\ Cached(c) \subseteq Key /\ IsFiniteSet(Cached(c)) /\ Enumerates(c.keys, Cached(c))
      /\ \A j \in Cached(c) : c.keyIndex[j] \in DOMAIN c.keys /\ c.keys[c.keyIndex[j]] = j
      /\ c.policy = "random"
    BY DEF RandomShape
<1>2. Indexes(c.keyIndex, c.keys, Cached(c))
    BY <1>1 DEF Indexes
<1>3. /\ Enumerates(keys, S) /\ index \in [S -> Nat]
      /\ \A j \in S : index[j] \in DOMAIN keys /\ keys[index[j]] = j
  <2>1. Enumerates(keys, S) /\ Indexes(index, keys, S)
      BY <1>1, <1>2, SwapRemove
  <2> QED
      BY <2>1 DEF Indexes
<1>4. d = Sized(e)
    BY DEF RemoveKey, SwappedKeys, SwappedIndex
<1> HIDE DEF keys, index, last, i, d
<1>5. /\ DOMAIN Without(c.data, k) = S /\ Without(c.data, k) \in [S -> Value]
      /\ \A j \in S : Without(c.data, k)[j] = c.data[j]
    BY <1>1 DEF Without, Cached
<1>6. S \subseteq Key /\ IsFiniteSet(S) /\ Cardinality(S) \in Nat
    BY <1>1, CountKeys
<1>7. keys \in Seq(Key)
    BY <1>3, <1>6, ListOf
<1>8. /\ e.policy = c.policy /\ e.capacity = c.capacity
      /\ e.data = Without(c.data, k) /\ e.keys = keys /\ e.keyIndex = index
      /\ e \in [policy : Policies, capacity : Nat \ {0}, size : Nat, data : [S -> Value],
                keys : Seq(Key), keyIndex : [S -> Nat]]
    BY <1>1, <1>3, <1>5, <1>7
<1>9. d = [e EXCEPT !.size = Cardinality(S)]
    BY <1>4, <1>5, <1>8 DEF Sized, Cached
<1> HIDE DEF e, S
<1>10. /\ d.policy = c.policy /\ d.capacity = c.capacity /\ d.size = Cardinality(S)
       /\ d.data = Without(c.data, k) /\ d.keys = keys /\ d.keyIndex = index
       /\ d \in [policy : Policies, capacity : Nat \ {0}, size : Nat, data : [S -> Value],
                 keys : Seq(Key), keyIndex : [S -> Nat]]
    BY <1>6, <1>8, <1>9
<1>11. Cached(d) = S
    BY <1>5, <1>10 DEF Cached
<1>12. RandomShape(d)
    BY <1>1, <1>3, <1>6, <1>10, <1>11 DEF RandomShape
<1>13. HasDropped(c, d, k)
    BY <1>5, <1>10, <1>11 DEF HasDropped, S
<1> QED
    BY <1>10, <1>11, <1>12, <1>13 DEF d

\* Inserting a new key where there is room.
LEMMA RandomInsertion ==
    ASSUME NEW c, RandomShape(c), Cardinality(Cached(c)) < c.capacity,
           NEW k \in Key, k \notin Cached(c), NEW v \in Value
    PROVE  LET d == RandomInsert(c, k, v)
           IN  /\ RandomInv(d) /\ d.policy = c.policy
               /\ Cached(d) = Cached(c) \cup {k}
               /\ d.data[k] = v
               /\ \A j \in Cached(c) : d.data[j] = c.data[j]
<1> DEFINE d == RandomInsert(c, k, v)
           S == Cached(c) \cup {k}
           n == Len(c.keys)
           keys == Append(c.keys, k)
           index == Assign(c.keyIndex, k, n + 1)
           e == [c EXCEPT !.data = Assign(c.data, k, v), !.keys = keys, !.keyIndex = index]
<1>1. /\ c \in [policy : Policies, capacity : Nat \ {0}, size : Nat, data : [Cached(c) -> Value],
                keys : Seq(Key), keyIndex : [Cached(c) -> Nat]]
      /\ Cached(c) \subseteq Key /\ IsFiniteSet(Cached(c)) /\ Enumerates(c.keys, Cached(c))
      /\ \A j \in Cached(c) : c.keyIndex[j] \in DOMAIN c.keys /\ c.keys[c.keyIndex[j]] = j
      /\ c.policy = "random"
    BY DEF RandomShape
<1>2. n \in Nat /\ DOMAIN c.keys = 1..n
    BY <1>1, ListOf
<1>3. Enumerates(keys, S) /\ S \subseteq Key
    BY <1>1, AppendToList
<1>4. /\ keys \in Seq(Key) /\ DOMAIN keys = 1..(n + 1) /\ keys[n + 1] = k
      /\ \A a \in 1..n : keys[a] = c.keys[a] /\ a \in 1..(n + 1)
    BY <1>1, <1>2
<1>5. /\ index \in [S -> Nat] /\ index[k] = n + 1
      /\ \A j \in Cached(c) : index[j] = c.keyIndex[j]
    BY <1>1, <1>2 DEF Assign
<1>6. \A j \in S : index[j] \in DOMAIN keys /\ keys[index[j]] = j
    BY <1>1, <1>2, <1>4, <1>5
<1>7. d = Sized(e)
    BY DEF RandomInsert
<1> HIDE DEF keys, index, d, n
<1>8. /\ DOMAIN Assign(c.data, k, v) = S /\ Assign(c.data, k, v) \in [S -> Value]
      /\ Assign(c.data, k, v)[k] = v
      /\ \A j \in Cached(c) : Assign(c.data, k, v)[j] = c.data[j]
    BY <1>1 DEF Assign, Cached
<1>9. /\ IsFiniteSet(S) /\ Cardinality(S) \in Nat /\ Cardinality(S) = Cardinality(Cached(c)) + 1
      /\ Cardinality(Cached(c)) \in Nat /\ c.capacity \in Nat
    BY <1>1, CountKeys
<1>10. /\ e.policy = c.policy /\ e.capacity = c.capacity
       /\ e.data = Assign(c.data, k, v) /\ e.keys = keys /\ e.keyIndex = index
       /\ e \in [policy : Policies, capacity : Nat \ {0}, size : Nat, data : [S -> Value],
                 keys : Seq(Key), keyIndex : [S -> Nat]]
    BY <1>1, <1>4, <1>5, <1>8
<1>11. d = [e EXCEPT !.size = Cardinality(S)]
    BY <1>7, <1>8, <1>10 DEF Sized, Cached
<1> HIDE DEF e, S
<1>12. /\ d.policy = c.policy /\ d.capacity = c.capacity /\ d.size = Cardinality(S)
       /\ d.data = Assign(c.data, k, v) /\ d.keys = keys /\ d.keyIndex = index
       /\ d \in [policy : Policies, capacity : Nat \ {0}, size : Nat, data : [S -> Value],
                 keys : Seq(Key), keyIndex : [S -> Nat]]
    BY <1>9, <1>10, <1>11
<1>13. Cached(d) = S
    BY <1>8, <1>12 DEF Cached
<1>14. RandomShape(d)
    BY <1>1, <1>3, <1>6, <1>9, <1>12, <1>13 DEF RandomShape
<1>15. d.size <= d.capacity
    BY <1>9, <1>12
<1>16. RandomInv(d)
    BY <1>12, <1>13, <1>14, <1>15, RandomIsShape
<1> QED
    BY <1>8, <1>12, <1>13, <1>16 DEF d, S

LEMMA RandomPutKeeps ==
    ASSUME NEW c, RandomInv(c), NEW k \in Key, NEW v \in Value, NEW d \in RandomPut(c, k, v)
    PROVE  RandomInv(d) /\ HasPut(c, d, k, v)
<1>1. /\ RandomShape(c) /\ c.size = Cardinality(Cached(c)) /\ c.size <= c.capacity
      /\ IsFiniteSet(Cached(c)) /\ c.capacity \in Nat \ {0} /\ c.policy = "random"
      /\ c \in [policy : Policies, capacity : Nat \ {0}, size : Nat, data : [Cached(c) -> Value],
                keys : Seq(Key), keyIndex : [Cached(c) -> Nat]]
    BY RandomIsShape DEF RandomShape
<1>2. CASE k \in Cached(c)
  <2> DEFINE data == [c.data EXCEPT ![k] = v]
  <2>1. d = [c EXCEPT !.data = data]
      BY <1>2 DEF RandomPut
  <2>2. /\ data \in [Cached(c) -> Value] /\ data[k] = v
        /\ \A j \in Cached(c) \ {k} : data[j] = c.data[j]
      BY <1>1, <1>2 DEF Cached
  <2> HIDE DEF data
  <2>3. /\ d.policy = c.policy /\ d.capacity = c.capacity /\ d.size = c.size
        /\ d.data = data /\ d.keys = c.keys /\ d.keyIndex = c.keyIndex
        /\ d \in [policy : Policies, capacity : Nat \ {0}, size : Nat, data : [Cached(c) -> Value],
                  keys : Seq(Key), keyIndex : [Cached(c) -> Nat]]
      BY <1>1, <2>1, <2>2
  <2>4. Cached(d) = Cached(c)
      BY <2>2, <2>3 DEF Cached
  <2>5. RandomInv(d)
      BY <2>3, <2>4 DEF RandomInv, SizeInv
  <2>6. HasPut(c, d, k, v)
      BY <1>2, <2>2, <2>3, <2>4 DEF HasPut
  <2> QED
      BY <2>5, <2>6
<1>3. CASE k \notin Cached(c) /\ Full(c)
  <2>1. PICK e \in Evictions(c) : d = RandomInsert(e, k, v)
      BY <1>3 DEF RandomPut
  <2>2. PICK i \in DOMAIN c.keys : e = RemoveKey(c, c.keys[i])
      BY DEF Evictions
  <2>3. PICK victim \in Cached(c) : victim = c.keys[i]
      BY <1>1, ListOf DEF RandomShape
  <2>4. RandomShape(e) /\ e.capacity = c.capacity /\ HasDropped(c, e, victim)
      BY <1>1, <2>2, <2>3, RandomRemoval
  <2>5. Cached(e) = Cached(c) \ {victim} /\ e.policy = c.policy
        /\ \A j \in Cached(e) : e.data[j] = c.data[j]
      BY <2>4 DEF HasDropped
  <2>6. Cardinality(Cached(e)) < e.capacity /\ k \notin Cached(e)
      BY <1>1, <1>3, <2>4, <2>5, RoomAfterEviction
  <2>7. /\ RandomInv(d) /\ d.policy = e.policy
        /\ Cached(d) = Cached(e) \cup {k}
        /\ d.data[k] = v
        /\ \A j \in Cached(e) : d.data[j] = e.data[j]
      BY <2>1, <2>4, <2>6, RandomInsertion
  <2>8. HasPut(c, d, k, v)
      BY <1>3, <2>5, <2>7 DEF HasPut
  <2> QED
      BY <2>7, <2>8
<1>4. CASE k \notin Cached(c) /\ ~Full(c)
  <2>1. d = RandomInsert(c, k, v)
      BY <1>4 DEF RandomPut
  <2>2. Cardinality(Cached(c)) < c.capacity
      BY <1>1, <1>4, RoomAfterEviction DEF Full
  <2>3. /\ RandomInv(d) /\ d.policy = c.policy
        /\ Cached(d) = Cached(c) \cup {k}
        /\ d.data[k] = v
        /\ \A j \in Cached(c) : d.data[j] = c.data[j]
      BY <1>1, <1>4, <2>1, <2>2, RandomInsertion
  <2>4. HasPut(c, d, k, v)
      BY <1>4, <2>3 DEF HasPut
  <2> QED
      BY <2>3, <2>4
<1> QED
    BY <1>2, <1>3, <1>4

LEMMA RandomInvalidateKeeps ==
    ASSUME NEW c, RandomInv(c), NEW k
    PROVE  RandomInv(RandomInvalidate(c, k)) /\ HasDropped(c, RandomInvalidate(c, k), k)
<1>1. /\ RandomShape(c) /\ c.size = Cardinality(Cached(c)) /\ c.size <= c.capacity
      /\ IsFiniteSet(Cached(c)) /\ c.capacity \in Nat
    BY RandomIsShape DEF RandomShape
<1>2. CASE k \notin Cached(c)
  <2>1. RandomInvalidate(c, k) = c /\ Cached(c) \ {k} = Cached(c)
      BY <1>2 DEF RandomInvalidate
  <2> QED
      BY <2>1 DEF HasDropped
<1>3. CASE k \in Cached(c)
  <2> DEFINE d == RemoveKey(c, k)
  <2>1. RandomInvalidate(c, k) = d
      BY <1>3 DEF RandomInvalidate
  <2>2. /\ RandomShape(d) /\ d.capacity = c.capacity /\ d.size = Cardinality(Cached(d))
        /\ HasDropped(c, d, k)
      BY <1>1, <1>3, RandomRemoval
  <2> HIDE DEF d
  <2>3. Cached(d) = Cached(c) \ {k}
      BY <2>2 DEF HasDropped
  <2>4. /\ Cardinality(Cached(d)) <= Cardinality(Cached(c))
        /\ Cardinality(Cached(d)) \in Nat /\ Cardinality(Cached(c)) \in Nat
      BY <1>1, <2>3, CountKeys
  <2>5. d.size <= d.capacity
      BY <1>1, <2>2, <2>4
  <2> QED
      BY <2>1, <2>2, <2>5, RandomIsShape
<1> QED
    BY <1>2, <1>3

LEMMA RandomNewKeeps ==
    ASSUME NEW n \in Nat \ {0}
    PROVE  RandomInv(RandomNew(n)) /\ Cached(RandomNew(n)) = {}
<1>1. /\ Empty \in [{} -> Value] /\ Empty \in [{} -> Nat] /\ <<>> \in Seq(Key)
      /\ n \in Nat /\ 0 <= n /\ "random" \in Policies
    BY NothingCached DEF Policies
<1>2. /\ RandomNew(n).policy = "random" /\ RandomNew(n).data = Empty
      /\ RandomNew(n).keys = <<>> /\ RandomNew(n).keyIndex = Empty
      /\ RandomNew(n).size = 0 /\ RandomNew(n).capacity = n
      /\ RandomNew(n) \in [policy : Policies, capacity : Nat \ {0}, size : Nat,
                           data : [{} -> Value], keys : Seq(Key), keyIndex : [{} -> Nat]]
    BY <1>1 DEF RandomNew
<1>3. Cached(RandomNew(n)) = {}
    BY <1>2, NothingCached DEF Cached
<1> QED
    BY <1>1, <1>2, <1>3, NothingCached, NothingListed DEF RandomInv, SizeInv

LEMMA RandomClearKeeps ==
    ASSUME NEW c, RandomInv(c)
    PROVE  LET d == RandomClear(c) IN RandomInv(d) /\ Cached(d) = {} /\ d.policy = c.policy
<1> DEFINE d == RandomClear(c)
<1>1. /\ c \in [policy : Policies, capacity : Nat \ {0}, size : Nat, data : [Cached(c) -> Value],
                keys : Seq(Key), keyIndex : [Cached(c) -> Nat]]
      /\ c.policy = "random"
    BY DEF RandomInv
<1>2. Empty \in [{} -> Value] /\ Empty \in [{} -> Nat] /\ <<>> \in Seq(Key) /\ 0 \in Nat
    BY NothingCached
<1>3. /\ d.policy = c.policy /\ d.capacity = c.capacity /\ d.size = 0
      /\ d.data = Empty /\ d.keys = <<>> /\ d.keyIndex = Empty
      /\ d \in [policy : Policies, capacity : Nat \ {0}, size : Nat, data : [{} -> Value],
                keys : Seq(Key), keyIndex : [{} -> Nat]]
    BY <1>1, <1>2 DEF RandomClear
<1> HIDE DEF d
<1>4. Cached(d) = {}
    BY <1>3, NothingCached DEF Cached
<1>5. RandomInv(d)
    BY <1>1, <1>3, <1>4, NothingCached, NothingListed DEF RandomInv, SizeInv
<1> QED
    BY <1>3, <1>4, <1>5 DEF d

-----------------------------------------------------------------------------
(* SIEVE. *)

SieveShape(c) ==
  /\ c.policy = "sieve"
  /\ c \in [policy : Policies, capacity : Nat \ {0}, size : Nat, data : [Cached(c) -> Value],
            order : Seq(Key), visited : SUBSET Key, hand : Key \cup {None}]
  /\ Cached(c) \subseteq Key
  /\ IsFiniteSet(Cached(c))
  /\ Enumerates(c.order, Cached(c))
  /\ c.visited \subseteq Cached(c)
  /\ c.hand \in Cached(c) \cup {None}

LEMMA SieveIsShape ==
    ASSUME NEW c
    PROVE  SieveInv(c) <=>
             SieveShape(c) /\ c.size = Cardinality(Cached(c)) /\ c.size <= c.capacity
BY DEF SieveInv, SieveShape, SizeInv

\* The key that follows another one in the list is a different one.
LEMMA NewerKey ==
    ASSUME NEW c, SieveShape(c), NEW k \in Cached(c)
    PROVE  Newer(c, k) \in (Cached(c) \ {k}) \cup {None}
<1> DEFINE i == IndexOf(c.order, k)
           n == Len(c.order)
<1>1. Enumerates(c.order, Cached(c))
    BY DEF SieveShape
<1>2. i \in 1..n /\ c.order[i] = k
    BY <1>1, IndexOfKey
<1>3. /\ n \in Nat /\ \A a \in 1..n : c.order[a] \in Cached(c)
      /\ \A a, b \in 1..n : c.order[a] = c.order[b] => a = b
    BY <1>1, ListOf
<1>4. Newer(c, k) = IF i = n THEN None ELSE c.order[i + 1]
    BY DEF Newer
<1> HIDE DEF i, n
<1>5. CASE i = n
    BY <1>4, <1>5
<1>6. CASE i # n
  <2>1. i + 1 \in 1..n /\ i + 1 # i
      BY <1>2, <1>3, <1>6
  <2> QED
      BY <1>2, <1>3, <1>4, <1>6, <2>1
<1> QED
    BY <1>5, <1>6

\* Removing a key from the list.
LEMMA SieveRemoval ==
    ASSUME NEW c, SieveShape(c), NEW k \in Cached(c)
    PROVE  LET d == RemoveNode(c, k)
           IN  /\ SieveShape(d) /\ d.capacity = c.capacity
               /\ d.size = Cardinality(Cached(d))
               /\ HasDropped(c, d, k)
               /\ d.visited = c.visited \ {k}
<1> DEFINE d == RemoveNode(c, k)
           S == Cached(c) \ {k}
           hand == IF c.hand = k THEN Newer(c, k) ELSE c.hand
           e == [c EXCEPT !.data = Without(@, k), !.order = Remove(@, k),
                          !.visited = @ \ {k}, !.hand = hand]
<1>1. /\ c \in [policy : Policies, capacity : Nat \ {0}, size : Nat, data : [Cached(c) -> Value],
                order : Seq(Key), visited : SUBSET Key, hand : Key \cup {None}]
      /\ Cached(c) \subseteq Key /\ IsFiniteSet(Cached(c)) /\ Enumerates(c.order, Cached(c))
      /\ c.visited \subseteq Cached(c) /\ c.hand \in Cached(c) \cup {None}
      /\ c.policy = "sieve"
    BY DEF SieveShape
<1>2. hand \in S \cup {None} /\ S \subseteq Key
    BY <1>1, NewerKey
<1>3. Enumerates(Remove(c.order, k), S)
    BY <1>1, RemoveFromList
<1>4. Remove(c.order, k) \in Seq(Key)
    BY <1>2, <1>3, ListOf
<1>5. /\ DOMAIN Without(c.data, k) = S /\ Without(c.data, k) \in [S -> Value]
      /\ \A j \in S : Without(c.data, k)[j] = c.data[j]
    BY <1>1 DEF Without, Cached
<1>6. IsFiniteSet(S) /\ Cardinality(S) \in Nat
    BY <1>1, CountKeys
<1>7. d = Sized(e)
    BY DEF RemoveNode
<1> HIDE DEF d, hand
<1>8. /\ e.policy = c.policy /\ e.capacity = c.capacity
      /\ e.data = Without(c.data, k) /\ e.order = Remove(c.order, k)
      /\ e.visited = c.visited \ {k} /\ e.hand = hand
      /\ e \in [policy : Policies, capacity : Nat \ {0}, size : Nat, data : [S -> Value],
                order : Seq(Key), visited : SUBSET Key, hand : Key \cup {None}]
  <2>1. c.visited \ {k} \in SUBSET Key /\ hand \in Key \cup {None}
      BY <1>1, <1>2
  <2> QED
      BY <1>1, <1>4, <1>5, <2>1
<1>9. d = [e EXCEPT !.size = Cardinality(S)]
    BY <1>5, <1>7, <1>8 DEF Sized, Cached
<1> HIDE DEF e, S
<1>10. /\ d.policy = c.policy /\ d.capacity = c.capacity /\ d.size = Cardinality(S)
       /\ d.data = Without(c.data, k) /\ d.order = Remove(c.order, k)
       /\ d.visited = c.visited \ {k} /\ d.hand = hand
       /\ d \in [policy : Policies, capacity : Nat \ {0}, size : Nat, data : [S -> Value],
                 order : Seq(Key), visited : SUBSET Key, hand : Key \cup {None}]
    BY <1>6, <1>8, <1>9
<1>11. Cached(d) = S
    BY <1>5, <1>10 DEF Cached
<1>12. SieveShape(d)
  <2>1. c.visited \ {k} \subseteq S
      BY <1>1 DEF S
  <2> QED
      BY <1>1, <1>2, <1>3, <1>6, <1>10, <1>11, <2>1 DEF SieveShape
<1>13. HasDropped(c, d, k)
    BY <1>5, <1>10, <1>11 DEF HasDropped, S
<1> QED
    BY <1>10, <1>11, <1>12, <1>13 DEF d

\* Starting a list somewhere else.
LEMMA RotateList ==
    ASSUME NEW S, NEW order, Enumerates(order, S), NEW start \in 1..Len(order)
    PROVE  Enumerates(SubSeq(order, start, Len(order)) \o SubSeq(order, 1, start - 1), S)
<1> DEFINE n == Len(order)
           m == n - start + 1
           rest == SubSeq(order, start, n)
           front == SubSeq(order, 1, start - 1)
           walk == rest \o front
<1>1. /\ order \in Seq(S) /\ n \in Nat
      /\ \A a \in 1..n : order[a] \in S
      /\ \A a, b \in 1..n : order[a] = order[b] => a = b
      /\ \A x \in S : \E a \in 1..n : order[a] = x
    BY ListOf
<1>2. m \in 1..n /\ start \in 1..n /\ start - 1 = n - m
    BY <1>1
<1>3. /\ rest \in Seq(S) /\ Len(rest) = m
      /\ \A i \in 1..m : rest[i] = order[start + i - 1]
  <2>1. start \in 1..(Len(order) + 1) /\ n \in (start - 1)..Len(order)
      BY <1>1
  <2>2. /\ rest \in Seq(S)
        /\ Len(rest) = IF start <= n THEN n - start + 1 ELSE 0
        /\ \A i \in 1..(n - start + 1) : rest[i] = order[start + i - 1]
      BY <1>1, <2>1, SubSeqProperties
  <2> QED
      BY <1>1, <2>2
<1>4. /\ front \in Seq(S) /\ Len(front) = n - m
      /\ \A i \in 1..(n - m) : front[i] = order[i]
  <2>1. 1 \in 1..(Len(order) + 1) /\ start - 1 \in (1 - 1)..Len(order)
      BY <1>1
  <2>2. /\ front \in Seq(S)
        /\ Len(front) = IF 1 <= start - 1 THEN (start - 1) - 1 + 1 ELSE 0
        /\ \A i \in 1..((start - 1) - 1 + 1) : front[i] = order[1 + i - 1]
      BY <1>1, <2>1, SubSeqProperties
  <2> QED
      BY <1>1, <1>2, <2>2
<1> HIDE DEF n, m, rest, front
<1>5. /\ walk \in Seq(S) /\ Len(walk) = n
      /\ \A i \in 1..n : walk[i] = IF i <= m THEN rest[i] ELSE front[i - m]
  <2>1. /\ walk \in Seq(S) /\ Len(walk) = Len(rest) + Len(front)
        /\ \A i \in 1..(Len(rest) + Len(front)) :
             walk[i] = IF i <= Len(rest) THEN rest[i] ELSE front[i - Len(rest)]
      BY <1>3, <1>4, ConcatProperties
  <2>2. Len(rest) + Len(front) = n
      BY <1>1, <1>2, <1>3, <1>4
  <2> QED
      BY <1>3, <2>1, <2>2
<1> HIDE DEF walk
<1> DEFINE Old(i) == IF i <= m THEN start + i - 1 ELSE i - m
           New(a) == IF a < start THEN a + m ELSE a - start + 1
<1>6. \A i \in 1..n : Old(i) \in 1..n /\ walk[i] = order[Old(i)]
  <2> SUFFICES ASSUME NEW i \in 1..n
               PROVE  Old(i) \in 1..n /\ walk[i] = order[Old(i)]
      OBVIOUS
  <2>1. CASE i <= m
    <3>1. i \in 1..m /\ Old(i) = start + i - 1 /\ Old(i) \in 1..n
        BY <1>1, <1>2, <2>1
    <3> QED
        BY <1>3, <1>5, <2>1, <3>1
  <2>2. CASE ~(i <= m)
    <3>1. i - m \in 1..(n - m) /\ Old(i) = i - m /\ Old(i) \in 1..n
        BY <1>1, <1>2, <2>2
    <3> QED
        BY <1>4, <1>5, <2>2, <3>1
  <2> QED
      BY <2>1, <2>2
<1>7. \A a \in 1..n : New(a) \in 1..n /\ Old(New(a)) = a
    BY <1>1, <1>2
<1>8. \A i, j \in 1..n : Old(i) = Old(j) => i = j
    BY <1>1, <1>2
<1> HIDE DEF Old, New
<1>9. \A i, j \in 1..n : walk[i] = walk[j] => i = j
  <2> SUFFICES ASSUME NEW i \in 1..n, NEW j \in 1..n, walk[i] = walk[j]
               PROVE  i = j
      OBVIOUS
  <2>1. Old(i) \in 1..n /\ Old(j) \in 1..n /\ order[Old(i)] = order[Old(j)]
      BY <1>6
  <2>2. Old(i) = Old(j)
      BY <1>1, <2>1
  <2> QED
      BY <1>8, <2>2
<1>10. \A x \in S : \E i \in 1..n : walk[i] = x
  <2> SUFFICES ASSUME NEW x \in S
               PROVE  \E i \in 1..n : walk[i] = x
      OBVIOUS
  <2>1. PICK a \in 1..n : order[a] = x
      BY <1>1
  <2> QED
      BY <1>6, <1>7, <2>1
<1>11. Enumerates(walk, S)
    BY <1>5, <1>9, <1>10, IsList
<1> QED
    BY <1>11 DEF walk, rest, front, n

\* The hand meets every key once.
LEMMA WalkMeetsAll ==
    ASSUME NEW c, SieveShape(c), Cached(c) # {}
    PROVE  Enumerates(Walk(c), Cached(c))
<1> DEFINE start == IF c.hand = None THEN 1 ELSE IndexOf(c.order, c.hand)
<1>1. Enumerates(c.order, Cached(c)) /\ c.hand \in Cached(c) \cup {None}
    BY DEF SieveShape
<1>2. Len(c.order) \in Nat /\ Len(c.order) # 0
  <2>1. c.order \in Seq(Cached(c)) /\ Elements(c.order) # {}
      BY <1>1 DEF Enumerates
  <2>2. c.order # <<>>
      BY <2>1 DEF Elements
  <2> QED
      BY <2>1, <2>2
<1>3. start \in 1..Len(c.order)
    BY <1>1, <1>2, IndexOfKey
<1>4. Walk(c) = SubSeq(c.order, start, Len(c.order)) \o SubSeq(c.order, 1, start - 1)
    BY DEF Walk
<1> HIDE DEF start
<1> QED
    BY <1>1, <1>3, <1>4, RotateList

\* The key that is evicted was met with its bit clear, or every bit was set.
LEMMA SieveEviction ==
    ASSUME NEW c, SieveShape(c), Cached(c) # {}
    PROVE  \E victim \in Cached(c) :
             /\ SieveShape(SieveEvict(c)) /\ SieveEvict(c).capacity = c.capacity
             /\ HasDropped(c, SieveEvict(c), victim)
             /\ victim \in c.visited => Cached(c) \subseteq c.visited
<1> DEFINE walk == Walk(c)
           unvisited == {i \in DOMAIN walk : walk[i] \notin c.visited}
           stop == IF unvisited = {} THEN 1 ELSE Least(unvisited)
           victim == walk[stop]
           cleared == IF unvisited = {} THEN Elements(walk)
                      ELSE {walk[i] : i \in 1..(stop - 1)}
           e == [c EXCEPT !.visited = @ \ cleared, !.hand = Newer(c, victim)]
           d == SieveEvict(c)
<1>1. /\ c \in [policy : Policies, capacity : Nat \ {0}, size : Nat, data : [Cached(c) -> Value],
                order : Seq(Key), visited : SUBSET Key, hand : Key \cup {None}]
      /\ Cached(c) \subseteq Key /\ IsFiniteSet(Cached(c)) /\ Enumerates(c.order, Cached(c))
      /\ c.visited \subseteq Cached(c) /\ c.hand \in Cached(c) \cup {None}
      /\ c.policy = "sieve"
    BY DEF SieveShape
<1>2. /\ Enumerates(walk, Cached(c)) /\ Len(walk) \in Nat /\ DOMAIN walk = 1..Len(walk)
      /\ walk # <<>> /\ walk \in Seq(Cached(c))
    BY WalkMeetsAll, ListOf
<1>3. /\ \A i \in 1..Len(walk) : walk[i] \in Cached(c)
      /\ \A x \in Cached(c) : \E i \in 1..Len(walk) : walk[i] = x
    BY <1>2, ListOf
<1>4. d = RemoveNode(e, victim)
    BY DEF SieveEvict
<1> HIDE DEF walk, d
<1>5. 1 \in DOMAIN walk
    BY <1>2
<1>6. stop \in DOMAIN walk /\ (unvisited # {} => stop \in unvisited)
  <2>1. CASE unvisited = {}
      BY <1>5, <2>1
  <2>2. CASE unvisited # {}
    <3>1. unvisited \in SUBSET Nat
        BY <1>2
    <3>2. Least(unvisited) \in unvisited
        BY <2>2, <3>1, LeastIsLeast
    <3> QED
        BY <2>2, <3>2
  <2> QED
      BY <2>1, <2>2
<1>7. victim \in Cached(c)
    BY <1>2, <1>3, <1>6
<1>8. victim \in c.visited => Cached(c) \subseteq c.visited
    BY <1>2, <1>3, <1>6
<1> HIDE DEF stop, victim, cleared, unvisited
<1>9. Newer(c, victim) \in Cached(c) \cup {None}
    BY <1>7, NewerKey
<1>10. /\ e.policy = c.policy /\ e.capacity = c.capacity /\ e.data = c.data
       /\ e.order = c.order /\ e.visited = c.visited \ cleared
       /\ e.hand = Newer(c, victim)
       /\ e \in [policy : Policies, capacity : Nat \ {0}, size : Nat, data : [Cached(c) -> Value],
                 order : Seq(Key), visited : SUBSET Key, hand : Key \cup {None}]
  <2>1. c.visited \ cleared \in SUBSET Key /\ Newer(c, victim) \in Key \cup {None}
      BY <1>1, <1>9
  <2> QED
      BY <1>1, <2>1
<1> HIDE DEF e
<1>11. Cached(e) = Cached(c)
    BY <1>10 DEF Cached
<1>12. SieveShape(e)
  <2>1. c.visited \ cleared \subseteq Cached(c)
      BY <1>1
  <2> QED
      BY <1>1, <1>9, <1>10, <1>11, <2>1 DEF SieveShape
<1>13. SieveShape(d) /\ d.capacity = e.capacity /\ HasDropped(e, d, victim)
    BY <1>4, <1>7, <1>11, <1>12, SieveRemoval
<1>14. HasDropped(c, d, victim)
    BY <1>10, <1>11, <1>13 DEF HasDropped
<1> QED
    BY <1>7, <1>8, <1>10, <1>13, <1>14 DEF d

\* Inserting a new key, its bit clear, where there is room.
LEMMA SieveInsertion ==
    ASSUME NEW c, SieveShape(c), Cardinality(Cached(c)) < c.capacity,
           NEW k \in Key, k \notin Cached(c), NEW v \in Value
    PROVE  LET d == SieveInsert(c, k, v)
           IN  /\ SieveInv(d) /\ d.policy = c.policy
               /\ Cached(d) = Cached(c) \cup {k}
               /\ d.data[k] = v
               /\ \A j \in Cached(c) : d.data[j] = c.data[j]
               /\ d.visited = c.visited
<1> DEFINE d == SieveInsert(c, k, v)
           S == Cached(c) \cup {k}
           e == [c EXCEPT !.data = Assign(@, k, v), !.order = Append(@, k)]
<1>1. /\ c \in [policy : Policies, capacity : Nat \ {0}, size : Nat, data : [Cached(c) -> Value],
                order : Seq(Key), visited : SUBSET Key, hand : Key \cup {None}]
      /\ Cached(c) \subseteq Key /\ IsFiniteSet(Cached(c)) /\ Enumerates(c.order, Cached(c))
      /\ c.visited \subseteq Cached(c) /\ c.hand \in Cached(c) \cup {None}
      /\ c.policy = "sieve"
    BY DEF SieveShape
<1>2. Enumerates(Append(c.order, k), S) /\ S \subseteq Key
    BY <1>1, AppendToList
<1>3. Append(c.order, k) \in Seq(Key)
    BY <1>1
<1>4. /\ DOMAIN Assign(c.data, k, v) = S /\ Assign(c.data, k, v) \in [S -> Value]
      /\ Assign(c.data, k, v)[k] = v
      /\ \A j \in Cached(c) : Assign(c.data, k, v)[j] = c.data[j]
    BY <1>1 DEF Assign, Cached
<1>5. /\ IsFiniteSet(S) /\ Cardinality(S) \in Nat /\ Cardinality(S) = Cardinality(Cached(c)) + 1
      /\ Cardinality(Cached(c)) \in Nat /\ c.capacity \in Nat
    BY <1>1, CountKeys
<1>6. d = Sized(e)
    BY DEF SieveInsert
<1> HIDE DEF d
<1>7. /\ e.policy = c.policy /\ e.capacity = c.capacity
      /\ e.data = Assign(c.data, k, v) /\ e.order = Append(c.order, k)
      /\ e.visited = c.visited /\ e.hand = c.hand
      /\ e \in [policy : Policies, capacity : Nat \ {0}, size : Nat, data : [S -> Value],
                order : Seq(Key), visited : SUBSET Key, hand : Key \cup {None}]
    BY <1>1, <1>3, <1>4
<1>8. d = [e EXCEPT !.size = Cardinality(S)]
    BY <1>4, <1>6, <1>7 DEF Sized, Cached
<1> HIDE DEF e, S
<1>9. /\ d.policy = c.policy /\ d.capacity = c.capacity /\ d.size = Cardinality(S)
      /\ d.data = Assign(c.data, k, v) /\ d.order = Append(c.order, k)
      /\ d.visited = c.visited /\ d.hand = c.hand
      /\ d \in [policy : Policies, capacity : Nat \ {0}, size : Nat, data : [S -> Value],
                order : Seq(Key), visited : SUBSET Key, hand : Key \cup {None}]
    BY <1>5, <1>7, <1>8
<1>10. Cached(d) = S
    BY <1>4, <1>9 DEF Cached
<1>11. SieveShape(d)
    BY <1>1, <1>2, <1>5, <1>9, <1>10 DEF SieveShape, S
<1>12. d.size <= d.capacity
    BY <1>5, <1>9
<1>13. SieveInv(d)
    BY <1>9, <1>10, <1>11, <1>12, SieveIsShape
<1> QED
    BY <1>4, <1>9, <1>10, <1>13 DEF d, S

\* The bits after put: set for an update, kept for an insertion without an
\* eviction; an eviction of a key whose bit was set means every bit was.
SieveMarks(c, d, k) ==
  /\ k \in Cached(c) => d.visited = c.visited \cup {k}
  /\ k \notin Cached(c) /\ Cached(c) \subseteq Cached(d) => d.visited = c.visited
  /\ \A j \in Cached(c) \ Cached(d) : j \in c.visited => Cached(c) \subseteq c.visited

LEMMA SievePutKeeps ==
    ASSUME NEW c, SieveInv(c), NEW k \in Key, NEW v \in Value
    PROVE  LET d == SievePut(c, k, v) IN SieveInv(d) /\ HasPut(c, d, k, v) /\ SieveMarks(c, d, k)
<1> DEFINE d == SievePut(c, k, v)
<1>1. /\ SieveShape(c) /\ c.size = Cardinality(Cached(c)) /\ c.size <= c.capacity
      /\ IsFiniteSet(Cached(c)) /\ c.capacity \in Nat \ {0} /\ c.visited \subseteq Cached(c)
      /\ c \in [policy : Policies, capacity : Nat \ {0}, size : Nat, data : [Cached(c) -> Value],
                order : Seq(Key), visited : SUBSET Key, hand : Key \cup {None}]
    BY SieveIsShape DEF SieveShape
<1>2. CASE k \in Cached(c)
  <2> DEFINE data == [c.data EXCEPT ![k] = v]
  <2>1. d = [c EXCEPT !.data = data, !.visited = c.visited \cup {k}]
      BY <1>1, <1>2 DEF SievePut
  <2>2. /\ data \in [Cached(c) -> Value] /\ data[k] = v
        /\ \A j \in Cached(c) \ {k} : data[j] = c.data[j]
      BY <1>1, <1>2 DEF Cached
  <2> HIDE DEF data, d
  <2>3. /\ d.policy = c.policy /\ d.capacity = c.capacity /\ d.size = c.size
        /\ d.data = data /\ d.order = c.order /\ d.visited = c.visited \cup {k}
        /\ d.hand = c.hand
        /\ d \in [policy : Policies, capacity : Nat \ {0}, size : Nat, data : [Cached(c) -> Value],
                  order : Seq(Key), visited : SUBSET Key, hand : Key \cup {None}]
    <3>1. c.visited \cup {k} \in SUBSET Key
        BY <1>1
    <3> QED
        BY <1>1, <2>1, <2>2, <3>1
  <2>4. Cached(d) = Cached(c)
      BY <2>2, <2>3 DEF Cached
  <2>5. SieveInv(d)
    <3>1. c.visited \cup {k} \subseteq Cached(c)
        BY <1>1, <1>2
    <3> QED
        BY <2>3, <2>4, <3>1 DEF SieveInv, SizeInv
  <2>6. HasPut(c, d, k, v)
      BY <1>2, <2>2, <2>3, <2>4 DEF HasPut
  <2>7. SieveMarks(c, d, k)
      BY <1>2, <2>3, <2>4 DEF SieveMarks
  <2> QED
      BY <2>5, <2>6, <2>7 DEF d
<1>3. CASE k \notin Cached(c) /\ Full(c)
  <2> DEFINE e == SieveEvict(c)
  <2>1. d = SieveInsert(e, k, v)
      BY <1>3 DEF SievePut
  <2>2. Cached(c) # {}
      BY <1>1, <1>3, RoomAfterEviction DEF Full
  <2>3. PICK victim \in Cached(c) :
          /\ SieveShape(e) /\ e.capacity = c.capacity
          /\ HasDropped(c, e, victim)
          /\ victim \in c.visited => Cached(c) \subseteq c.visited
      BY <1>1, <2>2, SieveEviction
  <2> HIDE DEF e, d
  <2>4. Cached(e) = Cached(c) \ {victim} /\ e.policy = c.policy
        /\ \A j \in Cached(e) : e.data[j] = c.data[j]
      BY <2>3 DEF HasDropped
  <2>5. Cardinality(Cached(e)) < e.capacity /\ k \notin Cached(e)
      BY <1>1, <1>3, <2>3, <2>4, RoomAfterEviction
  <2>6. /\ SieveInv(d) /\ d.policy = e.policy
        /\ Cached(d) = Cached(e) \cup {k}
        /\ d.data[k] = v
        /\ \A j \in Cached(e) : d.data[j] = e.data[j]
      BY <2>1, <2>3, <2>5, SieveInsertion
  <2>7. HasPut(c, d, k, v)
      BY <1>3, <2>4, <2>6 DEF HasPut
  <2>8. SieveMarks(c, d, k)
      BY <1>3, <2>3, <2>4, <2>6 DEF SieveMarks
  <2> QED
      BY <2>6, <2>7, <2>8 DEF d
<1>4. CASE k \notin Cached(c) /\ ~Full(c)
  <2>1. d = SieveInsert(c, k, v)
      BY <1>4 DEF SievePut
  <2> HIDE DEF d
  <2>2. Cardinality(Cached(c)) < c.capacity
      BY <1>1, <1>4, RoomAfterEviction DEF Full
  <2>3. /\ SieveInv(d) /\ d.policy = c.policy
        /\ Cached(d) = Cached(c) \cup {k}
        /\ d.data[k] = v
        /\ \A j \in Cached(c) : d.data[j] = c.data[j]
        /\ d.visited = c.visited
      BY <1>1, <1>4, <2>1, <2>2, SieveInsertion
  <2>4. HasPut(c, d, k, v)
      BY <1>4, <2>3 DEF HasPut
  <2>5. SieveMarks(c, d, k)
      BY <1>4, <2>3 DEF SieveMarks
  <2> QED
      BY <2>3, <2>4, <2>5 DEF d
<1> QED
    BY <1>2, <1>3, <1>4

LEMMA SieveGetKeeps ==
    ASSUME NEW c, SieveInv(c), NEW k
    PROVE  LET d == SieveGet(c, k)
           IN  /\ SieveInv(d)
               /\ HoldsTheSame(c, d)
               /\ k \in Cached(c) => d.visited = c.visited \cup {k}
               /\ k \notin Cached(c) => d = c
<1> DEFINE d == SieveGet(c, k)
<1>1. /\ c \in [policy : Policies, capacity : Nat \ {0}, size : Nat, data : [Cached(c) -> Value],
                order : Seq(Key), visited : SUBSET Key, hand : Key \cup {None}]
      /\ Cached(c) \subseteq Key /\ c.visited \subseteq Cached(c)
    BY DEF SieveInv, SizeInv
<1>2. CASE k \notin Cached(c)
  <2>1. d = c
      BY <1>2 DEF SieveGet
  <2> QED
      BY <1>2, <2>1 DEF HoldsTheSame
<1>3. CASE k \in Cached(c)
  <2>1. c.visited \cup {k} \in SUBSET Key /\ c.visited \cup {k} \subseteq Cached(c)
      BY <1>1, <1>3
  <2>2. d = [c EXCEPT !.visited = c.visited \cup {k}]
      BY <1>1, <1>3 DEF SieveGet
  <2> HIDE DEF d
  <2>3. /\ d.policy = c.policy /\ d.capacity = c.capacity /\ d.size = c.size
        /\ d.data = c.data /\ d.order = c.order /\ d.visited = c.visited \cup {k}
        /\ d.hand = c.hand
        /\ d \in [policy : Policies, capacity : Nat \ {0}, size : Nat, data : [Cached(c) -> Value],
                  order : Seq(Key), visited : SUBSET Key, hand : Key \cup {None}]
      BY <1>1, <2>1, <2>2
  <2>4. Cached(d) = Cached(c)
      BY <2>3 DEF Cached
  <2>5. SieveInv(d)
      BY <2>1, <2>3, <2>4 DEF SieveInv, SizeInv
  <2> QED
      BY <1>3, <2>3, <2>5 DEF d, HoldsTheSame
<1> QED
    BY <1>2, <1>3

LEMMA SieveInvalidateKeeps ==
    ASSUME NEW c, SieveInv(c), NEW k
    PROVE  LET d == SieveInvalidate(c, k)
           IN  SieveInv(d) /\ HasDropped(c, d, k) /\ d.visited = c.visited \ {k}
<1>1. /\ SieveShape(c) /\ c.size = Cardinality(Cached(c)) /\ c.size <= c.capacity
      /\ IsFiniteSet(Cached(c)) /\ c.capacity \in Nat /\ c.visited \subseteq Cached(c)
    BY SieveIsShape DEF SieveShape
<1>2. CASE k \notin Cached(c)
  <2>1. /\ SieveInvalidate(c, k) = c /\ Cached(c) \ {k} = Cached(c)
        /\ c.visited \ {k} = c.visited
      BY <1>1, <1>2 DEF SieveInvalidate
  <2> QED
      BY <2>1 DEF HasDropped
<1>3. CASE k \in Cached(c)
  <2> DEFINE d == RemoveNode(c, k)
  <2>1. SieveInvalidate(c, k) = d
      BY <1>3 DEF SieveInvalidate
  <2>2. /\ SieveShape(d) /\ d.capacity = c.capacity /\ d.size = Cardinality(Cached(d))
        /\ HasDropped(c, d, k) /\ d.visited = c.visited \ {k}
      BY <1>1, <1>3, SieveRemoval
  <2> HIDE DEF d
  <2>3. Cached(d) = Cached(c) \ {k}
      BY <2>2 DEF HasDropped
  <2>4. /\ Cardinality(Cached(d)) <= Cardinality(Cached(c))
        /\ Cardinality(Cached(d)) \in Nat /\ Cardinality(Cached(c)) \in Nat
      BY <1>1, <2>3, CountKeys
  <2>5. d.size <= d.capacity
      BY <1>1, <2>2, <2>4
  <2> QED
      BY <2>1, <2>2, <2>5, SieveIsShape
<1> QED
    BY <1>2, <1>3

LEMMA SieveNewKeeps ==
    ASSUME NEW n \in Nat \ {0}
    PROVE  SieveInv(SieveNew(n)) /\ Cached(SieveNew(n)) = {}
<1>1. /\ Empty \in [{} -> Value] /\ <<>> \in Seq(Key) /\ {} \in SUBSET Key
      /\ None \in Key \cup {None} /\ n \in Nat /\ 0 <= n /\ "sieve" \in Policies
    BY NothingCached DEF Policies
<1>2. /\ SieveNew(n).policy = "sieve" /\ SieveNew(n).data = Empty
      /\ SieveNew(n).order = <<>> /\ SieveNew(n).visited = {} /\ SieveNew(n).hand = None
      /\ SieveNew(n).size = 0 /\ SieveNew(n).capacity = n
      /\ SieveNew(n) \in [policy : Policies, capacity : Nat \ {0}, size : Nat,
                          data : [{} -> Value], order : Seq(Key), visited : SUBSET Key,
                          hand : Key \cup {None}]
    BY <1>1 DEF SieveNew
<1>3. Cached(SieveNew(n)) = {}
    BY <1>2, NothingCached DEF Cached
<1> QED
    BY <1>1, <1>2, <1>3, NothingCached, NothingListed DEF SieveInv, SizeInv

LEMMA SieveClearKeeps ==
    ASSUME NEW c, SieveInv(c)
    PROVE  LET d == SieveClear(c) IN SieveInv(d) /\ Cached(d) = {} /\ d.policy = c.policy
<1> DEFINE d == SieveClear(c)
<1>1. /\ c \in [policy : Policies, capacity : Nat \ {0}, size : Nat, data : [Cached(c) -> Value],
                order : Seq(Key), visited : SUBSET Key, hand : Key \cup {None}]
      /\ c.policy = "sieve"
    BY DEF SieveInv
<1>2. /\ Empty \in [{} -> Value] /\ <<>> \in Seq(Key) /\ 0 \in Nat /\ {} \in SUBSET Key
      /\ None \in Key \cup {None}
    BY NothingCached
<1>3. /\ d.policy = c.policy /\ d.capacity = c.capacity /\ d.size = 0
      /\ d.data = Empty /\ d.order = <<>> /\ d.visited = {} /\ d.hand = None
      /\ d \in [policy : Policies, capacity : Nat \ {0}, size : Nat, data : [{} -> Value],
                order : Seq(Key), visited : SUBSET Key, hand : Key \cup {None}]
    BY <1>1, <1>2 DEF SieveClear
<1> HIDE DEF d
<1>4. Cached(d) = {}
    BY <1>3, NothingCached DEF Cached
<1>5. SieveInv(d)
    BY <1>1, <1>3, <1>4, NothingCached, NothingListed DEF SieveInv, SizeInv
<1> QED
    BY <1>3, <1>4, <1>5 DEF d

-----------------------------------------------------------------------------
(* SLRU. *)

SlruShape(c) ==
  /\ c.policy = "slru"
  /\ c \in [policy : Policies, capacity : Nat \ {0}, size : Nat, data : [Cached(c) -> Value],
            probation : Seq(Key), protected : Seq(Key), protectedCap : Nat]
  /\ Cached(c) \subseteq Key
  /\ IsFiniteSet(Cached(c))
  /\ Segments(c.probation, c.protected, Cached(c))
  /\ c.protectedCap < c.capacity
  /\ c.capacity >= 2 => c.protectedCap >= 1
  /\ Len(c.protected) <= c.protectedCap

LEMMA SlruIsShape ==
    ASSUME NEW c
    PROVE  SlruInv(c) <=>
             SlruShape(c) /\ c.size = Cardinality(Cached(c)) /\ c.size <= c.capacity
BY DEF SlruInv, SlruShape, SizeInv

\* The length of a list says how many keys it lists.
LEMMA SegmentLengths ==
    ASSUME NEW S, NEW order, Enumerates(order, S)
    PROVE  /\ Elements(order) = S
           /\ IsFiniteSet(S)
           /\ Len(order) = Cardinality(S)
           /\ Len(order) \in Nat
BY ListsSet, ListOf DEF Enumerates

\* A full cache has a key on probation.
LEMMA ProbationWhenFull ==
    ASSUME NEW c, SlruShape(c), Full(c)
    PROVE  c.probation # <<>>
<1>1. /\ Segments(c.probation, c.protected, Cached(c))
      /\ Len(c.protected) <= c.protectedCap /\ c.protectedCap < c.capacity
      /\ c.protectedCap \in Nat /\ c.capacity \in Nat
    BY DEF SlruShape
<1> SUFFICES ASSUME c.probation = <<>>
             PROVE  FALSE
    OBVIOUS
<1>2. Elements(c.probation) = {}
    BY DEF Elements
<1>3. Cached(c) = Elements(c.protected)
    BY <1>1, <1>2 DEF Segments
<1>4. Len(c.protected) = Cardinality(Cached(c)) /\ Len(c.protected) \in Nat
    BY <1>1, <1>3, SegmentLengths DEF Segments
<1> QED
    BY <1>1, <1>4 DEF Full

\* The share of the protected segment leaves room for probation.
LEMMA ProtectedShare ==
    ASSUME NEW n \in Nat \ {0}
    PROVE  /\ ProtectedCap(n) \in Nat
           /\ ProtectedCap(n) < n
           /\ n >= 2 => ProtectedCap(n) >= 1
BY DEF ProtectedCap

Segmented(c, data, p, q) == [c EXCEPT !.data = data, !.probation = p, !.protected = q]

\* Moving keys within and between the segments.
LEMMA SlruMove ==
    ASSUME NEW c, SlruInv(c), NEW p, NEW q, Segments(p, q, Cached(c)),
           Len(q) <= c.protectedCap, NEW data \in [Cached(c) -> Value]
    PROVE  LET d == Segmented(c, data, p, q)
           IN  /\ SlruInv(d) /\ Cached(d) = Cached(c) /\ d.policy = c.policy /\ d.data = data
               /\ d.probation = p /\ d.protected = q /\ d.capacity = c.capacity
<1> DEFINE d == Segmented(c, data, p, q)
<1>1. /\ c \in [policy : Policies, capacity : Nat \ {0}, size : Nat, data : [Cached(c) -> Value],
                probation : Seq(Key), protected : Seq(Key), protectedCap : Nat]
      /\ Cached(c) \subseteq Key
    BY DEF SlruInv, SizeInv
<1>2. p \in Seq(Key) /\ q \in Seq(Key)
  <2>1. Elements(p) \subseteq Key /\ Elements(q) \subseteq Key
      BY <1>1 DEF Segments
  <2> QED
      BY <2>1, ListOf DEF Segments
<1>3. /\ d.policy = c.policy /\ d.capacity = c.capacity /\ d.size = c.size
      /\ d.data = data /\ d.probation = p /\ d.protected = q /\ d.protectedCap = c.protectedCap
      /\ d \in [policy : Policies, capacity : Nat \ {0}, size : Nat, data : [Cached(c) -> Value],
                probation : Seq(Key), protected : Seq(Key), protectedCap : Nat]
    BY <1>1, <1>2 DEF Segmented
<1> HIDE DEF d
<1>4. Cached(d) = Cached(c)
    BY <1>3 DEF Cached
<1>5. SlruInv(d)
    BY <1>3, <1>4 DEF SlruInv, SizeInv
<1> QED
    BY <1>3, <1>4, <1>5 DEF d

\* A read key that was on probation is protected, if there is room for two.
LEMMA SlruPromotion ==
    ASSUME NEW c, SlruInv(c), NEW k \in Elements(c.probation)
    PROVE  LET d == Promote([c EXCEPT !.probation = Remove(@, k)], k)
           IN  /\ SlruInv(d)
               /\ HoldsTheSame(c, d)
               /\ d.capacity = c.capacity
               /\ c.capacity >= 2 => k \in Elements(d.protected)
<1> DEFINE p == Remove(c.probation, k)
           q == c.protected
           h == Head(q)
           P == Elements(c.probation)
           Q == Elements(q)
           e == [c EXCEPT !.probation = p]
           d == Promote(e, k)
<1>1. /\ c \in [policy : Policies, capacity : Nat \ {0}, size : Nat, data : [Cached(c) -> Value],
                probation : Seq(Key), protected : Seq(Key), protectedCap : Nat]
      /\ c.capacity >= 2 => c.protectedCap >= 1
      /\ Len(q) <= c.protectedCap
      /\ Enumerates(c.probation, P) /\ Enumerates(q, Q)
      /\ P \cap Q = {} /\ Cached(c) = P \cup Q
      /\ Cached(c) \subseteq Key
    BY DEF SlruInv, Segments, SizeInv
<1>2. Enumerates(p, P \ {k})
    BY <1>1, RemoveFromList
<1>3. Len(q) \in Nat /\ c.data \in [Cached(c) -> Value] /\ c.protectedCap \in Nat
    BY <1>1, ListOf
<1>4. /\ e.protectedCap = c.protectedCap /\ e.probation = p /\ e.protected = q
    BY <1>1
<1>5. CASE c.protectedCap = 0
  <2> DEFINE p2 == Append(p, k)
  <2>1. Enumerates(p2, (P \ {k}) \cup {k})
      BY <1>2, AppendToList
  <2>2. (P \ {k}) \cup {k} = P
      OBVIOUS
  <2>3. Elements(p2) = P
      BY <2>1, <2>2 DEF Enumerates
  <2>4. d = [e EXCEPT !.probation = Append(@, k)]
      BY <1>4, <1>5 DEF Promote
  <2>5. d = Segmented(c, c.data, p2, q)
      BY <1>1, <1>4, <2>4 DEF Segmented
  <2> HIDE DEF d, e, p, p2
  <2>6. Segments(p2, q, Cached(c))
      BY <1>1, <2>1, <2>2, <2>3 DEF Segments
  <2>7. Len(q) <= c.protectedCap
      BY <1>1
  <2>8. SlruInv(d) /\ d.policy = c.policy /\ d.data = c.data /\ d.capacity = c.capacity
      BY <1>3, <2>5, <2>6, <2>7, SlruMove
  <2> QED
      BY <1>1, <1>5, <2>8 DEF d, e, p, HoldsTheSame
<1>6. CASE c.protectedCap > 0 /\ Len(q) >= c.protectedCap
  <2> DEFINE p2 == Append(p, h)
             q2 == Append(Tail(q), k)
  <2>1. Len(q) > 0
      BY <1>1, <1>3, <1>6
  <2>2. Q # {}
      BY <1>1, <2>1, ListOf
  <2>3. h \in Q /\ Enumerates(Tail(q), Q \ {h})
      BY <1>1, <2>2, TakeFirst
  <2>4. h \notin P \ {k} /\ k \notin Q \ {h}
      BY <1>1, <2>3
  <2>5. Enumerates(p2, (P \ {k}) \cup {h}) /\ Enumerates(q2, (Q \ {h}) \cup {k})
      BY <1>2, <2>3, <2>4, AppendToList
  <2>6. Elements(p2) = (P \ {k}) \cup {h} /\ Elements(q2) = (Q \ {h}) \cup {k}
      BY <2>5 DEF Enumerates
  <2>7. d = [e EXCEPT !.probation = Append(@, Head(e.protected)),
                      !.protected = Append(Tail(@), k)]
      BY <1>3, <1>4, <1>6 DEF Promote
  <2>8. d = Segmented(c, c.data, p2, q2)
      BY <1>1, <1>4, <2>7 DEF Segmented
  <2>9. Len(q2) = Len(q)
      BY <1>1, <1>3, <2>1
  <2> HIDE DEF d, e, p, p2, q2, h
  <2>10. Segments(p2, q2, Cached(c))
    <3>1. ((P \ {k}) \cup {h}) \cap ((Q \ {h}) \cup {k}) = {}
        BY <1>1, <2>3
    <3>2. P \cup Q = ((P \ {k}) \cup {h}) \cup ((Q \ {h}) \cup {k})
        BY <2>3
    <3> QED
        BY <1>1, <2>5, <2>6, <3>1, <3>2 DEF Segments
  <2>11. Len(q2) <= c.protectedCap
      BY <1>1, <2>9
  <2>12. SlruInv(d) /\ d.policy = c.policy /\ d.data = c.data /\ d.capacity = c.capacity
      /\ d.protected = q2
      BY <1>3, <2>8, <2>10, <2>11, SlruMove
  <2> QED
      BY <2>6, <2>12 DEF d, e, p, HoldsTheSame
<1>7. CASE c.protectedCap > 0 /\ ~(Len(q) >= c.protectedCap)
  <2> DEFINE q2 == Append(q, k)
  <2>1. k \notin Q
      BY <1>1
  <2>2. Enumerates(q2, Q \cup {k})
      BY <1>1, <2>1, AppendToList
  <2>3. Elements(q2) = Q \cup {k} /\ Elements(p) = P \ {k}
      BY <1>2, <2>2 DEF Enumerates
  <2>4. d = [e EXCEPT !.protected = Append(@, k)]
      BY <1>3, <1>4, <1>7 DEF Promote
  <2>5. d = Segmented(c, c.data, p, q2)
      BY <1>1, <1>4, <2>4 DEF Segmented
  <2>6. Len(q2) = Len(q) + 1
      BY <1>1
  <2> HIDE DEF d, e, p, q2
  <2>7. Segments(p, q2, Cached(c))
      BY <1>1, <1>2, <2>2, <2>3 DEF Segments
  <2>8. Len(q2) <= c.protectedCap
      BY <1>3, <1>7, <2>6
  <2>9. SlruInv(d) /\ d.policy = c.policy /\ d.data = c.data /\ d.capacity = c.capacity
      /\ d.protected = q2
      BY <1>3, <2>5, <2>7, <2>8, SlruMove
  <2> QED
      BY <2>3, <2>9 DEF d, e, p, HoldsTheSame
<1> QED
    BY <1>3, <1>5, <1>6, <1>7

LEMMA SlruGetKeeps ==
    ASSUME NEW c, SlruInv(c), NEW k
    PROVE  LET d == SlruGet(c, k)
           IN  /\ SlruInv(d)
               /\ HoldsTheSame(c, d)
               /\ d.capacity = c.capacity
               /\ k \in Cached(c) /\ c.capacity >= 2 => k \in Elements(d.protected)
               /\ k \notin Cached(c) => d = c
<1> DEFINE d == SlruGet(c, k)
           P == Elements(c.probation)
           Q == Elements(c.protected)
<1>1. /\ c \in [policy : Policies, capacity : Nat \ {0}, size : Nat, data : [Cached(c) -> Value],
                probation : Seq(Key), protected : Seq(Key), protectedCap : Nat]
      /\ Len(c.protected) <= c.protectedCap
      /\ Enumerates(c.probation, P) /\ Enumerates(c.protected, Q)
      /\ P \cap Q = {} /\ Cached(c) = P \cup Q
    BY DEF SlruInv, Segments
<1>2. CASE k \in Q
  <2> DEFINE q == MoveToEnd(c.protected, k)
  <2>1. Enumerates(q, Q)
      BY <1>1, <1>2, MoveInList
  <2>2. Elements(q) = Q /\ Len(q) = Len(c.protected)
      BY <1>1, <2>1, SegmentLengths
  <2>3. d = [c EXCEPT !.protected = MoveToEnd(@, k)]
      BY <1>2 DEF SlruGet, IsProtected
  <2>4. d = Segmented(c, c.data, c.probation, q)
      BY <1>1, <2>3 DEF Segmented
  <2> HIDE DEF d, q
  <2>5. Segments(c.probation, q, Cached(c))
      BY <1>1, <2>1, <2>2 DEF Segments
  <2>6. c.data \in [Cached(c) -> Value]
      BY <1>1
  <2>7. Len(q) <= c.protectedCap
      BY <1>1, <2>2
  <2>8. SlruInv(d) /\ d.policy = c.policy /\ d.data = c.data /\ d.capacity = c.capacity
      /\ d.protected = q
      BY <2>4, <2>5, <2>6, <2>7, SlruMove
  <2> QED
      BY <1>1, <1>2, <2>2, <2>8 DEF d, HoldsTheSame
<1>3. CASE k \in P
  <2>1. k \notin Q /\ k \in Cached(c)
      BY <1>1, <1>3
  <2>2. d = Promote([c EXCEPT !.probation = Remove(@, k)], k)
      BY <2>1 DEF SlruGet, IsProtected
  <2> QED
      BY <1>3, <2>1, <2>2, SlruPromotion
<1>4. CASE k \notin P \cup Q
  <2>1. d = c
      BY <1>1, <1>4 DEF SlruGet, IsProtected
  <2> QED
      BY <1>1, <1>4, <2>1 DEF HoldsTheSame
<1> QED
    BY <1>2, <1>3, <1>4

\* Evicting the key that is on probation longest.
LEMMA SlruEviction ==
    ASSUME NEW c, SlruShape(c), Full(c)
    PROVE  LET d == SlruEvict(c)
               h == Head(c.probation)
           IN  /\ SlruShape(d)
               /\ h \in Cached(c)
               /\ Cached(d) = Cached(c) \ {h}
               /\ \A j \in Cached(d) : d.data[j] = c.data[j]
               /\ Elements(d.protected) = Elements(c.protected)
               /\ d.capacity = c.capacity
<1> DEFINE d == SlruEvict(c)
           h == Head(c.probation)
           P == Elements(c.probation)
           Q == Elements(c.protected)
           S == Cached(c) \ {h}
<1>1. /\ c \in [policy : Policies, capacity : Nat \ {0}, size : Nat, data : [Cached(c) -> Value],
                probation : Seq(Key), protected : Seq(Key), protectedCap : Nat]
      /\ Enumerates(c.probation, P) /\ Enumerates(c.protected, Q)
      /\ P \cap Q = {} /\ Cached(c) = P \cup Q
      /\ Cached(c) \subseteq Key /\ IsFiniteSet(Cached(c))
    BY DEF SlruShape, Segments
<1>2. c.probation # <<>>
    BY ProbationWhenFull
<1>3. P # {}
    BY <1>1, <1>2, ListOf
<1>4. h \in P /\ Enumerates(Tail(c.probation), P \ {h})
    BY <1>1, <1>3, TakeFirst
<1>5. /\ DOMAIN Without(c.data, h) = S
      /\ Without(c.data, h) \in [S -> Value]
      /\ \A j \in S : Without(c.data, h)[j] = c.data[j]
    BY <1>1 DEF Without, Cached
<1>6. Tail(c.probation) \in Seq(Key) /\ Elements(Tail(c.probation)) = P \ {h}
    BY <1>1, <1>2, <1>4 DEF Enumerates
<1>7. d = [c EXCEPT !.data = Without(@, h), !.probation = Tail(@)]
    BY <1>2 DEF SlruEvict
<1>8. /\ d.policy = c.policy /\ d.capacity = c.capacity /\ d.protectedCap = c.protectedCap
      /\ d.data = Without(c.data, h) /\ d.probation = Tail(c.probation)
      /\ d.protected = c.protected
      /\ d \in [policy : Policies, capacity : Nat \ {0}, size : Nat, data : [S -> Value],
                probation : Seq(Key), protected : Seq(Key), protectedCap : Nat]
    BY <1>1, <1>5, <1>6, <1>7
<1>9. S = (P \ {h}) \cup Q /\ (P \ {h}) \cap Q = {} /\ S \subseteq Key
    BY <1>1, <1>4
<1>10. IsFiniteSet(S)
    BY <1>1, CountKeys
<1> HIDE DEF d, h, S
<1>11. Cached(d) = S
    BY <1>5, <1>8 DEF Cached
<1>12. Segments(d.probation, d.protected, S)
    BY <1>1, <1>4, <1>6, <1>8, <1>9 DEF Segments
<1>13. SlruShape(d)
    BY <1>8, <1>9, <1>10, <1>11, <1>12 DEF SlruShape
<1> QED
    BY <1>1, <1>4, <1>5, <1>8, <1>11, <1>13 DEF d, h, S

\* Inserting a new key where there is room.
LEMMA SlruInsertion ==
    ASSUME NEW c, SlruShape(c), Cardinality(Cached(c)) < c.capacity,
           NEW k \in Key, k \notin Cached(c), NEW v \in Value
    PROVE  LET d == SlruInsert(c, k, v)
           IN  /\ SlruInv(d)
               /\ Cached(d) = Cached(c) \cup {k}
               /\ d.data[k] = v
               /\ \A j \in Cached(c) : d.data[j] = c.data[j]
               /\ Elements(d.protected) = Elements(c.protected)
               /\ d.capacity = c.capacity
<1> DEFINE d == SlruInsert(c, k, v)
           e == [c EXCEPT !.data = Assign(c.data, k, v), !.probation = Append(c.probation, k)]
           P == Elements(c.probation)
           Q == Elements(c.protected)
           S == Cached(c) \cup {k}
<1>1. /\ c \in [policy : Policies, capacity : Nat \ {0}, size : Nat, data : [Cached(c) -> Value],
                probation : Seq(Key), protected : Seq(Key), protectedCap : Nat]
      /\ Enumerates(c.probation, P) /\ Enumerates(c.protected, Q)
      /\ P \cap Q = {} /\ Cached(c) = P \cup Q
      /\ Cached(c) \subseteq Key /\ IsFiniteSet(Cached(c))
    BY DEF SlruShape, Segments
<1>2. k \notin P /\ k \notin Q
    BY <1>1
<1>3. Enumerates(Append(c.probation, k), P \cup {k})
    BY <1>1, <1>2, AppendToList
<1>4. Append(c.probation, k) \in Seq(Key) /\ Elements(Append(c.probation, k)) = P \cup {k}
    BY <1>1, <1>3 DEF Enumerates
<1>5. /\ DOMAIN Assign(c.data, k, v) = S /\ Assign(c.data, k, v) \in [S -> Value]
      /\ Assign(c.data, k, v)[k] = v
      /\ \A j \in Cached(c) : Assign(c.data, k, v)[j] = c.data[j]
    BY <1>1 DEF Assign, Cached
<1>6. /\ e.policy = c.policy /\ e.capacity = c.capacity /\ e.protectedCap = c.protectedCap
      /\ e.data = Assign(c.data, k, v) /\ e.probation = Append(c.probation, k)
      /\ e.protected = c.protected
      /\ e \in [policy : Policies, capacity : Nat \ {0}, size : Nat, data : [S -> Value],
                probation : Seq(Key), protected : Seq(Key), protectedCap : Nat]
    BY <1>1, <1>4, <1>5
<1>7. d = [e EXCEPT !.size = Cardinality(S)]
    BY <1>1, <1>5, <1>6 DEF SlruInsert, Sized, Cached
<1>8. /\ IsFiniteSet(S) /\ Cardinality(S) \in Nat /\ Cardinality(S) = Cardinality(Cached(c)) + 1
      /\ Cardinality(Cached(c)) \in Nat /\ c.capacity \in Nat
    BY <1>1, CountKeys
<1>9. S = (P \cup {k}) \cup Q /\ (P \cup {k}) \cap Q = {} /\ S \subseteq Key
    BY <1>1, <1>2
<1> HIDE DEF d, e, S
<1>10. /\ d.policy = c.policy /\ d.capacity = c.capacity /\ d.protectedCap = c.protectedCap
       /\ d.size = Cardinality(S)
       /\ d.data = Assign(c.data, k, v) /\ d.probation = Append(c.probation, k)
       /\ d.protected = c.protected
       /\ d \in [policy : Policies, capacity : Nat \ {0}, size : Nat, data : [S -> Value],
                 probation : Seq(Key), protected : Seq(Key), protectedCap : Nat]
    BY <1>6, <1>7, <1>8
<1>11. Cached(d) = S
    BY <1>5, <1>10 DEF Cached
<1>12. Segments(d.probation, d.protected, S)
    BY <1>1, <1>3, <1>4, <1>9, <1>10 DEF Segments
<1>13. SlruShape(d)
    BY <1>8, <1>9, <1>10, <1>11, <1>12 DEF SlruShape
<1>14. d.size = Cardinality(Cached(d)) /\ d.size <= d.capacity
    BY <1>8, <1>10, <1>11
<1>15. SlruInv(d)
    BY <1>13, <1>14, SlruIsShape
<1> QED
    BY <1>5, <1>10, <1>11, <1>15 DEF d, S

LEMMA SlruPutKeeps ==
    ASSUME NEW c, SlruInv(c), NEW k \in Key, NEW v \in Value
    PROVE  LET d == SlruPut(c, k, v)
           IN  /\ SlruInv(d)
               /\ HasPut(c, d, k, v)
               /\ Elements(d.protected) = Elements(c.protected)
               /\ d.capacity = c.capacity
<1> DEFINE d == SlruPut(c, k, v)
           P == Elements(c.probation)
           Q == Elements(c.protected)
           data == [c.data EXCEPT ![k] = v]
           h == Head(c.probation)
<1>1. /\ c \in [policy : Policies, capacity : Nat \ {0}, size : Nat, data : [Cached(c) -> Value],
                probation : Seq(Key), protected : Seq(Key), protectedCap : Nat]
      /\ Len(c.protected) <= c.protectedCap
      /\ Enumerates(c.probation, P) /\ Enumerates(c.protected, Q)
      /\ P \cap Q = {} /\ Cached(c) = P \cup Q
      /\ Segments(c.probation, c.protected, Cached(c))
    BY DEF SlruInv, Segments
<1>2. CASE k \in Cached(c)
  <2> DEFINE q == IF k \in Q THEN MoveToEnd(c.protected, k) ELSE c.protected
  <2>1. data \in [Cached(c) -> Value] /\ data[k] = v /\ \A j \in Cached(c) \ {k} : data[j] = c.data[j]
      BY <1>1, <1>2 DEF Cached
  <2>2. Enumerates(q, Q)
      BY <1>1, MoveInList
  <2>3. Elements(q) = Q /\ Len(q) = Len(c.protected)
      BY <1>1, <2>2, SegmentLengths
  <2>4. d = Segmented(c, data, c.probation, q)
    <3>1. CASE k \in Q
      <4>1. d = [c EXCEPT !.data[k] = v, !.protected = MoveToEnd(@, k)]
          BY <3>1 DEF SlruPut, IsProtected
      <4> QED
          BY <1>1, <3>1, <4>1 DEF Segmented
    <3>2. CASE k \notin Q
      <4>1. d = [c EXCEPT !.data[k] = v]
          BY <1>2, <3>2 DEF SlruPut, IsProtected
      <4> QED
          BY <1>1, <3>2, <4>1 DEF Segmented
    <3> QED
        BY <3>1, <3>2
  <2> HIDE DEF d, q, data
  <2>5. Segments(c.probation, q, Cached(c))
      BY <1>1, <2>2, <2>3 DEF Segments
  <2>6. Len(q) <= c.protectedCap
      BY <1>1, <2>3
  <2>7. /\ SlruInv(d) /\ Cached(d) = Cached(c) /\ d.policy = c.policy /\ d.data = data
        /\ d.protected = q /\ d.capacity = c.capacity
      BY <2>1, <2>4, <2>5, <2>6, SlruMove
  <2>8. HasPut(c, d, k, v)
      BY <1>2, <2>1, <2>7 DEF HasPut
  <2> QED
      BY <2>3, <2>7, <2>8 DEF d
<1>3. CASE k \notin Cached(c)
  <2> DEFINE e == IF Full(c) THEN SlruEvict(c) ELSE c
  <2>1. d = SlruInsert(e, k, v)
      BY <1>1, <1>3 DEF SlruPut, IsProtected
  <2>2. /\ SlruShape(c) /\ c.size = Cardinality(Cached(c)) /\ c.size <= c.capacity
        /\ IsFiniteSet(Cached(c)) /\ c.capacity \in Nat \ {0}
      BY SlruIsShape DEF SlruShape
  <2>3. /\ SlruShape(e) /\ e.capacity = c.capacity /\ Elements(e.protected) = Q
        /\ Cardinality(Cached(e)) < e.capacity /\ k \notin Cached(e)
        /\ \A j \in Cached(e) : j \in Cached(c) /\ e.data[j] = c.data[j]
        /\ Cached(e) = Cached(c) \/ \E victim \in Cached(c) : Cached(e) = Cached(c) \ {victim}
    <3>1. CASE Full(c)
      <4>1. /\ SlruShape(e) /\ h \in Cached(c) /\ Cached(e) = Cached(c) \ {h}
            /\ \A j \in Cached(e) : e.data[j] = c.data[j]
            /\ Elements(e.protected) = Q /\ e.capacity = c.capacity
          BY <2>2, <3>1, SlruEviction
      <4> HIDE DEF e, h
      <4>2. Cardinality(Cached(e)) < e.capacity
          BY <2>2, <4>1, RoomAfterEviction
      <4> QED
          BY <1>3, <4>1, <4>2
    <3>2. CASE ~Full(c)
      <4>1. e = c
          BY <3>2
      <4> HIDE DEF e
      <4>2. Cardinality(Cached(c)) < c.capacity
          BY <2>2, <3>2, RoomAfterEviction DEF Full
      <4> QED
          BY <1>3, <2>2, <4>1, <4>2
    <3> QED
        BY <3>1, <3>2
  <2> HIDE DEF d, e
  <2>4. /\ SlruInv(d) /\ Cached(d) = Cached(e) \cup {k} /\ d.data[k] = v
        /\ \A j \in Cached(e) : d.data[j] = e.data[j]
        /\ Elements(d.protected) = Elements(e.protected) /\ d.capacity = e.capacity
    <3>1. SlruShape(e) /\ Cardinality(Cached(e)) < e.capacity /\ k \notin Cached(e)
        BY <2>3
    <3> QED
        BY <2>1, <3>1, SlruInsertion
  <2>5. d.policy = c.policy
      BY <2>4 DEF SlruInv
  <2>6. HasPut(c, d, k, v)
      BY <1>3, <2>3, <2>4, <2>5 DEF HasPut
  <2> QED
      BY <2>3, <2>4, <2>6 DEF d
<1> QED
    BY <1>2, <1>3

LEMMA SlruInvalidateKeeps ==
    ASSUME NEW c, SlruInv(c), NEW k
    PROVE  LET d == SlruInvalidate(c, k)
           IN  /\ SlruInv(d)
               /\ HasDropped(c, d, k)
               /\ Elements(d.protected) = Elements(c.protected) \ {k}
               /\ d.capacity = c.capacity
<1> DEFINE d == SlruInvalidate(c, k)
           p == Remove(c.probation, k)
           q == Remove(c.protected, k)
           P == Elements(c.probation)
           Q == Elements(c.protected)
           S == Cached(c) \ {k}
           e == [c EXCEPT !.data = Without(c.data, k), !.probation = p, !.protected = q]
<1>1. /\ c \in [policy : Policies, capacity : Nat \ {0}, size : Nat, data : [Cached(c) -> Value],
                probation : Seq(Key), protected : Seq(Key), protectedCap : Nat]
      /\ Enumerates(c.probation, P) /\ Enumerates(c.protected, Q)
      /\ P \cap Q = {} /\ Cached(c) = P \cup Q
      /\ Cached(c) \subseteq Key /\ IsFiniteSet(Cached(c))
      /\ c.size = Cardinality(Cached(c)) /\ c.size <= c.capacity
      /\ Len(c.protected) <= c.protectedCap
      /\ SlruShape(c)
    BY SlruIsShape DEF SlruShape, Segments
<1>2. CASE k \notin Cached(c)
  <2>1. d = c /\ S = Cached(c) /\ Q \ {k} = Q
      BY <1>1, <1>2 DEF SlruInvalidate
  <2> QED
      BY <2>1 DEF HasDropped
<1>3. CASE k \in Cached(c)
  <2>1. Enumerates(p, P \ {k}) /\ Enumerates(q, Q \ {k})
      BY <1>1, RemoveFromList
  <2>2. /\ Elements(p) = P \ {k} /\ Elements(q) = Q \ {k}
        /\ IsFiniteSet(Q)
        /\ Len(q) = Cardinality(Q \ {k}) /\ Len(c.protected) = Cardinality(Q)
      BY <1>1, <2>1, SegmentLengths
  <2>3. Cardinality(Q \ {k}) <= Cardinality(Q) /\ Cardinality(Q \ {k}) \in Nat /\ Cardinality(Q) \in Nat
      BY <2>2, CountKeys
  <2>4. p \in Seq(Key) /\ q \in Seq(Key)
    <3>1. P \ {k} \subseteq Key /\ Q \ {k} \subseteq Key
        BY <1>1
    <3> QED
        BY <2>1, <3>1, ListOf
  <2>5. /\ DOMAIN Without(c.data, k) = S /\ Without(c.data, k) \in [S -> Value]
        /\ \A j \in S : Without(c.data, k)[j] = c.data[j]
      BY <1>1 DEF Without, Cached
  <2>6. /\ e.policy = c.policy /\ e.capacity = c.capacity /\ e.protectedCap = c.protectedCap
        /\ e.data = Without(c.data, k) /\ e.probation = p /\ e.protected = q
        /\ e \in [policy : Policies, capacity : Nat \ {0}, size : Nat, data : [S -> Value],
                  probation : Seq(Key), protected : Seq(Key), protectedCap : Nat]
      BY <1>1, <2>4, <2>5
  <2>7. d = [e EXCEPT !.size = Cardinality(S)]
      BY <1>1, <1>3, <2>5, <2>6 DEF SlruInvalidate, Sized, Cached
  <2>8. /\ IsFiniteSet(S) /\ Cardinality(S) \in Nat /\ Cardinality(S) <= Cardinality(Cached(c))
        /\ Cardinality(Cached(c)) \in Nat /\ c.capacity \in Nat
      BY <1>1, CountKeys
  <2>9. S = (P \ {k}) \cup (Q \ {k}) /\ (P \ {k}) \cap (Q \ {k}) = {} /\ S \subseteq Key
      BY <1>1
  <2>10. Len(q) <= c.protectedCap
      BY <1>1, <2>2, <2>3
  <2> HIDE DEF d, e, S, p, q
  <2>11. /\ d.policy = c.policy /\ d.capacity = c.capacity /\ d.protectedCap = c.protectedCap
         /\ d.size = Cardinality(S)
         /\ d.data = Without(c.data, k) /\ d.probation = p /\ d.protected = q
         /\ d \in [policy : Policies, capacity : Nat \ {0}, size : Nat, data : [S -> Value],
                   probation : Seq(Key), protected : Seq(Key), protectedCap : Nat]
      BY <2>6, <2>7, <2>8
  <2>12. Cached(d) = S
      BY <2>5, <2>11 DEF Cached
  <2>13. Segments(d.probation, d.protected, S)
      BY <2>1, <2>2, <2>9, <2>11 DEF Segments
  <2>14. SlruShape(d)
      BY <1>1, <2>8, <2>9, <2>10, <2>11, <2>12, <2>13 DEF SlruShape
  <2>15. d.size = Cardinality(Cached(d)) /\ d.size <= d.capacity
      BY <1>1, <2>8, <2>11, <2>12
  <2>16. SlruInv(d)
      BY <2>14, <2>15, SlruIsShape
  <2>17. HasDropped(c, d, k)
      BY <2>5, <2>11, <2>12 DEF HasDropped, S
  <2> QED
      BY <2>2, <2>11, <2>16, <2>17 DEF d
<1> QED
    BY <1>2, <1>3

\* Two empty segments.
LEMMA NothingSegmented == Segments(<<>>, <<>>, {})
BY NothingListed DEF Segments, Enumerates

LEMMA SlruNewKeeps ==
    ASSUME NEW n \in Nat \ {0}
    PROVE  LET d == SlruNew(n) IN SlruInv(d) /\ Cached(d) = {}
<1> DEFINE d == SlruNew(n)
           m == ProtectedCap(n)
<1>1. m \in Nat /\ m < n /\ (n >= 2 => m >= 1)
    BY ProtectedShare
<1> HIDE DEF m
<1>2. /\ d.policy = "slru" /\ d.capacity = n /\ d.size = 0 /\ d.data = Empty
      /\ d.probation = <<>> /\ d.protected = <<>> /\ d.protectedCap = m
      /\ d \in [policy : Policies, capacity : Nat \ {0}, size : Nat, data : [{} -> Value],
                probation : Seq(Key), protected : Seq(Key), protectedCap : Nat]
    BY <1>1, NothingCached DEF SlruNew, Policies, m
<1> HIDE DEF d
<1>3. Cached(d) = {}
    BY <1>2, NothingCached DEF Cached
<1>4. SlruInv(d)
    BY <1>1, <1>2, <1>3, NothingCached, NothingSegmented DEF SlruInv, SizeInv
<1> QED
    BY <1>3, <1>4 DEF d

LEMMA SlruClearKeeps ==
    ASSUME NEW c, SlruInv(c)
    PROVE  LET d == SlruClear(c) IN SlruInv(d) /\ Cached(d) = {} /\ d.policy = c.policy
<1> DEFINE d == SlruClear(c)
<1>1. /\ c \in [policy : Policies, capacity : Nat \ {0}, size : Nat, data : [Cached(c) -> Value],
                probation : Seq(Key), protected : Seq(Key), protectedCap : Nat]
      /\ c.policy = "slru" /\ c.protectedCap < c.capacity
      /\ c.capacity >= 2 => c.protectedCap >= 1
    BY DEF SlruInv
<1>2. Empty \in [{} -> Value] /\ <<>> \in Seq(Key) /\ 0 \in Nat
    BY NothingCached
<1>3. /\ d.policy = c.policy /\ d.capacity = c.capacity /\ d.size = 0 /\ d.data = Empty
      /\ d.probation = <<>> /\ d.protected = <<>> /\ d.protectedCap = c.protectedCap
      /\ d \in [policy : Policies, capacity : Nat \ {0}, size : Nat, data : [{} -> Value],
                probation : Seq(Key), protected : Seq(Key), protectedCap : Nat]
    BY <1>1, <1>2 DEF SlruClear
<1> HIDE DEF d
<1>4. Cached(d) = {}
    BY <1>3, NothingCached DEF Cached
<1>5. SlruInv(d)
    BY <1>1, <1>3, <1>4, NothingCached, NothingSegmented DEF SlruInv, SizeInv
<1> QED
    BY <1>3, <1>4, <1>5 DEF d

\* A list orders what it lists.
LEMMA ListIsOrder ==
    ASSUME NEW S, NEW order, Enumerates(order, S)
    PROVE  /\ \A x, y \in S : x = y \/ Before(order, x, y) \/ Before(order, y, x)
           /\ \A x, y : Before(order, x, y) => x \in S /\ y \in S /\ ~Before(order, y, x)
           /\ \A x, y : Before(order, x, y) => IndexOf(order, x) < IndexOf(order, y)
<1>1. /\ DOMAIN order = 1..Len(order) /\ Len(order) \in Nat
      /\ \A i \in 1..Len(order) : order[i] \in S
      /\ \A i, j \in 1..Len(order) : order[i] = order[j] => i = j
      /\ \A k \in S : \E i \in 1..Len(order) : order[i] = k
    BY ListOf
<1>2. ASSUME NEW x \in S, NEW y \in S, x # y
      PROVE  Before(order, x, y) \/ Before(order, y, x)
  <2>1. PICK i \in 1..Len(order), j \in 1..Len(order) : order[i] = x /\ order[j] = y
      BY <1>1
  <2>2. i < j \/ j < i
      BY <1>1, <1>2, <2>1
  <2> QED
      BY <1>1, <2>1, <2>2 DEF Before
<1>3. ASSUME NEW x, NEW y, Before(order, x, y)
      PROVE  x \in S /\ y \in S /\ ~Before(order, y, x) /\ IndexOf(order, x) < IndexOf(order, y)
  <2>1. PICK i \in 1..Len(order), j \in 1..Len(order) : i < j /\ order[i] = x /\ order[j] = y
      BY <1>1, <1>3 DEF Before
  <2>2. x \in S /\ y \in S
      BY <1>1, <2>1
  <2>3. IndexOf(order, x) = i /\ IndexOf(order, y) = j
    <3>1. /\ IndexOf(order, x) \in 1..Len(order) /\ order[IndexOf(order, x)] = x
          /\ IndexOf(order, y) \in 1..Len(order) /\ order[IndexOf(order, y)] = y
        BY <2>2, IndexOfKey
    <3> QED
        BY <1>1, <2>1, <3>1
  <2>4. ~Before(order, y, x)
    <3> SUFFICES ASSUME Before(order, y, x)
                 PROVE  FALSE
        OBVIOUS
    <3>1. PICK a \in 1..Len(order), b \in 1..Len(order) : a < b /\ order[a] = y /\ order[b] = x
        BY <1>1 DEF Before
    <3>2. a = j /\ b = i
        BY <1>1, <2>1, <3>1
    <3> QED
        BY <1>1, <2>1, <3>1, <3>2
  <2> QED
      BY <2>1, <2>2, <2>3, <2>4
<1> QED
    BY <1>2, <1>3

\* Removing a key adds nothing to the order.
LEMMA RemovalKeepsOrder ==
    ASSUME NEW S, NEW order, Enumerates(order, S), NEW k, NEW x, NEW y,
           Before(Remove(order, k), x, y)
    PROVE  x \in S \ {k} /\ y \in S \ {k} /\ Before(order, x, y)
<1>1. /\ Enumerates(Remove(order, k), S \ {k})
      /\ \A a, b \in S \ {k} : Before(order, a, b) => Before(Remove(order, k), a, b)
    BY RemoveFromList
<1>2. x \in S \ {k} /\ y \in S \ {k} /\ ~Before(Remove(order, k), y, x)
    BY <1>1, ListIsOrder
<1>3. x # y
    BY <1>2
<1>4. x = y \/ Before(order, x, y) \/ Before(order, y, x)
    BY <1>2, ListIsOrder
<1> QED
    BY <1>1, <1>2, <1>3, <1>4

\* Appending a key puts it behind the others and leaves their order alone.
LEMMA AppendKeepsOrder ==
    ASSUME NEW S, NEW order, Enumerates(order, S), NEW k, k \notin S, NEW x, NEW y,
           Before(Append(order, k), x, y)
    PROVE  x \in S /\ (y = k \/ Before(order, x, y))
<1> DEFINE new == Append(order, k)
<1>1. /\ Enumerates(new, S \cup {k})
      /\ \A a, b \in S : Before(order, a, b) => Before(new, a, b)
      /\ \A a \in S : Before(new, a, k)
    BY AppendToList
<1> HIDE DEF new
<1>2. x \in S \cup {k} /\ y \in S \cup {k} /\ Before(new, x, y) /\ ~Before(new, y, x)
    BY <1>1, ListIsOrder DEF new
<1>3. x # k /\ x # y
    BY <1>1, <1>2
<1>4. y \in S => x = y \/ Before(order, x, y) \/ Before(order, y, x)
    BY <1>2, <1>3, ListIsOrder
<1> QED
    BY <1>1, <1>2, <1>3, <1>4

-----------------------------------------------------------------------------
(* LFU. *)

\* The bucket of any frequency, used or not.
LEMMA BucketOf ==
    ASSUME NEW b, NEW g, Bucketed(b, g), NEW f
    PROVE  /\ Enumerates(Bucket(b, f), With(g, f))
           /\ f \in DOMAIN b <=> With(g, f) # {}
<1>1. DOMAIN b = {g[k] : k \in DOMAIN g}
    BY DEF Bucketed
<1>2. f \in DOMAIN b <=> With(g, f) # {}
    BY <1>1 DEF With
<1>3. CASE f \in DOMAIN b
    BY <1>2, <1>3 DEF Bucketed, Bucket
<1>4. CASE f \notin DOMAIN b
    BY <1>2, <1>4, NothingListed DEF Bucket
<1> QED
    BY <1>2, <1>3, <1>4

\* Whoever lists the keys of every frequency has the buckets.
LEMMA AreBuckets ==
    ASSUME NEW g, DOMAIN g \subseteq Key, NEW b, NEW F, b = [f \in F |-> b[f]],
           \A f \in F : Enumerates(b[f], With(g, f)),
           \A f : f \in F <=> With(g, f) # {}
    PROVE  Bucketed(b, g)
<1>1. F = {g[k] : k \in DOMAIN g}
    BY DEF With
<1>2. ASSUME NEW f \in F
      PROVE  b[f] \in Seq(Key)
  <2>1. With(g, f) \subseteq Key
      BY DEF With
  <2> QED
      BY <2>1, ListOf
<1>3. DOMAIN b = F /\ b \in [F -> Seq(Key)]
    BY <1>2
<1> QED
    BY <1>1, <1>3 DEF Bucketed

\* A key is taken out of its bucket.
LEMMA TakenOut ==
    ASSUME NEW b, NEW g, Bucketed(b, g), DOMAIN g \subseteq Key, NEW k \in DOMAIN g
    PROVE  LET r == TakeOut(b, g[k], k)
           IN  /\ Bucketed(r, Without(g, k))
               /\ DOMAIN r \subseteq DOMAIN b
               /\ DOMAIN b \subseteq DOMAIN r \cup {g[k]}
               /\ g[k] \in DOMAIN b
               /\ \A f \in DOMAIN r : r[f] = Remove(b[f], k)
<1> DEFINE old == g[k]
           h == Without(g, k)
           r == TakeOut(b, old, k)
           rest == Remove(b[old], k)
<1>1. DOMAIN h = DOMAIN g \ {k} /\ \A j \in DOMAIN h : h[j] = g[j]
    BY DEF Without
<1>2. \A f : With(h, f) = With(g, f) \ {k}
    BY <1>1 DEF With
<1>3. \A f : f # old => k \notin With(g, f)
    BY DEF With
<1>4. k \in With(g, old) /\ old \in DOMAIN b
    BY BucketOf DEF With
<1>5. /\ b \in [DOMAIN b -> Seq(Key)]
      /\ \A f \in DOMAIN b : Enumerates(b[f], With(g, f))
    BY DEF Bucketed
<1> HIDE DEF h, old
<1>6. ASSUME NEW f \in DOMAIN b
      PROVE  Enumerates(Remove(b[f], k), With(h, f))
    BY <1>2, <1>5, RemoveFromList
<1>7. ASSUME NEW f \in DOMAIN b, f # old
      PROVE  Remove(b[f], k) = b[f]
    BY <1>3, <1>5, <1>7, NothingRemoved
<1>8. rest = <<>> <=> With(h, old) = {}
    BY <1>4, <1>6, ListOf
<1>9. CASE rest = <<>>
  <2>1. r = [f \in DOMAIN b \ {old} |-> b[f]]
      BY <1>9 DEF TakeOut, Without
  <2>2. DOMAIN r = DOMAIN b \ {old} /\ r = [f \in DOMAIN b \ {old} |-> r[f]]
      BY <2>1
  <2>3. \A f \in DOMAIN r : r[f] = Remove(b[f], k)
      BY <1>7, <2>1, <2>2
  <2> HIDE DEF r
  <2>4. \A f : f \in DOMAIN r <=> With(h, f) # {}
      BY <1>2, <1>3, <1>8, <1>9, <2>2, BucketOf
  <2>5. \A f \in DOMAIN r : Enumerates(r[f], With(h, f))
      BY <1>6, <2>2, <2>3
  <2>6. DOMAIN h \subseteq Key
      BY <1>1
  <2>7. Bucketed(r, h)
      BY <2>2, <2>4, <2>5, <2>6, AreBuckets
  <2> QED
      BY <1>4, <2>2, <2>3, <2>7 DEF r, h, old
<1>10. CASE rest # <<>>
  <2>1. r = [b EXCEPT ![old] = rest]
      BY <1>10 DEF TakeOut
  <2>2. DOMAIN r = DOMAIN b /\ r = [f \in DOMAIN b |-> r[f]]
      BY <1>5, <2>1
  <2>3. \A f \in DOMAIN r : r[f] = Remove(b[f], k)
      BY <1>4, <1>5, <1>7, <2>1, <2>2
  <2> HIDE DEF r, rest
  <2>4. \A f : f \in DOMAIN r <=> With(h, f) # {}
      BY <1>2, <1>3, <1>8, <1>10, <2>2, BucketOf
  <2>5. \A f \in DOMAIN r : Enumerates(r[f], With(h, f))
      BY <1>6, <2>2, <2>3
  <2>6. DOMAIN h \subseteq Key
      BY <1>1
  <2>7. Bucketed(r, h)
      BY <2>2, <2>4, <2>5, <2>6, AreBuckets
  <2> QED
      BY <1>4, <2>2, <2>3, <2>7 DEF r, h, old
<1> QED
    BY <1>9, <1>10

\* A key is put into the bucket of its frequency.
LEMMA PutIntoBucket ==
    ASSUME NEW b, NEW g, Bucketed(b, g), DOMAIN g \subseteq Key,
           NEW k \in Key, k \notin DOMAIN g, NEW f
    PROVE  Bucketed(PutIn(b, f, k), Assign(g, k, f))
<1> DEFINE h == Assign(g, k, f)
           r == PutIn(b, f, k)
           F == DOMAIN b \cup {f}
<1>1. DOMAIN h = DOMAIN g \cup {k} /\ h[k] = f /\ \A j \in DOMAIN g : h[j] = g[j]
    BY DEF Assign
<1>2. \A e : With(h, e) = IF e = f THEN With(g, e) \cup {k} ELSE With(g, e)
    BY <1>1 DEF With
<1>3. k \notin With(g, f)
    BY DEF With
<1>4. /\ DOMAIN r = F /\ r = [e \in F |-> r[e]]
      /\ \A e \in F : r[e] = IF e = f THEN Append(Bucket(b, f), k) ELSE b[e]
    BY DEF PutIn, Assign
<1> HIDE DEF h, r
<1>5. Enumerates(Append(Bucket(b, f), k), With(g, f) \cup {k})
  <2>1. Enumerates(Bucket(b, f), With(g, f))
      BY BucketOf
  <2> QED
      BY <1>3, <2>1, AppendToList
<1>6. \A e \in F : Enumerates(r[e], With(h, e))
    BY <1>2, <1>4, <1>5 DEF Bucketed
<1>7. \A e : e \in F <=> With(h, e) # {}
    BY <1>2, BucketOf
<1>8. DOMAIN h \subseteq Key
    BY <1>1
<1>9. Bucketed(r, h)
    BY <1>4, <1>6, <1>7, <1>8, AreBuckets
<1> QED
    BY <1>9 DEF h, r

\* The order within the buckets when a key is taken out.
LEMMA FollowsTakenOut ==
    ASSUME NEW b, NEW g, Bucketed(b, g), DOMAIN g \subseteq Key, NEW k \in DOMAIN g,
           NEW order, Enumerates(order, DOMAIN g), Follows(b, order)
    PROVE  Follows(TakeOut(b, g[k], k), Remove(order, k))
<1> DEFINE r == TakeOut(b, g[k], k)
<1>1. DOMAIN r \subseteq DOMAIN b /\ \A f \in DOMAIN r : r[f] = Remove(b[f], k)
    BY TakenOut
<1> HIDE DEF r
<1>2. ASSUME NEW f \in DOMAIN r, NEW x \in Key, NEW y \in Key, Before(r[f], x, y)
      PROVE  Before(Remove(order, k), x, y)
  <2>1. f \in DOMAIN b /\ Enumerates(b[f], With(g, f)) /\ Before(Remove(b[f], k), x, y)
      BY <1>1, <1>2 DEF Bucketed
  <2>2. x \in With(g, f) \ {k} /\ y \in With(g, f) \ {k} /\ Before(b[f], x, y)
      BY <2>1, RemovalKeepsOrder
  <2>3. x \in DOMAIN g \ {k} /\ y \in DOMAIN g \ {k} /\ Before(order, x, y)
      BY <2>1, <2>2 DEF With, Follows
  <2> QED
      BY <2>3, RemoveFromList
<1> QED
    BY <1>2 DEF Follows, r

\* The order within the buckets when a key is put in.
LEMMA FollowsPutIn ==
    ASSUME NEW b, NEW g, Bucketed(b, g), DOMAIN g \subseteq Key,
           NEW k \in Key, k \notin DOMAIN g, NEW f,
           NEW order, Enumerates(order, DOMAIN g), Follows(b, order)
    PROVE  Follows(PutIn(b, f, k), Append(order, k))
<1> DEFINE r == PutIn(b, f, k)
<1>1. /\ DOMAIN r = DOMAIN b \cup {f}
      /\ \A e \in DOMAIN r : r[e] = IF e = f THEN Append(Bucket(b, f), k) ELSE b[e]
    BY DEF PutIn, Assign
<1> HIDE DEF r
<1>2. ASSUME NEW e \in DOMAIN b, NEW x \in Key, NEW y \in Key, Before(b[e], x, y)
      PROVE  Before(Append(order, k), x, y)
  <2>1. x \in DOMAIN g /\ y \in DOMAIN g /\ Before(order, x, y)
    <3>1. Enumerates(b[e], With(g, e))
        BY DEF Bucketed
    <3>2. x \in With(g, e) /\ y \in With(g, e)
        BY <1>2, <3>1, ListIsOrder
    <3> QED
        BY <1>2, <3>2 DEF With, Follows
  <2> QED
      BY <2>1, AppendToList
<1>3. ASSUME NEW x \in Key, NEW y \in Key, Before(Append(Bucket(b, f), k), x, y)
      PROVE  Before(Append(order, k), x, y)
  <2>1. Enumerates(Bucket(b, f), With(g, f)) /\ k \notin With(g, f)
      BY BucketOf DEF With
  <2>2. x \in With(g, f) /\ (y = k \/ Before(Bucket(b, f), x, y))
      BY <1>3, <2>1, AppendKeepsOrder
  <2>3. x \in DOMAIN g
      BY <2>2 DEF With
  <2>4. CASE y = k
      BY <2>3, <2>4, AppendToList
  <2>5. CASE Before(Bucket(b, f), x, y)
    <3>1. f \in DOMAIN b
        BY <2>2, BucketOf
    <3> QED
        BY <1>2, <2>5, <3>1 DEF Bucket
  <2> QED
      BY <2>2, <2>4, <2>5
<1> QED
    BY <1>1, <1>2, <1>3 DEF Follows, r

\* The frequencies in use.
LEMMA Frequencies ==
    ASSUME NEW b, NEW g, Bucketed(b, g), g \in [DOMAIN g -> Nat \ {0}]
    PROVE  /\ DOMAIN b = {g[k] : k \in DOMAIN g}
           /\ DOMAIN b \in SUBSET (Nat \ {0})
           /\ DOMAIN b \in SUBSET Nat
           /\ \A k \in DOMAIN g : g[k] \in DOMAIN b
           /\ DOMAIN g # {} => DOMAIN b # {}
<1>1. DOMAIN b = {g[k] : k \in DOMAIN g}
    BY DEF Bucketed
<1>2. \A k \in DOMAIN g : g[k] \in Nat \ {0}
    OBVIOUS
<1> QED
    BY <1>1, <1>2

\* A key moves to the next frequency.
LEMMA TouchedBuckets ==
    ASSUME NEW b, NEW g, Bucketed(b, g), DOMAIN g \subseteq Key, g \in [DOMAIN g -> Nat \ {0}],
           NEW k \in DOMAIN g
    PROVE  LET rest == TakeOut(b, g[k], k)
               new == PutIn(rest, g[k] + 1, k)
               h == [g EXCEPT ![k] = g[k] + 1]
               m == Least(DOMAIN b)
           IN  /\ Bucketed(new, h)
               /\ h \in [DOMAIN g -> Nat \ {0}]
               /\ Least(DOMAIN new) = IF g[k] \notin DOMAIN rest /\ m = g[k] THEN g[k] + 1 ELSE m
               /\ \A order : Enumerates(order, DOMAIN g) /\ Follows(b, order) =>
                    Follows(new, MoveToEnd(order, k))
<1> DEFINE old == g[k]
           rest == TakeOut(b, old, k)
           new == PutIn(rest, old + 1, k)
           g1 == Without(g, k)
           h == [g EXCEPT ![k] = old + 1]
           m == Least(DOMAIN b)
<1>1. DOMAIN g1 = DOMAIN g \ {k} /\ DOMAIN g1 \subseteq Key /\ k \notin DOMAIN g1 /\ k \in Key
    BY DEF Without
<1>2. h = Assign(g1, k, old + 1)
    BY DEF Without, Assign
<1>3. h \in [DOMAIN g -> Nat \ {0}] /\ old \in Nat \ {0}
    OBVIOUS
<1>4. /\ Bucketed(rest, g1) /\ DOMAIN rest \subseteq DOMAIN b
      /\ DOMAIN b \subseteq DOMAIN rest \cup {old} /\ old \in DOMAIN b
    BY TakenOut
<1>5. ASSUME NEW order, Enumerates(order, DOMAIN g), Follows(b, order)
      PROVE  Follows(new, MoveToEnd(order, k))
  <2>1. Follows(rest, Remove(order, k))
      BY <1>5, FollowsTakenOut
  <2>2. Enumerates(Remove(order, k), DOMAIN g1)
      BY <1>1, <1>5, RemoveFromList
  <2> HIDE DEF rest, g1
  <2> DEFINE f == old + 1
  <2> HIDE DEF f
  <2>3. Follows(PutIn(rest, f, k), Append(Remove(order, k), k))
      BY <1>1, <1>4, <2>1, <2>2, FollowsPutIn
  <2> QED
      BY <2>3 DEF MoveToEnd, f
<1>6. Bucketed(new, h) /\ DOMAIN new = DOMAIN rest \cup {old + 1}
  <2> HIDE DEF rest, g1, h
  <2> DEFINE f == old + 1
  <2> HIDE DEF f
  <2>1. Bucketed(PutIn(rest, f, k), Assign(g1, k, f))
      BY <1>1, <1>4, PutIntoBucket
  <2>2. DOMAIN PutIn(rest, f, k) = DOMAIN rest \cup {f}
      BY DEF PutIn, Assign
  <2> QED
      BY <1>2, <2>1, <2>2 DEF f
<1>7. DOMAIN b \in SUBSET Nat /\ m \in DOMAIN b /\ \A f \in DOMAIN b : m <= f
  <2>1. DOMAIN b \in SUBSET Nat
      BY Frequencies
  <2> QED
      BY <1>4, <2>1, LeastIsLeast
<1> HIDE DEF rest, new, g1, h, m, old
<1>8. DOMAIN new \in SUBSET Nat
    BY <1>3, <1>4, <1>6, <1>7
<1>9. CASE old \notin DOMAIN rest /\ m = old
  <2>1. old + 1 \in DOMAIN new /\ \A f \in DOMAIN new : old + 1 <= f
      BY <1>3, <1>4, <1>6, <1>7, <1>9
  <2> QED
      BY <1>3, <1>5, <1>6, <1>8, <1>9, <2>1, OneLeast DEF rest, new, h, m, old
<1>10. CASE ~(old \notin DOMAIN rest /\ m = old)
  <2>1. m \in DOMAIN new /\ \A f \in DOMAIN new : m <= f
      BY <1>3, <1>4, <1>6, <1>7, <1>10
  <2> QED
      BY <1>3, <1>5, <1>6, <1>8, <1>10, <2>1, OneLeast DEF rest, new, h, m, old
<1> QED
    BY <1>9, <1>10

\* Halving a frequency.
LEMMA HalvedFrequency ==
    ASSUME NEW f \in Nat \ {0}
    PROVE  /\ Halved(f) \in Nat \ {0}
           /\ \A e \in Nat \ {0} :
                Halved(f) = e <=> f = 2 * e \/ f = 2 * e + 1 \/ (e = 1 /\ f = 1)
BY DEF Halved

\* The buckets after the frequencies were halved.
LEMMA HalvedBucketsAgree ==
    ASSUME NEW b, NEW g, Bucketed(b, g), DOMAIN g \subseteq Key, g \in [DOMAIN g -> Nat \ {0}]
    PROVE  LET h == [k \in DOMAIN g |-> Halved(g[k])]
           IN  /\ Bucketed(HalvedBuckets(b), h)
               /\ h \in [DOMAIN g -> Nat \ {0}]
<1> DEFINE h == [k \in DOMAIN g |-> Halved(g[k])]
           r == HalvedBuckets(b)
           F == {Halved(f) : f \in DOMAIN b}
<1>1. DOMAIN h = DOMAIN g /\ h \in [DOMAIN g -> Nat \ {0}]
    BY HalvedFrequency
<1>2. DOMAIN b = {g[k] : k \in DOMAIN g} /\ DOMAIN b \subseteq Nat \ {0}
  <2>1. DOMAIN b = {g[k] : k \in DOMAIN g}
      BY DEF Bucketed
  <2>2. \A k \in DOMAIN g : g[k] \in Nat \ {0}
      OBVIOUS
  <2> QED
      BY <2>1, <2>2
<1>3. F = {h[k] : k \in DOMAIN h}
    BY <1>2
<1>4. /\ DOMAIN r = F /\ r = [e \in F |-> r[e]]
      /\ \A e \in F : r[e] = (IF e = 1 THEN Bucket(b, 1) ELSE <<>>)
                               \o Bucket(b, 2 * e) \o Bucket(b, 2 * e + 1)
    BY DEF HalvedBuckets
<1>5. \A k \in DOMAIN h : h[k] = Halved(g[k]) /\ g[k] \in Nat \ {0}
    OBVIOUS
<1> HIDE DEF h, r, F
<1>6. \A e : e \in F <=> With(h, e) # {}
    BY <1>3 DEF With
<1>7. ASSUME NEW e \in F
      PROVE  Enumerates(r[e], With(h, e))
  <2> DEFINE A == IF e = 1 THEN With(g, 1) ELSE {}
             a == IF e = 1 THEN Bucket(b, 1) ELSE <<>>
             f1 == 2 * e
             f2 == 2 * e + 1
  <2>1. e \in Nat \ {0}
      BY <1>1, <1>3
  <2>2. Enumerates(a, A)
      BY BucketOf, NothingListed
  <2>3. With(h, e) = A \cup With(g, f1) \cup With(g, f2)
      BY <1>1, <1>5, <2>1, HalvedFrequency DEF With
  <2>4. A \cap With(g, f1) = {} /\ (A \cup With(g, f1)) \cap With(g, f2) = {}
      BY <2>1 DEF With
  <2>5. r[e] = a \o Bucket(b, f1) \o Bucket(b, f2)
      BY <1>4
  <2> HIDE DEF A, a, f1, f2
  <2>6. Enumerates(Bucket(b, f1), With(g, f1)) /\ Enumerates(Bucket(b, f2), With(g, f2))
      BY BucketOf
  <2>7. Enumerates(a \o Bucket(b, f1), A \cup With(g, f1))
      BY <2>2, <2>4, <2>6, JoinLists
  <2>8. Enumerates((a \o Bucket(b, f1)) \o Bucket(b, f2), (A \cup With(g, f1)) \cup With(g, f2))
      BY <2>4, <2>6, <2>7, JoinLists
  <2> QED
      BY <2>3, <2>5, <2>8
<1>8. DOMAIN h \subseteq Key
    BY <1>1
<1>9. Bucketed(r, h)
    BY <1>4, <1>6, <1>7, <1>8, AreBuckets
<1> QED
    BY <1>1, <1>9 DEF h, r

LfuShape(c, policy, interval) ==
  /\ c.policy = policy
  /\ c \in [policy : Policies, capacity : Nat \ {0}, size : Nat, data : [Cached(c) -> Value],
            freq : [Cached(c) -> Nat \ {0}], buckets : [DOMAIN c.buckets -> Seq(Key)],
            minFreq : Nat, interval : {interval}, updates : Nat]
  /\ Cached(c) \subseteq Key
  /\ IsFiniteSet(Cached(c))
  /\ Bucketed(c.buckets, c.freq)

LeastKept(c) == c.minFreq = IF Cached(c) = {} THEN 0 ELSE Least(DOMAIN c.buckets)

LEMMA LfuIsShape ==
    ASSUME NEW c, NEW policy, NEW interval
    PROVE  LfuInv(c, policy, interval) <=>
             /\ LfuShape(c, policy, interval)
             /\ LeastKept(c)
             /\ c.size = Cardinality(Cached(c)) /\ c.size <= c.capacity
BY DEF LfuInv, LfuShape, SizeInv, LeastKept

Counted(c, data, freq, buckets, minFreq) ==
  [c EXCEPT !.data = data, !.freq = freq, !.buckets = buckets, !.minFreq = minFreq]

\* Other data, frequencies and buckets that agree.
LEMMA LfuRecount ==
    ASSUME NEW c, NEW policy, NEW interval, LfuShape(c, policy, interval),
           NEW S \in SUBSET Key, IsFiniteSet(S), NEW data \in [S -> Value],
           NEW freq \in [S -> Nat \ {0}], NEW buckets, Bucketed(buckets, freq), NEW m \in Nat
    PROVE  LET d == Counted(c, data, freq, buckets, m)
           IN  /\ LfuShape(d, policy, interval)
               /\ Cached(d) = S
               /\ d.policy = c.policy /\ d.capacity = c.capacity /\ d.size = c.size
               /\ d.interval = c.interval /\ d.updates = c.updates
               /\ d.data = data /\ d.freq = freq /\ d.buckets = buckets /\ d.minFreq = m
<1> DEFINE d == Counted(c, data, freq, buckets, m)
<1>1. /\ c \in [policy : Policies, capacity : Nat \ {0}, size : Nat, data : [Cached(c) -> Value],
                freq : [Cached(c) -> Nat \ {0}], buckets : [DOMAIN c.buckets -> Seq(Key)],
                minFreq : Nat, interval : {interval}, updates : Nat]
      /\ c.policy = policy
    BY DEF LfuShape
<1>2. buckets \in [DOMAIN buckets -> Seq(Key)]
    BY DEF Bucketed
<1>3. /\ d.policy = c.policy /\ d.capacity = c.capacity /\ d.size = c.size
      /\ d.interval = c.interval /\ d.updates = c.updates
      /\ d.data = data /\ d.freq = freq /\ d.buckets = buckets /\ d.minFreq = m
      /\ d \in [policy : Policies, capacity : Nat \ {0}, size : Nat, data : [S -> Value],
                freq : [S -> Nat \ {0}], buckets : [DOMAIN buckets -> Seq(Key)],
                minFreq : Nat, interval : {interval}, updates : Nat]
    BY <1>1, <1>2 DEF Counted
<1> HIDE DEF d
<1>4. Cached(d) = S
    BY <1>3 DEF Cached
<1>5. LfuShape(d, policy, interval)
    BY <1>1, <1>3, <1>4 DEF LfuShape
<1> QED
    BY <1>3, <1>4, <1>5 DEF d

\* The statistic set right.
LEMMA LfuSized ==
    ASSUME NEW c, NEW policy, NEW interval, LfuShape(c, policy, interval),
           Cardinality(Cached(c)) <= c.capacity, LeastKept(c)
    PROVE  LET d == Sized(c)
           IN  /\ LfuInv(d, policy, interval)
               /\ Cached(d) = Cached(c)
               /\ d.policy = c.policy /\ d.data = c.data
               /\ d.freq = c.freq /\ d.buckets = c.buckets
<1> DEFINE n == Cardinality(Cached(c))
           d == [c EXCEPT !.size = n]
<1>1. /\ c \in [policy : Policies, capacity : Nat \ {0}, size : Nat, data : [Cached(c) -> Value],
                freq : [Cached(c) -> Nat \ {0}], buckets : [DOMAIN c.buckets -> Seq(Key)],
                minFreq : Nat, interval : {interval}, updates : Nat]
      /\ c.policy = policy /\ Cached(c) \subseteq Key /\ IsFiniteSet(Cached(c))
      /\ Bucketed(c.buckets, c.freq)
    BY DEF LfuShape
<1>2. n \in Nat
    BY <1>1, CountKeys
<1>3. Sized(c) = d
    BY DEF Sized
<1> HIDE DEF n
<1>4. /\ d.policy = c.policy /\ d.capacity = c.capacity /\ d.size = n
      /\ d.data = c.data /\ d.freq = c.freq /\ d.buckets = c.buckets /\ d.minFreq = c.minFreq
      /\ d \in [policy : Policies, capacity : Nat \ {0}, size : Nat, data : [Cached(c) -> Value],
                freq : [Cached(c) -> Nat \ {0}], buckets : [DOMAIN c.buckets -> Seq(Key)],
                minFreq : Nat, interval : {interval}, updates : Nat]
    BY <1>1, <1>2
<1> HIDE DEF d
<1>5. Cached(d) = Cached(c)
    BY <1>4 DEF Cached
<1>6. LfuShape(d, policy, interval)
    BY <1>1, <1>4, <1>5 DEF LfuShape
<1>7. LeastKept(d)
    BY <1>4, <1>5 DEF LeastKept
<1>8. d.size = Cardinality(Cached(d)) /\ d.size <= d.capacity
    BY <1>4, <1>5 DEF n
<1>9. LfuInv(d, policy, interval)
    BY <1>6, <1>7, <1>8, LfuIsShape
<1> QED
    BY <1>3, <1>4, <1>5, <1>9

\* Halving all frequencies.
LEMMA DecayKeeps ==
    ASSUME NEW c, NEW policy, NEW interval, LfuShape(c, policy, interval),
           Cached(c) # {}, c.size = Cardinality(Cached(c)), c.size <= c.capacity
    PROVE  LfuInv(Decay(c), policy, interval) /\ HoldsTheSame(c, Decay(c))
<1> DEFINE freq == [k \in DOMAIN c.freq |-> Halved(c.freq[k])]
           buckets == HalvedBuckets(c.buckets)
           m == Least({freq[k] : k \in DOMAIN freq})
           d == Decay(c)
<1>1. /\ c \in [policy : Policies, capacity : Nat \ {0}, size : Nat, data : [Cached(c) -> Value],
                freq : [Cached(c) -> Nat \ {0}], buckets : [DOMAIN c.buckets -> Seq(Key)],
                minFreq : Nat, interval : {interval}, updates : Nat]
      /\ Cached(c) \subseteq Key /\ IsFiniteSet(Cached(c))
      /\ Bucketed(c.buckets, c.freq)
    BY DEF LfuShape
<1>2. c.freq \in [Cached(c) -> Nat \ {0}] /\ DOMAIN c.freq = Cached(c)
    BY <1>1
<1>3. Bucketed(buckets, freq) /\ freq \in [Cached(c) -> Nat \ {0}]
    BY <1>1, <1>2, HalvedBucketsAgree
<1>4. c.data \in [Cached(c) -> Value] /\ Cached(c) \in SUBSET Key /\ IsFiniteSet(Cached(c))
    BY <1>1
<1> HIDE DEF freq, buckets
<1>5. {freq[k] : k \in DOMAIN freq} = DOMAIN buckets /\ DOMAIN freq = Cached(c)
  <2>1. DOMAIN buckets = {freq[k] : k \in DOMAIN freq}
      BY <1>3 DEF Bucketed
  <2>2. DOMAIN freq = Cached(c)
      BY <1>3
  <2> QED
      BY <2>1, <2>2
<1>6. DOMAIN buckets \in SUBSET Nat /\ DOMAIN buckets # {}
  <2>1. DOMAIN buckets # {}
      BY <1>5
  <2>2. \A k \in DOMAIN freq : freq[k] \in Nat
      BY <1>3
  <2> QED
      BY <1>5, <2>1, <2>2
<1>7. m = Least(DOMAIN buckets) /\ m \in Nat
    BY <1>5, <1>6, LeastIsLeast
<1>8. d = Counted(c, c.data, freq, buckets, m)
    BY <1>1 DEF Decay, Counted, freq, buckets
<1> HIDE DEF d, m
<1>9. /\ LfuShape(d, policy, interval) /\ Cached(d) = Cached(c)
      /\ d.policy = c.policy /\ d.capacity = c.capacity /\ d.size = c.size
      /\ d.data = c.data /\ d.buckets = buckets /\ d.minFreq = m
    BY <1>3, <1>4, <1>7, <1>8, LfuRecount
<1>10. LeastKept(d)
    BY <1>7, <1>9 DEF LeastKept
<1>11. LfuInv(d, policy, interval)
    BY <1>9, <1>10, LfuIsShape
<1> QED
    BY <1>9, <1>11 DEF HoldsTheSame, d

\* After an update the frequencies may be halved, if the policy decays.
LEMMA MaybeDecayKeeps ==
    ASSUME NEW c, NEW policy, NEW interval \in Nat, LfuInv(c, policy, interval), Cached(c) # {}
    PROVE  LET d == MaybeDecay(c)
           IN  /\ LfuInv(d, policy, interval)
               /\ HoldsTheSame(c, d)
               /\ interval = 0 => d = c
<1> DEFINE d == MaybeDecay(c)
<1>1. /\ c \in [policy : Policies, capacity : Nat \ {0}, size : Nat, data : [Cached(c) -> Value],
                freq : [Cached(c) -> Nat \ {0}], buckets : [DOMAIN c.buckets -> Seq(Key)],
                minFreq : Nat, interval : {interval}, updates : Nat]
      /\ c.policy = policy /\ Cached(c) \subseteq Key /\ IsFiniteSet(Cached(c))
      /\ Bucketed(c.buckets, c.freq)
      /\ LeastKept(c) /\ c.size = Cardinality(Cached(c)) /\ c.size <= c.capacity
    BY LfuIsShape DEF LfuShape
<1>2. CASE interval = 0
  <2>1. d = c
      BY <1>1, <1>2 DEF MaybeDecay
  <2> QED
      BY <2>1 DEF HoldsTheSame
<1>3. ASSUME interval > 0, NEW u \in Nat
      PROVE  LET e == [c EXCEPT !.updates = u]
             IN  LfuInv(e, policy, interval) /\ HoldsTheSame(c, e) /\ Cached(e) = Cached(c)
  <2> DEFINE e == [c EXCEPT !.updates = u]
  <2>1. /\ e.policy = c.policy /\ e.capacity = c.capacity /\ e.size = c.size
        /\ e.data = c.data /\ e.freq = c.freq /\ e.buckets = c.buckets /\ e.minFreq = c.minFreq
        /\ e \in [policy : Policies, capacity : Nat \ {0}, size : Nat, data : [Cached(c) -> Value],
                  freq : [Cached(c) -> Nat \ {0}], buckets : [DOMAIN c.buckets -> Seq(Key)],
                  minFreq : Nat, interval : {interval}, updates : Nat]
      BY <1>1
  <2> HIDE DEF e
  <2>2. Cached(e) = Cached(c)
      BY <2>1 DEF Cached
  <2>3. LfuShape(e, policy, interval) /\ LeastKept(e)
      BY <1>1, <2>1, <2>2 DEF LfuShape, LeastKept
  <2>4. LfuInv(e, policy, interval)
      BY <1>1, <2>1, <2>2, <2>3, LfuIsShape
  <2> QED
      BY <2>1, <2>2, <2>4 DEF HoldsTheSame, e
<1>4. CASE interval > 0 /\ c.updates + 1 < c.interval
  <2>1. d = [c EXCEPT !.updates = c.updates + 1] /\ c.updates + 1 \in Nat
      BY <1>1, <1>4 DEF MaybeDecay
  <2> QED
      BY <1>3, <1>4, <2>1
<1>5. CASE interval > 0 /\ ~(c.updates + 1 < c.interval)
  <2> DEFINE e == [c EXCEPT !.updates = 0]
  <2>1. d = Decay(e)
      BY <1>1, <1>5 DEF MaybeDecay
  <2>2. LfuInv(e, policy, interval) /\ HoldsTheSame(c, e) /\ Cached(e) = Cached(c)
      BY <1>3, <1>5
  <2> HIDE DEF d, e
  <2>3. LfuShape(e, policy, interval) /\ Cached(e) # {}
        /\ e.size = Cardinality(Cached(e)) /\ e.size <= e.capacity
      BY <2>2, LfuIsShape
  <2>4. LfuInv(d, policy, interval) /\ HoldsTheSame(e, d)
      BY <2>1, <2>3, DecayKeeps
  <2> QED
      BY <1>5, <2>2, <2>4 DEF HoldsTheSame, d
<1>6. interval = 0 \/ interval > 0
    OBVIOUS
<1> QED
    BY <1>2, <1>4, <1>5, <1>6

\* Each cached key has a frequency, which is a bucket's.
LEMMA LfuFacts ==
    ASSUME NEW c, NEW policy, NEW interval, LfuShape(c, policy, interval)
    PROVE  /\ c.freq \in [Cached(c) -> Nat \ {0}]
           /\ DOMAIN c.freq = Cached(c)
           /\ c.freq \in [DOMAIN c.freq -> Nat \ {0}]
           /\ c.data \in [Cached(c) -> Value]
           /\ c.minFreq \in Nat /\ c.capacity \in Nat \ {0}
           /\ DOMAIN c.freq \subseteq Key
           /\ Cached(c) \in SUBSET Key
           /\ IsFiniteSet(Cached(c))
           /\ Bucketed(c.buckets, c.freq)
           /\ DOMAIN c.buckets \in SUBSET Nat
           /\ Cached(c) # {} => DOMAIN c.buckets # {}
<1>1. /\ c \in [policy : Policies, capacity : Nat \ {0}, size : Nat, data : [Cached(c) -> Value],
                freq : [Cached(c) -> Nat \ {0}], buckets : [DOMAIN c.buckets -> Seq(Key)],
                minFreq : Nat, interval : {interval}, updates : Nat]
      /\ Cached(c) \subseteq Key /\ IsFiniteSet(Cached(c))
      /\ Bucketed(c.buckets, c.freq)
    BY DEF LfuShape
<1>2. c.freq \in [Cached(c) -> Nat \ {0}] /\ DOMAIN c.freq = Cached(c)
    BY <1>1
<1>3. c.data \in [Cached(c) -> Value] /\ c.minFreq \in Nat /\ c.capacity \in Nat \ {0}
    BY <1>1
<1>4. DOMAIN c.buckets \in SUBSET Nat /\ (Cached(c) # {} => DOMAIN c.buckets # {})
    BY <1>1, <1>2, Frequencies
<1> QED
    BY <1>1, <1>2, <1>3, <1>4

\* get of a cached key, and an update.
LEMMA TouchKeeps ==
    ASSUME NEW c, NEW policy, NEW interval \in Nat, LfuInv(c, policy, interval),
           NEW k \in Cached(c)
    PROVE  LET d == Touch(c, k)
           IN  /\ LfuInv(d, policy, interval)
               /\ HoldsTheSame(c, d)
               /\ \A order : interval = 0 /\ Enumerates(order, Cached(c)) /\ Follows(c.buckets, order) =>
                    Follows(d.buckets, MoveToEnd(order, k))
<1> DEFINE old == c.freq[k]
           rest == TakeOut(c.buckets, old, k)
           new == PutIn(rest, old + 1, k)
           freq == [c.freq EXCEPT ![k] = old + 1]
           m == IF old \notin DOMAIN rest /\ c.minFreq = old THEN old + 1 ELSE c.minFreq
           e == Counted(c, c.data, freq, new, m)
           d == Touch(c, k)
<1>1. /\ LfuShape(c, policy, interval) /\ LeastKept(c)
      /\ c.size = Cardinality(Cached(c)) /\ c.size <= c.capacity
    BY LfuIsShape
<1>2. /\ c.freq \in [Cached(c) -> Nat \ {0}] /\ DOMAIN c.freq = Cached(c)
      /\ c.data \in [Cached(c) -> Value] /\ c.minFreq \in Nat
      /\ Cached(c) \in SUBSET Key /\ IsFiniteSet(Cached(c))
      /\ Bucketed(c.buckets, c.freq)
    BY <1>1, LfuFacts
<1>3. /\ Bucketed(new, freq)
      /\ freq \in [Cached(c) -> Nat \ {0}]
      /\ Least(DOMAIN new) = m
      /\ \A order : Enumerates(order, Cached(c)) /\ Follows(c.buckets, order) =>
           Follows(new, MoveToEnd(order, k))
  <2>1. c.minFreq = Least(DOMAIN c.buckets)
      BY <1>1 DEF LeastKept
  <2> QED
      BY <1>2, <2>1, TouchedBuckets
<1>4. m \in Nat
    BY <1>2
<1>5. d = MaybeDecay(e)
  <2>1. e = [c EXCEPT !.freq[k] = old + 1, !.buckets = new, !.minFreq = m]
      BY <1>1, <1>2 DEF Counted, LfuShape
  <2> QED
      BY <1>1, <2>1 DEF Touch, LfuShape
<1> HIDE DEF d, e, m, freq, new, rest, old
<1>6. /\ LfuShape(e, policy, interval) /\ Cached(e) = Cached(c)
      /\ e.policy = c.policy /\ e.capacity = c.capacity /\ e.size = c.size
      /\ e.data = c.data /\ e.buckets = new /\ e.minFreq = m
    BY <1>1, <1>2, <1>3, <1>4, LfuRecount DEF e
<1>7. LeastKept(e)
    BY <1>3, <1>6 DEF LeastKept
<1>8. LfuInv(e, policy, interval) /\ Cached(e) # {}
    BY <1>1, <1>6, <1>7, LfuIsShape
<1>9. LfuInv(d, policy, interval) /\ HoldsTheSame(e, d) /\ (interval = 0 => d = e)
    BY <1>5, <1>8, MaybeDecayKeeps
<1> QED
    BY <1>3, <1>6, <1>9 DEF d, HoldsTheSame

LEMMA LfuGetKeeps ==
    ASSUME NEW c, NEW policy, NEW interval \in Nat, LfuInv(c, policy, interval), NEW k
    PROVE  LET d == LfuGet(c, k)
           IN  /\ LfuInv(d, policy, interval)
               /\ HoldsTheSame(c, d)
               /\ k \notin Cached(c) => d = c
               /\ \A order : interval = 0 /\ k \in Cached(c)
                             /\ Enumerates(order, Cached(c)) /\ Follows(c.buckets, order) =>
                    Follows(d.buckets, MoveToEnd(order, k))
<1>1. CASE k \in Cached(c)
    BY <1>1, TouchKeeps DEF LfuGet
<1>2. CASE k \notin Cached(c)
    BY <1>2 DEF LfuGet, HoldsTheSame
<1> QED
    BY <1>1, <1>2

\* No key has a smaller frequency than j, and those that have the same stand
\* behind it in their bucket.
LeastFrequent(c, j) ==
  /\ j \in Cached(c)
  /\ \A i \in Cached(c) :
       /\ c.freq[j] <= c.freq[i]
       /\ c.freq[j] = c.freq[i] => i = j \/ Before(c.buckets[c.freq[j]], j, i)

\* The first key of the bucket that minFreq names.
LEMMA LfuVictim ==
    ASSUME NEW c, NEW policy, NEW interval, LfuInv(c, policy, interval), Cached(c) # {}
    PROVE  LET victim == Head(c.buckets[c.minFreq])
           IN  LeastFrequent(c, victim) /\ c.freq[victim] = c.minFreq
<1> DEFINE m == c.minFreq
           bucket == c.buckets[m]
           victim == Head(bucket)
           B == With(c.freq, m)
<1>1. LfuShape(c, policy, interval) /\ LeastKept(c)
    BY LfuIsShape
<1>2. /\ c.freq \in [Cached(c) -> Nat \ {0}] /\ DOMAIN c.freq = Cached(c)
      /\ c.freq \in [DOMAIN c.freq -> Nat \ {0}]
      /\ Bucketed(c.buckets, c.freq)
      /\ DOMAIN c.buckets \in SUBSET Nat /\ DOMAIN c.buckets # {}
    BY <1>1, LfuFacts
<1>3. m = Least(DOMAIN c.buckets)
    BY <1>1 DEF LeastKept
<1>4. m \in DOMAIN c.buckets /\ \A f \in DOMAIN c.buckets : m <= f
    BY <1>2, <1>3, LeastIsLeast
<1> HIDE DEF m
<1>5. \A i \in Cached(c) : c.freq[i] \in DOMAIN c.buckets
    BY <1>2, Frequencies
<1>6. Enumerates(bucket, B) /\ B # {}
    BY <1>2, <1>4, BucketOf DEF Bucketed
<1>7. victim \in B /\ victim = bucket[1] /\ 1 \in DOMAIN bucket
    BY <1>6, TakeFirst
<1> HIDE DEF victim, bucket, B
<1>8. /\ DOMAIN bucket = 1..Len(bucket) /\ Len(bucket) \in Nat
      /\ \A i \in B : \E a \in 1..Len(bucket) : bucket[a] = i
    BY <1>6, ListOf
<1>9. victim \in Cached(c) /\ c.freq[victim] = m
    BY <1>2, <1>7 DEF With, B
<1>10. ASSUME NEW i \in Cached(c), i # victim, c.freq[i] = m
       PROVE  Before(bucket, victim, i)
  <2>1. i \in B
      BY <1>2, <1>10 DEF With, B
  <2>2. PICK a \in 1..Len(bucket) : bucket[a] = i
      BY <1>8, <2>1
  <2>3. a # 1
      BY <1>7, <1>10, <2>2
  <2>4. 1 < a
      BY <1>8, <2>2, <2>3
  <2> QED
      BY <1>7, <1>8, <2>2, <2>4 DEF Before
<1>11. LeastFrequent(c, victim)
    BY <1>4, <1>5, <1>9, <1>10 DEF LeastFrequent, bucket
<1> QED
    BY <1>9, <1>11 DEF victim, bucket, m

\* Evicting it. The least frequency is set by the insertion that follows.
LEMMA LfuEviction ==
    ASSUME NEW c, NEW policy, NEW interval, LfuInv(c, policy, interval), Cached(c) # {}
    PROVE  LET d == LfuEvict(c)
               victim == Head(c.buckets[c.minFreq])
           IN  /\ LfuShape(d, policy, interval)
               /\ LeastFrequent(c, victim)
               /\ Cached(d) = Cached(c) \ {victim}
               /\ \A j \in Cached(d) : d.data[j] = c.data[j]
               /\ d.capacity = c.capacity
               /\ \A order : Enumerates(order, Cached(c)) /\ Follows(c.buckets, order) =>
                    Follows(d.buckets, Remove(order, victim))
<1> DEFINE victim == Head(c.buckets[c.minFreq])
           S == Cached(c) \ {victim}
           data == Without(c.data, victim)
           freq == Without(c.freq, victim)
           buckets == TakeOut(c.buckets, c.minFreq, victim)
           d == LfuEvict(c)
<1>1. LfuShape(c, policy, interval)
    BY LfuIsShape
<1>2. /\ c.freq \in [Cached(c) -> Nat \ {0}] /\ DOMAIN c.freq = Cached(c)
      /\ c.data \in [Cached(c) -> Value] /\ c.minFreq \in Nat
      /\ DOMAIN c.freq \subseteq Key
      /\ Cached(c) \in SUBSET Key /\ IsFiniteSet(Cached(c))
      /\ Bucketed(c.buckets, c.freq)
    BY <1>1, LfuFacts
<1>3. LeastFrequent(c, victim) /\ c.freq[victim] = c.minFreq
    BY LfuVictim
<1>4. victim \in Cached(c)
    BY <1>3 DEF LeastFrequent
<1>5. d = Counted(c, data, freq, buckets, c.minFreq)
    BY <1>1 DEF LfuEvict, Counted, LfuShape
<1> HIDE DEF victim, d
<1>6. Bucketed(buckets, freq)
    BY <1>2, <1>3, <1>4, TakenOut
<1>7. /\ data \in [S -> Value] /\ freq \in [S -> Nat \ {0}]
      /\ \A j \in S : data[j] = c.data[j]
    BY <1>2 DEF Without
<1>8. S \in SUBSET Key /\ IsFiniteSet(S)
    BY <1>2, CountKeys
<1>9. ASSUME NEW order, Enumerates(order, Cached(c)), Follows(c.buckets, order)
      PROVE  Follows(buckets, Remove(order, victim))
    BY <1>2, <1>3, <1>4, <1>9, FollowsTakenOut
<1> HIDE DEF data, freq, buckets, S
<1>10. /\ LfuShape(d, policy, interval) /\ Cached(d) = S /\ d.data = data
       /\ d.buckets = buckets /\ d.capacity = c.capacity
    BY <1>1, <1>2, <1>5, <1>6, <1>7, <1>8, LfuRecount
<1> QED
    BY <1>3, <1>7, <1>9, <1>10 DEF S, d, victim

\* Inserting a new key where there is room.
LEMMA LfuInsertion ==
    ASSUME NEW c, NEW policy, NEW interval \in Nat, LfuShape(c, policy, interval),
           Cardinality(Cached(c)) < c.capacity,
           NEW k \in Key, k \notin Cached(c), NEW v \in Value
    PROVE  LET d == LfuInsert(c, k, v)
           IN  /\ LfuInv(d, policy, interval)
               /\ Cached(d) = Cached(c) \cup {k}
               /\ d.data[k] = v
               /\ \A j \in Cached(c) : d.data[j] = c.data[j]
               /\ \A order : interval = 0 /\ Enumerates(order, Cached(c)) /\ Follows(c.buckets, order) =>
                    Follows(d.buckets, Append(order, k))
<1> DEFINE S == Cached(c) \cup {k}
           data == Assign(c.data, k, v)
           freq == Assign(c.freq, k, 1)
           buckets == PutIn(c.buckets, 1, k)
           e == Counted(c, data, freq, buckets, 1)
           s == Sized(e)
           d == LfuInsert(c, k, v)
<1>1. /\ c.freq \in [Cached(c) -> Nat \ {0}] /\ DOMAIN c.freq = Cached(c)
      /\ c.freq \in [DOMAIN c.freq -> Nat \ {0}]
      /\ c.data \in [Cached(c) -> Value] /\ c.capacity \in Nat \ {0}
      /\ DOMAIN c.freq \subseteq Key
      /\ Cached(c) \in SUBSET Key /\ IsFiniteSet(Cached(c))
      /\ Bucketed(c.buckets, c.freq)
    BY LfuFacts
<1>2. d = MaybeDecay(s)
  <2>1. e = [c EXCEPT !.data = Assign(@, k, v), !.freq = Assign(@, k, 1),
                      !.minFreq = 1, !.buckets = PutIn(@, 1, k)]
      BY DEF Counted, LfuShape
  <2> QED
      BY <2>1 DEF LfuInsert
<1>3. Bucketed(buckets, freq)
    BY <1>1, PutIntoBucket
<1>4. /\ data \in [S -> Value] /\ freq \in [S -> Nat \ {0}] /\ data[k] = v
      /\ \A j \in Cached(c) : data[j] = c.data[j]
    BY <1>1 DEF Assign
<1>5. DOMAIN buckets = DOMAIN c.buckets \cup {1}
    BY DEF PutIn, Assign
<1>6. Least(DOMAIN buckets) = 1
  <2>1. DOMAIN c.buckets \in SUBSET (Nat \ {0})
      BY <1>1, Frequencies
  <2>2. DOMAIN buckets \in SUBSET Nat /\ 1 \in DOMAIN buckets /\ \A f \in DOMAIN buckets : 1 <= f
      BY <1>5, <2>1
  <2> QED
      BY <2>2, OneLeast
<1>7. /\ S \in SUBSET Key /\ IsFiniteSet(S) /\ Cardinality(S) \in Nat
      /\ Cardinality(S) = Cardinality(Cached(c)) + 1 /\ Cardinality(Cached(c)) \in Nat
    BY <1>1, CountKeys
<1>8. ASSUME NEW order, Enumerates(order, Cached(c)), Follows(c.buckets, order)
      PROVE  Follows(buckets, Append(order, k))
    BY <1>1, <1>8, FollowsPutIn
<1> HIDE DEF data, freq, buckets, S, e, s, d
<1>9. /\ LfuShape(e, policy, interval) /\ Cached(e) = S /\ e.data = data
      /\ e.policy = c.policy /\ e.buckets = buckets /\ e.minFreq = 1 /\ e.capacity = c.capacity
    BY <1>3, <1>4, <1>7, LfuRecount DEF e
<1>10. LeastKept(e) /\ Cached(e) # {}
    BY <1>6, <1>9 DEF LeastKept, S
<1>11. Cardinality(Cached(e)) <= e.capacity
    BY <1>1, <1>7, <1>9
<1>12. /\ LfuInv(s, policy, interval) /\ Cached(s) = Cached(e) /\ s.data = e.data
       /\ s.buckets = e.buckets
    BY <1>9, <1>10, <1>11, LfuSized DEF s
<1>13. Cached(s) # {}
    BY <1>10, <1>12
<1>14. LfuInv(d, policy, interval) /\ HoldsTheSame(s, d) /\ (interval = 0 => d = s)
    BY <1>2, <1>12, <1>13, MaybeDecayKeeps
<1>15. d.data = data /\ Cached(d) = S
    BY <1>4, <1>9, <1>12, <1>14 DEF HoldsTheSame, Cached
<1> QED
    BY <1>4, <1>8, <1>9, <1>12, <1>14, <1>15 DEF S, d

\* The buckets after put still follow the order of the latest uses.
LfuOrderAfter(c, d, k, order) ==
  /\ k \in Cached(c) => Follows(d.buckets, MoveToEnd(order, k))
  /\ k \notin Cached(c) /\ Cached(d) = Cached(c) \cup {k} => Follows(d.buckets, Append(order, k))
  /\ k \notin Cached(c) =>
       \A j \in Cached(c) \ Cached(d) : Follows(d.buckets, Append(Remove(order, j), k))

LEMMA LfuPutKeeps ==
    ASSUME NEW c, NEW policy, NEW interval \in Nat, LfuInv(c, policy, interval),
           NEW k \in Key, NEW v \in Value
    PROVE  LET d == LfuPut(c, k, v)
           IN  /\ LfuInv(d, policy, interval)
               /\ HasPut(c, d, k, v)
               /\ \A j \in Cached(c) \ Cached(d) : LeastFrequent(c, j)
               /\ \A order : interval = 0 /\ Enumerates(order, Cached(c)) /\ Follows(c.buckets, order) =>
                    LfuOrderAfter(c, d, k, order)
<1> DEFINE d == LfuPut(c, k, v)
           victim == Head(c.buckets[c.minFreq])
<1>1. /\ LfuShape(c, policy, interval) /\ LeastKept(c)
      /\ c.size = Cardinality(Cached(c)) /\ c.size <= c.capacity
      /\ c.policy = policy
    BY LfuIsShape DEF LfuShape
<1>2. /\ c.freq \in [Cached(c) -> Nat \ {0}] /\ DOMAIN c.freq = Cached(c)
      /\ c.data \in [Cached(c) -> Value] /\ c.minFreq \in Nat /\ c.capacity \in Nat \ {0}
      /\ Cached(c) \in SUBSET Key /\ IsFiniteSet(Cached(c))
      /\ Bucketed(c.buckets, c.freq)
    BY <1>1, LfuFacts
<1>3. CASE k \in Cached(c)
  <2> DEFINE data == [c.data EXCEPT ![k] = v]
             e == Counted(c, data, c.freq, c.buckets, c.minFreq)
  <2>1. data \in [Cached(c) -> Value] /\ data[k] = v /\ \A j \in Cached(c) \ {k} : data[j] = c.data[j]
      BY <1>2, <1>3
  <2>2. d = Touch(e, k)
    <3>1. e = [c EXCEPT !.data[k] = v]
        BY <1>1 DEF Counted, LfuShape
    <3> QED
        BY <1>3, <3>1 DEF LfuPut
  <2> HIDE DEF data, e, d
  <2>3. /\ LfuShape(e, policy, interval) /\ Cached(e) = Cached(c) /\ e.data = data
        /\ e.policy = c.policy /\ e.capacity = c.capacity /\ e.size = c.size
        /\ e.buckets = c.buckets /\ e.minFreq = c.minFreq
      BY <1>1, <1>2, <2>1, LfuRecount DEF e
  <2>4. LeastKept(e)
      BY <1>1, <2>3 DEF LeastKept
  <2>5. LfuInv(e, policy, interval) /\ k \in Cached(e)
      BY <1>1, <1>3, <2>3, <2>4, LfuIsShape
  <2>6. /\ LfuInv(d, policy, interval) /\ HoldsTheSame(e, d)
        /\ \A order : interval = 0 /\ Enumerates(order, Cached(e)) /\ Follows(e.buckets, order) =>
             Follows(d.buckets, MoveToEnd(order, k))
      BY <2>2, <2>5, TouchKeeps
  <2>7. Cached(d) = Cached(c) /\ d.data = data /\ d.policy = c.policy
      BY <2>3, <2>6 DEF HoldsTheSame, Cached
  <2>8. HasPut(c, d, k, v)
      BY <1>3, <2>1, <2>7 DEF HasPut
  <2> QED
      BY <1>3, <2>3, <2>6, <2>7, <2>8 DEF LfuOrderAfter, d
<1>4. CASE k \notin Cached(c) /\ Full(c)
  <2> DEFINE e == LfuEvict(c)
  <2>1. d = LfuInsert(e, k, v)
      BY <1>4 DEF LfuPut
  <2>2. Cached(c) # {}
      BY <1>1, <1>2, <1>4, RoomAfterEviction DEF Full
  <2>3. /\ LfuShape(e, policy, interval) /\ LeastFrequent(c, victim)
        /\ Cached(e) = Cached(c) \ {victim}
        /\ \A j \in Cached(e) : e.data[j] = c.data[j]
        /\ e.capacity = c.capacity
        /\ \A order : Enumerates(order, Cached(c)) /\ Follows(c.buckets, order) =>
             Follows(e.buckets, Remove(order, victim))
      BY <2>2, LfuEviction
  <2> HIDE DEF d, e, victim
  <2>4. victim \in Cached(c)
      BY <2>3 DEF LeastFrequent
  <2>5. Cardinality(Cached(e)) < e.capacity /\ k \notin Cached(e)
      BY <1>1, <1>2, <1>4, <2>3, <2>4, RoomAfterEviction
  <2>6. /\ LfuInv(d, policy, interval) /\ Cached(d) = Cached(e) \cup {k} /\ d.data[k] = v
        /\ \A j \in Cached(e) : d.data[j] = e.data[j]
        /\ \A order : interval = 0 /\ Enumerates(order, Cached(e)) /\ Follows(e.buckets, order) =>
             Follows(d.buckets, Append(order, k))
    <3>1. LfuShape(e, policy, interval)
        BY <2>3
    <3> QED
        BY <2>1, <2>5, <3>1, LfuInsertion
  <2>7. d.policy = c.policy
      BY <1>1, <2>6 DEF LfuInv
  <2>8. HasPut(c, d, k, v)
      BY <1>4, <2>3, <2>4, <2>6, <2>7 DEF HasPut
  <2>9. Cached(c) \ Cached(d) = {victim} /\ Cached(d) # Cached(c) \cup {k}
      BY <1>4, <2>3, <2>4, <2>6
  <2>10. ASSUME NEW order, interval = 0, Enumerates(order, Cached(c)), Follows(c.buckets, order)
         PROVE  LfuOrderAfter(c, d, k, order)
    <3>1. Follows(e.buckets, Remove(order, victim))
        BY <2>3, <2>10
    <3>2. Enumerates(Remove(order, victim), Cached(e))
        BY <2>3, <2>10, RemoveFromList
    <3>3. Follows(d.buckets, Append(Remove(order, victim), k))
        BY <2>6, <2>10, <3>1, <3>2
    <3> QED
        BY <1>4, <2>9, <3>3 DEF LfuOrderAfter
  <2> QED
      BY <2>3, <2>6, <2>8, <2>9, <2>10 DEF d
<1>5. CASE k \notin Cached(c) /\ ~Full(c)
  <2>1. d = LfuInsert(c, k, v)
      BY <1>5 DEF LfuPut
  <2>2. Cardinality(Cached(c)) < c.capacity
      BY <1>1, <1>2, <1>5, RoomAfterEviction DEF Full
  <2> HIDE DEF d
  <2>3. /\ LfuInv(d, policy, interval) /\ Cached(d) = Cached(c) \cup {k} /\ d.data[k] = v
        /\ \A j \in Cached(c) : d.data[j] = c.data[j]
        /\ \A order : interval = 0 /\ Enumerates(order, Cached(c)) /\ Follows(c.buckets, order) =>
             Follows(d.buckets, Append(order, k))
      BY <1>1, <1>5, <2>1, <2>2, LfuInsertion
  <2>4. d.policy = c.policy
      BY <1>1, <2>3 DEF LfuInv
  <2>5. HasPut(c, d, k, v)
      BY <1>5, <2>3, <2>4 DEF HasPut
  <2> QED
      BY <1>5, <2>3, <2>5 DEF LfuOrderAfter, d
<1> QED
    BY <1>3, <1>4, <1>5

LEMMA LfuInvalidateKeeps ==
    ASSUME NEW c, NEW policy, NEW interval \in Nat, LfuInv(c, policy, interval), NEW k
    PROVE  LET d == LfuInvalidate(c, k)
           IN  /\ LfuInv(d, policy, interval)
               /\ HasDropped(c, d, k)
               /\ \A order : Enumerates(order, Cached(c)) /\ Follows(c.buckets, order) =>
                    Follows(d.buckets, Remove(order, k))
<1> DEFINE d == LfuInvalidate(c, k)
           S == Cached(c) \ {k}
           data == Without(c.data, k)
           freq == Without(c.freq, k)
           buckets == TakeOut(c.buckets, c.freq[k], k)
           m == IF DOMAIN freq = {} THEN 0 ELSE Least({freq[j] : j \in DOMAIN freq})
           e == Counted(c, data, freq, buckets, m)
<1>1. /\ LfuShape(c, policy, interval)
      /\ c.size = Cardinality(Cached(c)) /\ c.size <= c.capacity
    BY LfuIsShape
<1>2. /\ c.freq \in [Cached(c) -> Nat \ {0}] /\ DOMAIN c.freq = Cached(c)
      /\ c.data \in [Cached(c) -> Value] /\ c.capacity \in Nat \ {0}
      /\ DOMAIN c.freq \subseteq Key
      /\ Cached(c) \in SUBSET Key /\ IsFiniteSet(Cached(c))
      /\ Bucketed(c.buckets, c.freq)
    BY <1>1, LfuFacts
<1>3. CASE k \notin Cached(c)
  <2>1. d = c /\ S = Cached(c)
      BY <1>3 DEF LfuInvalidate
  <2>2. \A order : Enumerates(order, Cached(c)) => Remove(order, k) = order
      BY <1>3, NothingRemoved
  <2> QED
      BY <2>1, <2>2 DEF HasDropped
<1>4. CASE k \in Cached(c)
  <2>1. d = Sized(e)
    <3>1. e = [c EXCEPT !.data = Without(@, k), !.freq = freq,
                        !.buckets = TakeOut(@, c.freq[k], k), !.minFreq = m]
        BY <1>1 DEF Counted, LfuShape
    <3> QED
        BY <1>4, <3>1 DEF LfuInvalidate, Discard
  <2>2. Bucketed(buckets, freq)
      BY <1>2, <1>4, TakenOut
  <2>3. /\ data \in [S -> Value] /\ freq \in [S -> Nat \ {0}]
        /\ \A j \in S : data[j] = c.data[j]
      BY <1>2 DEF Without
  <2>4. /\ S \in SUBSET Key /\ IsFiniteSet(S)
        /\ Cardinality(S) <= Cardinality(Cached(c))
        /\ Cardinality(S) \in Nat /\ Cardinality(Cached(c)) \in Nat
      BY <1>2, CountKeys
  <2>5. ASSUME NEW order, Enumerates(order, Cached(c)), Follows(c.buckets, order)
        PROVE  Follows(buckets, Remove(order, k))
      BY <1>2, <1>4, <2>5, FollowsTakenOut
  <2> HIDE DEF data, freq, buckets, S, d
  <2>6. DOMAIN freq = S /\ freq \in [DOMAIN freq -> Nat \ {0}]
      BY <2>3
  <2>7. /\ {freq[j] : j \in DOMAIN freq} = DOMAIN buckets
        /\ DOMAIN buckets \in SUBSET Nat
        /\ S # {} => DOMAIN buckets # {}
      BY <2>2, <2>6, Frequencies
  <2>8. m = (IF S = {} THEN 0 ELSE Least(DOMAIN buckets)) /\ m \in Nat
      BY <2>6, <2>7, LeastIsLeast
  <2> HIDE DEF m, e
  <2>9. /\ LfuShape(e, policy, interval) /\ Cached(e) = S /\ e.data = data
        /\ e.policy = c.policy /\ e.buckets = buckets /\ e.minFreq = m /\ e.capacity = c.capacity
      BY <1>1, <2>2, <2>3, <2>4, <2>8, LfuRecount DEF e
  <2>10. LeastKept(e)
      BY <2>8, <2>9 DEF LeastKept
  <2>11. Cardinality(Cached(e)) <= e.capacity
      BY <1>1, <1>2, <2>4, <2>9
  <2>12. /\ LfuInv(d, policy, interval) /\ Cached(d) = Cached(e) /\ d.data = e.data
         /\ d.policy = e.policy /\ d.buckets = e.buckets
      BY <2>1, <2>9, <2>10, <2>11, LfuSized
  <2>13. HasDropped(c, d, k)
      BY <2>3, <2>9, <2>12 DEF HasDropped, S
  <2> QED
      BY <2>5, <2>9, <2>12, <2>13 DEF d
<1> QED
    BY <1>3, <1>4

\* No buckets.
LEMMA NothingBucketed == Bucketed(Empty, Empty)
BY NothingCached DEF Bucketed

LEMMA LfuNewKeeps ==
    ASSUME NEW policy \in Policies, NEW interval, NEW n \in Nat \ {0}
    PROVE  LET d == LfuNew(policy, n, interval) IN LfuInv(d, policy, interval) /\ Cached(d) = {}
<1> DEFINE d == LfuNew(policy, n, interval)
<1>1. /\ d.policy = policy /\ d.capacity = n /\ d.size = 0 /\ d.data = Empty
      /\ d.freq = Empty /\ d.buckets = Empty /\ d.minFreq = 0
      /\ d \in [policy : Policies, capacity : Nat \ {0}, size : Nat, data : [{} -> Value],
                freq : [{} -> Nat \ {0}], buckets : [{} -> Seq(Key)],
                minFreq : Nat, interval : {interval}, updates : Nat]
    BY NothingCached DEF LfuNew
<1> HIDE DEF d
<1>2. Cached(d) = {} /\ DOMAIN d.buckets = {}
    BY <1>1, NothingCached DEF Cached
<1>3. LfuInv(d, policy, interval)
    BY <1>1, <1>2, NothingCached, NothingBucketed DEF LfuInv, SizeInv
<1> QED
    BY <1>2, <1>3 DEF d

LEMMA LfuClearKeeps ==
    ASSUME NEW c, NEW policy, NEW interval, LfuInv(c, policy, interval)
    PROVE  LET d == LfuClear(c)
           IN  LfuInv(d, policy, interval) /\ Cached(d) = {} /\ d.policy = c.policy
               /\ d.buckets = Empty
<1> DEFINE d == LfuClear(c)
<1>1. /\ c \in [policy : Policies, capacity : Nat \ {0}, size : Nat, data : [Cached(c) -> Value],
                freq : [Cached(c) -> Nat \ {0}], buckets : [DOMAIN c.buckets -> Seq(Key)],
                minFreq : Nat, interval : {interval}, updates : Nat]
      /\ c.policy = policy
    BY DEF LfuInv
<1>2. /\ d.policy = c.policy /\ d.capacity = c.capacity /\ d.size = 0 /\ d.data = Empty
      /\ d.freq = Empty /\ d.buckets = Empty /\ d.minFreq = 0
      /\ d \in [policy : Policies, capacity : Nat \ {0}, size : Nat, data : [{} -> Value],
                freq : [{} -> Nat \ {0}], buckets : [{} -> Seq(Key)],
                minFreq : Nat, interval : {interval}, updates : Nat]
    BY <1>1, NothingCached DEF LfuClear
<1> HIDE DEF d
<1>3. Cached(d) = {} /\ DOMAIN d.buckets = {}
    BY <1>2, NothingCached DEF Cached
<1>4. LfuInv(d, policy, interval)
    BY <1>1, <1>2, <1>3, NothingCached, NothingBucketed DEF LfuInv, SizeInv
<1> QED
    BY <1>2, <1>3, <1>4 DEF d

-----------------------------------------------------------------------------
(* All policies. *)

\* The policy of a cache says which invariant it has.
LEMMA PolicyOf ==
    ASSUME NEW c, CacheInv(c)
    PROVE  /\ c.policy \in Policies \cup {"none"}
           /\ c.policy = "none" => c = NoCache
           /\ c.policy = "random" => RandomInv(c)
           /\ c.policy = "fifo" => QueueInv(c, "fifo")
           /\ c.policy = "lru" => QueueInv(c, "lru")
           /\ c.policy = "lfu" => LfuInv(c, "lfu", 0)
           /\ c.policy = "lfu_decay" => LfuInv(c, "lfu_decay", DecayInterval)
           /\ c.policy = "slru" => SlruInv(c)
           /\ c.policy = "sieve" => SieveInv(c)
<1>1. CASE c = NoCache
    BY <1>1 DEF NoCache
<1>2. CASE QueueInv(c, "fifo") \/ QueueInv(c, "lru")
    BY <1>2 DEF QueueInv, Policies
<1>3. CASE RandomInv(c)
    BY <1>3 DEF RandomInv, Policies
<1>4. CASE LfuInv(c, "lfu", 0) \/ LfuInv(c, "lfu_decay", DecayInterval)
    BY <1>4 DEF LfuInv, Policies
<1>5. CASE SlruInv(c)
    BY <1>5 DEF SlruInv, Policies
<1>6. CASE SieveInv(c)
    BY <1>6 DEF SieveInv, Policies
<1> QED
    BY <1>1, <1>2, <1>3, <1>4, <1>5, <1>6 DEF CacheInv

\* A cache of any policy counts its keys, and they are within its capacity.
LEMMA SizeOf ==
    ASSUME NEW c, CacheInv(c), c.policy # "none"
    PROVE  SizeInv(c)
BY DEF CacheInv, QueueInv, RandomInv, LfuInv, SlruInv, SieveInv, NoCache

\* Without a cache nothing is cached.
LEMMA NoCacheIsEmpty == Cached(NoCache) = {} /\ NoCache.policy = "none" /\ CacheInv(NoCache)
BY NothingCached DEF Cached, NoCache, CacheInv

LEMMA CachedAreKeys ==
    ASSUME NEW c, CacheInv(c)
    PROVE  Cached(c) \in SUBSET Key
<1>1. CASE c.policy = "none"
    BY <1>1, PolicyOf, NoCacheIsEmpty
<1>2. CASE c.policy # "none"
    BY <1>2, SizeOf DEF SizeInv
<1> QED
    BY <1>1, <1>2

LEMMA AfterGetKeeps ==
    ASSUME NEW c, CacheInv(c), NEW k
    PROVE  LET d == AfterGet(c, k)
           IN  /\ CacheInv(d)
               /\ HoldsTheSame(c, d)
               /\ k \notin Cached(c) => d = c
<1> DEFINE d == AfterGet(c, k)
<1>1. CASE c.policy = "none"
  <2>1. d = c
      BY <1>1 DEF AfterGet
  <2> QED
      BY <2>1 DEF HoldsTheSame
<1>2. CASE c.policy = "random"
  <2>1. d = c
      BY <1>2 DEF AfterGet, RandomGet
  <2> QED
      BY <2>1 DEF HoldsTheSame
<1>3. CASE c.policy = "fifo"
  <2>1. d = c
      BY <1>3 DEF AfterGet, FifoGet
  <2> QED
      BY <2>1 DEF HoldsTheSame
<1>4. CASE c.policy = "lru"
  <2>1. d = LruGet(c, k) /\ QueueInv(c, "lru")
      BY <1>4, PolicyOf DEF AfterGet
  <2> HIDE DEF d
  <2>2. QueueInv(d, "lru") /\ HoldsTheSame(c, d) /\ (k \notin Cached(c) => d = c)
      BY <2>1, LruGetKeeps
  <2> QED
      BY <2>2 DEF CacheInv, d
<1>5. CASE c.policy = "lfu"
  <2>1. d = LfuGet(c, k) /\ LfuInv(c, "lfu", 0) /\ 0 \in Nat
      BY <1>5, PolicyOf DEF AfterGet
  <2> HIDE DEF d
  <2>2. LfuInv(d, "lfu", 0) /\ HoldsTheSame(c, d) /\ (k \notin Cached(c) => d = c)
      BY <2>1, LfuGetKeeps
  <2> QED
      BY <2>2 DEF CacheInv, d
<1>6. CASE c.policy = "lfu_decay"
  <2>1. d = LfuGet(c, k) /\ LfuInv(c, "lfu_decay", DecayInterval) /\ DecayInterval \in Nat
      BY <1>6, PolicyOf, DecayIntervalAssumption DEF AfterGet
  <2> HIDE DEF d
  <2>2. LfuInv(d, "lfu_decay", DecayInterval) /\ HoldsTheSame(c, d) /\ (k \notin Cached(c) => d = c)
      BY <2>1, LfuGetKeeps
  <2> QED
      BY <2>2 DEF CacheInv, d
<1>7. CASE c.policy = "slru"
  <2>1. d = SlruGet(c, k) /\ SlruInv(c)
      BY <1>7, PolicyOf DEF AfterGet
  <2> HIDE DEF d
  <2>2. SlruInv(d) /\ HoldsTheSame(c, d) /\ (k \notin Cached(c) => d = c)
      BY <2>1, SlruGetKeeps
  <2> QED
      BY <2>2 DEF CacheInv, d
<1>8. CASE c.policy = "sieve"
  <2>1. d = SieveGet(c, k) /\ SieveInv(c)
      BY <1>8, PolicyOf DEF AfterGet
  <2> HIDE DEF d
  <2>2. SieveInv(d) /\ HoldsTheSame(c, d) /\ (k \notin Cached(c) => d = c)
      BY <2>1, SieveGetKeeps
  <2> QED
      BY <2>2 DEF CacheInv, d
<1> QED
    BY <1>1, <1>2, <1>3, <1>4, <1>5, <1>6, <1>7, <1>8, PolicyOf DEF Policies

LEMMA AfterPutKeeps ==
    ASSUME NEW c, CacheInv(c), c.policy # "none", NEW k \in Key, NEW v \in Value,
           NEW d \in AfterPut(c, k, v)
    PROVE  CacheInv(d) /\ HasPut(c, d, k, v)
<1>1. CASE c.policy = "random"
  <2>1. d \in RandomPut(c, k, v) /\ RandomInv(c)
      BY <1>1, PolicyOf DEF AfterPut
  <2> QED
      BY <2>1, RandomPutKeeps DEF CacheInv
<1>2. CASE c.policy = "fifo"
  <2>1. d = FifoPut(c, k, v) /\ QueueInv(c, "fifo")
      BY <1>2, PolicyOf DEF AfterPut
  <2>2. QueueInv(d, "fifo") /\ HasPut(c, d, k, v)
      BY <2>1, QueuePut
  <2> QED
      BY <2>2 DEF CacheInv
<1>3. CASE c.policy = "lru"
  <2>1. d = LruPut(c, k, v) /\ QueueInv(c, "lru")
      BY <1>3, PolicyOf DEF AfterPut
  <2>2. QueueInv(d, "lru") /\ HasPut(c, d, k, v)
      BY <2>1, QueuePut
  <2> QED
      BY <2>2 DEF CacheInv
<1>4. CASE c.policy = "lfu"
  <2>1. d = LfuPut(c, k, v) /\ LfuInv(c, "lfu", 0) /\ 0 \in Nat
      BY <1>4, PolicyOf DEF AfterPut
  <2>2. LfuInv(d, "lfu", 0) /\ HasPut(c, d, k, v)
      BY <2>1, LfuPutKeeps
  <2> QED
      BY <2>2 DEF CacheInv
<1>5. CASE c.policy = "lfu_decay"
  <2>1. d = LfuPut(c, k, v) /\ LfuInv(c, "lfu_decay", DecayInterval) /\ DecayInterval \in Nat
      BY <1>5, PolicyOf, DecayIntervalAssumption DEF AfterPut
  <2>2. LfuInv(d, "lfu_decay", DecayInterval) /\ HasPut(c, d, k, v)
      BY <2>1, LfuPutKeeps
  <2> QED
      BY <2>2 DEF CacheInv
<1>6. CASE c.policy = "slru"
  <2>1. d = SlruPut(c, k, v) /\ SlruInv(c)
      BY <1>6, PolicyOf DEF AfterPut
  <2>2. SlruInv(d) /\ HasPut(c, d, k, v)
      BY <2>1, SlruPutKeeps
  <2> QED
      BY <2>2 DEF CacheInv
<1>7. CASE c.policy = "sieve"
  <2>1. d = SievePut(c, k, v) /\ SieveInv(c)
      BY <1>7, PolicyOf DEF AfterPut
  <2>2. SieveInv(d) /\ HasPut(c, d, k, v)
      BY <2>1, SievePutKeeps
  <2> QED
      BY <2>2 DEF CacheInv
<1> QED
    BY <1>1, <1>2, <1>3, <1>4, <1>5, <1>6, <1>7, PolicyOf DEF Policies

LEMMA AfterInvalidateKeeps ==
    ASSUME NEW c, CacheInv(c), NEW k
    PROVE  LET d == AfterInvalidate(c, k) IN CacheInv(d) /\ HasDropped(c, d, k)
<1> DEFINE d == AfterInvalidate(c, k)
<1>1. CASE c.policy = "none"
  <2>1. d = c /\ c = NoCache
      BY <1>1, PolicyOf DEF AfterInvalidate
  <2> HIDE DEF d
  <2> QED
      BY <2>1, NoCacheIsEmpty DEF HasDropped, d
<1>2. CASE c.policy = "random"
  <2>1. d = RandomInvalidate(c, k) /\ RandomInv(c)
      BY <1>2, PolicyOf DEF AfterInvalidate
  <2> HIDE DEF d
  <2>2. RandomInv(d) /\ HasDropped(c, d, k)
      BY <2>1, RandomInvalidateKeeps
  <2> QED
      BY <2>2 DEF CacheInv, d
<1>3. CASE c.policy = "fifo"
  <2>1. d = FifoInvalidate(c, k) /\ QueueInv(c, "fifo")
      BY <1>3, PolicyOf DEF AfterInvalidate
  <2> HIDE DEF d
  <2>2. QueueInv(d, "fifo") /\ HasDropped(c, d, k)
      BY <2>1, QueueInvalidate
  <2> QED
      BY <2>2 DEF CacheInv, d
<1>4. CASE c.policy = "lru"
  <2>1. d = LruInvalidate(c, k) /\ QueueInv(c, "lru")
      BY <1>4, PolicyOf DEF AfterInvalidate
  <2> HIDE DEF d
  <2>2. QueueInv(d, "lru") /\ HasDropped(c, d, k)
      BY <2>1, QueueInvalidate
  <2> QED
      BY <2>2 DEF CacheInv, d
<1>5. CASE c.policy = "lfu"
  <2>1. d = LfuInvalidate(c, k) /\ LfuInv(c, "lfu", 0) /\ 0 \in Nat
      BY <1>5, PolicyOf DEF AfterInvalidate
  <2> HIDE DEF d
  <2>2. LfuInv(d, "lfu", 0) /\ HasDropped(c, d, k)
      BY <2>1, LfuInvalidateKeeps
  <2> QED
      BY <2>2 DEF CacheInv, d
<1>6. CASE c.policy = "lfu_decay"
  <2>1. d = LfuInvalidate(c, k) /\ LfuInv(c, "lfu_decay", DecayInterval) /\ DecayInterval \in Nat
      BY <1>6, PolicyOf, DecayIntervalAssumption DEF AfterInvalidate
  <2> HIDE DEF d
  <2>2. LfuInv(d, "lfu_decay", DecayInterval) /\ HasDropped(c, d, k)
      BY <2>1, LfuInvalidateKeeps
  <2> QED
      BY <2>2 DEF CacheInv, d
<1>7. CASE c.policy = "slru"
  <2>1. d = SlruInvalidate(c, k) /\ SlruInv(c)
      BY <1>7, PolicyOf DEF AfterInvalidate
  <2> HIDE DEF d
  <2>2. SlruInv(d) /\ HasDropped(c, d, k)
      BY <2>1, SlruInvalidateKeeps
  <2> QED
      BY <2>2 DEF CacheInv, d
<1>8. CASE c.policy = "sieve"
  <2>1. d = SieveInvalidate(c, k) /\ SieveInv(c)
      BY <1>8, PolicyOf DEF AfterInvalidate
  <2> HIDE DEF d
  <2>2. SieveInv(d) /\ HasDropped(c, d, k)
      BY <2>1, SieveInvalidateKeeps
  <2> QED
      BY <2>2 DEF CacheInv, d
<1> QED
    BY <1>1, <1>2, <1>3, <1>4, <1>5, <1>6, <1>7, <1>8, PolicyOf DEF Policies

LEMMA AfterClearKeeps ==
    ASSUME NEW c, CacheInv(c)
    PROVE  LET d == AfterClear(c) IN CacheInv(d) /\ Cached(d) = {} /\ d.policy = c.policy
<1> DEFINE d == AfterClear(c)
<1>1. CASE c.policy = "none"
  <2>1. d = c /\ c = NoCache
      BY <1>1, PolicyOf DEF AfterClear
  <2> HIDE DEF d
  <2> QED
      BY <2>1, NoCacheIsEmpty DEF d
<1>2. CASE c.policy = "random"
  <2>1. d = RandomClear(c) /\ RandomInv(c)
      BY <1>2, PolicyOf DEF AfterClear
  <2> HIDE DEF d
  <2> QED
      BY <2>1, RandomClearKeeps DEF CacheInv, d
<1>3. CASE c.policy = "fifo"
  <2>1. d = FifoClear(c) /\ QueueInv(c, "fifo")
      BY <1>3, PolicyOf DEF AfterClear
  <2> HIDE DEF d
  <2>2. QueueInv(d, "fifo") /\ Cached(d) = {} /\ d.policy = c.policy
      BY <2>1, QueueClear
  <2> QED
      BY <2>2 DEF CacheInv, d
<1>4. CASE c.policy = "lru"
  <2>1. d = LruClear(c) /\ QueueInv(c, "lru")
      BY <1>4, PolicyOf DEF AfterClear
  <2> HIDE DEF d
  <2>2. QueueInv(d, "lru") /\ Cached(d) = {} /\ d.policy = c.policy
      BY <2>1, QueueClear
  <2> QED
      BY <2>2 DEF CacheInv, d
<1>5. CASE c.policy = "lfu"
  <2>1. d = LfuClear(c) /\ LfuInv(c, "lfu", 0)
      BY <1>5, PolicyOf DEF AfterClear
  <2> HIDE DEF d
  <2>2. LfuInv(d, "lfu", 0) /\ Cached(d) = {} /\ d.policy = c.policy
      BY <2>1, LfuClearKeeps
  <2> QED
      BY <2>2 DEF CacheInv, d
<1>6. CASE c.policy = "lfu_decay"
  <2>1. d = LfuClear(c) /\ LfuInv(c, "lfu_decay", DecayInterval)
      BY <1>6, PolicyOf DEF AfterClear
  <2> HIDE DEF d
  <2>2. LfuInv(d, "lfu_decay", DecayInterval) /\ Cached(d) = {} /\ d.policy = c.policy
      BY <2>1, LfuClearKeeps
  <2> QED
      BY <2>2 DEF CacheInv, d
<1>7. CASE c.policy = "slru"
  <2>1. d = SlruClear(c) /\ SlruInv(c)
      BY <1>7, PolicyOf DEF AfterClear
  <2> HIDE DEF d
  <2> QED
      BY <2>1, SlruClearKeeps DEF CacheInv, d
<1>8. CASE c.policy = "sieve"
  <2>1. d = SieveClear(c) /\ SieveInv(c)
      BY <1>8, PolicyOf DEF AfterClear
  <2> HIDE DEF d
  <2> QED
      BY <2>1, SieveClearKeeps DEF CacheInv, d
<1> QED
    BY <1>1, <1>2, <1>3, <1>4, <1>5, <1>6, <1>7, <1>8, PolicyOf DEF Policies

LEMMA CreateCacheKeeps ==
    ASSUME NEW p \in Policies, NEW n \in Nat \ {0}
    PROVE  LET d == CreateCache(p, n) IN CacheInv(d) /\ Cached(d) = {} /\ d.policy = p
<1> DEFINE d == CreateCache(p, n)
<1>1. CASE p = "random"
  <2>1. d = RandomNew(n)
      BY <1>1 DEF CreateCache
  <2> HIDE DEF d
  <2> QED
      BY <1>1, <2>1, RandomNewKeeps DEF CacheInv, RandomInv, d
<1>2. CASE p = "fifo"
  <2>1. d = FifoNew(n)
      BY <1>2 DEF CreateCache
  <2> HIDE DEF d
  <2>2. QueueInv(d, "fifo") /\ Cached(d) = {}
      BY <2>1, QueueNew
  <2> QED
      BY <1>2, <2>2 DEF CacheInv, QueueInv, d
<1>3. CASE p = "lru"
  <2>1. d = LruNew(n)
      BY <1>3 DEF CreateCache
  <2> HIDE DEF d
  <2>2. QueueInv(d, "lru") /\ Cached(d) = {}
      BY <2>1, QueueNew
  <2> QED
      BY <1>3, <2>2 DEF CacheInv, QueueInv, d
<1>4. CASE p = "lfu"
  <2>1. d = LfuNew(p, n, 0)
      BY <1>4 DEF CreateCache
  <2> HIDE DEF d
  <2>2. LfuInv(d, p, 0) /\ Cached(d) = {}
      BY <2>1, LfuNewKeeps
  <2> QED
      BY <1>4, <2>2 DEF CacheInv, LfuInv, d
<1>5. CASE p = "lfu_decay"
  <2>1. d = LfuNew(p, n, DecayInterval)
      BY <1>5 DEF CreateCache
  <2> HIDE DEF d
  <2>2. LfuInv(d, p, DecayInterval) /\ Cached(d) = {}
      BY <2>1, LfuNewKeeps
  <2> QED
      BY <1>5, <2>2 DEF CacheInv, LfuInv, d
<1>6. CASE p = "slru"
  <2>1. d = SlruNew(n)
      BY <1>6 DEF CreateCache
  <2> HIDE DEF d
  <2> QED
      BY <1>6, <2>1, SlruNewKeeps DEF CacheInv, SlruInv, d
<1>7. CASE p = "sieve"
  <2>1. d = SieveNew(n)
      BY <1>7 DEF CreateCache
  <2> HIDE DEF d
  <2> QED
      BY <1>7, <2>1, SieveNewKeeps DEF CacheInv, SieveInv, d
<1> QED
    BY <1>1, <1>2, <1>3, <1>4, <1>5, <1>6, <1>7 DEF Policies

\* A cache has a capacity.
LEMMA CapacityOf ==
    ASSUME NEW c, CacheInv(c), c.policy # "none"
    PROVE  c.policy \in Policies /\ c.capacity \in Nat \ {0}
<1>1. CASE QueueInv(c, "fifo") \/ QueueInv(c, "lru")
    BY <1>1, PolicyOf DEF QueueInv
<1>2. CASE RandomInv(c)
    BY <1>2, PolicyOf DEF RandomInv
<1>3. CASE LfuInv(c, "lfu", 0) \/ LfuInv(c, "lfu_decay", DecayInterval)
    BY <1>3, PolicyOf DEF LfuInv
<1>4. CASE SlruInv(c)
    BY <1>4, PolicyOf DEF SlruInv
<1>5. CASE SieveInv(c)
    BY <1>5, PolicyOf DEF SieveInv
<1> QED
    BY <1>1, <1>2, <1>3, <1>4, <1>5, NoCacheIsEmpty DEF CacheInv

\* The records of an empty cache.
LEMMA EmptyRecords ==
    ASSUME NEW c, CacheInv(c), Cached(c) = {}
    PROVE  /\ c.policy = "lru" => c.order = <<>>
           /\ c.policy = "lfu" => Follows(c.buckets, <<>>)
<1>1. ASSUME c.policy = "lru"
      PROVE  c.order = <<>>
  <2>1. Enumerates(c.order, {})
      BY <1>1, PolicyOf DEF QueueInv
  <2> QED
      BY <2>1, ListOf
<1>2. ASSUME c.policy = "lfu"
      PROVE  Follows(c.buckets, <<>>)
  <2>1. LfuShape(c, "lfu", 0)
      BY <1>2, PolicyOf, LfuIsShape
  <2>2. DOMAIN c.freq = {} /\ Bucketed(c.buckets, c.freq)
      BY <2>1, LfuFacts
  <2>3. DOMAIN c.buckets = {}
      BY <2>2 DEF Bucketed
  <2> QED
      BY <2>3 DEF Follows
<1> QED
    BY <1>1, <1>2

-----------------------------------------------------------------------------
(* The steps. *)

\* The histories after a put.
LEMMA UseAfterPut ==
    ASSUME Enumerates(recency, Cached(cache)), NEW k, NEW v,
           HasPut(cache, cache', k, v), Use(k)
    PROVE  /\ k \in Cached(cache) => recency' = MoveToEnd(recency, k) /\ used' = used \cup {k}
           /\ k \notin Cached(cache) /\ Cached(cache') = Cached(cache) \cup {k} =>
                recency' = Append(recency, k) /\ used' = used
           /\ k \notin Cached(cache) =>
                \A j \in Cached(cache) \ Cached(cache') :
                  /\ Cached(cache') = (Cached(cache) \ {j}) \cup {k}
                  /\ recency' = Append(Remove(recency, j), k)
                  /\ used' = {}
<1> DEFINE evicted == Cached(cache) \ (Cached(cache') \cup {k})
           others == Remove(recency, k)
<1>1. k \in Cached(cache')
    BY DEF HasPut
<1>2. CASE k \in Cached(cache)
  <2>1. evicted = {} /\ Cached(cache') = Cached(cache)
      BY <1>2 DEF HasPut
  <2> QED
      BY <1>1, <1>2, <2>1 DEF Use, MoveToEnd
<1>3. ASSUME k \notin Cached(cache)
      PROVE  others = recency
    BY <1>3, NothingRemoved
<1>4. CASE k \notin Cached(cache) /\ Cached(cache') = Cached(cache) \cup {k}
  <2>1. evicted = {} /\ Cached(cache) \ Cached(cache') = {} /\ used \cup ({k} \cap Cached(cache)) = used
      BY <1>4
  <2> QED
      BY <1>1, <1>3, <1>4, <2>1 DEF Use
<1>5. ASSUME k \notin Cached(cache), NEW j \in Cached(cache) \ Cached(cache')
      PROVE  /\ Cached(cache') = (Cached(cache) \ {j}) \cup {k}
             /\ Cached(cache') # Cached(cache) \cup {k}
             /\ recency' = Append(Remove(recency, j), k)
             /\ used' = {}
  <2>1. Cached(cache') = (Cached(cache) \ {j}) \cup {k} /\ Cached(cache') # Cached(cache) \cup {k}
      BY <1>5 DEF HasPut
  <2>2. evicted = {j}
      BY <1>5, <2>1
  <2>3. (CHOOSE i \in {j} : TRUE) = j
      OBVIOUS
  <2>4. ~(Cached(cache) \subseteq Cached(cache'))
      BY <1>5
  <2> QED
      BY <1>1, <1>3, <1>5, <2>1, <2>2, <2>3, <2>4 DEF Use
<1> QED
    BY <1>2, <1>4, <1>5

\* The histories after a key was dropped.
LEMMA UseAfterDrop ==
    ASSUME Enumerates(recency, Cached(cache)), NEW k, HasDropped(cache, cache', k), Use(k)
    PROVE  /\ recency' = Remove(recency, k)
           /\ used \subseteq Cached(cache) => used' = used \ {k}
<1>1. /\ Cached(cache') = Cached(cache) \ {k} /\ k \notin Cached(cache')
      /\ Cached(cache) \ (Cached(cache') \cup {k}) = {}
    BY DEF HasDropped
<1>2. recency' = Remove(recency, k)
    BY <1>1 DEF Use
<1>3. CASE k \in Cached(cache)
    BY <1>1, <1>2, <1>3 DEF Use
<1>4. CASE k \notin Cached(cache)
  <2>1. used' = used
      BY <1>1, <1>4 DEF Use
  <2> QED
      BY <1>2, <1>4, <2>1
<1> QED
    BY <1>3, <1>4

\* The histories after a hit.
LEMMA UseAfterHit ==
    ASSUME NEW k \in Cached(cache), Cached(cache') = Cached(cache), Use(k)
    PROVE  recency' = MoveToEnd(recency, k) /\ used' = used \cup {k}
<1>1. Cached(cache) \ (Cached(cache') \cup {k}) = {}
    OBVIOUS
<1> QED
    BY <1>1 DEF Use, MoveToEnd

\* lastRead after a step that may drop its key.
ReadKept == lastRead' = IF lastRead \in Cached(cache') THEN lastRead ELSE None

LEMMA PutKeepsHistory ==
    ASSUME CacheInv(cache), cache.policy # "none", HistoryInv, NEW k \in Key, NEW v \in Value,
           cache' \in AfterPut(cache, k, v), Use(k), ReadKept
    PROVE  HistoryInv'
<1>1. /\ Enumerates(recency, Cached(cache)) /\ used \subseteq Cached(cache)
      /\ cache.policy = "lru" => recency = cache.order
      /\ cache.policy = "lfu" => Follows(cache.buckets, recency)
      /\ cache.policy = "slru" /\ cache.capacity >= 2 /\ lastRead # None =>
           lastRead \in Elements(cache.protected)
      /\ cache.policy = "sieve" => used \subseteq cache.visited
    BY DEF HistoryInv
<1>2. CacheInv(cache') /\ HasPut(cache, cache', k, v)
    BY AfterPutKeeps
<1>3. /\ cache'.policy = cache.policy /\ k \in Cached(cache')
      /\ k \in Cached(cache) => Cached(cache') = Cached(cache)
      /\ k \notin Cached(cache) =>
           \/ Cached(cache') = Cached(cache) \cup {k}
           \/ \E j \in Cached(cache) \ Cached(cache') : Cached(cache') = (Cached(cache) \ {j}) \cup {k}
    BY <1>2 DEF HasPut
<1>4. /\ k \in Cached(cache) => recency' = MoveToEnd(recency, k) /\ used' = used \cup {k}
      /\ k \notin Cached(cache) /\ Cached(cache') = Cached(cache) \cup {k} =>
           recency' = Append(recency, k) /\ used' = used
      /\ k \notin Cached(cache) =>
           \A j \in Cached(cache) \ Cached(cache') :
             /\ Cached(cache') = (Cached(cache) \ {j}) \cup {k}
             /\ recency' = Append(Remove(recency, j), k)
             /\ used' = {}
    BY <1>1, <1>2, UseAfterPut
<1>5. Enumerates(recency', Cached(cache'))
  <2>1. CASE k \in Cached(cache)
      BY <1>1, <1>3, <1>4, <2>1, MoveInList
  <2>2. CASE k \notin Cached(cache) /\ Cached(cache') = Cached(cache) \cup {k}
    <3>1. recency' = Append(recency, k)
        BY <1>4, <2>2
    <3>2. Enumerates(recency, Cached(cache))
        BY <1>1
    <3>3. Enumerates(Append(recency, k), Cached(cache) \cup {k})
        BY <2>2, <3>2, AppendToList
    <3> QED
        BY <2>2, <3>1, <3>3
  <2>3. ASSUME k \notin Cached(cache), NEW j \in Cached(cache) \ Cached(cache')
        PROVE  Enumerates(recency', Cached(cache'))
    <3>1. /\ Cached(cache') = (Cached(cache) \ {j}) \cup {k}
          /\ recency' = Append(Remove(recency, j), k)
        BY <1>4, <2>3
    <3>2. Enumerates(Remove(recency, j), Cached(cache) \ {j})
        BY <1>1, RemoveFromList
    <3>3. k \notin Cached(cache) \ {j}
        BY <2>3
    <3> QED
        BY <3>1, <3>2, <3>3, AppendToList
  <2> QED
      BY <1>3, <2>1, <2>2, <2>3
<1>6. lastRead' \in Cached(cache') \cup {None} /\ (lastRead' # None => lastRead' = lastRead)
    BY DEF ReadKept
<1>7. used' \subseteq Cached(cache')
    BY <1>1, <1>3, <1>4
<1>8. ASSUME cache.policy = "lru"
      PROVE  recency' = cache'.order
  <2>1. cache' = LruPut(cache, k, v) /\ QueueInv(cache, "lru")
      BY <1>8, PolicyOf DEF AfterPut
  <2>2. LruOrderAfter(cache, cache', k)
      BY <2>1, QueuePut
  <2> QED
      BY <1>1, <1>4, <1>8, <2>2 DEF LruOrderAfter
<1>9. ASSUME cache.policy = "lfu"
      PROVE  Follows(cache'.buckets, recency')
  <2>1. cache' = LfuPut(cache, k, v) /\ LfuInv(cache, "lfu", 0) /\ 0 \in Nat
      BY <1>9, PolicyOf DEF AfterPut
  <2>2. LfuOrderAfter(cache, cache', k, recency)
      BY <1>1, <1>9, <2>1, LfuPutKeeps
  <2> QED
      BY <1>3, <1>4, <2>2 DEF LfuOrderAfter
<1>10. ASSUME cache.policy = "slru", cache'.capacity >= 2, lastRead' # None
       PROVE  lastRead' \in Elements(cache'.protected)
  <2>1. cache' = SlruPut(cache, k, v) /\ SlruInv(cache)
      BY <1>10, PolicyOf DEF AfterPut
  <2>2. Elements(cache'.protected) = Elements(cache.protected) /\ cache'.capacity = cache.capacity
      BY <2>1, SlruPutKeeps
  <2> QED
      BY <1>1, <1>6, <1>10, <2>2
<1>11. ASSUME cache.policy = "sieve"
       PROVE  used' \subseteq cache'.visited
  <2>1. cache' = SievePut(cache, k, v) /\ SieveInv(cache)
      BY <1>11, PolicyOf DEF AfterPut
  <2>2. SieveMarks(cache, cache', k)
      BY <2>1, SievePutKeeps
  <2> QED
      BY <1>1, <1>3, <1>4, <1>11, <2>2 DEF SieveMarks
<1> QED
    BY <1>3, <1>5, <1>6, <1>7, <1>8, <1>9, <1>10, <1>11 DEF HistoryInv

LEMMA DropKeepsHistory ==
    ASSUME CacheInv(cache), HistoryInv, NEW k,
           cache' = AfterInvalidate(cache, k), Use(k), ReadKept
    PROVE  HistoryInv'
<1>1. /\ Enumerates(recency, Cached(cache)) /\ used \subseteq Cached(cache)
      /\ cache.policy = "lru" => recency = cache.order
      /\ cache.policy = "lfu" => Follows(cache.buckets, recency)
      /\ cache.policy = "slru" /\ cache.capacity >= 2 /\ lastRead # None =>
           lastRead \in Elements(cache.protected)
      /\ cache.policy = "sieve" => used \subseteq cache.visited
    BY DEF HistoryInv
<1>2. HasDropped(cache, cache', k)
    BY AfterInvalidateKeeps
<1>3. cache'.policy = cache.policy /\ Cached(cache') = Cached(cache) \ {k}
    BY <1>2 DEF HasDropped
<1>4. recency' = Remove(recency, k) /\ used' = used \ {k}
    BY <1>1, <1>2, UseAfterDrop
<1>5. Enumerates(recency', Cached(cache'))
    BY <1>1, <1>3, <1>4, RemoveFromList
<1>6. /\ lastRead' \in Cached(cache') \cup {None}
      /\ lastRead' # None => lastRead' = lastRead /\ lastRead' \in Cached(cache')
    BY DEF ReadKept
<1>7. used' \subseteq Cached(cache')
    BY <1>1, <1>3, <1>4
<1>8. ASSUME cache.policy = "lru"
      PROVE  recency' = cache'.order
  <2>1. cache' = LruInvalidate(cache, k) /\ QueueInv(cache, "lru")
      BY <1>8, PolicyOf DEF AfterInvalidate
  <2>2. cache'.order = Remove(cache.order, k)
      BY <2>1, QueueInvalidate
  <2> QED
      BY <1>1, <1>4, <1>8, <2>2
<1>9. ASSUME cache.policy = "lfu"
      PROVE  Follows(cache'.buckets, recency')
  <2>1. cache' = LfuInvalidate(cache, k) /\ LfuInv(cache, "lfu", 0) /\ 0 \in Nat
      BY <1>9, PolicyOf DEF AfterInvalidate
  <2> QED
      BY <1>1, <1>4, <1>9, <2>1, LfuInvalidateKeeps
<1>10. ASSUME cache.policy = "slru", cache'.capacity >= 2, lastRead' # None
       PROVE  lastRead' \in Elements(cache'.protected)
  <2>1. cache' = SlruInvalidate(cache, k) /\ SlruInv(cache)
      BY <1>10, PolicyOf DEF AfterInvalidate
  <2>2. /\ Elements(cache'.protected) = Elements(cache.protected) \ {k}
        /\ cache'.capacity = cache.capacity
      BY <2>1, SlruInvalidateKeeps
  <2> QED
      BY <1>1, <1>3, <1>6, <1>10, <2>2
<1>11. ASSUME cache.policy = "sieve"
       PROVE  used' \subseteq cache'.visited
  <2>1. cache' = SieveInvalidate(cache, k) /\ SieveInv(cache)
      BY <1>11, PolicyOf DEF AfterInvalidate
  <2>2. cache'.visited = cache.visited \ {k}
      BY <2>1, SieveInvalidateKeeps
  <2> QED
      BY <1>1, <1>4, <1>11, <2>2
<1> QED
    BY <1>3, <1>5, <1>6, <1>7, <1>8, <1>9, <1>10, <1>11 DEF HistoryInv

LEMMA HitKeepsHistory ==
    ASSUME CacheInv(cache), HistoryInv, NEW k \in Cached(cache),
           cache' = AfterGet(cache, k), Use(k), lastRead' = k
    PROVE  HistoryInv'
<1>1. /\ Enumerates(recency, Cached(cache)) /\ used \subseteq Cached(cache)
      /\ cache.policy = "lru" => recency = cache.order
      /\ cache.policy = "lfu" => Follows(cache.buckets, recency)
      /\ cache.policy = "sieve" => used \subseteq cache.visited
    BY DEF HistoryInv
<1>2. HoldsTheSame(cache, cache')
    BY AfterGetKeeps
<1>3. cache'.policy = cache.policy /\ Cached(cache') = Cached(cache)
    BY <1>2 DEF HoldsTheSame, Cached
<1>4. recency' = MoveToEnd(recency, k) /\ used' = used \cup {k}
    BY <1>3, UseAfterHit
<1>5. Enumerates(recency', Cached(cache'))
    BY <1>1, <1>3, <1>4, MoveInList
<1>6. used' \subseteq Cached(cache') /\ lastRead' \in Cached(cache')
    BY <1>1, <1>3, <1>4
<1>7. ASSUME cache.policy = "lru"
      PROVE  recency' = cache'.order
  <2>1. cache' = LruGet(cache, k) /\ QueueInv(cache, "lru")
      BY <1>7, PolicyOf DEF AfterGet
  <2>2. cache'.order = MoveToEnd(cache.order, k)
      BY <2>1, LruGetKeeps
  <2> QED
      BY <1>1, <1>4, <1>7, <2>2
<1>8. ASSUME cache.policy = "lfu"
      PROVE  Follows(cache'.buckets, recency')
  <2>1. cache' = LfuGet(cache, k) /\ LfuInv(cache, "lfu", 0) /\ 0 \in Nat
      BY <1>8, PolicyOf DEF AfterGet
  <2> QED
      BY <1>1, <1>4, <1>8, <2>1, LfuGetKeeps
<1>9. ASSUME cache.policy = "slru", cache'.capacity >= 2
      PROVE  lastRead' \in Elements(cache'.protected)
  <2>1. cache' = SlruGet(cache, k) /\ SlruInv(cache)
      BY <1>9, PolicyOf DEF AfterGet
  <2>2. cache'.capacity = cache.capacity /\ (cache.capacity >= 2 => k \in Elements(cache'.protected))
      BY <2>1, SlruGetKeeps
  <2> QED
      BY <1>9, <2>2
<1>10. ASSUME cache.policy = "sieve"
       PROVE  used' \subseteq cache'.visited
  <2>1. cache' = SieveGet(cache, k) /\ SieveInv(cache)
      BY <1>10, PolicyOf DEF AfterGet
  <2>2. cache'.visited = cache.visited \cup {k}
      BY <2>1, SieveGetKeeps
  <2> QED
      BY <1>1, <1>4, <1>10, <2>2
<1> QED
    BY <1>3, <1>5, <1>6, <1>7, <1>8, <1>9, <1>10 DEF HistoryInv

\* An empty cache and no history.
LEMMA NoHistory ==
    ASSUME CacheInv(cache), Cached(cache) = {}, recency = <<>>, lastRead = None, used = {}
    PROVE  HistoryInv
<1>1. /\ cache.policy = "lru" => cache.order = <<>>
      /\ cache.policy = "lfu" => Follows(cache.buckets, <<>>)
    BY EmptyRecords
<1> QED
    BY <1>1, NothingListed DEF HistoryInv

LEMMA NoHistoryNext ==
    ASSUME CacheInv(cache'), Cached(cache') = {}, Forgotten
    PROVE  HistoryInv'
<1>1. /\ cache'.policy = "lru" => cache'.order = <<>>
      /\ cache'.policy = "lfu" => Follows(cache'.buckets, <<>>)
    BY EmptyRecords
<1> QED
    BY <1>1, NothingListed DEF HistoryInv, Forgotten

-----------------------------------------------------------------------------
(* The invariant. *)

LEMMA InitStoreInv ==
    ASSUME Init
    PROVE  StoreInv
<1>1. CacheInv(cache) /\ Cached(cache) = {}
  <2>1. CASE cache = NoCache
      BY <2>1, NoCacheIsEmpty
  <2>2. ASSUME NEW p \in Policies, NEW n \in Capacities, cache = CreateCache(p, n)
        PROVE  CacheInv(cache) /\ Cached(cache) = {}
    <3>1. n \in Nat \ {0}
        BY CapacityAssumption
    <3> QED
        BY <2>2, <3>1, CreateCacheKeeps
  <2> QED
      BY <2>1, <2>2 DEF Init
<1>2. machine = Empty /\ strategy \in Strategies
      /\ recency = <<>> /\ lastRead = None /\ used = {}
    BY DEF Init
<1>3. HistoryInv
    BY <1>1, <1>2, NoHistory
<1>4. AgreementInv
    BY <1>1, <1>2, NothingCached DEF AgreementInv
<1> QED
    BY <1>1, <1>3, <1>4 DEF StoreInv

\* An applied entry, written to the cache or dropped from it.
LEMMA ApplyKeepsStoreInv ==
    ASSUME StoreInv, NEW k \in Key, NEW v \in Value, ApplyEntry(k, v)
    PROVE  StoreInv'
<1>1. /\ CacheInv(cache) /\ (cache.policy # "none" => HistoryInv)
      /\ DOMAIN machine \subseteq Key /\ machine \in [DOMAIN machine -> Value]
      /\ strategy \in Strategies
      /\ \A j \in Cached(cache) : j \in DOMAIN machine /\ cache.data[j] = machine[j]
    BY DEF StoreInv, AgreementInv
<1>2. /\ machine' = Assign(machine, k, v) /\ cache' \in CacheAfterApply(k, v) /\ Use(k)
      /\ ReadKept /\ strategy' = strategy
    BY DEF ApplyEntry, Applied, ReadKept
<1>3. /\ DOMAIN machine' = DOMAIN machine \cup {k} /\ machine' \in [DOMAIN machine' -> Value]
      /\ machine'[k] = v /\ \A j \in DOMAIN machine \ {k} : machine'[j] = machine[j]
      /\ DOMAIN machine' \subseteq Key
  <2>1. machine' = [j \in DOMAIN machine \cup {k} |-> IF j = k THEN v ELSE machine[j]]
      BY <1>2 DEF Assign
  <2>2. \A j \in DOMAIN machine : machine[j] \in Value
      BY <1>1
  <2> QED
      BY <1>1, <2>1, <2>2
<1>4. CASE cache.policy = "none" /\ strategy = "write_through"
  <2>1. cache' = cache /\ cache = NoCache
      BY <1>1, <1>2, <1>4, PolicyOf DEF CacheAfterApply, AfterPut
  <2>2. Cached(cache') = {} /\ CacheInv(cache') /\ cache'.policy = "none"
      BY <2>1, NoCacheIsEmpty
  <2> QED
      BY <1>1, <1>2, <1>3, <2>2 DEF StoreInv, AgreementInv
<1>5. CASE cache.policy # "none" /\ strategy = "write_through"
  <2>1. cache' \in AfterPut(cache, k, v)
      BY <1>2, <1>5 DEF CacheAfterApply
  <2>2. CacheInv(cache') /\ HasPut(cache, cache', k, v)
      BY <1>1, <1>5, <2>1, AfterPutKeeps
  <2>3. \A j \in Cached(cache') : j \in DOMAIN machine' /\ cache'.data[j] = machine'[j]
      BY <1>1, <1>3, <2>2 DEF HasPut
  <2>4. AgreementInv'
      BY <1>1, <1>2, <1>3, <2>3 DEF AgreementInv
  <2>5. HistoryInv'
      BY <1>1, <1>2, <1>5, <2>1, PutKeepsHistory
  <2> QED
      BY <2>2, <2>4, <2>5 DEF StoreInv
<1>6. CASE strategy # "write_through"
  <2>1. cache' = AfterInvalidate(cache, k)
      BY <1>2, <1>6 DEF CacheAfterApply
  <2>2. CacheInv(cache') /\ HasDropped(cache, cache', k)
      BY <1>1, <2>1, AfterInvalidateKeeps
  <2>3. \A j \in Cached(cache') : j \in DOMAIN machine' /\ cache'.data[j] = machine'[j]
      BY <1>1, <1>3, <2>2 DEF HasDropped
  <2>4. AgreementInv'
      BY <1>1, <1>2, <1>3, <2>3 DEF AgreementInv
  <2>5. cache'.policy # "none" => HistoryInv'
      BY <1>1, <1>2, <2>1, <2>2, DropKeepsHistory DEF HasDropped
  <2> QED
      BY <2>2, <2>4, <2>5 DEF StoreInv
<1> QED
    BY <1>4, <1>5, <1>6

LEMMA HitKeepsStoreInv ==
    ASSUME StoreInv, NEW k \in Key, GetHit(k)
    PROVE  StoreInv'
<1>1. /\ CacheInv(cache) /\ (cache.policy # "none" => HistoryInv)
      /\ AgreementInv
    BY DEF StoreInv
<1>2. /\ k \in Cached(cache) /\ cache' = AfterGet(cache, k) /\ Use(k) /\ lastRead' = k
      /\ machine' = machine /\ strategy' = strategy
    BY DEF GetHit
<1>3. CacheInv(cache') /\ HoldsTheSame(cache, cache')
    BY <1>1, <1>2, AfterGetKeeps
<1>4. cache'.policy = cache.policy /\ Cached(cache') = Cached(cache) /\ cache'.data = cache.data
    BY <1>3 DEF HoldsTheSame, Cached
<1>5. AgreementInv'
    BY <1>1, <1>2, <1>4 DEF AgreementInv
<1>6. cache'.policy # "none" => HistoryInv'
    BY <1>1, <1>2, <1>4, HitKeepsHistory
<1> QED
    BY <1>3, <1>5, <1>6 DEF StoreInv

\* A miss goes to the policy twice, and only the second time changes the cache.
LEMMA MissIsPut ==
    ASSUME CacheInv(cache), NEW k, GetMiss(k)
    PROVE  cache' \in AfterPut(cache, k, machine[k]) /\ k \in DOMAIN machine /\ k \notin Cached(cache)
<1>1. k \notin Cached(cache) /\ k \in DOMAIN machine
    BY DEF GetMiss
<1>2. AfterGet(cache, k) = cache
    BY <1>1, AfterGetKeeps
<1> QED
    BY <1>1, <1>2 DEF GetMiss

LEMMA MissKeepsStoreInv ==
    ASSUME StoreInv, NEW k \in Key, GetMiss(k)
    PROVE  StoreInv'
<1>1. /\ CacheInv(cache) /\ (cache.policy # "none" => HistoryInv)
      /\ DOMAIN machine \subseteq Key /\ machine \in [DOMAIN machine -> Value]
      /\ strategy \in Strategies
      /\ \A j \in Cached(cache) : j \in DOMAIN machine /\ cache.data[j] = machine[j]
    BY DEF StoreInv, AgreementInv
<1>2. /\ Use(k) /\ ReadKept /\ machine' = machine /\ strategy' = strategy
    BY DEF GetMiss, ReadKept
<1>3. cache' \in AfterPut(cache, k, machine[k]) /\ machine[k] \in Value
    BY <1>1, MissIsPut
<1>4. CASE cache.policy = "none"
  <2>1. cache' = cache /\ cache = NoCache
      BY <1>1, <1>3, <1>4, PolicyOf DEF AfterPut
  <2>2. Cached(cache') = {} /\ CacheInv(cache') /\ cache'.policy = "none"
      BY <2>1, NoCacheIsEmpty
  <2> QED
      BY <1>1, <1>2, <2>2 DEF StoreInv, AgreementInv
<1>5. CASE cache.policy # "none"
  <2>1. CacheInv(cache') /\ HasPut(cache, cache', k, machine[k])
      BY <1>1, <1>3, <1>5, AfterPutKeeps
  <2>2. \A j \in Cached(cache') : j \in DOMAIN machine /\ cache'.data[j] = machine[j]
      BY <1>1, <2>1, MissIsPut DEF HasPut
  <2>3. AgreementInv'
      BY <1>1, <1>2, <2>2 DEF AgreementInv
  <2>4. HistoryInv'
      BY <1>1, <1>2, <1>3, <1>5, PutKeepsHistory
  <2> QED
      BY <2>1, <2>3, <2>4 DEF StoreInv
<1> QED
    BY <1>4, <1>5

LEMMA MissingIsStutter ==
    ASSUME CacheInv(cache), NEW k, GetMissing(k)
    PROVE  cache' = cache /\ k \notin DOMAIN machine
<1>1. k \notin Cached(cache) /\ k \notin DOMAIN machine
    BY DEF GetMissing
<1>2. AfterGet(cache, k) = cache
    BY <1>1, AfterGetKeeps
<1> QED
    BY <1>1, <1>2 DEF GetMissing

LEMMA MissingKeepsStoreInv ==
    ASSUME StoreInv, NEW k \in Key, GetMissing(k)
    PROVE  StoreInv'
<1>1. CacheInv(cache)
    BY DEF StoreInv
<1>2. cache' = cache
    BY <1>1, MissingIsStutter
<1>3. /\ machine' = machine /\ strategy' = strategy /\ recency' = recency
      /\ lastRead' = lastRead /\ used' = used
    BY DEF GetMissing
<1> QED
    BY <1>2, <1>3 DEF StoreInv, AgreementInv, HistoryInv

LEMMA ClearKeepsStoreInv ==
    ASSUME StoreInv, ClearCache
    PROVE  StoreInv'
<1>1. CacheInv(cache) /\ AgreementInv
    BY DEF StoreInv
<1>2. cache' = AfterClear(cache) /\ Forgotten /\ machine' = machine /\ strategy' = strategy
    BY DEF ClearCache
<1>3. CacheInv(cache') /\ Cached(cache') = {}
    BY <1>1, <1>2, AfterClearKeeps
<1>4. HistoryInv'
    BY <1>2, <1>3, NoHistoryNext
<1>5. AgreementInv'
    BY <1>1, <1>2, <1>3 DEF AgreementInv
<1> QED
    BY <1>3, <1>4, <1>5 DEF StoreInv

LEMMA RestartKeepsStoreInv ==
    ASSUME StoreInv, Restart
    PROVE  StoreInv'
<1>1. CacheInv(cache) /\ AgreementInv
    BY DEF StoreInv
<1>2. machine' = Empty /\ Forgotten /\ strategy' = strategy
    BY DEF Restart
<1>3. CacheInv(cache') /\ Cached(cache') = {}
  <2>1. CASE cache.policy = "none"
      BY <1>1, <2>1, PolicyOf, NoCacheIsEmpty DEF Restart
  <2>2. CASE cache.policy # "none"
    <3>1. cache' = CreateCache(cache.policy, cache.capacity)
        BY <2>2 DEF Restart
    <3>2. cache.policy \in Policies /\ cache.capacity \in Nat \ {0}
        BY <1>1, <2>2, CapacityOf
    <3> QED
        BY <3>1, <3>2, CreateCacheKeeps
  <2> QED
      BY <2>1, <2>2
<1>4. HistoryInv'
    BY <1>2, <1>3, NoHistoryNext
<1>5. AgreementInv'
    BY <1>1, <1>2, <1>3, NothingCached DEF AgreementInv
<1> QED
    BY <1>3, <1>4, <1>5 DEF StoreInv

LEMMA NextStoreInv ==
    ASSUME StoreInv, [Next]_vars
    PROVE  StoreInv'
<1>1. ASSUME NEW k \in Key, NEW v \in Value, ApplyEntry(k, v)
      PROVE  StoreInv'
    BY <1>1, ApplyKeepsStoreInv
<1>2. ASSUME NEW k \in Key, GetHit(k)
      PROVE  StoreInv'
    BY <1>2, HitKeepsStoreInv
<1>3. ASSUME NEW k \in Key, GetMiss(k)
      PROVE  StoreInv'
    BY <1>3, MissKeepsStoreInv
<1>4. ASSUME NEW k \in Key, GetMissing(k)
      PROVE  StoreInv'
    BY <1>4, MissingKeepsStoreInv
<1>5. CASE ClearCache
    BY <1>5, ClearKeepsStoreInv
<1>6. CASE Restart
    BY <1>6, RestartKeepsStoreInv
<1>7. CASE UNCHANGED vars
    BY <1>7 DEF StoreInv, AgreementInv, HistoryInv, vars
<1> QED
    BY <1>1, <1>2, <1>3, <1>4, <1>5, <1>6, <1>7 DEF Next, Get

\* The cache agrees with the state machine, every policy's records agree with
\* the keys it holds, and with the order in which they were used.
THEOREM StoreInvariant == Spec => []StoreInv
<1>1. Init => StoreInv
    BY InitStoreInv
<1>2. StoreInv /\ [Next]_vars => StoreInv'
    BY NextStoreInv
<1> QED
    BY <1>1, <1>2, PTL DEF Spec

\* current_size is the number of cached keys and within the capacity: every
\* put of cache.py evicts when the keys are as many as the capacity.
THEOREM NeverOverCapacity == Spec => []WithinCapacity
<1>1. StoreInv => WithinCapacity
    BY SizeOf DEF StoreInv, WithinCapacity, SizeInv
<1> QED
    BY <1>1, StoreInvariant, PTL

-----------------------------------------------------------------------------
(* What the policies keep beside the data. *)

LEMMA LfuBooks ==
    ASSUME NEW c, NEW policy, NEW interval, LfuInv(c, policy, interval)
    PROVE  LfuBooksAgree(c)
<1>1. LfuShape(c, policy, interval) /\ LeastKept(c)
    BY LfuIsShape
<1>2. DOMAIN c.freq = Cached(c) /\ Bucketed(c.buckets, c.freq)
    BY <1>1, LfuFacts
<1>3. \A f : With(c.freq, f) = {k \in Cached(c) : c.freq[k] = f}
    BY <1>2 DEF With
<1>4. ASSUME NEW f \in DOMAIN c.buckets
      PROVE  Lists(c.buckets[f], {k \in Cached(c) : c.freq[k] = f})
  <2>1. Enumerates(c.buckets[f], With(c.freq, f))
      BY <1>2 DEF Bucketed
  <2> QED
      BY <1>3, <2>1, ListsSet
<1>5. DOMAIN c.buckets = {c.freq[k] : k \in Cached(c)}
    BY <1>2 DEF Bucketed
<1> QED
    BY <1>1, <1>2, <1>4, <1>5 DEF LfuBooksAgree, LeastKept

LEMMA SlruBooks ==
    ASSUME NEW c, SlruInv(c)
    PROVE  SlruBooksAgree(c)
<1>1. Segments(c.probation, c.protected, Cached(c)) /\ Len(c.protected) <= c.protectedCap
    BY DEF SlruInv
<1>2. Enumerates(c.probation \o c.protected, Cached(c))
    BY <1>1, JoinLists DEF Segments
<1> QED
    BY <1>1, <1>2, ListsSet DEF SlruBooksAgree

LEMMA BooksOf ==
    ASSUME NEW c, CacheInv(c)
    PROVE  BooksAgree(c)
<1>1. CASE c.policy = "none"
    BY <1>1 DEF BooksAgree
<1>2. CASE c.policy = "random"
  <2>1. RandomInv(c)
      BY <1>2, PolicyOf
  <2>2. Lists(c.keys, Cached(c)) /\ DOMAIN c.keyIndex = Cached(c)
      BY <2>1, ListsSet DEF RandomInv
  <2> QED
      BY <1>2, <2>1, <2>2 DEF BooksAgree, RandomBooksAgree, RandomInv
<1>3. CASE c.policy = "fifo"
  <2>1. Enumerates(c.order, Cached(c))
      BY <1>3, PolicyOf DEF QueueInv
  <2> QED
      BY <1>3, <2>1, ListsSet DEF BooksAgree, FifoBooksAgree
<1>4. CASE c.policy = "lru"
  <2>1. Enumerates(c.order, Cached(c))
      BY <1>4, PolicyOf DEF QueueInv
  <2> QED
      BY <1>4, <2>1, ListsSet DEF BooksAgree, LruBooksAgree
<1>5. CASE c.policy = "lfu"
    BY <1>5, PolicyOf, LfuBooks DEF BooksAgree
<1>6. CASE c.policy = "lfu_decay"
    BY <1>6, PolicyOf, LfuBooks DEF BooksAgree
<1>7. CASE c.policy = "slru"
    BY <1>7, PolicyOf, SlruBooks DEF BooksAgree
<1>8. CASE c.policy = "sieve"
  <2>1. SieveInv(c)
      BY <1>8, PolicyOf
  <2>2. Enumerates(c.order, Cached(c)) /\ c.visited \subseteq Cached(c)
        /\ c.hand \in Cached(c) \cup {None}
      BY <2>1 DEF SieveInv
  <2> QED
      BY <1>8, <2>2, ListsSet DEF BooksAgree, SieveBooksAgree
<1> QED
    BY <1>1, <1>2, <1>3, <1>4, <1>5, <1>6, <1>7, <1>8, PolicyOf DEF Policies

\* Indices, queues, buckets, segments, bits and the hand name the cached keys,
\* all of them and no others, under every policy.
THEOREM BooksAlwaysAgree == Spec => []BookkeepingAgrees
<1>1. StoreInv => BookkeepingAgrees
    BY BooksOf DEF StoreInv, BookkeepingAgrees
<1> QED
    BY <1>1, StoreInvariant, PTL

-----------------------------------------------------------------------------
(* Which key goes. *)

\* Only a put of a new key evicts: when an entry is written through, and when
\* a miss fills the cache.
LEMMA EvictingStep ==
    ASSUME StoreInv, [Next]_vars, NEW j, Evicts(j)
    PROVE  /\ cache.policy # "none" /\ CacheInv(cache) /\ HistoryInv
           /\ \E k \in Key \ Cached(cache), v \in Value :
                /\ cache' \in AfterPut(cache, k, v)
                /\ CacheInv(cache') /\ HasPut(cache, cache', k, v)
                /\ Cached(cache') = (Cached(cache) \ {j}) \cup {k}
<1>1. /\ CacheInv(cache) /\ (cache.policy # "none" => HistoryInv)
      /\ DOMAIN machine \subseteq Key /\ machine \in [DOMAIN machine -> Value]
    BY DEF StoreInv, AgreementInv
<1>2. j \in Cached(cache) \ Cached(cache') /\ Cached(cache') \ Cached(cache) # {}
    BY DEF Evicts
<1>3. cache.policy # "none"
    BY <1>1, <1>2, PolicyOf, NoCacheIsEmpty
<1>4. ASSUME NEW k \in Key, NEW v \in Value, cache' \in AfterPut(cache, k, v)
      PROVE  /\ k \notin Cached(cache)
             /\ CacheInv(cache') /\ HasPut(cache, cache', k, v)
             /\ Cached(cache') = (Cached(cache) \ {j}) \cup {k}
  <2>1. CacheInv(cache') /\ HasPut(cache, cache', k, v)
      BY <1>1, <1>3, <1>4, AfterPutKeeps
  <2> QED
      BY <1>2, <2>1 DEF HasPut
<1>5. ASSUME NEW k \in Key, NEW v \in Value, ApplyEntry(k, v)
      PROVE  cache' \in AfterPut(cache, k, v)
  <2>1. CASE strategy = "write_through"
      BY <1>5, <2>1 DEF ApplyEntry, CacheAfterApply
  <2>2. CASE strategy # "write_through"
    <3>1. cache' = AfterInvalidate(cache, k)
        BY <1>5, <2>2 DEF ApplyEntry, CacheAfterApply
    <3>2. HasDropped(cache, cache', k)
        BY <1>1, <3>1, AfterInvalidateKeeps
    <3> QED
        BY <1>2, <3>2 DEF HasDropped
  <2> QED
      BY <2>1, <2>2
<1>6. ASSUME NEW k \in Key, GetHit(k)
      PROVE  FALSE
  <2>1. HoldsTheSame(cache, cache')
      BY <1>1, <1>6, AfterGetKeeps DEF GetHit
  <2> QED
      BY <1>2, <2>1 DEF HoldsTheSame, Cached
<1>7. ASSUME NEW k \in Key, GetMiss(k)
      PROVE  cache' \in AfterPut(cache, k, machine[k]) /\ machine[k] \in Value
    BY <1>1, <1>7, MissIsPut
<1>8. ASSUME NEW k \in Key, GetMissing(k)
      PROVE  FALSE
    BY <1>1, <1>2, <1>8, MissingIsStutter
<1>9. CASE ClearCache
    BY <1>1, <1>2, <1>9, AfterClearKeeps DEF ClearCache
<1>10. CASE Restart
  <2>1. cache' = CreateCache(cache.policy, cache.capacity)
      BY <1>3, <1>10 DEF Restart
  <2>2. cache.policy \in Policies /\ cache.capacity \in Nat \ {0}
      BY <1>1, <1>3, CapacityOf
  <2>3. Cached(cache') = {}
      BY <2>1, <2>2, CreateCacheKeeps
  <2> QED
      BY <1>2, <2>3
<1>11. CASE UNCHANGED vars
    BY <1>2, <1>11 DEF vars
<1>12. PICK k \in Key, v \in Value : cache' \in AfterPut(cache, k, v)
    BY <1>5, <1>6, <1>7, <1>8, <1>9, <1>10, <1>11 DEF Next, Get
<1>13. k \in Key \ Cached(cache) /\ CacheInv(cache') /\ HasPut(cache, cache', k, v)
       /\ Cached(cache') = (Cached(cache) \ {j}) \cup {k}
    BY <1>4, <1>12
<1> QED
    BY <1>1, <1>3, <1>12, <1>13

\* LRU evicts the key whose latest use lies furthest back: put of
\* LRUEviction pops the first item of an OrderedDict that get and put reorder.
THEOREM LruEvictsLeastRecent == Spec => LeastRecentGoes
<1>1. ASSUME StoreInv, [Next]_vars, cache.policy = "lru", NEW j \in Cached(cache), Evicts(j)
      PROVE  recency[1] = j
  <2>1. PICK k \in Key \ Cached(cache), v \in Value :
          /\ cache' \in AfterPut(cache, k, v)
          /\ Cached(cache') = (Cached(cache) \ {j}) \cup {k}
      BY <1>1, EvictingStep
  <2>2. CacheInv(cache) /\ HistoryInv
      BY <1>1 DEF StoreInv
  <2>3. cache' = LruPut(cache, k, v) /\ QueueInv(cache, "lru")
      BY <1>1, <2>1, <2>2, PolicyOf DEF AfterPut
  <2>4. LruOrderAfter(cache, cache', k)
      BY <2>3, QueuePut
  <2>5. /\ Head(cache.order) \in Cached(cache)
        /\ Cached(cache') = (Cached(cache) \ {Head(cache.order)}) \cup {k}
      BY <2>1, <2>4 DEF LruOrderAfter
  <2>6. Head(cache.order) = j
      BY <2>1, <2>5
  <2>7. Enumerates(cache.order, Cached(cache)) /\ recency = cache.order
      BY <1>1, <2>2, <2>3 DEF QueueInv, HistoryInv
  <2>8. Head(cache.order) = cache.order[1]
      BY <2>7, TakeFirst
  <2> QED
      BY <2>6, <2>7, <2>8
<1>2. StoreInv /\ [Next]_vars =>
        [cache.policy = "lru" => \A j \in Cached(cache) : Evicts(j) => recency[1] = j]_vars
    BY <1>1
<1> QED
    BY <1>2, StoreInvariant, PTL DEF Spec, LeastRecentGoes

\* LFU evicts a key of least frequency, and without decay the one of them that
\* was used least recently: the first key of the bucket of _min_freq.
THEOREM LfuEvictsLeastFrequent == Spec => LeastFrequentGoes
<1>1. ASSUME StoreInv, [Next]_vars, cache.policy \in {"lfu", "lfu_decay"},
             NEW j \in Cached(cache), Evicts(j), NEW i \in Cached(cache)
      PROVE  /\ cache.freq[j] <= cache.freq[i]
             /\ cache.freq[j] = cache.freq[i] /\ cache.policy = "lfu" => ~Older(i, j)
  <2>1. PICK k \in Key \ Cached(cache), v \in Value :
          /\ cache' \in AfterPut(cache, k, v)
          /\ Cached(cache') = (Cached(cache) \ {j}) \cup {k}
      BY <1>1, EvictingStep
  <2>2. CacheInv(cache) /\ HistoryInv
      BY <1>1 DEF StoreInv
  <2>3. cache' = LfuPut(cache, k, v)
      BY <1>1, <2>1 DEF AfterPut
  <2>4. j \in Cached(cache) \ Cached(cache')
      BY <2>1
  <2>5. LeastFrequent(cache, j)
    <3>1. CASE cache.policy = "lfu"
        BY <2>2, <2>3, <2>4, <3>1, PolicyOf, LfuPutKeeps
    <3>2. CASE cache.policy = "lfu_decay"
        BY <2>2, <2>3, <2>4, <3>2, PolicyOf, LfuPutKeeps, DecayIntervalAssumption
    <3> QED
        BY <1>1, <3>1, <3>2
  <2>6. ASSUME cache.freq[j] = cache.freq[i], cache.policy = "lfu"
        PROVE  ~Older(i, j)
    <3>1. Enumerates(recency, Cached(cache)) /\ Follows(cache.buckets, recency)
        BY <2>2, <2>6 DEF HistoryInv
    <3>2. LfuShape(cache, "lfu", 0)
        BY <2>2, <2>6, PolicyOf, LfuIsShape
    <3>3. /\ DOMAIN cache.freq = Cached(cache) /\ Cached(cache) \in SUBSET Key
          /\ Bucketed(cache.buckets, cache.freq)
        BY <3>2, LfuFacts
    <3>4. cache.freq[j] \in DOMAIN cache.buckets
        BY <3>3 DEF Bucketed
    <3>5. IndexOf(recency, i) \in 1..Len(recency) /\ IndexOf(recency, j) \in 1..Len(recency)
        BY <3>1, IndexOfKey
    <3>6. CASE i = j
        BY <3>5, <3>6 DEF Older
    <3>7. CASE i # j
      <4>1. Before(cache.buckets[cache.freq[j]], j, i)
          BY <2>5, <2>6, <3>7 DEF LeastFrequent
      <4>2. Before(recency, j, i)
          BY <3>1, <3>3, <3>4, <4>1 DEF Follows
      <4>3. IndexOf(recency, j) < IndexOf(recency, i)
          BY <3>1, <4>2, ListIsOrder
      <4> QED
          BY <3>5, <4>3 DEF Older
    <3> QED
        BY <3>6, <3>7
  <2> QED
      BY <2>5, <2>6 DEF LeastFrequent
<1>2. StoreInv /\ [Next]_vars =>
        [cache.policy \in {"lfu", "lfu_decay"} =>
           \A j \in Cached(cache) : Evicts(j) =>
             \A i \in Cached(cache) :
               /\ cache.freq[j] <= cache.freq[i]
               /\ cache.freq[j] = cache.freq[i] /\ cache.policy = "lfu" => ~Older(i, j)]_vars
    BY <1>1
<1> QED
    BY <1>2, StoreInvariant, PTL DEF Spec, LeastFrequentGoes

\* SLRU with room for two keeps the key that was read last: get promotes it,
\* and put evicts from probation, which is not empty when the cache is full.
THEOREM SlruResistsScans == Spec => ScanResistance
<1>1. ASSUME StoreInv, [Next]_vars, cache.policy = "slru", cache.capacity >= 2, Evicts(lastRead)
      PROVE  FALSE
  <2>1. PICK k \in Key \ Cached(cache), v \in Value :
          /\ cache' \in AfterPut(cache, k, v) /\ CacheInv(cache')
          /\ Cached(cache') = (Cached(cache) \ {lastRead}) \cup {k}
      BY <1>1, EvictingStep
  <2>2. CacheInv(cache) /\ HistoryInv
      BY <1>1 DEF StoreInv
  <2>3. cache' = SlruPut(cache, k, v) /\ SlruInv(cache)
      BY <1>1, <2>1, <2>2, PolicyOf DEF AfterPut
  <2>4. Elements(cache'.protected) = Elements(cache.protected) /\ SlruInv(cache')
      BY <2>3, SlruPutKeeps
  <2>5. lastRead \in Cached(cache) /\ lastRead \notin Cached(cache')
      BY <1>1 DEF Evicts
  <2>6. lastRead # None
      BY <2>2, <2>5, CachedAreKeys, NoneAssumption
  <2>7. lastRead \in Elements(cache.protected)
      BY <1>1, <2>2, <2>6 DEF HistoryInv
  <2>8. Elements(cache'.protected) \subseteq Cached(cache')
      BY <2>4 DEF SlruInv, Segments
  <2> QED
      BY <2>4, <2>5, <2>7, <2>8
<1>2. StoreInv /\ [Next]_vars =>
        [cache.policy = "slru" /\ cache.capacity >= 2 => ~Evicts(lastRead)]_vars
    BY <1>1
<1> QED
    BY <1>2, StoreInvariant, PTL DEF Spec, ScanResistance

\* SIEVE evicts a key used since the latest eviction only when the hand would
\* find every bit set: _evict passes over the nodes whose bit is set.
THEOREM SieveSparesTheUsed == Spec => SecondChance
<1>1. ASSUME StoreInv, [Next]_vars, cache.policy = "sieve", NEW j \in used, Evicts(j)
      PROVE  Cached(cache) \subseteq cache.visited
  <2>1. PICK k \in Key \ Cached(cache), v \in Value :
          /\ cache' \in AfterPut(cache, k, v)
          /\ Cached(cache') = (Cached(cache) \ {j}) \cup {k}
      BY <1>1, EvictingStep
  <2>2. CacheInv(cache) /\ HistoryInv
      BY <1>1 DEF StoreInv
  <2>3. cache' = SievePut(cache, k, v) /\ SieveInv(cache)
      BY <1>1, <2>1, <2>2, PolicyOf DEF AfterPut
  <2>4. SieveMarks(cache, cache', k)
      BY <2>3, SievePutKeeps
  <2>5. j \in cache.visited /\ j \in Cached(cache) \ Cached(cache')
      BY <1>1, <2>2 DEF HistoryInv, Evicts
  <2> QED
      BY <2>4, <2>5 DEF SieveMarks
<1>2. StoreInv /\ [Next]_vars =>
        [cache.policy = "sieve" =>
           \A j \in used : Evicts(j) => Cached(cache) \subseteq cache.visited]_vars
    BY <1>1
<1> QED
    BY <1>2, StoreInvariant, PTL DEF Spec, SecondChance

-----------------------------------------------------------------------------
(* Reads through the cache. *)

\* Every step is a step of Store, or leaves what Store sees alone.
LEMMA StepImplements ==
    ASSUME StoreInv, [Next]_vars
    PROVE  [Plain!Next]_(Plain!vars)
<1>1. /\ CacheInv(cache)
      /\ DOMAIN machine \subseteq Key /\ machine \in [DOMAIN machine -> Value]
      /\ \A j \in Cached(cache) : j \in DOMAIN machine /\ cache.data[j] = machine[j]
    BY DEF StoreInv, AgreementInv
<1>2. ASSUME NEW k \in Key, NEW v \in Value, ApplyEntry(k, v)
      PROVE  Plain!Apply(k, v)
  <2>1. machine' = Assign(machine, k, v) /\ answer' = answer
      BY <1>2 DEF ApplyEntry, Applied
  <2>2. FullMachine' = [FullMachine EXCEPT ![k] = v]
      BY <2>1 DEF FullMachine, Assign
  <2> QED
      BY <2>1, <2>2 DEF Plain!Apply
<1>3. ASSUME machine' = machine
      PROVE  FullMachine' = FullMachine
    BY <1>3 DEF FullMachine
<1>4. ASSUME NEW k \in Key, GetHit(k)
      PROVE  Plain!Get(k)
  <2>1. /\ machine' = machine /\ k \in Cached(cache)
        /\ answer' = [key |-> k, value |-> cache.data[k]]
      BY <1>4 DEF GetHit
  <2>2. FullMachine[k] = cache.data[k]
      BY <1>1, <2>1 DEF FullMachine
  <2> QED
      BY <1>3, <2>1, <2>2 DEF Plain!Get
<1>5. ASSUME NEW k \in Key, GetMiss(k)
      PROVE  Plain!Get(k)
  <2>1. /\ machine' = machine /\ k \in DOMAIN machine
        /\ answer' = [key |-> k, value |-> machine[k]]
      BY <1>5 DEF GetMiss
  <2>2. FullMachine[k] = machine[k]
      BY <2>1 DEF FullMachine
  <2> QED
      BY <1>3, <2>1, <2>2 DEF Plain!Get
<1>6. ASSUME NEW k \in Key, GetMissing(k)
      PROVE  Plain!Get(k)
  <2>1. /\ machine' = machine /\ k \notin DOMAIN machine
        /\ answer' = [key |-> k, value |-> NoValue]
      BY <1>6 DEF GetMissing
  <2>2. FullMachine[k] = NoValue
      BY <2>1 DEF FullMachine
  <2> QED
      BY <1>3, <2>1, <2>2 DEF Plain!Get
<1>7. ASSUME ClearCache
      PROVE  UNCHANGED Plain!vars
    BY <1>3, <1>7 DEF ClearCache, Plain!vars
<1>8. ASSUME Restart
      PROVE  Plain!Restart
  <2>1. machine' = Empty /\ answer' = answer
      BY <1>8 DEF Restart
  <2>2. FullMachine' = [k \in Key |-> NoValue]
      BY <2>1, NothingCached DEF FullMachine
  <2> QED
      BY <2>1, <2>2 DEF Plain!Restart
<1>9. ASSUME UNCHANGED vars
      PROVE  UNCHANGED Plain!vars
    BY <1>3, <1>9 DEF vars, Plain!vars
<1> QED
    BY <1>2, <1>4, <1>5, <1>6, <1>7, <1>8, <1>9 DEF Next, Get, Plain!Next

\* A server with a cache is a server without one: whichever policy it has and
\* whichever write strategy, a Get is answered with the value applied last.
THEOREM CacheIsTransparent == Spec => ImplementsStore
<1>1. Init => Plain!Init
  <2> SUFFICES ASSUME Init
               PROVE  Plain!Init
      OBVIOUS
  <2>1. machine = Empty /\ answer = [key |-> NoValue, value |-> NoValue]
      BY DEF Init
  <2>2. FullMachine = [k \in Key |-> NoValue]
      BY <2>1, NothingCached DEF FullMachine
  <2> QED
      BY <2>1, <2>2 DEF Plain!Init
<1>2. StoreInv /\ [Next]_vars => [Plain!Next]_(Plain!vars)
    BY StepImplements
<1> QED
    BY <1>1, <1>2, StoreInvariant, PTL DEF Spec, ImplementsStore, Plain!Spec

=============================================================================
