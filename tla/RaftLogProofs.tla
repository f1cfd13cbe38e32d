---------------------------- MODULE RaftLogProofs ----------------------------
(***************************************************************************)
(* Logs match, replies tell the truth, and no log holds a command twice.   *)
(*                                                                         *)
(* The proofs follow the links of RaftLinks: only a leader that appends to *)
(* its own log makes one, and the loop of AppendEntries makes none.        *)
(***************************************************************************)
EXTENDS RaftLeaderProofs, RaftLinks

(***************************************************************************)
(* Logs and their links.                                                   *)
(***************************************************************************)
LinkAt(log, i) ==
    [index |-> i, entry |-> log[i],
     before |-> IF i = 1 THEN 0 ELSE log[i - 1].term]

LEMMA LinksOfLog ==
    ASSUME NEW log \in Log
    PROVE  LinksOf(log) = {LinkAt(log, i) : i \in 1..Len(log)}
<1>1. Len(log) \in Nat
    BY LenProperties DEF Log
<1>2. \A i \in 1..Len(log) : 0 + i = i
    BY <1>1
<1> QED
    BY <1>2 DEF LinksOf, LinksAfter, LinkAt

LEMMA LinksOfEmptyLog == LinksOf(<<>>) = {}
<1>1. Len(<<>>) = 0 /\ 1..0 = {}
    OBVIOUS
<1> QED
    BY <1>1 DEF LinksOf, LinksAfter

\* One more entry is one more link.
LEMMA LinksOfAppend ==
    ASSUME NEW log \in Log, NEW e \in Entry
    PROVE  LinksOf(Append(log, e)) =
               LinksOf(log) \cup {[index |-> Len(log) + 1, entry |-> e,
                                   before |-> LastTerm(log)]}
<1> DEFINE new == Append(log, e)
           link == [index |-> Len(log) + 1, entry |-> e,
                    before |-> LastTerm(log)]
<1>1. /\ Len(log) \in Nat /\ new \in Log /\ Len(new) = Len(log) + 1
      /\ new[Len(log) + 1] = e
      /\ \A i \in 1..Len(log) : new[i] = log[i]
    BY LenProperties, AppendProperties DEF Log
<1> HIDE DEF new
<1>2. \A i \in 1..Len(log) : LinkAt(new, i) = LinkAt(log, i)
    BY <1>1 DEF LinkAt
<1>3. LinkAt(new, Len(log) + 1) = link
    BY <1>1 DEF LinkAt, LastTerm
<1>4. 1..Len(new) = (1..Len(log)) \cup {Len(log) + 1}
    BY <1>1
<1>5. LinksOf(new) = {LinkAt(new, i) : i \in (1..Len(log)) \cup {Len(log) + 1}}
    BY <1>1, <1>4, LinksOfLog
<1>6. LinksOf(log) = {LinkAt(log, i) : i \in 1..Len(log)}
    BY LinksOfLog
<1> HIDE DEF link
<1>7. LinksOf(new) = LinksOf(log) \cup {link}
    BY <1>2, <1>3, <1>5, <1>6
<1> QED
    BY <1>7 DEF new, link

\* What the loop of AppendEntries makes of a log: either all entries were
\* there, or the log is as before up to the first that was not, at n, and
\* goes on with the entries from there.
Merged(log, prev, entries, after, n) ==
    /\ n \in 1..Len(entries)
    /\ prev + n - 1 <= Len(log)
    /\ \A i \in 1..n - 1 : log[prev + i].term = entries[i].term
    /\ prev + n > Len(log) \/ log[prev + n].term # entries[n].term
    /\ after \in Log /\ Len(after) = prev + Len(entries)
    /\ \A i \in 1..prev + n - 1 : after[i] = log[i]
    /\ \A i \in n..Len(entries) : after[prev + i] = entries[i]

LEMMA MergedLog ==
    ASSUME NEW log \in Log, NEW prev \in Nat, NEW entries \in Log,
           prev <= Len(log)
    PROVE  LET after == MergeEntries(log, prev, entries)
           IN  \/ /\ after = log
                  /\ \A i \in 1..Len(entries) :
                         /\ prev + i <= Len(log)
                         /\ log[prev + i].term = entries[i].term
               \/ \E n \in Nat : Merged(log, prev, entries, after, n)
<1> DEFINE new == NewPositions(log, prev, entries)
           after == MergeEntries(log, prev, entries)
           n == Min(new)
           cut == prev + n - 1
           head == SubSeq(log, 1, cut)
           tail == SubSeq(entries, n, Len(entries))
<1>1. Len(log) \in Nat /\ Len(entries) \in Nat /\ after \in Log
    BY LenProperties, MergeEntriesType DEF Log
<1>2. CASE new = {}
    <2>1. after = log
        BY <1>2 DEF MergeEntries
    <2>2. \A i \in 1..Len(entries) : /\ ~(prev + i > Len(log))
                                     /\ log[prev + i].term = entries[i].term
        BY <1>2 DEF NewPositions
    <2> QED
        BY <1>1, <2>1, <2>2
<1>3. CASE new # {}
    <2>1. new \in SUBSET Nat /\ new \subseteq 1..Len(entries)
        BY <1>1 DEF NewPositions
    <2>2. n \in new /\ \A i \in new : n <= i
        BY <1>3, <2>1, MinIsLeast
    <2>3. after = head \o tail
        BY <1>3 DEF MergeEntries
    <2> HIDE DEF n, after
    <2>4. n \in 1..Len(entries)
        BY <2>1, <2>2
    <2>5. \A i \in 1..n - 1 : /\ ~(prev + i > Len(log))
                              /\ log[prev + i].term = entries[i].term
        <3> SUFFICES ASSUME NEW i \in 1..n - 1
                     PROVE  i \in 1..Len(entries) /\ i \notin new
            BY DEF NewPositions
        <3> QED
            BY <1>1, <2>2, <2>4
    <2>6. cut \in Nat /\ cut <= Len(log)
        <3>1. CASE n = 1
            BY <1>1, <3>1
        <3>2. CASE n > 1
            <4>1. n - 1 \in 1..n - 1
                BY <2>4, <3>2
            <4> QED
                BY <1>1, <2>4, <2>5, <4>1
        <3> QED
            BY <2>4, <3>1, <3>2
    <2>7. prev + n > Len(log) \/ log[prev + n].term # entries[n].term
        BY <2>2 DEF NewPositions
    <2>8. /\ head \in Seq(Entry) /\ Len(head) = cut
          /\ \A i \in 1..cut : head[i] = log[i]
        <3>1. \A i \in 1..cut : log[i] \in Entry
            BY <1>1, <2>6, ElementOfSeq DEF Log
        <3> QED
            BY <1>1, <2>6, <3>1, SubSeqProperties DEF Log
    <2>9. /\ tail \in Seq(Entry) /\ Len(tail) = Len(entries) - n + 1
          /\ \A i \in 1..Len(entries) - n + 1 : tail[i] = entries[n + i - 1]
        <3>1. \A i \in n..Len(entries) : entries[i] \in Entry
            BY <1>1, <2>4, ElementOfSeq DEF Log
        <3>2. n <= Len(entries) + 1
            BY <1>1, <2>4
        <3> QED
            BY <1>1, <2>4, <3>1, <3>2, SubSeqProperties DEF Log
    <2> HIDE DEF head, tail, new
    <2>10. /\ Len(after) = cut + (Len(entries) - n + 1)
           /\ \A i \in 1..cut : after[i] = log[i]
           /\ \A i \in 1..Len(entries) - n + 1 :
                  after[cut + i] = entries[n + i - 1]
        <3>1. /\ Len(after) = Len(head) + Len(tail)
              /\ \A i \in 1..Len(head) + Len(tail) :
                     after[i] = IF i <= Len(head) THEN head[i]
                                ELSE tail[i - Len(head)]
            BY <2>3, <2>8, <2>9, ConcatProperties
        <3>2. ASSUME NEW i \in 1..Len(entries) - n + 1
              PROVE  after[cut + i] = tail[i]
            <4>1. Len(tail) \in Nat /\ i \in 1..Len(tail) /\ Len(head) = cut
                BY <1>1, <2>4, <2>8, <2>9
            <4>2. PICK h \in Nat : h = cut
                BY <2>6
            <4>3. h + i \in 1..h + Len(tail) /\ ~(h + i <= h) /\ h + i - h = i
                BY <4>1
            <4>4. \A j \in 1..h + Len(tail) :
                      after[j] = IF j <= h THEN head[j] ELSE tail[j - h]
                BY <3>1, <4>1, <4>2
            <4>5. after[h + i] = tail[i]
                BY <4>3, <4>4
            <4> QED
                BY <4>2, <4>5
        <3>3. ASSUME NEW i \in 1..cut
              PROVE  after[i] = head[i]
            <4>1. i \in 1..Len(head) + Len(tail) /\ i <= Len(head)
                BY <1>1, <2>4, <2>6, <2>8, <2>9
            <4> QED
                BY <3>1, <4>1
        <3> QED
            BY <2>8, <2>9, <3>1, <3>2, <3>3
    <2>11. ASSUME NEW i \in n..Len(entries)
           PROVE  after[prev + i] = entries[i]
        <3>1. /\ i - n + 1 \in 1..Len(entries) - n + 1
              /\ cut + (i - n + 1) = prev + i /\ n + (i - n + 1) - 1 = i
            BY <1>1, <2>4
        <3> QED
            BY <2>10, <3>1
    <2>12. Len(after) = prev + Len(entries)
        BY <1>1, <2>4, <2>10
    <2>13. Merged(log, prev, entries, after, n)
        BY <1>1, <2>4, <2>5, <2>6, <2>7, <2>10, <2>11, <2>12 DEF Merged
    <2> QED
        BY <2>4, <2>13 DEF after
<1> QED
    BY <1>2, <1>3

\* A merge makes no link: what follows an entry of the request there, or an
\* entry of the log, followed it before.
LEMMA MergeMakesNoLink ==
    ASSUME NEW log \in Log, NEW prev \in Nat, NEW term, NEW entries \in Log,
           HasPrevious(log, prev, term), prev = 0 => term = 0
    PROVE  LinksOf(MergeEntries(log, prev, entries)) \subseteq
               LinksOf(log) \cup LinksAfter(prev, term, entries)
<1> DEFINE after == MergeEntries(log, prev, entries)
<1>1. /\ Len(log) \in Nat /\ Len(entries) \in Nat /\ prev <= Len(log)
      /\ prev > 0 => log[prev].term = term
    BY LenProperties DEF Log, HasPrevious
<1>2. \/ after = log
      \/ \E n \in Nat : Merged(log, prev, entries, after, n)
    BY <1>1, MergedLog
<1> HIDE DEF after
<1>3. ASSUME NEW n \in Nat, Merged(log, prev, entries, after, n)
      PROVE  LinksOf(after) \subseteq
                 LinksOf(log) \cup LinksAfter(prev, term, entries)
    <2> SUFFICES ASSUME NEW i \in 1..Len(after)
                 PROVE  \/ LinkAt(after, i) \in LinksOf(log)
                        \/ LinkAt(after, i) \in LinksAfter(prev, term, entries)
        BY <1>3, LinksOfLog DEF Merged
    <2>1. /\ n \in 1..Len(entries) /\ prev + n - 1 <= Len(log)
          /\ \A j \in 1..n - 1 : log[prev + j].term = entries[j].term
          /\ Len(after) = prev + Len(entries)
          /\ \A j \in 1..prev + n - 1 : after[j] = log[j]
          /\ \A j \in n..Len(entries) : after[prev + j] = entries[j]
        BY <1>3 DEF Merged
    <2>2. CASE i <= prev + n - 1
        <3>1. i \in 1..Len(log) /\ i \in 1..prev + n - 1
            BY <1>1, <2>1, <2>2
        <3>2. i # 1 => i - 1 \in 1..prev + n - 1
            BY <1>1, <2>1, <3>1
        <3>3. LinkAt(after, i) = LinkAt(log, i)
            BY <2>1, <3>1, <3>2 DEF LinkAt
        <3> QED
            BY <3>1, <3>3, LinksOfLog
    <2>3. CASE i > prev + n - 1
        <3>1. PICK j \in n..Len(entries) : i = prev + j
            <4>1. i - prev \in n..Len(entries) /\ i = prev + (i - prev)
                BY <1>1, <2>1, <2>3
            <4> QED
                BY <4>1
        <3>2. j \in 1..Len(entries) /\ after[i] = entries[j]
            BY <2>1, <3>1
        <3>3. (IF i = 1 THEN 0 ELSE after[i - 1].term) =
                  IF j = 1 THEN term ELSE entries[j - 1].term
            <4>1. CASE j > n
                <5>1. /\ j - 1 \in n..Len(entries) /\ i - 1 = prev + (j - 1)
                      /\ i # 1 /\ j # 1
                    BY <1>1, <2>1, <3>1, <4>1
                <5> QED
                    BY <2>1, <5>1
            <4>2. CASE j = n /\ n > 1
                <5>1. /\ i # 1 /\ j # 1 /\ i - 1 = prev + (j - 1)
                      /\ i - 1 \in 1..prev + n - 1 /\ j - 1 \in 1..n - 1
                    BY <1>1, <2>1, <3>1, <4>2
                <5> QED
                    BY <2>1, <5>1
            <4>3. CASE j = n /\ n = 1
                <5>1. i = prev + 1 /\ i - 1 = prev /\ j = 1
                    BY <3>1, <4>3
                <5>2. prev > 0 => i # 1 /\ prev \in 1..prev + n - 1
                    BY <4>3, <5>1
                <5> QED
                    BY <1>1, <2>1, <5>1, <5>2
            <4> QED
                BY <2>1, <3>1, <4>1, <4>2, <4>3
        <3>4. LinkAt(after, i) =
                  [index |-> prev + j, entry |-> entries[j],
                   before |-> IF j = 1 THEN term ELSE entries[j - 1].term]
            BY <3>1, <3>2, <3>3 DEF LinkAt
        <3> QED
            BY <3>2, <3>4 DEF LinksAfter
    <2> QED
        BY <2>2, <2>3, <2>1
<1> QED
    BY <1>2, <1>3 DEF after

\* Index and term tell the links of S apart.
LinksAgreeIn(S) ==
    \A a, b \in S : a.index = b.index /\ a.entry.term = b.entry.term => a = b

\* Logs with such links agree up to any index where their terms do.
LEMMA LogsAgree ==
    ASSUME NEW log \in Log, NEW other \in Log, NEW S,
           LinksOf(log) \subseteq S, LinksOf(other) \subseteq S,
           LinksAgreeIn(S),
           NEW i \in Nat, i <= Len(log), i <= Len(other),
           i > 0 => log[i].term = other[i].term
    PROVE  \A j \in 1..i : log[j] = other[j]
<1> DEFINE D == {j \in 1..i : log[j] # other[j]}
<1>1. Len(log) \in Nat /\ Len(other) \in Nat
    BY LenProperties DEF Log
<1>2. ASSUME NEW j \in 1..i, log[j].term = other[j].term
      PROVE  LinkAt(log, j) = LinkAt(other, j)
    <2>1. j \in 1..Len(log) /\ j \in 1..Len(other)
        BY <1>1
    <2>2. LinkAt(log, j) \in S /\ LinkAt(other, j) \in S
        BY <2>1, LinksOfLog
    <2>3. /\ LinkAt(log, j).index = LinkAt(other, j).index
          /\ LinkAt(log, j).entry.term = LinkAt(other, j).entry.term
        BY <1>2 DEF LinkAt
    <2> QED
        BY <2>2, <2>3 DEF LinksAgreeIn
<1>3. \A j \in 1..i : log[j].term = other[j].term => log[j] = other[j]
    BY <1>2 DEF LinkAt
<1>4. SUFFICES ASSUME D # {} PROVE FALSE
    OBVIOUS
<1>5. D \in SUBSET Nat /\ \A j \in D : j <= i
    OBVIOUS
<1>6. Max(D) \in D /\ \A j \in D : j <= Max(D)
    BY <1>4, <1>5, MaxIsGreatest
<1>7. PICK k \in 1..i : k = Max(D) /\ log[k] # other[k]
    BY <1>6
<1>8. k < i
    BY <1>3, <1>7
<1>9. k + 1 \in 1..i /\ log[k + 1] = other[k + 1]
    <2>1. k + 1 \in 1..i /\ ~(k + 1 <= Max(D))
        BY <1>7, <1>8
    <2> QED
        BY <1>6, <2>1
<1>10. LinkAt(log, k + 1) = LinkAt(other, k + 1)
    BY <1>2, <1>9
<1>11. k + 1 # 1 /\ k + 1 - 1 = k
    BY <1>7
<1>12. log[k].term = other[k].term
    BY <1>10, <1>11 DEF LinkAt
<1> QED
    BY <1>3, <1>7, <1>12

\* Entries taken from a log bring its links.
LEMMA LinksOfTakenEntries ==
    ASSUME NEW log \in Log, NEW m,
           m.prevLogIndex \in Nat, m.entries \in Log, TakenFrom(log, m),
           m.prevLogIndex = 0 => m.prevLogTerm = 0
    PROVE  LinksIn(m) \subseteq LinksOf(log)
<1> DEFINE prev == m.prevLogIndex
<1>1. /\ Len(log) \in Nat /\ Len(m.entries) \in Nat
      /\ prev + Len(m.entries) <= Len(log)
      /\ prev > 0 => log[prev].term = m.prevLogTerm
      /\ \A i \in 1..Len(m.entries) : log[prev + i] = m.entries[i]
    BY LenProperties DEF Log, HasPrevious, TakenFrom
<1> SUFFICES ASSUME NEW i \in 1..Len(m.entries)
             PROVE  [index |-> prev + i, entry |-> m.entries[i],
                     before |-> IF i = 1 THEN m.prevLogTerm
                                ELSE m.entries[i - 1].term] \in LinksOf(log)
    BY DEF LinksIn, LinksAfter
<1> DEFINE before == IF i = 1 THEN m.prevLogTerm ELSE m.entries[i - 1].term
<1>2. prev + i \in 1..Len(log) /\ log[prev + i] = m.entries[i]
    BY <1>1
<1>3. before = IF prev + i = 1 THEN 0 ELSE log[prev + i - 1].term
    <2>1. CASE i = 1
        <3>1. /\ prev + i - 1 = prev
              /\ prev + i = 1 => prev = 0
              /\ prev + i # 1 => prev > 0
            BY <2>1
        <3> QED
            BY <1>1, <2>1, <3>1
    <2>2. CASE i # 1
        <3>1. /\ i - 1 \in 1..Len(m.entries) /\ prev + i # 1
              /\ prev + (i - 1) = prev + i - 1
            BY <1>1, <2>2
        <3>2. log[prev + (i - 1)] = m.entries[i - 1]
            BY <1>1, <3>1
        <3> QED
            BY <2>2, <3>1, <3>2
    <2> QED
        BY <2>1, <2>2
<1> HIDE DEF before
<1>4. LinkAt(log, prev + i) =
          [index |-> prev + i, entry |-> m.entries[i], before |-> before]
    BY <1>2, <1>3 DEF LinkAt
<1>5. LinkAt(log, prev + i) \in LinksOf(log)
    BY <1>2, LinksOfLog
<1> QED
    BY <1>4, <1>5 DEF before

\* A request is taken from the log of the leader that prepares it.
LEMMA RequestIsTaken ==
    ASSUME TypeOK, NEW th \in replicators, NEW f \in Server,
           SendAppendEntries(th, f), NEW m,
           m = AppendRequest(th, server[th.server], f)
    PROVE  /\ m.src = th.server /\ m.src \in Server
           /\ m.term = server[m.src].term
           /\ m.prevLogIndex \in Nat /\ m.entries \in Log
           /\ m.prevLogIndex = 0 => m.prevLogTerm = 0
           /\ TakenFrom(server[m.src].log, m)
<1> DEFINE r == server[th.server]
           prev == r.nextIndex[f] - 1
           entries == SubSeq(r.log, prev + 1, Len(r.log))
           head == SubSeq(r.log, 1, prev)
<1>1. th.server \in Server /\ r.log \in Log /\ Len(r.log) \in Nat
    BY TypesInHand
<1>2. prev \in Nat /\ prev <= Len(r.log)
    BY <1>1 DEF SendAppendEntries, Sendable
<1>3. /\ m.src = th.server /\ m.term = r.term /\ m.prevLogIndex = prev
      /\ m.prevLogTerm = LastTerm(head) /\ m.entries = entries
    BY DEF AppendRequest
<1> HIDE DEF prev
<1>4. /\ entries \in Log /\ Len(entries) = Len(r.log) - prev
      /\ \A i \in 1..Len(r.log) - prev : entries[i] = r.log[prev + i]
    <2>1. \A i \in prev + 1..Len(r.log) : r.log[i] \in Entry
        BY <1>1, <1>2, ElementOfSeq DEF Log
    <2>2. /\ entries \in Seq(Entry)
          /\ Len(entries) = IF prev + 1 <= Len(r.log) + 1
                            THEN Len(r.log) - (prev + 1) + 1 ELSE 0
          /\ \A i \in 1..Len(r.log) - (prev + 1) + 1 :
                 entries[i] = r.log[prev + 1 + i - 1]
        BY <1>1, <1>2, <2>1, SubSeqProperties DEF Log
    <2>3. \A i \in 1..Len(r.log) - prev : prev + 1 + i - 1 = prev + i
        BY <1>1, <1>2
    <2>4. Len(r.log) - (prev + 1) + 1 = Len(r.log) - prev
        BY <1>1, <1>2
    <2> HIDE DEF entries
    <2>5. ASSUME NEW i \in 1..Len(r.log) - prev
          PROVE  entries[i] = r.log[prev + i]
        <3>1. /\ entries[i] = r.log[prev + 1 + i - 1]
              /\ prev + 1 + i - 1 = prev + i
            BY <1>1, <1>2, <2>2, <2>3, <2>4
        <3> QED
            BY <3>1
    <2>6. Len(entries) = Len(r.log) - prev
        BY <1>1, <1>2, <2>2, <2>4
    <2> QED
        BY <2>2, <2>5, <2>6 DEF Log
<1> HIDE DEF entries
<1>5. /\ Len(head) = prev
      /\ prev > 0 => head[prev] = r.log[prev]
    <2>1. \A i \in 1..prev : r.log[i] \in Entry
        BY <1>1, <1>2, ElementOfSeq DEF Log
    <2> QED
        BY <1>1, <1>2, <2>1, SubSeqProperties DEF Log
<1> HIDE DEF head
<1>6. prev = 0 => LastTerm(head) = 0
    BY <1>5 DEF LastTerm
<1>7. HasPrevious(r.log, prev, LastTerm(head))
    BY <1>2, <1>5 DEF HasPrevious, LastTerm
<1>8. prev + Len(entries) <= Len(r.log)
    BY <1>1, <1>2, <1>4
<1>9. \A i \in 1..Len(entries) : r.log[prev + i] = entries[i]
    BY <1>1, <1>2, <1>4
<1> QED
    BY <1>1, <1>2, <1>3, <1>4, <1>6, <1>7, <1>8, <1>9 DEF TakenFrom
-----------------------------------------------------------------------------
(***************************************************************************)
(* What a step does to the links.                                          *)
(***************************************************************************)
LEMMA AmongLinks ==
    /\ \A s \in Server : /\ LinksOf(server[s].log) \subseteq Links
                         /\ LinksOf(disk[s].log) \subseteq Links
    /\ \A m \in appendRequests : LinksIn(m) \subseteq Links
BY DEF Links

LEMMA LinksBoundedBy ==
    ASSUME NEW S,
           \A s \in Server : /\ LinksOf(server[s].log) \subseteq S
                             /\ LinksOf(disk[s].log) \subseteq S,
           \A m \in appendRequests : LinksIn(m) \subseteq S
    PROVE  Links \subseteq S
BY DEF Links

\* The requests under way are copies, or taken from the log of a leader.
LEMMA RequestsMakeNoLink ==
    ASSUME TypeOK, RequestsStartAtZero, [NextOrKill]_vars, NEW m \in appendRequests'
    PROVE  /\ m.prevLogIndex = 0 => m.prevLogTerm = 0
           /\ LinksIn(m) \subseteq Links
<1>1. CASE \E n \in appendRequests : Copies(m, n)
    <2>1. PICK n \in appendRequests : Copies(m, n)
        BY <1>1
    <2>2. LinksIn(m) = LinksIn(n)
        BY <2>1 DEF Copies, LinksIn
    <2> QED
        BY <2>1, <2>2, AmongLinks DEF Copies, RequestsStartAtZero
<1>2. ASSUME NEW th \in replicators, NEW f \in Server,
             SendAppendEntries(th, f), m = AppendRequest(th, server[th.server], f)
      PROVE  /\ m.prevLogIndex = 0 => m.prevLogTerm = 0
             /\ LinksIn(m) \subseteq Links
    <2>1. /\ m.src \in Server
          /\ m.prevLogIndex \in Nat /\ m.entries \in Log
          /\ m.prevLogIndex = 0 => m.prevLogTerm = 0
          /\ TakenFrom(server[m.src].log, m)
        BY <1>2, RequestIsTaken
    <2>2. server[m.src].log \in Log
        BY <2>1, TypesInHand
    <2>3. LinksIn(m) \subseteq LinksOf(server[m.src].log)
        BY <2>1, <2>2, LinksOfTakenEntries
    <2> QED
        BY <2>1, <2>3, AmongLinks
<1> QED
    BY <1>1, <1>2, OriginOfRequests

\* A server that appends nothing of its own has only links that were there.
LEMMA MovesMakeNoLink ==
    ASSUME TypeOK, RequestsStartAtZero, NEW s \in Server, MoveStep(s)
    PROVE  LinksOf(server'[s].log) \subseteq Links
<1>1. CASE SameLog(s)
    BY <1>1, AmongLinks DEF SameLog
<1>2. CASE Stops(s)
    BY <1>2, FreshFields, LinksOfEmptyLog DEF Stops
<1>3. CASE Starts(s)
    BY <1>3, LoadedFields, AmongLinks DEF Starts
<1>4. ASSUME NEW m \in appendRequests, Merges(s, m)
      PROVE  LinksOf(server'[s].log) \subseteq Links
    <2>1. /\ server[s].log \in Log
          /\ m.prevLogIndex \in Nat /\ m.entries \in Log
          /\ m.prevLogIndex = 0 => m.prevLogTerm = 0
        BY TypesInHand DEF RequestsStartAtZero
    <2>2. /\ HasPrevious(server[s].log, m.prevLogIndex, m.prevLogTerm)
          /\ server'[s].log =
                 MergeEntries(server[s].log, m.prevLogIndex, m.entries)
        BY <1>4 DEF Merges
    <2>3. LinksOf(server'[s].log) \subseteq
              LinksOf(server[s].log) \cup LinksIn(m)
        BY <2>1, <2>2, MergeMakesNoLink DEF LinksIn
    <2> QED
        BY <2>3, AmongLinks
<1> QED
    BY <1>1, <1>2, <1>3, <1>4
       DEF MoveStep, Moves, Keeps, HearsOfTerm, Stands, Follows

LEMMA LinkIndex ==
    ASSUME TypeOK, NEW a \in Links
    PROVE  a.index \in Nat
<1>1. ASSUME NEW log \in Log, a \in LinksOf(log)
      PROVE  a.index \in Nat
    BY <1>1, LinksOfLog DEF LinkAt
<1>2. ASSUME NEW m \in appendRequests, a \in LinksIn(m)
      PROVE  a.index \in Nat
    <2>1. m.prevLogIndex \in Nat /\ Len(m.entries) \in Nat
        BY TypesInHand
    <2>2. PICK i \in 1..Len(m.entries) : a.index = m.prevLogIndex + i
        BY <1>2 DEF LinksIn, LinksAfter
    <2> QED
        BY <2>1, <2>2
<1>3. \A s \in Server : server[s].log \in Log /\ disk[s].log \in Log
    BY TypesInHand DEF StateFile
<1>4. \/ \E s \in Server : a \in LinksOf(server[s].log) \cup LinksOf(disk[s].log)
      \/ \E m \in appendRequests : a \in LinksIn(m)
    BY DEF Links
<1> QED
    BY <1>1, <1>2, <1>3, <1>4

\* The link a leader makes.
NewLink(s, command) ==
    [index |-> Len(server[s].log) + 1,
     entry |-> [term |-> server[s].term, command |-> command],
     before |-> LastTerm(server[s].log)]

LEMMA LinksStep ==
    ASSUME TypeOK, RequestsStartAtZero, [NextOrKill]_vars
    PROVE  \/ Links' \subseteq Links
           \/ \E s \in Server :
                  WinStep(s) /\ Links' \subseteq Links \cup {NewLink(s, NoOp)}
           \/ \E s \in Server, c \in Command :
                  /\ AppendStep(s) /\ Appends(s, c)
                  /\ Links' \subseteq Links \cup {NewLink(s, c)}
<1>1. \A m \in appendRequests' : LinksIn(m) \subseteq Links
    BY RequestsMakeNoLink
<1>2. ASSUME QuietStep
      PROVE  Links' \subseteq Links
    <2>1. \A s \in Server : /\ LinksOf(server'[s].log) \subseteq Links
                            /\ LinksOf(disk'[s].log) \subseteq Links
        BY <1>2, AmongLinks DEF QuietStep
    <2> QED
        BY <1>1, <2>1 DEF Links
<1>3. ASSUME NEW s \in Server, Only(s), NEW S,
             LinksOf(server'[s].log) \subseteq Links \cup S
      PROVE  Links' \subseteq Links \cup S
    <2>1. \A t \in Server \ {s} : /\ LinksOf(server'[t].log) \subseteq Links
                                  /\ LinksOf(disk'[t].log) \subseteq Links
        BY <1>3, AmongLinks DEF Only
    <2>2. disk'[s].log \in {disk[s].log, server'[s].log}
        BY <1>3 DEF Only, Persisted
    <2>3. LinksOf(disk'[s].log) \subseteq Links \cup S
        BY <1>3, <2>2, AmongLinks
    <2>4. \A t \in Server : /\ LinksOf(server'[t].log) \subseteq Links \cup S
                            /\ LinksOf(disk'[t].log) \subseteq Links \cup S
        BY <1>3, <2>1, <2>3
    <2> QED
        BY <1>1, <2>4 DEF Links
<1>4. ASSUME NEW s \in Server, MoveStep(s)
      PROVE  Links' \subseteq Links
    <2>1. LinksOf(server'[s].log) \subseteq Links \cup {}
        BY <1>4, MovesMakeNoLink
    <2>2. Only(s)
        BY <1>4 DEF MoveStep
    <2>3. Links' \subseteq Links \cup {}
        BY <1>3, <2>1, <2>2
    <2> QED
        BY <2>3
<1>5. ASSUME NEW s \in Server, NEW c \in Command \cup {NoOp}, Only(s),
             server'[s].log =
                 Append(server[s].log, [term |-> server[s].term, command |-> c])
      PROVE  Links' \subseteq Links \cup {NewLink(s, c)}
    <2>1. /\ server[s].log \in Log
          /\ [term |-> server[s].term, command |-> c] \in Entry
        BY TypesInHand DEF Entry
    <2>2. LinksOf(server'[s].log) = LinksOf(server[s].log) \cup {NewLink(s, c)}
        BY <1>5, <2>1, LinksOfAppend DEF NewLink
    <2>3. LinksOf(server'[s].log) \subseteq Links \cup {NewLink(s, c)}
        BY <2>2, AmongLinks
    <2> QED
        BY <1>3, <1>5, <2>3
<1>6. ASSUME NEW s \in Server, WinStep(s)
      PROVE  Links' \subseteq Links \cup {NewLink(s, NoOp)}
    BY <1>5, <1>6 DEF WinStep, Wins
<1>7. ASSUME NEW s \in Server, AppendStep(s)
      PROVE  \E c \in Command : /\ Appends(s, c)
                                /\ Links' \subseteq Links \cup {NewLink(s, c)}
    <2>1. PICK c \in Command : Appends(s, c)
        BY <1>7 DEF AppendStep
    <2> QED
        BY <1>5, <1>7, <2>1 DEF AppendStep, Appends
<1> QED
    BY <1>2, <1>4, <1>6, <1>7, StepsOfServers DEF ServersStep
-----------------------------------------------------------------------------
(***************************************************************************)
(* The invariant CommandInv, with working disks or without.                *)
(***************************************************************************)
LEMMA InitLinks ==
    ASSUME Init
    PROVE  Links = {} /\ RequestsStartAtZero
<1>1. \A s \in Server : server[s].log = <<>> /\ disk[s].log = <<>>
    BY FreshFields DEF Init, EmptyFile
<1>2. appendRequests = {}
    BY DEF Init
<1>3. Links \subseteq {}
    BY <1>1, <1>2, LinksOfEmptyLog DEF Links
<1> QED
    BY <1>2, <1>3 DEF RequestsStartAtZero

LEMMA NextCommands ==
    ASSUME TypeOK, CommandInv, [NextOrKill]_vars
    PROVE  CommandInv'
<1>1. RequestsStartAtZero'
    BY RequestsMakeNoLink DEF CommandInv, RequestsStartAtZero
<1>2. CASE Links' \subseteq Links
    <2>1. issued \subseteq issued'
        BY StepsOfServers
           DEF ServersStep, QuietStep, MoveStep, WinStep, AppendStep, Appends
    <2> QED
        BY <1>1, <1>2, <2>1
           DEF CommandInv, CommandsAreIssued, OneLinkPerCommand
<1>3. ASSUME NEW s \in Server, WinStep(s),
             Links' \subseteq Links \cup {NewLink(s, NoOp)}
      PROVE  CommandInv'
    <2>1. NewLink(s, NoOp).entry.command = NoOp /\ UNCHANGED issued
        BY <1>3 DEF NewLink, WinStep
    <2>2. \A a \in Links' : a.entry.command \in Command => a \in Links
        BY <1>3, <2>1, NoOpAssumption
    <2> QED
        BY <1>1, <2>1, <2>2 DEF CommandInv, CommandsAreIssued, OneLinkPerCommand
<1>4. ASSUME NEW s \in Server, NEW c \in Command, Appends(s, c),
             Links' \subseteq Links \cup {NewLink(s, c)}
      PROVE  CommandInv'
    <2>1. NewLink(s, c).entry.command = c
        BY DEF NewLink
    <2>2. c \notin issued /\ issued' = issued \cup {c}
        BY <1>4 DEF Appends
    <2> QED
        BY <1>1, <1>4, <2>1, <2>2
           DEF CommandInv, CommandsAreIssued, OneLinkPerCommand
<1> QED
    BY <1>2, <1>3, <1>4, LinksStep DEF CommandInv

\* CommandInv is an invariant: a client's command is in one link, the one
\* the leader made that it was put on.
THEOREM CommandInvariant == Spec => []CommandInv
<1> DEFINE Inv == TypeOK /\ CommandInv
<1>1. Init => Inv
    BY InitType, InitLinks
       DEF CommandInv, CommandsAreIssued, OneLinkPerCommand
<1>2. Inv /\ [Next]_vars => Inv'
    BY NextType, NextCommands DEF NextOrKill
<1>3. Inv => CommandInv
    OBVIOUS
<1> QED
    BY <1>1, <1>2, <1>3, PTL DEF Spec

\* Two entries with one command are one link, so they have one index.
LEMMA EntriesOnce ==
    ASSUME TypeOK, CommandInv
    PROVE  NoEntryTwice
<1> SUFFICES ASSUME NEW s \in Server,
                    NEW i \in 1..Len(server[s].log),
                    NEW j \in 1..Len(server[s].log),
                    server[s].log[i].command \in Command,
                    server[s].log[i].command = server[s].log[j].command
             PROVE  i = j
    BY DEF NoEntryTwice
<1> DEFINE a == LinkAt(server[s].log, i)
           b == LinkAt(server[s].log, j)
<1>1. server[s].log \in Log
    BY TypesInHand
<1>2. a \in Links /\ b \in Links
    BY <1>1, LinksOfLog, AmongLinks
<1>3. /\ a.index = i /\ a.entry.command = server[s].log[i].command
      /\ b.index = j /\ b.entry.command = server[s].log[j].command
    BY DEF LinkAt
<1> HIDE DEF a, b
<1> QED
    BY <1>2, <1>3 DEF CommandInv, OneLinkPerCommand

\* No log holds a client's command twice, however requests are sent again,
\* delayed or refused, and even where votes and logs are forgotten.
THEOREM NoCommandTwice == Spec => []NoEntryTwice
<1>1. TypeOK /\ CommandInv => NoEntryTwice
    BY EntriesOnce
<1> QED
    BY <1>1, TypeCorrectness, CommandInvariant, PTL
-----------------------------------------------------------------------------
(***************************************************************************)
(* The invariant LogInv: steps while disks work.                           *)
(***************************************************************************)

\* A follower that says "success" has just taken the entries of a request
\* of the term it answers with.
LEMMA OriginOfSuccess ==
    ASSUME TypeOK, [NextOrKill]_vars, NEW m \in appendReplies', m.success
    PROVE  \/ m \in appendReplies
           \/ \E n \in appendRequests :
                  /\ MoveStep(n.dst) /\ Follows(n.dst, n) /\ Merges(n.dst, n)
                  /\ n.dst \in up'
                  /\ m.src = n.src /\ m.dst = n.dst /\ m.term = n.term
                  /\ m.matched = n.prevLogIndex + Len(n.entries)
<1> DEFINE Old == m \in appendReplies
<1>1. CASE UNCHANGED vars
    BY <1>1 DEF vars, calls
<1>2. ASSUME NEW s \in Server, ServerStep(s) \/ Kill(s)
      PROVE  Old
    BY <1>2 DEF ServerStep, Timeout, LeaderTimeout, ElectionTimeout, Crash,
        Kill, Die, Restart, DiskFails, Put, calls
<1>3. ASSUME NEW n, RequestVote(n) \/ CountVote(n) \/ VoteCallFails(n)
                    \/ AppendCallFails(n)
      PROVE  Old
    BY <1>3 DEF RequestVote, CountVote, VoteCallFails, AppendCallFails
<1>4. ASSUME NEW n, HandleAppendReply(n)
      PROVE  Old
    BY <1>4 DEF HandleAppendReply, DeposedMeanwhile, FollowerIsAhead, UseReply,
        ReplicatorReturns
<1>5. ASSUME NEW p, PutReturns(p)
      PROVE  Old
    BY <1>5 DEF PutReturns, calls
<1>6. ASSUME NEW th, NEW f, SendAppendEntries(th, f) \/ ReplicatorEnds(th, f)
      PROVE  Old
    BY <1>6 DEF SendAppendEntries, ReplicatorEnds, ReplicatorReturns
<1>7. ASSUME NEW n \in appendRequests, AppendEntries(n), ~Old
      PROVE  /\ MoveStep(n.dst) /\ Follows(n.dst, n) /\ Merges(n.dst, n)
             /\ n.dst \in up'
             /\ m.src = n.src /\ m.dst = n.dst /\ m.term = n.term
             /\ m.matched = n.prevLogIndex + Len(n.entries)
    <2>1. ASSUME NEW r, NEW success,
                 appendReplies' = appendReplies \cup
                     (IF n.open THEN {AppendReply(n, r, success)} ELSE {})
          PROVE  /\ m = AppendReply(n, r, success)
                 /\ success
        <3>1. m = AppendReply(n, r, success)
            BY <1>7, <2>1
        <3> QED
            BY <3>1 DEF AppendReply
    <2>2. ~RejectStaleLeader(n)
        BY <2>1 DEF RejectStaleLeader
    <2>3. ~FailAssertion(n)
        BY <1>7 DEF FailAssertion
    <2>4. ~RefuseEntries(n)
        BY <2>1 DEF RefuseEntries, FollowLeader
    <2>5. TakeEntries(n)
        BY <1>7, <2>2, <2>3, <2>4 DEF AppendEntries
    <2> DEFINE r == AppendNewEntries(Follower(n), n)
    <2>6. m = AppendReply(n, r, TRUE)
        BY <2>1, <2>5 DEF TakeEntries, FollowLeader
    <2>7. /\ MoveStep(n.dst) /\ Follows(n.dst, n) /\ Merges(n.dst, n)
          /\ server'[n.dst] = r
        BY <1>7, <2>5, AppendEntriesMoves
    <2> HIDE DEF r
    <2>8. r.term = n.term
        BY <2>7 DEF Follows
    <2>9. n.dst \in up'
        BY <1>7 DEF AppendEntries
    <2> QED
        BY <2>6, <2>7, <2>8, <2>9 DEF AppendReply
<1> QED
    BY <1>1, <1>2, <1>3, <1>4, <1>5, <1>6, <1>7 DEF NextOrKill, Next, CallStep

\* A step between states that keep the invariants, while disks work.
StepWithFiles ==
    /\ VotingInv /\ LeaderInv /\ CommandInv /\ MatchingInv
    /\ [NextOrKill]_vars
    /\ VotingInv' /\ LeaderInv'

LEMMA StepWithFilesTypes ==
    ASSUME StepWithFiles
    PROVE  /\ TypeOK /\ RequestsStartAtZero /\ ServersStep
           /\ leaders \subseteq leaders'
           /\ leaders \subseteq Nat \X Server
           /\ \A s \in Server : /\ server[s].term \in Nat /\ disk[s].term \in Nat
                                /\ server'[s].term \in Nat /\ disk'[s].term \in Nat
                                /\ server[s].log \in Log
                                /\ server'[s].log \in Log
                                /\ Len(server[s].log) \in Nat
                                /\ Len(server'[s].log) \in Nat
<1>1. TypeOK /\ TypeOK' /\ [NextOrKill]_vars /\ RequestsStartAtZero
    BY DEF StepWithFiles, VotingInv, CommandInv
<1>2. ServersStep
    BY <1>1, StepsOfServers
<1>3. leaders \subseteq leaders'
    BY <1>2, WinnersStay
<1>4. ASSUME NEW s \in Server
      PROVE  /\ server[s].term \in Nat /\ disk[s].term \in Nat
             /\ server'[s].term \in Nat /\ disk'[s].term \in Nat
             /\ server[s].log \in Seq(Entry) /\ server'[s].log \in Seq(Entry)
    <2>1. /\ server[s] \in ReplicaState /\ disk[s] \in StateFile
          /\ server'[s] \in ReplicaState /\ disk'[s] \in StateFile
        BY <1>1 DEF TypeOK
    <2> QED
        BY <2>1 DEF ReplicaState, StateFile, Log
<1>5. \A log \in Seq(Entry) : Len(log) \in Nat
    BY LenProperties
<1> QED
    BY <1>1, <1>2, <1>3, <1>4, <1>5 DEF TypeOK, Log

\* Files and fields agree before and after the step.
LEMMA FilesBefore ==
    ASSUME StepWithFiles, NEW s \in Server
    PROVE  /\ Runs(s) => s \in up
           /\ s \in up => /\ disk[s].term = server[s].term
                          /\ disk[s].log = server[s].log
<1>1. Runs(s) => s \in up
    BY DEF StepWithFiles, VotingInv, Runs
<1>2. s \in up => disk[s] = Persisted(server[s])
    BY DEF StepWithFiles, VotingInv, FilesAreCurrent
<1> QED
    BY <1>1, <1>2 DEF Persisted

LEMMA FilesAfter ==
    ASSUME StepWithFiles, NEW s \in Server, s \in up'
    PROVE  /\ disk'[s].term = server'[s].term
           /\ disk'[s].log = server'[s].log
<1>1. disk'[s] = Persisted(server'[s])
    BY DEF StepWithFiles, VotingInv, FilesAreCurrent
<1> QED
    BY <1>1 DEF Persisted

\* The term in a file never decreases.
LEMMA FilesMoveOn ==
    ASSUME StepWithFiles, NEW s \in Server
    PROVE  disk[s].term <= disk'[s].term
<1>1. /\ server[s].term \in Nat /\ disk[s].term \in Nat
      /\ server'[s].term \in Nat /\ ServersStep
    BY StepWithFilesTypes
<1>2. CASE disk'[s] = disk[s]
    BY <1>1, <1>2
<1>3. ASSUME Only(s), Runs(s), server[s].term <= server'[s].term
      PROVE  disk[s].term <= disk'[s].term
    <2>1. disk[s].term = server[s].term
        BY <1>3, FilesBefore
    <2> QED
        BY <1>1, <1>3, <2>1 DEF Only, Persisted
<1>4. CASE MoveStep(s)
    <2>1. CASE Stops(s) \/ Starts(s)
        BY <1>2, <2>1 DEF Stops, Starts
    <2>2. ASSUME Keeps(s) \/ HearsOfTerm(s) \/ Stands(s)
                 \/ \E m \in appendRequests : Follows(s, m)
          PROVE  server[s].term <= server'[s].term
        BY <1>1, <2>2 DEF Keeps, HearsOfTerm, Stands, Follows
    <2> QED
        BY <1>3, <1>4, <2>1, <2>2 DEF MoveStep, Moves
<1>5. CASE WinStep(s) \/ AppendStep(s)
    <2>1. Only(s) /\ Runs(s) /\ server'[s].term = server[s].term
        BY <1>5 DEF WinStep, AppendStep, Wins, Appends
    <2> QED
        BY <1>1, <1>3, <2>1
<1>6. ASSUME ~MoveStep(s), ~WinStep(s), ~AppendStep(s)
      PROVE  disk'[s] = disk[s]
    BY <1>1, <1>6 DEF ServersStep, QuietStep, MoveStep, WinStep, AppendStep, Only
<1> QED
    BY <1>2, <1>4, <1>5, <1>6

LEMMA OneWinnerNext == VotingInv' => OneWinnerPerTerm'
<1>1. VotingInv => OneWinnerPerTerm
    BY OneWinner
<1> QED
    BY <1>1, PTL

\* Two winners of a term after the step are one server.
LEMMA WinnersAgree ==
    ASSUME StepWithFiles, NEW term, NEW s, NEW t,
           <<term, s>> \in leaders', <<term, t>> \in leaders'
    PROVE  s = t
<1>1. OneWinnerPerTerm'
    BY OneWinnerNext DEF StepWithFiles
<1> QED
    BY <1>1 DEF OneWinnerPerTerm

LEMMA LeaderHasWon ==
    ASSUME StepWithFiles, NEW s \in Server
    PROVE  /\ server[s].role = "LEADER" => <<server[s].term, s>> \in leaders
           /\ server'[s].role = "LEADER" => <<server'[s].term, s>> \in leaders'
BY ServerAssumption
   DEF StepWithFiles, LeaderInv, LeadersKnowThemselves, KnownLeaderWasElected

\* Who wins a term wins it for the first time, and finds no link of it.
LEMMA WinnersAreNew ==
    ASSUME StepWithFiles, NEW s \in Server, WinStep(s)
    PROVE  /\ <<server[s].term, s>> \in leaders'
           /\ <<server[s].term, s>> \notin leaders
           /\ \A a \in Links : a.entry.term # server[s].term
<1>1. PICK m \in voteReplies : Wins(s, m)
    BY DEF WinStep
<1>2. m.src = s /\ m.thread = server[s].term
    BY <1>1 DEF Wins, StepWithFiles, LeaderInv, LeadersCountNoVotes
<1>3. <<server[s].term, s>> \in leaders'
    BY <1>1 DEF Wins
<1>4. <<server[s].term, s>> \notin leaders
    <2> SUFFICES ASSUME <<server[s].term, s>> \in leaders PROVE FALSE
        OBVIOUS
    <2>1. ElectionOver(s, server[s].term)
        BY DEF StepWithFiles, MatchingInv, WonForGood
    <2> QED
        BY <1>2, <2>1 DEF ElectionOver
<1>5. ASSUME NEW a \in Links, a.entry.term = server[s].term
      PROVE  FALSE
    <2>1. PICK l \in leaders : l[1] = a.entry.term
        BY DEF StepWithFiles, MatchingInv, LinksAreOfWinners
    <2>2. l = <<server[s].term, l[2]>> /\ l \in leaders'
        BY <1>5, <2>1, StepWithFilesTypes
    <2>3. l[2] = s
        BY <1>3, <2>2, WinnersAgree
    <2> QED
        BY <1>4, <2>2, <2>3
<1> QED
    BY <1>3, <1>4, <1>5

\* A leader has just won or led the term before, with a log that may have
\* grown since.
Extends(after, log) ==
    /\ Len(log) <= Len(after)
    /\ \A i \in 1..Len(log) : after[i] = log[i]

LEMMA LeaderStep ==
    ASSUME StepWithFiles, NEW s \in Server, server'[s].role = "LEADER"
    PROVE  \/ WinStep(s)
           \/ /\ server[s].role = "LEADER"
              /\ server[s].term = server'[s].term
              /\ Extends(server'[s].log, server[s].log)
<1>1. /\ ServersStep /\ server[s].log \in Log /\ Len(server[s].log) \in Nat
      /\ server[s].term \in Nat
    BY StepWithFilesTypes
<1>2. server'[s].log = server[s].log => Extends(server'[s].log, server[s].log)
    BY <1>1 DEF Extends
<1>3. \/ server'[s] = server[s]
      \/ MoveStep(s) \/ WinStep(s) \/ AppendStep(s)
    BY <1>1, StepOfServer
<1>4. CASE MoveStep(s)
    BY <1>2, <1>4, LoadedFields, FreshFields
       DEF MoveStep, Moves, Keeps, HearsOfTerm, Stands, Follows, Stops,
           Starts, SameLog
<1>5. CASE AppendStep(s)
    <2>1. PICK c \in Command : Appends(s, c)
        BY <1>5 DEF AppendStep
    <2>2. [term |-> server[s].term, command |-> c] \in Entry
        BY <1>1 DEF Entry
    <2>3. Extends(server'[s].log, server[s].log)
        BY <1>1, <2>1, <2>2, AppendProperties DEF Appends, Extends, Log
    <2> QED
        BY <2>1, <2>3 DEF Appends
<1> QED
    BY <1>2, <1>3, <1>4, <1>5
-----------------------------------------------------------------------------
(***************************************************************************)
(* The conjuncts of MatchingInv, one by one.                               *)
(***************************************************************************)
LEMMA NextLinksAgree ==
    ASSUME StepWithFiles
    PROVE  LinksAgree'
<1>1. TypeOK /\ RequestsStartAtZero /\ [NextOrKill]_vars /\ LinksAgree
    BY StepWithFilesTypes DEF StepWithFiles, MatchingInv
<1>2. CASE Links' \subseteq Links
    BY <1>1, <1>2 DEF LinksAgree
<1>3. ASSUME NEW s \in Server, NEW c, Links' \subseteq Links \cup {NewLink(s, c)},
             \A a \in Links : a.entry.term = server[s].term =>
                                  a.index # Len(server[s].log) + 1
      PROVE  LinksAgree'
    <2>1. /\ NewLink(s, c).index = Len(server[s].log) + 1
          /\ NewLink(s, c).entry.term = server[s].term
        BY DEF NewLink
    <2> QED
        BY <1>1, <1>3, <2>1 DEF LinksAgree
<1>4. ASSUME NEW s \in Server, WinStep(s),
             Links' \subseteq Links \cup {NewLink(s, NoOp)}
      PROVE  LinksAgree'
    BY <1>3, <1>4, WinnersAreNew
<1>5. ASSUME NEW s \in Server, NEW c, Appends(s, c),
             Links' \subseteq Links \cup {NewLink(s, c)}
      PROVE  LinksAgree'
    <2>1. \A a \in Links : a.entry.term = server[s].term =>
                               a.index <= Len(server[s].log)
        BY <1>5 DEF Appends, StepWithFiles, MatchingInv, LeadersHoldTheirTerm
    <2>2. Len(server[s].log) \in Nat
        BY StepWithFilesTypes
    <2>3. ~(Len(server[s].log) + 1 <= Len(server[s].log))
        BY <2>2
    <2>4. \A a \in Links : a.entry.term = server[s].term =>
                               a.index # Len(server[s].log) + 1
        BY <2>1, <2>3
    <2> QED
        BY <1>3, <1>5, <2>4
<1> QED
    BY <1>1, <1>2, <1>4, <1>5, LinksStep

LEMMA NextLinksAreOfWinners ==
    ASSUME StepWithFiles
    PROVE  LinksAreOfWinners'
<1>1. /\ TypeOK /\ RequestsStartAtZero /\ [NextOrKill]_vars
      /\ leaders \subseteq leaders'
    BY StepWithFilesTypes DEF StepWithFiles
<1>2. \A a \in Links : \E l \in leaders' : l[1] = a.entry.term
    BY <1>1 DEF StepWithFiles, MatchingInv, LinksAreOfWinners
<1>3. CASE Links' \subseteq Links
    BY <1>2, <1>3 DEF LinksAreOfWinners
<1>4. ASSUME NEW s \in Server, NEW c, Links' \subseteq Links \cup {NewLink(s, c)},
             <<server[s].term, s>> \in leaders'
      PROVE  LinksAreOfWinners'
    <2>1. <<server[s].term, s>>[1] = NewLink(s, c).entry.term
        BY DEF NewLink
    <2> QED
        BY <1>2, <1>4, <2>1 DEF LinksAreOfWinners
<1>5. ASSUME NEW s \in Server, WinStep(s),
             Links' \subseteq Links \cup {NewLink(s, NoOp)}
      PROVE  LinksAreOfWinners'
    BY <1>4, <1>5, WinnersAreNew
<1>6. ASSUME NEW s \in Server, NEW c, Appends(s, c),
             Links' \subseteq Links \cup {NewLink(s, c)}
      PROVE  LinksAreOfWinners'
    BY <1>1, <1>4, <1>6, LeaderHasWon DEF Appends
<1> QED
    BY <1>1, <1>3, <1>5, <1>6, LinksStep

LEMMA NextLeadersHoldTheirTerm ==
    ASSUME StepWithFiles
    PROVE  LeadersHoldTheirTerm'
<1> SUFFICES ASSUME NEW t \in Server, server'[t].role = "LEADER",
                    NEW a \in Links', a.entry.term = server'[t].term
             PROVE  a.index <= Len(server'[t].log)
    BY DEF LeadersHoldTheirTerm
<1>1. /\ TypeOK /\ RequestsStartAtZero /\ [NextOrKill]_vars
      /\ Len(server[t].log) \in Nat /\ Len(server'[t].log) \in Nat
      /\ server[t].log \in Log
    BY StepWithFilesTypes DEF StepWithFiles
<1>2. \A s \in Server : /\ server'[s].role = "LEADER"
                        /\ server'[s].term = server'[t].term
                        => s = t
    BY LeaderHasWon, WinnersAgree
<1>3. CASE a \in Links
    <2>1. ~WinStep(t)
        BY <1>3, WinnersAreNew DEF WinStep, Wins
    <2>2. /\ server[t].role = "LEADER" /\ server[t].term = server'[t].term
          /\ Len(server[t].log) <= Len(server'[t].log)
        BY <2>1, LeaderStep DEF Extends
    <2>3. a.index <= Len(server[t].log)
        BY <1>3, <2>2 DEF StepWithFiles, MatchingInv, LeadersHoldTheirTerm
    <2>4. a.index \in Nat
        BY <1>1, <1>3, LinkIndex
    <2> QED
        BY <1>1, <2>2, <2>3, <2>4
<1>4. ASSUME NEW s \in Server, NEW c \in Command \cup {NoOp}, a = NewLink(s, c),
             server'[s].log =
                 Append(server[s].log, [term |-> server[s].term, command |-> c]),
             server'[s].role = "LEADER", server'[s].term = server[s].term
      PROVE  a.index <= Len(server'[t].log)
    <2>1. s = t
        BY <1>2, <1>4 DEF NewLink
    <2>2. [term |-> server[s].term, command |-> c] \in Entry
        BY <1>4, StepWithFilesTypes DEF Entry
    <2>3. Len(server'[t].log) = Len(server[t].log) + 1
        BY <1>1, <1>4, <2>1, <2>2, AppendedLog
    <2>4. a.index = Len(server[t].log) + 1
        BY <1>4, <2>1 DEF NewLink
    <2> QED
        BY <1>1, <2>3, <2>4
<1>5. ASSUME NEW s \in Server, WinStep(s), a = NewLink(s, NoOp)
      PROVE  a.index <= Len(server'[t].log)
    BY <1>4, <1>5 DEF WinStep, Wins
<1>6. ASSUME NEW s \in Server, NEW c \in Command, Appends(s, c), a = NewLink(s, c)
      PROVE  a.index <= Len(server'[t].log)
    BY <1>4, <1>6 DEF Appends
<1> QED
    BY <1>1, <1>3, <1>5, <1>6, LinksStep

LEMMA NextWonForGood ==
    ASSUME StepWithFiles
    PROVE  WonForGood'
<1>1. /\ TypeOK /\ [NextOrKill]_vars /\ ServersStep
      /\ leaders \subseteq Nat \X Server
    BY StepWithFilesTypes DEF StepWithFiles
<1>2. ASSUME NEW term \in Nat, NEW s \in Server, <<term, s>> \in leaders
      PROVE  term <= disk'[s].term /\ ElectionOver(s, term)'
    <2>1. /\ term <= disk[s].term /\ ElectionOver(s, term)
        BY <1>2 DEF StepWithFiles, MatchingInv, WonForGood
    <2>2. /\ disk[s].term <= disk'[s].term
          /\ disk[s].term \in Nat /\ disk'[s].term \in Nat
          /\ server[s].term \in Nat
        BY StepWithFilesTypes, FilesMoveOn
    <2>3. ~(Stands(s) /\ server'[s].term = term)
        <3> SUFFICES ASSUME Stands(s), server'[s].term = term PROVE FALSE
            OBVIOUS
        <3>1. ~Stops(s) /\ ~Starts(s) /\ ~WinStep(s) /\ ~AppendStep(s)
            BY LoadedFields, FreshFields
               DEF Stands, Stops, Starts, WinStep, Wins, AppendStep, Appends
        <3>2. server'[s] # server[s]
            BY <2>2 DEF Stands
        <3>3. Runs(s)
            BY <1>1, <3>1, <3>2, StepOfServer DEF MoveStep, Moves
        <3>4. disk[s].term = server[s].term
            BY <3>3, FilesBefore
        <3> QED
            BY <2>1, <2>2, <3>4 DEF Stands
    <2>4. ElectionOver(s, term)'
        BY <1>1, <2>1, <2>3, ElectionOverStays
    <2> QED
        BY <1>2, <2>1, <2>2, <2>4
<1>3. ASSUME NEW term \in Nat, NEW s \in Server, WinStep(s),
             server[s].term = term
      PROVE  term <= disk'[s].term /\ ElectionOver(s, term)'
    <2>1. PICK m \in voteReplies : Wins(s, m) /\ ElectionReturns(s, m.thread)
        BY <1>3 DEF WinStep
    <2>2. m.thread = term
        BY <1>3, <2>1 DEF Wins, StepWithFiles, LeaderInv, LeadersCountNoVotes
    <2>3. ElectionOver(s, term)'
        BY <1>1, <2>1, <2>2, WinnersElectionOver
    <2>4. disk[s].term = term
        BY <1>3, FilesBefore DEF WinStep
    <2>5. disk[s].term <= disk'[s].term
        BY FilesMoveOn
    <2> QED
        BY <2>3, <2>4, <2>5
<1>4. ASSUME NEW l \in leaders'
      PROVE  l[1] <= disk'[l[2]].term /\ ElectionOver(l[2], l[1])'
    <2>1. PICK term \in Nat, s \in Server : l = <<term, s>>
        BY DEF StepWithFiles, VotingInv, TypeOK
    <2>2. term <= disk'[s].term /\ ElectionOver(s, term)'
        <3>1. CASE l \in leaders
            BY <1>2, <2>1, <3>1
        <3>2. CASE l \notin leaders
            <4>1. PICK t \in Server : /\ WinStep(t)
                                      /\ l = <<server[t].term, t>>
                BY <1>1, <3>2 DEF ServersStep, QuietStep, MoveStep, WinStep,
                    AppendStep, Wins
            <4> QED
                BY <1>3, <2>1, <4>1
        <3> QED
            BY <3>1, <3>2
    <2> QED
        BY <2>1, <2>2 DEF ElectionOver
<1> QED
    BY <1>4 DEF WonForGood

\* What a request was taken from still holds it in a log that has grown.
LEMMA TakenStays ==
    ASSUME NEW log \in Log, NEW after \in Log, Extends(after, log), NEW m,
           m.prevLogIndex \in Nat, m.entries \in Log, TakenFrom(log, m)
    PROVE  TakenFrom(after, m)
<1>1. /\ Len(log) \in Nat /\ Len(after) \in Nat /\ Len(m.entries) \in Nat
      /\ m.prevLogIndex + Len(m.entries) <= Len(log)
      /\ Len(log) <= Len(after)
    BY LenProperties DEF Log, Extends, TakenFrom
<1>2. \A i \in 1..Len(m.entries) : m.prevLogIndex + i \in 1..Len(log)
    BY <1>1
<1>3. \A i \in 1..Len(m.entries) : after[m.prevLogIndex + i] = m.entries[i]
    BY <1>2 DEF Extends, TakenFrom
<1>4. m.prevLogIndex > 0 => m.prevLogIndex \in 1..Len(log)
    BY <1>1
<1>5. HasPrevious(after, m.prevLogIndex, m.prevLogTerm)
    BY <1>1, <1>4 DEF Extends, TakenFrom, HasPrevious
<1>6. m.prevLogIndex + Len(m.entries) <= Len(after)
    BY <1>1
<1> QED
    BY <1>3, <1>5, <1>6 DEF TakenFrom

LEMMA NextRequestsAreTaken ==
    ASSUME StepWithFiles
    PROVE  RequestsAreTaken'
<1> SUFFICES ASSUME NEW m \in appendRequests', LeadsIn(m.src, m.term)'
             PROVE  TakenFrom(server'[m.src].log, m)
    BY DEF RequestsAreTaken
<1>1. /\ TypeOK /\ [NextOrKill]_vars
      /\ server'[m.src].role = "LEADER" /\ server'[m.src].term = m.term
    BY StepWithFilesTypes DEF StepWithFiles, LeadsIn
<1>2. CASE \E n \in appendRequests : Copies(m, n)
    <2>1. PICK n \in appendRequests : Copies(m, n)
        BY <1>2
    <2>2. /\ m.src \in Server /\ n.src = m.src /\ n.term = m.term
          /\ n.prevLogIndex \in Nat /\ n.entries \in Log
        BY <1>1, <2>1, TypesInHand DEF Copies
    <2>3. <<m.term, m.src>> \in leaders
        BY <2>2 DEF StepWithFiles, LeaderInv, RequestsFromWinners
    <2>4. ~WinStep(m.src)
        <3>1. WinStep(m.src) => server[m.src].term = m.term
            BY <1>1 DEF WinStep, Wins
        <3> QED
            BY <2>2, <2>3, <3>1, WinnersAreNew
    <2>5. /\ server[m.src].role = "LEADER"
          /\ server[m.src].term = server'[m.src].term
          /\ Extends(server'[m.src].log, server[m.src].log)
        BY <1>1, <2>2, <2>4, LeaderStep
    <2>6. TakenFrom(server[m.src].log, n)
        BY <1>1, <2>2, <2>5
           DEF StepWithFiles, MatchingInv, RequestsAreTaken, LeadsIn
    <2>7. server[m.src].log \in Log /\ server'[m.src].log \in Log
        BY <2>2, StepWithFilesTypes
    <2>8. TakenFrom(server'[m.src].log, n)
        BY <2>2, <2>5, <2>6, <2>7, TakenStays
    <2> QED
        BY <2>1, <2>8 DEF Copies, TakenFrom
<1>3. ASSUME NEW th \in replicators, NEW f \in Server, SendAppendEntries(th, f),
             m = AppendRequest(th, server[th.server], f)
      PROVE  TakenFrom(server'[m.src].log, m)
    <2>1. server' = server
        BY <1>3 DEF SendAppendEntries
    <2> QED
        BY <1>1, <1>3, <2>1, RequestIsTaken
<1> QED
    BY <1>1, <1>2, <1>3, OriginOfRequests

LEMMA NextSuccessIsOfWinners ==
    ASSUME StepWithFiles
    PROVE  SuccessIsOfWinners'
<1> SUFFICES ASSUME NEW m \in appendReplies', m.success
             PROVE  /\ <<m.term, m.src>> \in leaders' /\ m.dst # m.src
                    /\ m.term <= disk'[m.dst].term
    BY DEF SuccessIsOfWinners
<1>1. TypeOK /\ [NextOrKill]_vars /\ leaders \subseteq leaders'
    BY StepWithFilesTypes DEF StepWithFiles
<1>2. CASE m \in appendReplies
    <2>1. /\ <<m.term, m.src>> \in leaders /\ m.dst # m.src
          /\ m.term <= disk[m.dst].term
        BY <1>2 DEF StepWithFiles, MatchingInv, SuccessIsOfWinners
    <2>2. m.dst \in Server /\ m.term \in Nat
        BY <1>1, <1>2, TypesInHand
    <2>3. /\ disk[m.dst].term \in Nat /\ disk'[m.dst].term \in Nat
          /\ disk[m.dst].term <= disk'[m.dst].term
        BY <2>2, StepWithFilesTypes, FilesMoveOn
    <2> QED
        BY <1>1, <2>1, <2>2, <2>3
<1>3. ASSUME NEW n \in appendRequests, Follows(n.dst, n), n.dst \in up',
             m.src = n.src, m.dst = n.dst, m.term = n.term
      PROVE  /\ <<m.term, m.src>> \in leaders' /\ m.dst # m.src
             /\ m.term <= disk'[m.dst].term
    <2>1. <<n.term, n.src>> \in leaders /\ n.dst # n.src
        BY DEF StepWithFiles, LeaderInv, RequestsFromWinners, NothingToOneself
    <2>2. n.dst \in Server /\ n.term \in Nat
        BY <1>1, TypesInHand
    <2>3. disk'[n.dst].term = n.term
        BY <1>3, <2>2, FilesAfter DEF Follows
    <2> QED
        BY <1>1, <1>3, <2>1, <2>2, <2>3
<1> QED
    BY <1>1, <1>2, <1>3, OriginOfSuccess

\* Two logs hold the same entries up to index k.
Agree(log, other, k) ==
    /\ k <= Len(log) /\ k <= Len(other)
    /\ \A j \in 1..k : log[j] = other[j]

LEMMA AgreeIsSubSeq ==
    ASSUME NEW log \in Log, NEW other \in Log, NEW k \in Nat
    PROVE  Agree(log, other, k) <=>
               /\ k <= Len(log) /\ k <= Len(other)
               /\ SubSeq(log, 1, k) = SubSeq(other, 1, k)
<1> SUFFICES ASSUME k <= Len(log), k <= Len(other)
             PROVE  (\A j \in 1..k : log[j] = other[j]) <=>
                        SubSeq(log, 1, k) = SubSeq(other, 1, k)
    BY DEF Agree
<1>1. Len(log) \in Nat /\ Len(other) \in Nat
    BY LenProperties DEF Log
<1>2. /\ \A j \in 1..k : log[j] \in Entry
      /\ \A j \in 1..k : other[j] \in Entry
    BY <1>1, ElementOfSeq DEF Log
<1> DEFINE a == SubSeq(log, 1, k)
           b == SubSeq(other, 1, k)
<1>3. /\ a \in Seq(Entry) /\ Len(a) = k
      /\ \A j \in 1..k : a[j] = log[j]
    BY <1>1, <1>2, SubSeqProperties
<1>4. /\ b \in Seq(Entry) /\ Len(b) = k
      /\ \A j \in 1..k : b[j] = other[j]
    BY <1>1, <1>2, SubSeqProperties
<1> HIDE DEF a, b
<1>5. (\A j \in 1..k : log[j] = other[j]) => a = b
    BY <1>3, <1>4, SeqEqual
<1>6. a = b => \A j \in 1..k : log[j] = other[j]
    BY <1>3, <1>4
<1> QED
    BY <1>5, <1>6 DEF a, b

LEMMA AgreeWithExtension ==
    ASSUME NEW log \in Log, NEW other \in Log, NEW k \in Nat,
           NEW after \in Log, Extends(after, other), Agree(log, other, k)
    PROVE  Agree(log, after, k)
<1>1. Len(log) \in Nat /\ Len(other) \in Nat /\ Len(after) \in Nat
    BY LenProperties DEF Log
<1>2. \A j \in 1..k : j \in 1..Len(other)
    BY <1>1 DEF Agree
<1> QED
    BY <1>1, <1>2 DEF Agree, Extends

\* A merge of what was taken from a log keeps what agrees with that log.
LEMMA AgreeAfterMerge ==
    ASSUME NEW log \in Log, NEW leaderLog \in Log, NEW k \in Nat, NEW m,
           m.prevLogIndex \in Nat, m.entries \in Log,
           HasPrevious(log, m.prevLogIndex, m.prevLogTerm),
           TakenFrom(leaderLog, m), Agree(log, leaderLog, k)
    PROVE  Agree(MergeEntries(log, m.prevLogIndex, m.entries), leaderLog, k)
<1> DEFINE prev == m.prevLogIndex
           after == MergeEntries(log, prev, m.entries)
<1>1. /\ Len(log) \in Nat /\ Len(leaderLog) \in Nat /\ Len(m.entries) \in Nat
      /\ prev <= Len(log)
    BY LenProperties DEF Log, HasPrevious
<1>2. \/ after = log
      \/ \E n \in Nat : Merged(log, prev, m.entries, after, n)
    BY <1>1, MergedLog
<1> HIDE DEF after
<1>3. ASSUME NEW n \in Nat, Merged(log, prev, m.entries, after, n)
      PROVE  Agree(after, leaderLog, k)
    <2>1. /\ n \in 1..Len(m.entries)
          /\ prev + n > Len(log) \/ log[prev + n].term # m.entries[n].term
          /\ Len(after) = prev + Len(m.entries)
          /\ \A i \in 1..prev + n - 1 : after[i] = log[i]
        BY <1>3 DEF Merged
    <2>2. k < prev + n
        <3> SUFFICES ASSUME prev + n <= k PROVE FALSE
            BY <2>1
        <3>1. prev + n \in 1..k
            BY <2>1
        <3>2. log[prev + n] = leaderLog[prev + n]
            BY <3>1 DEF Agree
        <3>3. leaderLog[prev + n] = m.entries[n]
            BY <2>1 DEF TakenFrom
        <3>4. ~(prev + n > Len(log))
            BY <1>1, <2>1 DEF Agree
        <3> QED
            BY <2>1, <3>2, <3>3, <3>4
    <2>3. k <= Len(after)
        BY <1>1, <2>1, <2>2
    <2>4. \A j \in 1..k : after[j] = log[j]
        BY <2>1, <2>2
    <2> QED
        BY <2>3, <2>4 DEF Agree
<1> QED
    BY <1>2, <1>3 DEF after

\* Having merged what was taken from a log, a follower agrees with that log
\* up to the last entry it was sent, provided that equal terms at an index
\* tell that logs agree so far.
LEMMA AgreeOnRequest ==
    ASSUME NEW log \in Log, NEW leaderLog \in Log, NEW m,
           m.prevLogIndex \in Nat, m.entries \in Log,
           HasPrevious(log, m.prevLogIndex, m.prevLogTerm),
           TakenFrom(leaderLog, m),
           NEW after, after = MergeEntries(log, m.prevLogIndex, m.entries),
           NEW S, LinksOf(after) \subseteq S, LinksOf(leaderLog) \subseteq S,
           LinksAgreeIn(S)
    PROVE  Agree(after, leaderLog, m.prevLogIndex + Len(m.entries))
<1> DEFINE prev == m.prevLogIndex
           k == prev + Len(m.entries)
<1>1. /\ Len(log) \in Nat /\ Len(leaderLog) \in Nat /\ Len(m.entries) \in Nat
      /\ prev <= Len(log) /\ k <= Len(leaderLog)
      /\ prev > 0 => /\ log[prev].term = m.prevLogTerm
                     /\ leaderLog[prev].term = m.prevLogTerm
      /\ \A i \in 1..Len(m.entries) : leaderLog[prev + i] = m.entries[i]
    BY LenProperties DEF Log, HasPrevious, TakenFrom
<1>2. after \in Log
    BY <1>1, MergeEntriesType
<1>3. /\ k <= Len(after)
      /\ k > 0 => after[k].term = leaderLog[k].term
    <2>1. CASE /\ after = log
               /\ \A i \in 1..Len(m.entries) :
                      /\ prev + i <= Len(log)
                      /\ log[prev + i].term = m.entries[i].term
        <3>1. CASE Len(m.entries) = 0
            BY <1>1, <2>1, <3>1
        <3>2. CASE Len(m.entries) > 0
            <4>1. Len(m.entries) \in 1..Len(m.entries)
                BY <1>1, <3>2
            <4> QED
                BY <1>1, <2>1, <4>1
        <3> QED
            BY <1>1, <3>1, <3>2
    <2>2. ASSUME NEW n \in Nat, Merged(log, prev, m.entries, after, n)
          PROVE  /\ k <= Len(after)
                 /\ after[k].term = leaderLog[k].term
        <3>1. /\ n \in 1..Len(m.entries) /\ Len(after) = k
              /\ \A i \in n..Len(m.entries) : after[prev + i] = m.entries[i]
            BY <2>2 DEF Merged
        <3>2. /\ Len(m.entries) \in n..Len(m.entries)
              /\ Len(m.entries) \in 1..Len(m.entries)
            BY <1>1, <3>1
        <3>3. after[k] = leaderLog[k]
            BY <1>1, <3>1, <3>2
        <3> QED
            BY <1>1, <3>1, <3>3
    <2> QED
        BY <1>1, <2>1, <2>2, MergedLog
<1>4. k \in Nat
    BY <1>1
<1> HIDE DEF k
<1>5. \A j \in 1..k : after[j] = leaderLog[j]
    BY <1>1, <1>2, <1>3, <1>4, LogsAgree
<1>6. Agree(after, leaderLog, k)
    BY <1>1, <1>3, <1>5 DEF Agree
<1> QED
    BY <1>6 DEF k

\* What a follower does to its file in the leader's term leaves it in
\* agreement with that leader.
LEMMA FollowersKeepAgreement ==
    ASSUME StepWithFiles, NEW s \in Server, NEW f \in Server, NEW k \in Nat,
           s # f, server[s].role = "LEADER", server'[s].role = "LEADER",
           server'[s].term = server[s].term,
           disk[f].term = server[s].term, disk'[f].term = server[s].term,
           Agree(disk[f].log, server[s].log, k)
    PROVE  Agree(disk'[f].log, server[s].log, k)
<1>1. /\ TypeOK /\ ServersStep
      /\ server[f].log \in Log /\ server[s].log \in Log
    BY StepWithFilesTypes
<1>2. CASE disk'[f].log = disk[f].log
    BY <1>2
<1>3. ASSUME Only(f), Runs(f), SameLog(f)
      PROVE  disk'[f].log = disk[f].log
    BY <1>3, FilesBefore DEF Only, Persisted, SameLog
<1>4. <<server[s].term, s>> \in leaders /\ <<server[s].term, s>> \in leaders'
    BY LeaderHasWon
<1>5. ASSUME Only(f), Runs(f), server'[f].role = "LEADER",
             server'[f].term = server[f].term
      PROVE  FALSE
    <2>1. disk[f].term = server[f].term
        BY <1>5, FilesBefore
    <2>2. <<server[s].term, f>> \in leaders'
        BY <1>5, <2>1, LeaderHasWon
    <2> QED
        BY <1>4, <2>2, WinnersAgree
<1>6. ASSUME NEW m \in appendRequests, Follows(f, m), Merges(f, m), Only(f),
             Runs(f), disk'[f].log # disk[f].log
      PROVE  Agree(disk'[f].log, server[s].log, k)
    <2>1. disk'[f] = Persisted(server'[f])
        BY <1>6 DEF Only
    <2>2. /\ disk'[f].log = server'[f].log /\ disk'[f].term = server'[f].term
          /\ disk[f].log = server[f].log
        BY <1>6, <2>1, FilesBefore DEF Persisted
    <2>3. m.term = server[s].term
        BY <1>6, <2>2 DEF Follows
    <2>4. <<m.term, m.src>> \in leaders'
        BY StepWithFilesTypes DEF StepWithFiles, LeaderInv, RequestsFromWinners
    <2>5. m.src = s
        BY <1>4, <2>3, <2>4, WinnersAgree
    <2>6. TakenFrom(server[s].log, m)
        BY <2>3, <2>5
           DEF StepWithFiles, MatchingInv, RequestsAreTaken, LeadsIn
    <2>7. m.prevLogIndex \in Nat /\ m.entries \in Log
        BY <1>1, TypesInHand
    <2>8. /\ HasPrevious(server[f].log, m.prevLogIndex, m.prevLogTerm)
          /\ server'[f].log =
                 MergeEntries(server[f].log, m.prevLogIndex, m.entries)
        BY <1>6 DEF Merges
    <2>9. Agree(server'[f].log, server[s].log, k)
        BY <1>1, <2>2, <2>6, <2>7, <2>8, AgreeAfterMerge
    <2> QED
        BY <2>2, <2>9
<1>7. CASE MoveStep(f)
    <2>1. CASE Stops(f) \/ Starts(f)
        BY <1>2, <2>1 DEF Stops, Starts
    <2>2. CASE Runs(f) /\ (Keeps(f) \/ HearsOfTerm(f) \/ Stands(f))
        BY <1>2, <1>3, <1>7, <2>2 DEF MoveStep, Keeps, HearsOfTerm, Stands
    <2>3. ASSUME Runs(f), NEW m \in appendRequests, Follows(f, m)
          PROVE  Agree(disk'[f].log, server[s].log, k)
        BY <1>2, <1>3, <1>6, <1>7, <2>3 DEF MoveStep, Follows
    <2> QED
        BY <1>7, <2>1, <2>2, <2>3 DEF MoveStep, Moves
<1>8. CASE WinStep(f)
    BY <1>5, <1>8 DEF WinStep, Wins
<1>9. CASE AppendStep(f)
    BY <1>5, <1>9 DEF AppendStep, Appends
<1>10. ASSUME ~MoveStep(f), ~WinStep(f), ~AppendStep(f)
       PROVE  disk'[f] = disk[f]
    BY <1>1, <1>10 DEF ServersStep, QuietStep, MoveStep, WinStep, AppendStep, Only
<1> QED
    BY <1>2, <1>7, <1>8, <1>9, <1>10

LEMMA NextSuccessMeansMatch ==
    ASSUME StepWithFiles
    PROVE  SuccessMeansMatch'
<1> SUFFICES ASSUME NEW m \in appendReplies', m.success,
                    server'[m.src].role = "LEADER",
                    server'[m.src].term = m.term,
                    disk'[m.dst].term = m.term
             PROVE  /\ m.matched <= Len(disk'[m.dst].log)
                    /\ m.matched <= Len(server'[m.src].log)
                    /\ SubSeq(disk'[m.dst].log, 1, m.matched) =
                           SubSeq(server'[m.src].log, 1, m.matched)
    BY DEF SuccessMeansMatch
<1> DEFINE s == m.src
           f == m.dst
<1>1. TypeOK /\ [NextOrKill]_vars /\ TypeOK'
    BY DEF StepWithFiles, VotingInv
<1>2. /\ s \in Server /\ f \in Server /\ m.matched \in Nat /\ m.term \in Nat
      /\ disk'[f].log \in Log
    BY <1>1 DEF TypeOK, AppendReplyCall, StateFile
<1>3. /\ server[s].log \in Log /\ server'[s].log \in Log
      /\ server[f].log \in Log /\ server'[f].log \in Log
      /\ disk[f].term \in Nat /\ disk'[f].term \in Nat
    BY <1>2, StepWithFilesTypes
<1>4. disk[f].log \in Log
    BY <1>1, <1>2 DEF TypeOK, StateFile
<1>5. SUFFICES Agree(disk'[f].log, server'[s].log, m.matched)
    BY <1>2, <1>3, AgreeIsSubSeq
<1>6. CASE m \in appendReplies
    <2>1. /\ <<m.term, s>> \in leaders /\ f # s /\ m.term <= disk[f].term
        BY <1>6 DEF StepWithFiles, MatchingInv, SuccessIsOfWinners
    <2>2. ~WinStep(s)
        <3>1. WinStep(s) => server[s].term = m.term
            BY DEF WinStep, Wins
        <3> QED
            BY <1>2, <2>1, <3>1, WinnersAreNew
    <2>3. /\ server[s].role = "LEADER" /\ server[s].term = m.term
          /\ Extends(server'[s].log, server[s].log)
        BY <1>2, <2>2, LeaderStep
    <2>4. disk[f].term <= disk'[f].term
        BY <1>2, FilesMoveOn
    <2>5. disk[f].term = m.term
        BY <1>2, <1>3, <2>1, <2>4
    <2>6. /\ m.matched <= Len(disk[f].log)
          /\ m.matched <= Len(server[s].log)
          /\ SubSeq(disk[f].log, 1, m.matched) =
                 SubSeq(server[s].log, 1, m.matched)
        BY <1>6, <2>3, <2>5 DEF StepWithFiles, MatchingInv, SuccessMeansMatch
    <2>7. Agree(disk[f].log, server[s].log, m.matched)
        BY <1>2, <1>3, <1>4, <2>6, AgreeIsSubSeq
    <2>8. Agree(disk'[f].log, server[s].log, m.matched)
        BY <1>2, <2>1, <2>3, <2>5, <2>7, FollowersKeepAgreement
    <2> QED
        BY <1>2, <1>3, <2>3, <2>8, AgreeWithExtension
<1>7. ASSUME NEW n \in appendRequests, MoveStep(n.dst), Merges(n.dst, n),
             n.dst \in up', s = n.src, f = n.dst, m.term = n.term,
             m.matched = n.prevLogIndex + Len(n.entries)
      PROVE  Agree(disk'[f].log, server'[s].log, m.matched)
    <2>1. n.src # n.dst /\ <<n.term, n.src>> \in leaders
        BY DEF StepWithFiles, LeaderInv, NothingToOneself, RequestsFromWinners
    <2>2. server'[s] = server[s]
        BY <1>2, <1>7, <2>1 DEF MoveStep, Only
    <2>3. TakenFrom(server[s].log, n)
        BY <1>7, <2>2 DEF StepWithFiles, MatchingInv, RequestsAreTaken, LeadsIn
    <2>4. n.prevLogIndex \in Nat /\ n.entries \in Log
        BY <1>1, TypesInHand
    <2>5. /\ HasPrevious(server[f].log, n.prevLogIndex, n.prevLogTerm)
          /\ server'[f].log =
                 MergeEntries(server[f].log, n.prevLogIndex, n.entries)
        BY <1>7 DEF Merges
    <2>6. disk'[f].log = server'[f].log
        BY <1>2, <1>7, FilesAfter
    <2>7. LinksAgreeIn(Links')
        BY NextLinksAgree DEF LinksAgree, LinksAgreeIn
    <2>8. /\ LinksOf(server'[f].log) \subseteq Links'
          /\ LinksOf(server'[s].log) \subseteq Links'
        BY <1>2 DEF Links
    <2>9. Agree(server'[f].log, server'[s].log, n.prevLogIndex + Len(n.entries))
        BY <1>3, <2>2, <2>3, <2>4, <2>5, <2>7, <2>8, AgreeOnRequest
    <2> QED
        BY <1>7, <2>6, <2>9
<1> QED
    BY <1>1, <1>6, <1>7, OriginOfSuccess
-----------------------------------------------------------------------------
(***************************************************************************)
(* The theorems on logs.                                                   *)
(***************************************************************************)
LEMMA InitMatching ==
    ASSUME Init
    PROVE  MatchingInv
<1>1. Links = {} /\ appendRequests = {} /\ appendReplies = {} /\ leaders = {}
    BY InitLinks DEF Init
<1>2. \A s \in Server : server[s].role # "LEADER"
    BY FreshFields DEF Init
<1> QED
    BY <1>1, <1>2
       DEF MatchingInv, LinksAgree, LinksAreOfWinners, LeadersHoldTheirTerm,
           WonForGood, RequestsAreTaken, SuccessIsOfWinners, SuccessMeansMatch

LEMMA NextMatching ==
    ASSUME StepWithFiles
    PROVE  MatchingInv'
BY NextLinksAgree, NextLinksAreOfWinners, NextLeadersHoldTheirTerm,
   NextWonForGood, NextRequestsAreTaken, NextSuccessIsOfWinners,
   NextSuccessMeansMatch
   DEF MatchingInv

\* LogInv is an invariant: while disks work each term's links are made by
\* its one winner, whose log holds all of them for as long as it leads.
THEOREM LogInvariant == Spec => []LogInv
<1> DEFINE Inv == TypeOK /\ ElectionInv /\ LeaderInv /\ CommandInv /\ LogInv
<1>1. Init => Inv
    BY InitType, InitElection, InitLeader, InitLinks, InitMatching
       DEF ElectionInv, LogInv, CommandInv, CommandsAreIssued, OneLinkPerCommand
<1>2. Inv /\ [Next]_vars => Inv'
    <2> SUFFICES ASSUME Inv, [NextOrKill]_vars PROVE Inv'
        BY DEF NextOrKill
    <2>1. TypeOK' /\ LeaderInv' /\ CommandInv'
        BY NextType, NextLeader, NextCommands
    <2>2. ASSUME DisksWork'
          PROVE  VotingInv' /\ MatchingInv'
        <3>1. VotingInv /\ MatchingInv
            BY <2>2, DisksOnlyFail DEF ElectionInv, LogInv
        <3>2. VotingInv'
            BY <2>2, <3>1, NextElection
        <3>3. StepWithFiles
            BY <2>1, <3>1, <3>2 DEF StepWithFiles
        <3> QED
            BY <3>2, <3>3, NextMatching
    <2> QED
        BY <2>1, <2>2 DEF ElectionInv, LogInv
<1>3. Inv => LogInv
    OBVIOUS
<1> QED
    BY <1>1, <1>2, <1>3, PTL DEF Spec

\* Logs whose links agree match.
LEMMA LogsOfLinksMatch ==
    ASSUME TypeOK, MatchingInv
    PROVE  LogMatching
<1> SUFFICES ASSUME NEW s \in Server, NEW t \in Server,
                    NEW i \in 1..Min({Len(server[s].log),
                                      Len(server[t].log)}),
                    server[s].log[i].term = server[t].log[i].term
             PROVE  SubSeq(server[s].log, 1, i) =
                        SubSeq(server[t].log, 1, i)
    BY DEF LogMatching
<1>1. /\ server[s].log \in Log /\ server[t].log \in Log
      /\ Len(server[s].log) \in Nat /\ Len(server[t].log) \in Nat
    BY TypesInHand
<1>2. i \in Nat /\ i <= Len(server[s].log) /\ i <= Len(server[t].log)
    <2> DEFINE lengths == {Len(server[s].log), Len(server[t].log)}
    <2>1. lengths \in SUBSET Nat /\ lengths # {}
        BY <1>1
    <2>2. Min(lengths) \in Nat /\ \A n \in lengths : Min(lengths) <= n
        BY <2>1, MinIsLeast
    <2> QED
        BY <1>1, <2>2
<1>3. LinksAgreeIn(Links)
    BY DEF MatchingInv, LinksAgree, LinksAgreeIn
<1>4. /\ LinksOf(server[s].log) \subseteq Links
      /\ LinksOf(server[t].log) \subseteq Links
    BY AmongLinks
<1>5. \A j \in 1..i : server[s].log[j] = server[t].log[j]
    BY <1>1, <1>2, <1>3, <1>4, LogsAgree
<1> QED
    BY <1>1, <1>2, <1>5, AgreeIsSubSeq DEF Agree

\* While disks work, logs that hold the same term at an index are the same
\* up to it, over any number of elections, crashes, restarts and late or
\* lost requests.
THEOREM LogsMatch == Spec => [](DisksWork => LogMatching)
<1>1. TypeOK /\ LogInv => (DisksWork => LogMatching)
    BY LogsOfLinksMatch DEF LogInv
<1> QED
    BY <1>1, TypeCorrectness, LogInvariant, PTL

\* While disks work, "success" from a follower still in the leader's term
\* means that the follower's file agrees with the leader's log up to the
\* index the leader will record.
THEOREM SuccessIsTrue == Spec => [](DisksWork => SuccessMeansMatch)
<1>1. LogInv => (DisksWork => SuccessMeansMatch)
    BY DEF LogInv, MatchingInv
<1> QED
    BY <1>1, LogInvariant, PTL
-----------------------------------------------------------------------------
(***************************************************************************)
(* What the steps are to Ledger, while disks work.                         *)
(***************************************************************************)
Logs == [s \in Server |-> server[s].log]

LEMMA LedgerLinks ==
    ASSUME NEW log \in Log
    PROVE  Replication!LinksOf(log) = LinksOf(log)
BY LinksOfLog DEF LinkAt, Replication!LinksOf

\* The logs after a step are made of the links known after it.
LEMMA LogsAreOfLinks ==
    ASSUME StepWithFiles
    PROVE  UNION {Replication!LinksOf(Logs'[s]) : s \in Server} \subseteq Links'
<1> SUFFICES ASSUME NEW s \in Server
             PROVE  Replication!LinksOf(Logs'[s]) \subseteq Links'
    OBVIOUS
<1>1. Logs'[s] = server'[s].log /\ server'[s].log \in Log
    BY StepWithFilesTypes DEF Logs
<1>2. LinksOf(server'[s].log) \subseteq Links'
    BY DEF Links
<1> QED
    BY <1>1, <1>2, LedgerLinks

\* A step that makes no link and changes the log of one server at most is a
\* Copy.
LEMMA CopyMaps ==
    ASSUME StepWithFiles, NEW s \in Server,
           \A t \in Server \ {s} : server'[t].log = server[t].log,
           Links' \subseteq Links, UNCHANGED leaders
    PROVE  Replication!Next
<1>1. \A t \in Server \ {s} : Logs'[t] = Logs[t]
    BY DEF Logs
<1>2. Replication!Copy(s)
    BY <1>1 DEF Replication!Copy, Logs
<1> QED
    BY <1>2, LogsAreOfLinks DEF Replication!Next, Logs

\* A leader that holds all links of its term and appends one is a Write.
LEMMA WriteMaps ==
    ASSUME StepWithFiles, NEW s \in Server, NEW c \in Command \cup {NoOp},
           Only(s),
           server'[s].log =
               Append(server[s].log, [term |-> server[s].term, command |-> c]),
           \A a \in Links : a.entry.term = server[s].term
                                => a.index <= Len(server[s].log),
           Links' \subseteq Links \cup {NewLink(s, c)}
    PROVE  Replication!Write(server[s].term, s, c)
<1> DEFINE e == [term |-> server[s].term, command |-> c]
<1>1. server[s].log \in Log /\ server'[s].log \in Log /\ e \in Entry
    BY StepWithFilesTypes DEF Entry
<1>2. Logs[s] = server[s].log /\ Logs'[s] = server'[s].log
    BY DEF Logs
<1>3. Logs' = [Logs EXCEPT ![s] = Append(@, e)]
    BY DEF Logs, Only
<1>4. NewLink(s, c) \in Replication!LinksOf(Logs'[s])
    BY <1>1, <1>2, LedgerLinks, LinksOfAppend DEF NewLink
<1>5. Links' \subseteq Links \cup Replication!LinksOf(Logs'[s])
    BY <1>4
<1> QED
    BY <1>2, <1>3, <1>5 DEF Replication!Write, Logs

LEMMA WinIsWin ==
    ASSUME StepWithFiles, NEW s \in Server, WinStep(s),
           Links' \subseteq Links \cup {NewLink(s, NoOp)}
    PROVE  Replication!Next
<1>1. PICK m \in voteReplies : Wins(s, m)
    BY DEF WinStep
<1>2. \A a \in Links : a.entry.term # server[s].term
    BY WinnersAreNew
<1>3. Replication!Write(server[s].term, s, NoOp)
    BY <1>1, <1>2, WriteMaps DEF WinStep, Wins
<1>4. \A w \in leaders : w[1] # server[s].term
    <2> SUFFICES ASSUME NEW w \in leaders, w[1] = server[s].term PROVE FALSE
        OBVIOUS
    <2>1. w = <<server[s].term, w[2]>> /\ w \in leaders'
        BY StepWithFilesTypes
    <2>2. /\ <<server[s].term, s>> \in leaders'
          /\ <<server[s].term, s>> \notin leaders
        BY WinnersAreNew
    <2>3. <<server[s].term, w[2]>> \in leaders'
        BY <2>1
    <2>4. w[2] = s
        BY <2>2, <2>3, WinnersAgree
    <2> QED
        BY <2>1, <2>2, <2>4
<1>5. leaders' = leaders \cup {<<server[s].term, s>>}
    BY <1>1 DEF Wins
<1>6. PICK w \in leaders' : w = <<server[s].term, s>>
    BY <1>5
<1>7. w[1] = server[s].term /\ w[2] = s
    BY <1>6
<1>8. Replication!Win(w[1], w[2])
    BY <1>3, <1>4, <1>5, <1>7 DEF Replication!Win, Replication!Write
<1> QED
    BY <1>8, LogsAreOfLinks DEF Replication!Next, Logs

LEMMA AppendIsStore ==
    ASSUME StepWithFiles, NEW s \in Server, NEW c \in Command,
           AppendStep(s), Appends(s, c),
           Links' \subseteq Links \cup {NewLink(s, c)}
    PROVE  Replication!Next
<1>1. \A a \in Links : a.entry.term = server[s].term
                           => a.index <= Len(server[s].log)
    BY DEF StepWithFiles, MatchingInv, LeadersHoldTheirTerm, Appends
<1>2. Replication!Write(server[s].term, s, c)
    BY <1>1, WriteMaps DEF AppendStep, Appends
<1>3. <<server[s].term, s>> \in leaders
    BY LeaderHasWon DEF Appends
<1>4. \A a \in Links : a.entry.command # c
    BY DEF StepWithFiles, CommandInv, CommandsAreIssued, Appends
<1>5. PICK w \in leaders : w = <<server[s].term, s>>
    BY <1>3
<1>6. w[1] = server[s].term /\ w[2] = s
    BY <1>5
<1>7. Replication!Store(w[1], w[2], c)
    BY <1>2, <1>3, <1>4, <1>6
       DEF Replication!Store, Replication!Write, AppendStep
<1> QED
    BY <1>7, LogsAreOfLinks DEF Replication!Next, Logs

\* Without servers there are no logs and no requests.
LEMMA NothingWithoutServers ==
    ASSUME TypeOK, Server = {}
    PROVE  Links = {}
<1>1. appendRequests = {}
    BY DEF TypeOK, AppendRequestCall
<1> QED
    BY <1>1 DEF Links

LEMMA StepMaps ==
    ASSUME StepWithFiles
    PROVE  [Replication!Next]_<<leaders, Logs, Links>>
<1>1. TypeOK /\ TypeOK' /\ RequestsStartAtZero /\ [NextOrKill]_vars /\ ServersStep
    BY StepWithFilesTypes DEF StepWithFiles, VotingInv
<1>2. CASE \E s \in Server : /\ WinStep(s)
                             /\ Links' \subseteq Links \cup {NewLink(s, NoOp)}
    BY <1>2, WinIsWin
<1>3. CASE \E s \in Server, c \in Command :
               /\ AppendStep(s) /\ Appends(s, c)
               /\ Links' \subseteq Links \cup {NewLink(s, c)}
    BY <1>3, AppendIsStore
<1>4. CASE Links' \subseteq Links
    <2>1. CASE QuietStep
        <3>1. CASE Server = {}
            <4>1. Links = {} /\ Links' = {}
                BY <1>1, <1>4, <3>1, NothingWithoutServers
            <4> QED
                BY <2>1, <4>1 DEF QuietStep, Logs
        <3>2. CASE Server # {}
            BY <1>4, <2>1, <3>2, CopyMaps DEF QuietStep
        <3> QED
            BY <3>1, <3>2
    <2>2. ASSUME NEW s \in Server, MoveStep(s)
          PROVE  Replication!Next
        BY <1>4, <2>2, CopyMaps DEF MoveStep, Only
    <2>3. ASSUME NEW s \in Server, WinStep(s)
          PROVE  Replication!Next
        BY <1>4, <2>3, WinIsWin
    <2>4. ASSUME NEW s \in Server, AppendStep(s)
          PROVE  Replication!Next
        BY <1>4, <2>4, AppendIsStore DEF AppendStep
    <2> QED
        BY <1>1, <2>1, <2>2, <2>3, <2>4 DEF ServersStep
<1> QED
    BY <1>1, <1>2, <1>3, <1>4, LinksStep

\* When no disk fails, every step of the cluster is one of Ledger's: a link
\* is made by the one winner of its term at the end of its log, while no
\* server, file or request has a link of the term further on, a command is
\* in no link that is left when it is stored, and whatever else handlers,
\* late calls, crashes and restarts do to a log, they make it of known links.
THEOREM RaftImplementsLedger ==
    ASSUME MaxDiskFaults = 0
    PROVE  Spec => ImplementsLedger
<1> DEFINE Inv == /\ TypeOK /\ DisksWork /\ ElectionInv /\ LeaderInv
                  /\ CommandInv /\ LogInv
<1>1. Init => DisksWork /\ Replication!Init
    <2> SUFFICES ASSUME Init PROVE DisksWork /\ Replication!Init
        OBVIOUS
    <2>1. Links = {}
        BY InitLinks
    <2>2. \A s \in Server : server[s].log = <<>>
        BY FreshFields DEF Init
    <2> QED
        BY <2>1, <2>2 DEF Init, DisksWork, Replication!Init
<1>2. TypeOK /\ DisksWork /\ [Next]_vars => DisksWork'
    BY DisksKeepWorking
<1>3. Inv /\ Inv' /\ [Next]_vars => [Replication!Next]_<<leaders, Logs, Links>>
    <2> SUFFICES ASSUME Inv, Inv', [Next]_vars
                 PROVE  [Replication!Next]_<<leaders, Logs, Links>>
        OBVIOUS
    <2>1. StepWithFiles
        BY DEF StepWithFiles, NextOrKill, ElectionInv, LogInv
    <2> QED
        BY <2>1, StepMaps
<1> QED
    BY <1>1, <1>2, <1>3, TypeCorrectness, ElectionInvariant, LeaderInvariant,
       CommandInvariant, LogInvariant, PTL
       DEF Spec, ImplementsLedger, Replication!Spec, Logs
=============================================================================
