------------------------- MODULE RaftReplicaProofs -------------------------
(***************************************************************************)
(* Lemmas about the operators of RaftLog and RaftReplica: what a method    *)
(* makes of a well-formed log or server record is well-formed again.       *)
(***************************************************************************)
EXTENDS RaftReplica, TLAPS, FiniteSetTheorems, SequenceTheorems,
        WellFoundedInduction

\* A non-empty set of naturals has a least element.
LEMMA LeastNatural ==
    ASSUME NEW S \in SUBSET Nat, S # {}
    PROVE  \E x \in S : \A y \in S : x <= y
<1>1. PICK x \in S : \A y \in S : ~(<<y, x>> \in OpToRel(<, Nat))
    BY NatLessThanWellFounded, WFMin
<1>2. \A y \in S : ~(y < x)
    BY <1>1 DEF OpToRel
<1> QED
    BY <1>2

\* Min picks it.
LEMMA MinIsLeast ==
    ASSUME NEW S \in SUBSET Nat, S # {}
    PROVE  /\ Min(S) \in S
           /\ \A y \in S : Min(S) <= y
BY LeastNatural DEF Min

\* Max picks the greatest element of a bounded, non-empty set of naturals.
LEMMA MaxIsGreatest ==
    ASSUME NEW S \in SUBSET Nat, S # {}, NEW b \in Nat, \A x \in S : x <= b
    PROVE  /\ Max(S) \in S
           /\ \A y \in S : y <= Max(S)
<1> DEFINE Gaps == {b - x : x \in S}
<1>1. \A x \in S : b - x \in Nat
    OBVIOUS
<1>2. Gaps \in SUBSET Nat
    BY <1>1
<1>3. Gaps # {}
    OBVIOUS
<1> HIDE DEF Gaps
<1>4. PICK g \in Gaps : \A h \in Gaps : g <= h
    BY <1>2, <1>3, LeastNatural
<1>5. PICK x \in S : g = b - x
    BY <1>4 DEF Gaps
<1>6. ASSUME NEW y \in S PROVE y <= x
    <2>1. b - y \in Gaps
        BY DEF Gaps
    <2> QED
        BY <1>4, <1>5, <2>1
<1>7. \E z \in S : \A y \in S : z >= y
    BY <1>6
<1> QED
    BY <1>7 DEF Max

\* Two majorities of the servers share one.
LEMMA MajoritiesIntersect ==
    ASSUME NEW P \in SUBSET Server, NEW Q \in SUBSET Server,
           IsMajority(Cardinality(P)), IsMajority(Cardinality(Q))
    PROVE  P \cap Q # {}
BY ServerAssumption, FS_Subset, FS_CardinalityType, FS_MajoritiesIntersect
   DEF IsMajority
-----------------------------------------------------------------------------
\* A part of a log is a log.
LEMMA SubSeqOfLog ==
    ASSUME NEW log \in Log, NEW m \in Nat \ {0}, NEW n \in Int, n <= Len(log)
    PROVE  /\ SubSeq(log, m, n) \in Log
           /\ Len(SubSeq(log, m, n)) = IF m <= n THEN n - m + 1 ELSE 0
<1>1. \A i \in m..n : log[i] \in Entry
    BY ElementOfSeq, LenProperties DEF Log
<1> QED
    BY <1>1, SubSeqProperties DEF Log

LEMMA LastTermType ==
    ASSUME NEW log \in Log
    PROVE  LastTerm(log) \in Nat
<1>1. Len(log) \in Nat
    BY LenProperties DEF Log
<1>2. ASSUME Len(log) # 0 PROVE log[Len(log)] \in Entry
    BY <1>1, <1>2, ElementOfSeq DEF Log
<1> QED
    BY <1>1, <1>2 DEF LastTerm, Entry

\* The loop of AppendEntries turns a log that holds the entry at prev and
\* the entries of a request into a log.
LEMMA MergeEntriesType ==
    ASSUME NEW log \in Log, NEW prev \in Nat, NEW entries \in Log,
           prev <= Len(log)
    PROVE  MergeEntries(log, prev, entries) \in Log
<1> DEFINE new == NewPositions(log, prev, entries)
<1>1. Len(log) \in Nat /\ Len(entries) \in Nat
    BY LenProperties DEF Log
<1>2. CASE new = {}
    BY <1>2 DEF MergeEntries
<1>3. CASE new # {}
    <2>1. new \in SUBSET Nat /\ new \subseteq 1..Len(entries)
        BY <1>1 DEF NewPositions
    <2>2. Min(new) \in new /\ \A i \in new : Min(new) <= i
        BY <1>3, <2>1, MinIsLeast
    <2>3. Min(new) \in 1..Len(entries)
        BY <2>1, <2>2
    <2>4. prev + Min(new) - 1 <= Len(log)
        <3>1. CASE Min(new) = 1
            BY <1>1, <3>1
        <3>2. CASE Min(new) > 1
            <4>1. Min(new) - 1 \in 1..Len(entries) /\ Min(new) - 1 \notin new
                BY <1>1, <2>2, <2>3, <3>2
            <4> QED
                BY <1>1, <2>3, <4>1 DEF NewPositions
        <3> QED
            BY <1>1, <2>3, <3>1, <3>2
    <2>5. SubSeq(log, 1, prev + Min(new) - 1) \in Log
        BY <1>1, <2>3, <2>4, SubSeqOfLog
    <2>6. SubSeq(entries, Min(new), Len(entries)) \in Log
        BY <1>1, <2>3, SubSeqOfLog
    <2> QED
        BY <1>3, <2>5, <2>6, ConcatProperties DEF MergeEntries, Log
<1> QED
    BY <1>2, <1>3
-----------------------------------------------------------------------------
(***************************************************************************)
(* The fields that a state file keeps, and the other fields of a server.   *)
(***************************************************************************)
LEMMA FreshReplicaType == FreshReplica \in ReplicaState
BY EmptySeq DEF FreshReplica, ReplicaState, Role, NoPeers, Log

LEMMA PersistedType ==
    ASSUME NEW r \in ReplicaState
    PROVE  Persisted(r) \in StateFile
BY DEF Persisted, StateFile, ReplicaState

LEMMA LoadedType ==
    ASSUME NEW file \in StateFile
    PROVE  /\ Loaded(file) \in ReplicaState
           /\ Persisted(Loaded(file)) = file
BY FreshReplicaType
   DEF Loaded, Persisted, StateFile, ReplicaState, FreshReplica

LEMMA OnHigherTermDiscoveryType ==
    ASSUME NEW r \in ReplicaState, NEW term \in Nat
    PROVE  /\ OnHigherTermDiscovery(r, term) \in ReplicaState
           /\ OnHigherTermDiscovery(r, term).term = term
           /\ OnHigherTermDiscovery(r, term).votedFor = None
           /\ OnHigherTermDiscovery(r, term).log = r.log
<1>1. NoPeers \in [Server -> Int]
    BY DEF NoPeers
<1>2. OnHigherTermDiscovery(r, term) =
          [r EXCEPT !.role = "FOLLOWER", !.term = term, !.votedFor = None,
                    !.leaderId = None, !.nextIndex = NoPeers, !.timer = TRUE]
    BY DEF OnHigherTermDiscovery, ResetElectionTimer, ReplicaState
<1> QED
    BY <1>1, <1>2 DEF ReplicaState, Role

\* Observe leaves a server in the later of its term and the request's.
LEMMA ObserveType ==
    ASSUME NEW r \in ReplicaState, NEW term \in Nat
    PROVE  /\ Observe(r, term) \in ReplicaState
           /\ Observe(r, term).log = r.log
           /\ Observe(r, term).applied = r.applied
           /\ Observe(r, term).commitIndex = r.commitIndex
           /\ term > r.term => /\ Observe(r, term).term = term
                               /\ Observe(r, term).votedFor = None
           /\ ~(term > r.term) => Observe(r, term) = r
BY OnHigherTermDiscoveryType
   DEF Observe, OnHigherTermDiscovery, ResetElectionTimer, ReplicaState

LEMMA CastVoteType ==
    ASSUME NEW r \in ReplicaState, NEW candidate \in Server
    PROVE  /\ CastVote(r, candidate) \in ReplicaState
           /\ CastVote(r, candidate).term = r.term
           /\ CastVote(r, candidate).votedFor = candidate
BY DEF CastVote, ResetElectionTimer, ReplicaState

LEMMA BecomeCandidateType ==
    ASSUME NEW r \in ReplicaState, NEW s \in Server
    PROVE  /\ BecomeCandidate(r, s) \in ReplicaState
           /\ BecomeCandidate(r, s).term = r.term + 1
           /\ BecomeCandidate(r, s).votedFor = s
<1>1. r.term + 1 \in Nat
    BY DEF ReplicaState
<1>2. BecomeCandidate(r, s) =
          [r EXCEPT !.term = r.term + 1, !.role = "CANDIDATE", !.votedFor = s,
                    !.timer = TRUE]
    BY DEF BecomeCandidate, ResetElectionTimer, ReplicaState
<1> QED
    BY <1>1, <1>2 DEF ReplicaState, Role

\* One more entry makes a log one longer.
LEMMA AppendedLog ==
    ASSUME NEW log \in Log, NEW e \in Entry
    PROVE  /\ Append(log, e) \in Log
           /\ Len(Append(log, e)) = Len(log) + 1
           /\ Append(log, e)[Len(log) + 1] = e
BY AppendProperties DEF Log

LEMMA BecomeLeaderType ==
    ASSUME NEW r \in ReplicaState, NEW s \in Server
    PROVE  /\ BecomeLeader(r, s) \in ReplicaState
           /\ BecomeLeader(r, s).term = r.term
           /\ BecomeLeader(r, s).votedFor = r.votedFor
<1> DEFINE e == [term |-> r.term, command |-> NoOp]
           log == Append(r.log, e)
           next == [f \in Server |-> IF f = s THEN 0 ELSE Len(log) + 1]
<1>1. e \in Entry /\ r.log \in Log
    BY DEF Entry, ReplicaState
<1>2. log \in Log /\ Len(log) \in Nat
    BY <1>1, AppendedLog, LenProperties DEF Log
<1>3. next \in [Server -> Int]
    BY <1>2
<1> HIDE DEF log, next
<1>4. BecomeLeader(r, s) =
          [r EXCEPT !.role = "LEADER", !.leaderId = s, !.log = log,
                    !.nextIndex = next, !.timer = TRUE]
    BY DEF BecomeLeader, ResetElectionTimer, log, next
<1> QED
    BY <1>2, <1>3, <1>4 DEF ReplicaState, Role

LEMMA FollowType ==
    ASSUME NEW r \in ReplicaState, NEW leader \in Server
    PROVE  /\ Follow(r, leader) \in ReplicaState
           /\ Persisted(Follow(r, leader)) = Persisted(r)
           /\ Follow(r, leader).term = r.term
           /\ Follow(r, leader).log = r.log
BY DEF Follow, ResetElectionTimer, ReplicaState, Role, Persisted

\* Entries up to a commit index within the log may be applied.
LEMMA ApplyCommittedEntriesType ==
    ASSUME NEW r \in ReplicaState, r.commitIndex <= Len(r.log)
    PROVE  /\ ApplyCommittedEntries(r) \in ReplicaState
           /\ Persisted(ApplyCommittedEntries(r)) = Persisted(r)
<1>1. r.applied \in Log /\ Len(r.applied) \in Nat /\ r.log \in Log
    BY LenProperties DEF ReplicaState, Log
<1>2. SubSeq(r.log, Len(r.applied) + 1, r.commitIndex) \in Log
    BY <1>1, SubSeqOfLog DEF ReplicaState
<1>3. r.applied \o SubSeq(r.log, Len(r.applied) + 1, r.commitIndex) \in Log
    BY <1>1, <1>2, ConcatProperties DEF Log
<1> QED
    BY <1>3 DEF ApplyCommittedEntries, ReplicaState, Persisted

\* What a follower takes from a request it finds consistent.
LEMMA AppendNewEntriesType ==
    ASSUME NEW r \in ReplicaState, NEW m,
           m.prevLogIndex \in Nat, m.entries \in Log, m.leaderCommit \in Nat,
           Consistent(r, m)
    PROVE  /\ AppendNewEntries(r, m) \in ReplicaState
           /\ AppendNewEntries(r, m).term = r.term
           /\ AppendNewEntries(r, m).votedFor = r.votedFor
<1> DEFINE log == MergeEntries(r.log, m.prevLogIndex, m.entries)
           merged == [r EXCEPT !.log = log]
           last == Min({m.leaderCommit, Len(log)})
           committed == [merged EXCEPT !.commitIndex = last]
<1>1. r.log \in Log /\ Len(r.log) \in Nat
    BY LenProperties DEF ReplicaState, Log
<1>2. m.prevLogIndex <= Len(r.log)
    BY <1>1 DEF Consistent, HasPrevious
<1>3. log \in Log /\ Len(log) \in Nat
    BY <1>1, <1>2, MergeEntriesType, LenProperties DEF Log
<1> HIDE DEF log
<1>4. merged \in ReplicaState /\ merged.log = log
    BY <1>3 DEF ReplicaState
<1>5. last \in Nat /\ last <= Len(log)
    BY <1>3, MinIsLeast
<1> HIDE DEF last
<1>6. committed \in ReplicaState /\ committed.commitIndex <= Len(committed.log)
    BY <1>3, <1>5 DEF ReplicaState
<1>7. /\ ApplyCommittedEntries(committed) \in ReplicaState
      /\ Persisted(ApplyCommittedEntries(committed)) = Persisted(committed)
    BY <1>6, ApplyCommittedEntriesType
<1>8. /\ committed.term = r.term /\ committed.votedFor = r.votedFor
      /\ merged.term = r.term /\ merged.votedFor = r.votedFor
    BY DEF ReplicaState
<1>9. AppendNewEntries(r, m) =
          IF m.leaderCommit > r.commitIndex THEN ApplyCommittedEntries(committed)
                                            ELSE merged
    BY DEF AppendNewEntries, log, last
<1> QED
    BY <1>4, <1>7, <1>8, <1>9 DEF Persisted

\* What a leader makes of a reply leaves its persistent fields alone.
LEMMA RecordReplyType ==
    ASSUME NEW r \in ReplicaState, NEW m,
           m.dst \in Server, m.success \in BOOLEAN, m.matched \in Nat
    PROVE  /\ RecordReply(r, m) \in ReplicaState
           /\ Persisted(RecordReply(r, m)) = Persisted(r)
           /\ RecordReply(r, m).term = r.term
<1>1. [r.nextIndex EXCEPT ![m.dst] = IF m.success THEN m.matched + 1 ELSE @ - 1]
          \in [Server -> Int]
    BY DEF ReplicaState
<1>2. RecordReply(r, m) =
          [r EXCEPT !.nextIndex = [r.nextIndex EXCEPT ![m.dst] =
                        IF m.success THEN m.matched + 1 ELSE @ - 1]]
    BY DEF RecordReply
<1> QED
    BY <1>1, <1>2 DEF ReplicaState, Persisted

LEMMA AdvanceCommitIndexType ==
    ASSUME NEW r \in ReplicaState, NEW s \in Server
    PROVE  /\ AdvanceCommitIndex(r, s) \in ReplicaState
           /\ Persisted(AdvanceCommitIndex(r, s)) = Persisted(r)
<1> DEFINE committed == [r EXCEPT !.commitIndex = Max(Committable(r, s))]
<1>1. r.log \in Log /\ Len(r.log) \in Nat /\ r.commitIndex \in Nat
    BY LenProperties DEF ReplicaState, Log
<1>2. CASE Committable(r, s) = {}
    BY <1>2 DEF AdvanceCommitIndex
<1>3. CASE Committable(r, s) # {}
    <2>1. /\ Committable(r, s) \in SUBSET Nat
          /\ \A i \in Committable(r, s) : i <= Len(r.log)
        BY <1>1 DEF Committable
    <2>2. /\ Max(Committable(r, s)) \in Nat
          /\ Max(Committable(r, s)) <= Len(r.log)
        BY <1>1, <1>3, <2>1, MaxIsGreatest
    <2>3. committed \in ReplicaState
          /\ committed.commitIndex <= Len(committed.log)
        BY <2>2 DEF ReplicaState
    <2>4. Persisted(committed) = Persisted(r)
        BY DEF Persisted, ReplicaState
    <2> QED
        BY <1>3, <2>3, <2>4, ApplyCommittedEntriesType DEF AdvanceCommitIndex
<1> QED
    BY <1>2, <1>3

LEMMA AppendCommandType ==
    ASSUME NEW r \in ReplicaState, NEW command \in Command
    PROVE  /\ AppendCommand(r, command) \in ReplicaState
           /\ AppendCommand(r, command).term = r.term
           /\ AppendCommand(r, command).votedFor = r.votedFor
           /\ Len(AppendCommand(r, command).log) \in Nat
           /\ AppendCommand(r, command).log[Len(AppendCommand(r, command).log)]
                  \in Entry
<1> DEFINE e == [term |-> r.term, command |-> command]
           log == Append(r.log, e)
<1>1. e \in Entry /\ r.log \in Log /\ Len(r.log) \in Nat
    BY LenProperties DEF Entry, ReplicaState, Log
<1>2. log \in Log /\ Len(log) = Len(r.log) + 1 /\ log[Len(log)] \in Entry
    BY <1>1, AppendedLog
<1>3. AppendCommand(r, command) = [r EXCEPT !.log = log]
    BY DEF AppendCommand
<1> HIDE DEF log
<1> QED
    BY <1>1, <1>2, <1>3 DEF ReplicaState
=============================================================================
