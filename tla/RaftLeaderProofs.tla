-------------------------- MODULE RaftLeaderProofs --------------------------
(***************************************************************************)
(* Servers know only leaders that were elected and never lose their timer, *)
(* two leaders of a term never meet, and a leader's log is its own.        *)
(*                                                                         *)
(* The first part sums up what a step can do to a server: the fields that  *)
(* matter change in one of a few ways, whichever method the step is from.  *)
(* The invariants of this module and of RaftLogProofs are proved from that *)
(* summary.                                                                *)
(***************************************************************************)
EXTENDS RaftElectionProofs

\* The step changes no server but s, whose file it saves or leaves alone.
Only(s) ==
    /\ \A t \in Server \ {s} : server'[t] = server[t] /\ disk'[t] = disk[t]
    /\ disk'[s] \in {disk[s], Persisted(server'[s])}

\* Threads that wait for an answer run in a process that is up; the handlers
\* of requests do in any case.
Runs(s) == CallersAreUp => s \in up

SameLog(s) == server'[s].log = server[s].log

\* s neither hears of a term or a leader nor starts or wins an election.
Keeps(s) ==
    /\ SameLog(s)
    /\ server'[s].term = server[s].term
    /\ server'[s].role = server[s].role
    /\ server'[s].leaderId = server[s].leaderId
    /\ server[s].role # "LEADER" /\ server[s].timer => server'[s].timer

HearsOfTerm(s) ==
    /\ SameLog(s)
    /\ server'[s].term > server[s].term
    /\ server'[s].role = "FOLLOWER"
    /\ server'[s].leaderId = None
    /\ server'[s].timer

Stands(s) ==
    /\ SameLog(s)
    /\ server'[s].term = server[s].term + 1
    /\ server'[s].role = "CANDIDATE"
    /\ server'[s].timer

Wins(s, m) ==
    /\ m.src = s /\ m.term = server[s].term /\ m.granted
    /\ server'[s].log =
           Append(server[s].log, [term |-> server[s].term, command |-> NoOp])
    /\ server'[s].term = server[s].term
    /\ server'[s].role = "LEADER"
    /\ server'[s].leaderId = s
    /\ server'[s].timer
    /\ leaders' = leaders \cup {<<server[s].term, s>>}

Merges(s, m) ==
    /\ HasPrevious(server[s].log, m.prevLogIndex, m.prevLogTerm)
    /\ server'[s].log =
           MergeEntries(server[s].log, m.prevLogIndex, m.entries)

Follows(s, m) ==
    /\ m.dst = s
    /\ SameLog(s) \/ Merges(s, m)
    /\ server[s].term <= m.term
    /\ server[s].role = "LEADER" => server[s].term < m.term
    /\ server'[s].term = m.term
    /\ server'[s].role # "LEADER"
    /\ server'[s].leaderId = m.src
    /\ server'[s].timer

Appends(s, c) ==
    /\ server[s].role = "LEADER" /\ c \notin issued
    /\ server'[s].log =
           Append(server[s].log, [term |-> server[s].term, command |-> c])
    /\ server'[s].term = server[s].term
    /\ server'[s].role = server[s].role
    /\ server'[s].leaderId = server[s].leaderId
    /\ issued' = issued \cup {c}

Stops(s) ==
    /\ server'[s] = FreshReplica /\ disk'[s] = disk[s]
    /\ s \notin up'

Starts(s) ==
    /\ server'[s] = Loaded(disk[s]) /\ disk'[s] = disk[s]
    /\ s \notin up

\* What becomes of s without a new entry in its log.
Moves(s) ==
    \/ /\ Runs(s)
       /\ \/ Keeps(s) \/ HearsOfTerm(s) \/ Stands(s)
          \/ \E m \in appendRequests : Follows(s, m)
    \/ Stops(s) \/ Starts(s)

\* The whole step, as the servers and their files see it.
QuietStep ==
    /\ UNCHANGED <<server, disk, leaders, issued>>

MoveStep(s) ==
    /\ Only(s) /\ Moves(s)
    /\ UNCHANGED <<leaders, issued>>

WinStep(s) ==
    /\ Only(s) /\ Runs(s) /\ UNCHANGED <<issued, appendRequests>>
    /\ \E m \in voteReplies : Wins(s, m) /\ ElectionReturns(s, m.thread)

AppendStep(s) ==
    /\ Only(s) /\ Runs(s) /\ UNCHANGED <<leaders, appendRequests>>
    /\ \E c \in Command : Appends(s, c)

ServersStep ==
    \/ QuietStep
    \/ \E s \in Server : MoveStep(s) \/ WinStep(s) \/ AppendStep(s)
-----------------------------------------------------------------------------
(***************************************************************************)
(* What the methods do to the fields that matter here.                     *)
(***************************************************************************)
LEMMA OnHigherTermDiscoveryFields ==
    ASSUME NEW r \in ReplicaState, NEW term \in Nat
    PROVE  /\ OnHigherTermDiscovery(r, term).term = term
           /\ OnHigherTermDiscovery(r, term).role = "FOLLOWER"
           /\ OnHigherTermDiscovery(r, term).leaderId = None
           /\ OnHigherTermDiscovery(r, term).timer
           /\ OnHigherTermDiscovery(r, term).log = r.log
BY DEF OnHigherTermDiscovery, ResetElectionTimer, ReplicaState

LEMMA CastVoteFields ==
    ASSUME NEW r \in ReplicaState, NEW candidate \in Server
    PROVE  /\ CastVote(r, candidate).term = r.term
           /\ CastVote(r, candidate).role = r.role
           /\ CastVote(r, candidate).leaderId = r.leaderId
           /\ CastVote(r, candidate).timer
           /\ CastVote(r, candidate).log = r.log
BY DEF CastVote, ResetElectionTimer, ReplicaState

LEMMA BecomeCandidateFields ==
    ASSUME NEW r \in ReplicaState, NEW s \in Server
    PROVE  /\ BecomeCandidate(r, s).term = r.term + 1
           /\ BecomeCandidate(r, s).role = "CANDIDATE"
           /\ BecomeCandidate(r, s).timer
           /\ BecomeCandidate(r, s).log = r.log
BY DEF BecomeCandidate, ResetElectionTimer, ReplicaState

LEMMA BecomeLeaderFields ==
    ASSUME NEW r \in ReplicaState, NEW s \in Server
    PROVE  /\ BecomeLeader(r, s).term = r.term
           /\ BecomeLeader(r, s).role = "LEADER"
           /\ BecomeLeader(r, s).leaderId = s
           /\ BecomeLeader(r, s).timer
           /\ BecomeLeader(r, s).log =
                  Append(r.log, [term |-> r.term, command |-> NoOp])
BY DEF BecomeLeader, ResetElectionTimer, ReplicaState

LEMMA FollowFields ==
    ASSUME NEW r \in ReplicaState, NEW leader \in Server
    PROVE  /\ Follow(r, leader).term = r.term
           /\ r.role # "LEADER" => Follow(r, leader).role # "LEADER"
           /\ Follow(r, leader).leaderId = leader
           /\ Follow(r, leader).timer
           /\ Follow(r, leader).log = r.log
BY DEF Follow, ResetElectionTimer, ReplicaState, Role

LEMMA AppendNewEntriesFields ==
    ASSUME NEW r \in ReplicaState, NEW m
    PROVE  /\ AppendNewEntries(r, m).term = r.term
           /\ AppendNewEntries(r, m).role = r.role
           /\ AppendNewEntries(r, m).leaderId = r.leaderId
           /\ AppendNewEntries(r, m).timer = r.timer
           /\ AppendNewEntries(r, m).log =
                  MergeEntries(r.log, m.prevLogIndex, m.entries)
<1> DEFINE log == MergeEntries(r.log, m.prevLogIndex, m.entries)
           last == Min({m.leaderCommit, Len(log)})
           merged == [r EXCEPT !.log = log]
           committed == [merged EXCEPT !.commitIndex = last]
           applied == committed.applied \o
                          SubSeq(committed.log, Len(committed.applied) + 1,
                                 committed.commitIndex)
<1>1. AppendNewEntries(r, m) =
          IF m.leaderCommit > r.commitIndex
          THEN [committed EXCEPT !.applied = applied] ELSE merged
    BY DEF AppendNewEntries, ApplyCommittedEntries
<1> HIDE DEF log, last, applied
<1>2. /\ merged.term = r.term /\ merged.role = r.role
      /\ merged.leaderId = r.leaderId /\ merged.timer = r.timer
      /\ merged.log = log
    BY DEF ReplicaState
<1>3. LET a == [committed EXCEPT !.applied = applied]
      IN  /\ a.term = r.term /\ a.role = r.role
          /\ a.leaderId = r.leaderId /\ a.timer = r.timer
          /\ a.log = log
    BY DEF ReplicaState
<1>4. log = MergeEntries(r.log, m.prevLogIndex, m.entries)
    BY DEF log
<1> QED
    BY <1>1, <1>2, <1>3, <1>4

LEMMA UseReplyFields ==
    ASSUME NEW r \in ReplicaState, NEW m, NEW s
    PROVE  LET new == AdvanceCommitIndex(RecordReply(r, m), s)
           IN  /\ new.term = r.term /\ new.role = r.role
               /\ new.leaderId = r.leaderId /\ new.timer = r.timer
               /\ new.log = r.log
<1> DEFINE next == [r.nextIndex EXCEPT ![m.dst] =
                        IF m.success THEN m.matched + 1 ELSE @ - 1]
           recorded == [r EXCEPT !.nextIndex = next]
           new == AdvanceCommitIndex(recorded, s)
           last == Max(Committable(recorded, s))
           committed == [recorded EXCEPT !.commitIndex = last]
           applied == committed.applied \o
                          SubSeq(committed.log, Len(committed.applied) + 1,
                                 committed.commitIndex)
<1>1. RecordReply(r, m) = recorded
    BY DEF RecordReply
<1>2. new = recorded \/ new = [committed EXCEPT !.applied = applied]
    BY DEF AdvanceCommitIndex, ApplyCommittedEntries
<1> HIDE DEF next, last, applied, new
<1> DEFINE kept == {"term", "role", "leaderId", "timer", "log"}
<1>3. DOMAIN recorded = DOMAIN r /\ DOMAIN committed = DOMAIN r
    OBVIOUS
<1>4. /\ kept \subseteq DOMAIN r
      /\ \A f \in kept : recorded[f] = r[f] /\ committed[f] = recorded[f]
    BY DEF ReplicaState
<1> HIDE DEF recorded, committed
<1>5. \A f \in kept : new[f] = r[f]
    BY <1>2, <1>3, <1>4
<1> QED
    BY <1>1, <1>5 DEF new

LEMMA AppendCommandFields ==
    ASSUME NEW r \in ReplicaState, NEW command
    PROVE  /\ AppendCommand(r, command).term = r.term
           /\ AppendCommand(r, command).role = r.role
           /\ AppendCommand(r, command).leaderId = r.leaderId
           /\ AppendCommand(r, command).log =
                  Append(r.log, [term |-> r.term, command |-> command])
BY DEF AppendCommand, ReplicaState

LEMMA LoadedFields ==
    ASSUME NEW file
    PROVE  /\ Loaded(file).term = file.term
           /\ Loaded(file).role = "FOLLOWER"
           /\ Loaded(file).leaderId = None
           /\ Loaded(file).timer
           /\ Loaded(file).log = file.log
BY DEF Loaded, FreshReplica

LEMMA FreshFields ==
    /\ FreshReplica.term = 0 /\ FreshReplica.role = "FOLLOWER"
    /\ FreshReplica.leaderId = None /\ FreshReplica.timer
    /\ FreshReplica.log = <<>>
BY DEF FreshReplica
-----------------------------------------------------------------------------
(***************************************************************************)
(* What each step does, as a server and its file see it.                   *)
(***************************************************************************)

\* Update and Save, or no save, touch only s.
LEMMA OnlyServer ==
    ASSUME TypeOK, NEW s \in Server, NEW r, Update(s, r),
           Save(s, r) \/ UNCHANGED disk
    PROVE  Only(s) /\ server'[s] = r
<1>1. server' = [server EXCEPT ![s] = r] /\ server'[s] = r
    BY DEF Update, TypeOK
<1>2. disk' = disk \/ disk' = [disk EXCEPT ![s] = Persisted(r)]
    BY DEF Save
<1>3. disk \in [Server -> StateFile]
    BY DEF TypeOK
<1> QED
    BY <1>1, <1>2, <1>3 DEF Only, TypeOK

LEMMA LeaderTimeoutMoves ==
    ASSUME TypeOK, NEW s \in Server, LeaderTimeout(s)
    PROVE  MoveStep(s)
<1> DEFINE r == [server[s] EXCEPT !.timer = FALSE]
<1>1. /\ server[s].role = "LEADER" /\ Update(s, r) /\ UNCHANGED disk
      /\ UNCHANGED <<leaders, issued>> /\ Runs(s)
    BY DEF LeaderTimeout, history, counters, Runs
<1>2. /\ r.term = server[s].term /\ r.role = server[s].role
      /\ r.leaderId = server[s].leaderId /\ r.log = server[s].log
    BY DEF TypeOK, ReplicaState
<1> HIDE DEF r
<1>3. Only(s) /\ server'[s] = r
    BY <1>1, OnlyServer
<1> QED
    BY <1>1, <1>2, <1>3 DEF MoveStep, Moves, Keeps, SameLog

LEMMA ElectionTimeoutMoves ==
    ASSUME TypeOK, NEW s \in Server, ElectionTimeout(s)
    PROVE  /\ MoveStep(s) /\ Stands(s)
           /\ server'[s].term = server[s].term + 1
           /\ server[s].role # "LEADER"
<1> DEFINE r == BecomeCandidate(server[s], s)
<1>1. server[s] \in ReplicaState
    BY DEF TypeOK
<1>2. /\ r.term = server[s].term + 1 /\ r.role = "CANDIDATE" /\ r.timer
      /\ r.log = server[s].log
    BY <1>1, BecomeCandidateFields
<1>3. /\ Update(s, r) /\ Save(s, r) /\ UNCHANGED <<leaders, issued>>
      /\ server[s].role # "LEADER" /\ Runs(s)
    BY DEF ElectionTimeout, Runs
<1> HIDE DEF r
<1>4. Only(s) /\ server'[s] = r
    BY <1>3, OnlyServer
<1> QED
    BY <1>2, <1>3, <1>4 DEF MoveStep, Moves, Stands, SameLog

LEMMA RequestVoteMoves ==
    ASSUME TypeOK, NEW m \in voteRequests, RequestVote(m)
    PROVE  MoveStep(m.dst)
<1> DEFINE old == server[m.dst]
           seen == Observe(old, m.term)
           cast == CastVote(seen, m.src)
<1>1. /\ m.src \in Server /\ m.dst \in Server /\ m.term \in Nat
      /\ old \in ReplicaState /\ old.term \in Nat
    BY TypesInHand
<1>2. /\ seen \in ReplicaState
      /\ m.term > old.term =>
             /\ seen.term > old.term /\ seen.role = "FOLLOWER"
             /\ seen.leaderId = None /\ seen.timer /\ seen.log = old.log
      /\ ~(m.term > old.term) => seen = old
    BY <1>1, ObserveType, OnHigherTermDiscoveryFields DEF Observe
<1> HIDE DEF seen
<1>3. /\ cast.term = seen.term /\ cast.role = seen.role /\ cast.timer
      /\ cast.leaderId = seen.leaderId /\ cast.log = seen.log
    BY <1>1, <1>2, CastVoteFields
<1> HIDE DEF cast
<1>4. UNCHANGED <<leaders, issued>> /\ Runs(m.dst)
    BY DEF RequestVote, counters, Runs
<1>5. ASSUME NEW r \in {seen, cast}, Only(m.dst), server'[m.dst] = r
      PROVE  Moves(m.dst)
    <2>1. CASE m.term > old.term
        BY <1>2, <1>3, <1>4, <1>5, <2>1 DEF Moves, HearsOfTerm, SameLog
    <2>2. CASE ~(m.term > old.term)
        BY <1>2, <1>3, <1>4, <1>5, <2>2 DEF Moves, Keeps, SameLog
    <2> QED
        BY <2>1, <2>2
<1>6. CASE GrantVote(m)
    <2>1. Update(m.dst, cast) /\ Save(m.dst, cast)
        BY <1>6 DEF GrantVote, cast, seen
    <2>2. Only(m.dst) /\ server'[m.dst] = cast
        BY <1>1, <2>1, OnlyServer
    <2> QED
        BY <1>4, <1>5, <2>2 DEF MoveStep
<1>7. CASE DenyVote(m)
    <2>1. Update(m.dst, seen) /\ (Save(m.dst, seen) \/ UNCHANGED disk)
        BY <1>7 DEF DenyVote, SaveIf, seen
    <2>2. Only(m.dst) /\ server'[m.dst] = seen
        BY <1>1, <2>1, OnlyServer
    <2> QED
        BY <1>4, <1>5, <2>2 DEF MoveStep
<1> QED
    BY <1>6, <1>7 DEF RequestVote

\* VoterIsAhead and FollowerIsAhead: the caller hears of a higher term.
LEMMA CallerHearsOfTerm ==
    ASSUME TypeOK, NEW s \in Server, NEW term \in Nat,
           LET r == OnHigherTermDiscovery(server[s], term)
           IN  Update(s, r) /\ Save(s, r),
           term > server[s].term, UNCHANGED <<leaders, issued>>, Runs(s)
    PROVE  MoveStep(s)
<1> DEFINE r == OnHigherTermDiscovery(server[s], term)
<1>1. server[s] \in ReplicaState
    BY DEF TypeOK
<1>2. /\ r.term = term /\ r.role = "FOLLOWER" /\ r.leaderId = None /\ r.timer
      /\ r.log = server[s].log
    BY <1>1, OnHigherTermDiscoveryFields
<1>3. Update(s, r) /\ Save(s, r)
    OBVIOUS
<1> HIDE DEF r
<1>4. Only(s) /\ server'[s] = r
    BY <1>3, OnlyServer
<1> QED
    BY <1>2, <1>4 DEF MoveStep, Moves, HearsOfTerm, SameLog

LEMMA WinElectionMoves ==
    ASSUME TypeOK, NEW m \in voteReplies, CountVote(m), WinElection(m)
    PROVE  WinStep(m.src)
<1> DEFINE r == BecomeLeader(server[m.src], m.src)
<1>1. m.src \in Server /\ server[m.src] \in ReplicaState
    BY TypesInHand
<1>2. /\ r.term = server[m.src].term /\ r.role = "LEADER"
      /\ r.leaderId = m.src /\ r.timer
      /\ r.log = Append(server[m.src].log,
                     [term |-> server[m.src].term, command |-> NoOp])
    BY <1>1, BecomeLeaderFields
<1>3. /\ m.term = server[m.src].term /\ m.granted
      /\ Update(m.src, r) /\ Save(m.src, r)
      /\ ElectionReturns(m.src, m.thread)
      /\ leaders' = leaders \cup {<<m.term, m.src>>}
      /\ UNCHANGED <<issued, appendRequests>> /\ Runs(m.src)
    BY DEF WinElection, CountVote, counters, Runs, CallersAreUp
<1> HIDE DEF r
<1>4. Only(m.src) /\ server'[m.src] = r
    BY <1>1, <1>3, OnlyServer
<1>5. Wins(m.src, m)
    BY <1>2, <1>3, <1>4 DEF Wins
<1> QED
    BY <1>3, <1>4, <1>5 DEF WinStep

LEMMA CountVoteMoves ==
    ASSUME TypeOK, NEW m \in voteReplies, CountVote(m)
    PROVE  QuietStep \/ MoveStep(m.src) \/ WinStep(m.src)
<1>1. m.src \in Server /\ m.term \in Nat /\ UNCHANGED issued /\ Runs(m.src)
    BY TypesInHand DEF CountVote, counters, Runs, CallersAreUp
<1>2. CASE VoterIsAhead(m)
    BY <1>1, <1>2, CallerHearsOfTerm DEF VoterIsAhead
<1>3. CASE NoVote(m) \/ AddVote(m)
    BY <1>1, <1>3 DEF NoVote, AddVote, QuietStep
<1>4. CASE WinElection(m)
    BY <1>4, WinElectionMoves
<1> QED
    BY <1>2, <1>3, <1>4 DEF CountVote

LEMMA AppendEntriesMoves ==
    ASSUME TypeOK, NEW m \in appendRequests, AppendEntries(m)
    PROVE  /\ QuietStep \/ (MoveStep(m.dst) /\ Follows(m.dst, m))
           /\ TakeEntries(m) =>
                  /\ MoveStep(m.dst) /\ Follows(m.dst, m) /\ Merges(m.dst, m)
                  /\ server'[m.dst] = AppendNewEntries(Follower(m), m)
<1> DEFINE old == server[m.dst]
           seen == Observe(old, m.term)
           r == Follower(m)
<1>1. /\ m.src \in Server /\ m.dst \in Server /\ m.term \in Nat
      /\ old \in ReplicaState /\ old.term \in Nat
      /\ UNCHANGED <<leaders, issued>> /\ Runs(m.dst)
    BY TypesInHand DEF AppendEntries, history, counters, Runs
<1>2. /\ seen \in ReplicaState /\ seen.log = old.log
      /\ m.term > old.term => seen.term = m.term
      /\ ~(m.term > old.term) => seen = old
    BY <1>1, ObserveType
<1>3. r = Follow(seen, m.src)
    BY DEF Follower
<1> HIDE DEF seen, r
<1>4. /\ r.term = seen.term /\ r.leaderId = m.src /\ r.timer /\ r.log = old.log
      /\ r \in ReplicaState
      /\ seen.role # "LEADER" => r.role # "LEADER"
    BY <1>1, <1>2, <1>3, FollowFields, FollowType
<1>5. ASSUME NEW new, NEW success, FollowLeader(m, new, success),
             new.term = r.term, new.role = r.role, new.leaderId = r.leaderId,
             new.timer = r.timer,
             \/ new.log = old.log
             \/ /\ HasPrevious(old.log, m.prevLogIndex, m.prevLogTerm)
                /\ new.log = MergeEntries(old.log, m.prevLogIndex, m.entries)
      PROVE  /\ MoveStep(m.dst) /\ Follows(m.dst, m)
             /\ server'[m.dst] = new
    <2>1. /\ m.term >= old.term /\ seen.role # "LEADER"
          /\ Update(m.dst, new) /\ (Save(m.dst, new) \/ UNCHANGED disk)
        BY <1>5 DEF FollowLeader, SanityHolds, SaveIf, seen
    <2>2. Only(m.dst) /\ server'[m.dst] = new
        BY <1>1, <2>1, OnlyServer
    <2>3. /\ server'[m.dst].term = m.term /\ old.term <= m.term
          /\ old.role = "LEADER" => old.term < m.term
        BY <1>1, <1>2, <1>4, <1>5, <2>1, <2>2
    <2>4. /\ server'[m.dst].role # "LEADER" /\ server'[m.dst].leaderId = m.src
          /\ SameLog(m.dst) \/ Merges(m.dst, m)
        BY <1>4, <1>5, <2>1, <2>2 DEF SameLog, Merges
    <2>5. server'[m.dst].timer
        BY <1>4, <1>5, <2>2
    <2>6. Follows(m.dst, m)
        BY <2>3, <2>4, <2>5 DEF Follows
    <2> QED
        BY <1>1, <2>2, <2>6 DEF MoveStep, Moves
<1>6. ASSUME RejectStaleLeader(m) \/ FailAssertion(m)
      PROVE  QuietStep
    BY <1>1, <1>6 DEF RejectStaleLeader, FailAssertion, QuietStep
<1>7. ASSUME RefuseEntries(m)
      PROVE  MoveStep(m.dst) /\ Follows(m.dst, m)
    BY <1>4, <1>5, <1>7 DEF RefuseEntries, r
<1>8. ASSUME TakeEntries(m)
      PROVE  /\ MoveStep(m.dst) /\ Follows(m.dst, m) /\ Merges(m.dst, m)
             /\ server'[m.dst] = AppendNewEntries(Follower(m), m)
    <2> DEFINE new == AppendNewEntries(r, m)
    <2>1. Consistent(r, m) /\ FollowLeader(m, new, TRUE)
        BY <1>8 DEF TakeEntries, r
    <2>2. /\ new.term = r.term /\ new.role = r.role
          /\ new.leaderId = r.leaderId /\ new.timer = r.timer
          /\ new.log = MergeEntries(r.log, m.prevLogIndex, m.entries)
        BY <1>4, AppendNewEntriesFields
    <2> HIDE DEF new
    <2>3. HasPrevious(old.log, m.prevLogIndex, m.prevLogTerm)
        BY <1>4, <2>1 DEF Consistent
    <2>4. MoveStep(m.dst) /\ Follows(m.dst, m) /\ server'[m.dst] = new
        BY <1>4, <1>5, <2>1, <2>2, <2>3
    <2>5. Merges(m.dst, m)
        BY <1>4, <2>2, <2>3, <2>4 DEF Merges
    <2> QED
        BY <2>4, <2>5 DEF new, r
<1> QED
    BY <1>6, <1>7, <1>8 DEF AppendEntries

LEMMA HandleAppendReplyMoves ==
    ASSUME TypeOK, NEW m \in appendReplies, HandleAppendReply(m)
    PROVE  QuietStep \/ MoveStep(m.src)
<1>1. /\ m.src \in Server /\ m.term \in Nat /\ server[m.src] \in ReplicaState
      /\ UNCHANGED <<leaders, issued>> /\ Runs(m.src)
    BY TypesInHand DEF HandleAppendReply, history, counters, Runs,
        CallersAreUp
<1>2. CASE DeposedMeanwhile(m)
    BY <1>1, <1>2 DEF DeposedMeanwhile, QuietStep
<1>3. CASE FollowerIsAhead(m)
    BY <1>1, <1>3, CallerHearsOfTerm DEF FollowerIsAhead
<1>4. CASE UseReply(m)
    <2> DEFINE r == AdvanceCommitIndex(RecordReply(server[m.src], m), m.src)
    <2>1. /\ r.term = server[m.src].term /\ r.role = server[m.src].role
          /\ r.leaderId = server[m.src].leaderId
          /\ r.timer = server[m.src].timer /\ r.log = server[m.src].log
        BY <1>1, UseReplyFields
    <2>2. Update(m.src, r) /\ UNCHANGED disk
        BY <1>4 DEF UseReply
    <2> HIDE DEF r
    <2>3. Only(m.src) /\ server'[m.src] = r
        BY <1>1, <2>2, OnlyServer
    <2> QED
        BY <1>1, <2>1, <2>3 DEF MoveStep, Moves, Keeps, SameLog
<1> QED
    BY <1>2, <1>3, <1>4 DEF HandleAppendReply

LEMMA PutMoves ==
    ASSUME TypeOK, NEW s \in Server, NEW c \in Command, Put(s, c)
    PROVE  AppendStep(s) /\ Appends(s, c)
<1> DEFINE r == AppendCommand(server[s], c)
<1>1. server[s] \in ReplicaState
    BY DEF TypeOK
<1>2. /\ r.term = server[s].term /\ r.role = server[s].role
      /\ r.leaderId = server[s].leaderId
      /\ r.log = Append(server[s].log, [term |-> server[s].term, command |-> c])
    BY <1>1, AppendCommandFields
<1>3. /\ server[s].role = "LEADER" /\ c \notin issued
      /\ Update(s, r) /\ Save(s, r)
      /\ issued' = issued \cup {c} /\ UNCHANGED <<leaders, appendRequests>>
      /\ Runs(s)
    BY DEF Put, history, calls, Runs
<1> HIDE DEF r
<1>4. Only(s) /\ server'[s] = r
    BY <1>3, OnlyServer
<1>5. Appends(s, c)
    BY <1>2, <1>3, <1>4 DEF Appends
<1> QED
    BY <1>3, <1>4, <1>5 DEF AppendStep

LEMMA DieMoves ==
    ASSUME TypeOK, NEW s \in Server, Die(s)
    PROVE  MoveStep(s) /\ Stops(s)
<1>1. /\ Update(s, FreshReplica) /\ UNCHANGED <<disk, leaders, issued>>
      /\ s \notin up'
    BY DEF Die, history
<1>2. Only(s) /\ server'[s] = FreshReplica
    BY <1>1, OnlyServer
<1> QED
    BY <1>1, <1>2 DEF MoveStep, Moves, Stops

LEMMA RestartMoves ==
    ASSUME TypeOK, NEW s \in Server, Restart(s)
    PROVE  MoveStep(s) /\ Starts(s)
<1>1. /\ Update(s, Loaded(disk[s])) /\ UNCHANGED <<disk, leaders, issued>>
      /\ s \notin up
    BY DEF Restart, history, counters
<1>2. Only(s) /\ server'[s] = Loaded(disk[s])
    BY <1>1, OnlyServer
<1> QED
    BY <1>1, <1>2 DEF MoveStep, Moves, Starts

\* Every step is one of these.
LEMMA StepsOfServers ==
    ASSUME TypeOK, [NextOrKill]_vars
    PROVE  ServersStep
<1>1. CASE UNCHANGED vars
    BY <1>1 DEF vars, history, counters, QuietStep, ServersStep
<1>2. ASSUME NEW s \in Server, ServerStep(s) \/ Kill(s)
      PROVE  ServersStep
    <2>1. CASE DiskFails(s)
        BY <2>1 DEF DiskFails, history, counters, QuietStep, ServersStep
    <2> QED
        BY <1>2, <2>1, LeaderTimeoutMoves, ElectionTimeoutMoves, DieMoves,
           RestartMoves, PutMoves DEF ServerStep, Timeout, Crash, Kill,
           ServersStep
<1>3. ASSUME NEW m \in voteRequests, RequestVote(m)
      PROVE  ServersStep
    BY <1>3, RequestVoteMoves, TypesInHand DEF ServersStep
<1>4. ASSUME NEW m \in voteReplies, CountVote(m)
      PROVE  ServersStep
    BY <1>4, CountVoteMoves, TypesInHand DEF ServersStep
<1>5. ASSUME NEW m \in appendRequests, AppendEntries(m)
      PROVE  ServersStep
    BY <1>5, AppendEntriesMoves, TypesInHand DEF ServersStep
<1>6. ASSUME NEW m \in appendReplies, HandleAppendReply(m)
      PROVE  ServersStep
    BY <1>6, HandleAppendReplyMoves, TypesInHand DEF ServersStep
<1>7. ASSUME \/ \E th, f : SendAppendEntries(th, f) \/ ReplicatorEnds(th, f)
             \/ \E m : VoteCallFails(m) \/ AppendCallFails(m)
             \/ \E p : PutReturns(p)
      PROVE  ServersStep
    BY <1>7 DEF SendAppendEntries, ReplicatorEnds, VoteCallFails,
        AppendCallFails, PutReturns, history, counters, QuietStep, ServersStep
<1> QED
    BY <1>1, <1>2, <1>3, <1>4, <1>5, <1>6, <1>7 DEF NextOrKill, Next, CallStep
-----------------------------------------------------------------------------
(***************************************************************************)
(* Where calls come from.                                                  *)
(***************************************************************************)

\* m is the request n, abandoned or not.
Copies(m, n) ==
    /\ m.src = n.src /\ m.dst = n.dst /\ m.term = n.term
    /\ m.prevLogIndex = n.prevLogIndex /\ m.prevLogTerm = n.prevLogTerm
    /\ m.entries = n.entries

LEMMA OutcomesCopy ==
    ASSUME NEW requests \in SUBSET AppendRequestCall,
           NEW abandoned \in SUBSET requests,
           NEW after \in Outcomes(requests, abandoned)
    PROVE  \A m \in after : \E n \in requests : Copies(m, n)
<1>1. PICK late \in SUBSET Abandoned(abandoned) :
          after = (requests \ abandoned) \cup late
    BY DEF Outcomes
<1>2. ASSUME NEW m \in Abandoned(abandoned)
      PROVE  \E n \in requests : Copies(m, n)
    <2>1. PICK n \in abandoned : m = [n EXCEPT !.open = FALSE]
        BY DEF Abandoned
    <2>2. n \in AppendRequestCall
        OBVIOUS
    <2> QED
        BY <2>1, <2>2 DEF AppendRequestCall, Copies
<1> QED
    BY <1>1, <1>2 DEF Copies

\* A request under way was there before or has just been prepared.
LEMMA OriginOfRequests ==
    ASSUME TypeOK, [NextOrKill]_vars, NEW m \in appendRequests'
    PROVE  \/ \E n \in appendRequests : Copies(m, n)
           \/ \E th \in replicators, f \in Server :
                  /\ SendAppendEntries(th, f)
                  /\ m = AppendRequest(th, server[th.server], f)
<1> DEFINE Old == \E n \in appendRequests : Copies(m, n)
<1>1. appendRequests' \subseteq appendRequests => Old
    BY DEF Copies
<1>2. appendRequests \in SUBSET AppendRequestCall
    BY DEF TypeOK
<1>3. ASSUME NEW th \in replicators, ReplicatorReturns(th)
      PROVE  Old
    <2>1. {n \in appendRequests : Awaits(th, n)} \in SUBSET appendRequests
        OBVIOUS
    <2> QED
        BY <1>2, <1>3, <2>1, OutcomesCopy DEF ReplicatorReturns
<1>4. CASE UNCHANGED vars
    BY <1>1, <1>4 DEF vars, calls
<1>5. ASSUME NEW s \in Server, ServerStep(s) \/ Kill(s)
      PROVE  Old
    <2>1. CASE Crash(s) \/ Kill(s)
        <3>1. {n \in appendRequests : n.src = s} \in SUBSET appendRequests
            OBVIOUS
        <3> QED
            BY <1>2, <2>1, <3>1, OutcomesCopy DEF Crash, Kill, Die
    <2> QED
        BY <1>1, <1>5, <2>1 DEF ServerStep, Timeout, LeaderTimeout,
            ElectionTimeout, Restart, DiskFails, Put, calls
<1>6. ASSUME NEW n, RequestVote(n) \/ CountVote(n) \/ AppendEntries(n)
                    \/ VoteCallFails(n)
      PROVE  Old
    BY <1>1, <1>6 DEF RequestVote, CountVote, AppendEntries, VoteCallFails
<1>7. ASSUME NEW n, HandleAppendReply(n)
      PROVE  Old
    BY <1>1, <1>3, <1>7 DEF HandleAppendReply, DeposedMeanwhile,
        FollowerIsAhead, UseReply, ReplicatorsAwaiting
<1>8. ASSUME NEW n, AppendCallFails(n)
      PROVE  Old
    <2>1. CASE n \in appendRequests /\ appendRequests' \in Failed(appendRequests, n)
        <3>1. {n} \in SUBSET appendRequests
            BY <2>1
        <3> QED
            BY <1>1, <1>2, <2>1, <3>1, OutcomesCopy DEF Failed
    <2> QED
        BY <1>1, <1>8, <2>1 DEF AppendCallFails
<1>9. ASSUME NEW p, PutReturns(p)
      PROVE  Old
    BY <1>1, <1>9 DEF PutReturns, calls
<1>10. ASSUME NEW th \in replicators, NEW f, ReplicatorEnds(th, f)
       PROVE  Old
    BY <1>3, <1>10 DEF ReplicatorEnds
<1>11. ASSUME NEW th \in replicators, NEW f \in Server, SendAppendEntries(th, f)
       PROVE  Old \/ m = AppendRequest(th, server[th.server], f)
    BY <1>11 DEF SendAppendEntries, Copies
<1> QED
    BY <1>4, <1>5, <1>6, <1>7, <1>8, <1>9, <1>10, <1>11 DEF NextOrKill, Next, CallStep

\* A replicator is new, and has everyone to send to, or has gone on.
LEMMA OriginOfReplicators ==
    ASSUME TypeOK, [NextOrKill]_vars, NEW th \in replicators'
    PROVE  \/ th \in replicators
           \/ th.server \notin th.left
           \/ \E o \in replicators : th.server = o.server /\ th.left \subseteq Due(o)
<1>1. replicators' \subseteq replicators => th \in replicators
    OBVIOUS
<1>2. CASE UNCHANGED vars
    BY <1>2 DEF vars, threads
<1>3. ASSUME NEW s \in Server, ServerStep(s) \/ Kill(s)
      PROVE  th \in replicators
    BY <1>1, <1>3 DEF ServerStep, Timeout, LeaderTimeout, ElectionTimeout,
        Crash, Kill, Die, Restart, DiskFails, Put, threads
<1>4. ASSUME NEW n, CountVote(n)
      PROVE  th \in replicators \/ th.server \notin th.left
    BY <1>4 DEF CountVote, VoterIsAhead, NoVote, AddVote, WinElection
<1>5. ASSUME NEW n, RequestVote(n) \/ AppendEntries(n)
                    \/ VoteCallFails(n) \/ AppendCallFails(n)
      PROVE  th \in replicators
    BY <1>5 DEF RequestVote, AppendEntries, VoteCallFails, AppendCallFails,
        threads
<1>6. ASSUME NEW n, HandleAppendReply(n)
      PROVE  th \in replicators
    BY <1>6 DEF HandleAppendReply, DeposedMeanwhile, FollowerIsAhead, UseReply,
        ReplicatorsAwaiting, ReplicatorReturns
<1>7. ASSUME NEW p, PutReturns(p)
      PROVE  th \in replicators
    BY <1>7 DEF PutReturns
<1>8. ASSUME NEW o \in replicators, NEW f, ReplicatorEnds(o, f)
      PROVE  th \in replicators
    BY <1>8 DEF ReplicatorEnds, ReplicatorReturns
<1>9. ASSUME NEW o \in replicators, NEW f \in Server, SendAppendEntries(o, f)
      PROVE  th \in replicators \/ (th.server = o.server /\ th.left \subseteq Due(o))
    <2>1. o \in [server : Server, thread : Nat, left : SUBSET Server]
        BY DEF TypeOK
    <2> QED
        BY <1>9, <2>1 DEF SendAppendEntries
<1> QED
    BY <1>2, <1>3, <1>4, <1>5, <1>6, <1>7, <1>8, <1>9 DEF NextOrKill, Next, CallStep

\* An open vote request was there before or is of an election just started.
LEMMA OriginOfVoteRequests ==
    ASSUME TypeOK, [NextOrKill]_vars, NEW m \in voteRequests', m.open
    PROVE  \/ m \in voteRequests
           \/ /\ Stands(m.src) /\ m.term = server'[m.src].term
              /\ m.src \in up'
<1> DEFINE Old == m \in voteRequests
           New == /\ Stands(m.src) /\ m.term = server'[m.src].term
                  /\ m.src \in up'
<1>1. voteRequests \in SUBSET VoteRequestCall
    BY DEF TypeOK
<1>2. ASSUME NEW abandoned \in SUBSET voteRequests,
             voteRequests' \in Outcomes(voteRequests, abandoned)
      PROVE  Old
    BY <1>1, <1>2, OutcomesOfVoteRequests
<1>3. CASE UNCHANGED vars
    BY <1>3 DEF vars, calls
<1>4. ASSUME NEW s \in Server, ServerStep(s) \/ Kill(s)
      PROVE  Old \/ New
    <2>1. CASE Crash(s) \/ Kill(s)
        <3>1. {n \in voteRequests : n.src = s} \in SUBSET voteRequests
            OBVIOUS
        <3> QED
            BY <1>2, <2>1, <3>1 DEF Crash, Kill, Die
    <2>2. CASE ElectionTimeout(s)
        <3> DEFINE r == BecomeCandidate(server[s], s)
        <3>1. Stands(s) /\ server'[s] = r /\ s \in up'
            <4>1. Stands(s)
                BY <2>2, ElectionTimeoutMoves
            <4>2. server' = [server EXCEPT ![s] = r]
                BY <2>2 DEF ElectionTimeout, Update
            <4>3. s \in up'
                BY <2>2 DEF ElectionTimeout
            <4> QED
                BY <4>1, <4>2, <4>3 DEF TypeOK
        <3>2. \A peer : /\ VoteRequest(s, r, peer).src = s
                        /\ VoteRequest(s, r, peer).term = r.term
            BY DEF VoteRequest
        <3>3. voteRequests' = voteRequests \cup
                  {VoteRequest(s, r, peer) : peer \in Server \ {s}}
            BY <2>2 DEF ElectionTimeout
        <3> HIDE DEF r
        <3> QED
            BY <3>1, <3>2, <3>3
    <2> QED
        BY <1>4, <2>1, <2>2 DEF ServerStep, Timeout, LeaderTimeout, Restart,
            DiskFails, Put, calls
<1>5. ASSUME NEW n \in voteReplies, CountVote(n)
      PROVE  Old
    <2>1. {o \in voteRequests : o.src = n.src /\ o.term = n.thread}
              \in SUBSET voteRequests
        OBVIOUS
    <2>2. ElectionReturns(n.src, n.thread) => Old
        BY <1>2, <2>1 DEF ElectionReturns
    <2> QED
        BY <1>5, <2>2 DEF CountVote, VoterIsAhead, NoVote, AddVote, WinElection
<1>6. ASSUME NEW n, RequestVote(n) \/ AppendEntries(n) \/ HandleAppendReply(n)
                    \/ AppendCallFails(n)
      PROVE  Old
    BY <1>6 DEF RequestVote, AppendEntries, HandleAppendReply, AppendCallFails
<1>7. ASSUME NEW n, VoteCallFails(n)
      PROVE  Old
    <2>1. CASE n \in voteRequests /\ voteRequests' \in Failed(voteRequests, n)
        <3>1. {n} \in SUBSET voteRequests
            BY <2>1
        <3> QED
            BY <1>2, <2>1, <3>1 DEF Failed
    <2> QED
        BY <1>7, <2>1 DEF VoteCallFails
<1>8. ASSUME NEW p, PutReturns(p)
      PROVE  Old
    BY <1>8 DEF PutReturns, calls
<1>9. ASSUME NEW th, NEW f, SendAppendEntries(th, f) \/ ReplicatorEnds(th, f)
      PROVE  Old
    BY <1>9 DEF SendAppendEntries, ReplicatorEnds
<1> QED
    BY <1>3, <1>4, <1>5, <1>6, <1>7, <1>8, <1>9 DEF NextOrKill, Next, CallStep

\* A reply to a candidate was there before or answers an open request.
LEMMA OriginOfVoteReplies ==
    ASSUME TypeOK, [NextOrKill]_vars, NEW m \in voteReplies'
    PROVE  \/ m \in voteReplies
           \/ \E n \in voteRequests :
                  /\ n.open /\ m.src = n.src /\ m.thread = n.term
                  /\ m.granted => m.term = n.term
<1> DEFINE Old == m \in voteReplies
<1>1. CASE UNCHANGED vars
    BY <1>1 DEF vars, calls
<1>2. ASSUME NEW s \in Server, ServerStep(s) \/ Kill(s)
      PROVE  Old
    BY <1>2 DEF ServerStep, Timeout, LeaderTimeout, ElectionTimeout, Crash,
        Kill, Die, Restart, DiskFails, Put, calls
<1>3. ASSUME NEW n \in voteRequests, RequestVote(n)
      PROVE  \/ Old
             \/ /\ n.open /\ m.src = n.src /\ m.thread = n.term
                /\ m.granted => m.term = n.term
    <2> DEFINE seen == Observe(server[n.dst], n.term)
               cast == CastVote(seen, n.src)
    <2>1. /\ n.src \in Server /\ n.dst \in Server /\ n.term \in Nat
          /\ server[n.dst] \in ReplicaState
        BY TypesInHand
    <2>2. cast.term = seen.term
        BY <2>1, ObserveType, CastVoteType
    <2> HIDE DEF seen, cast
    <2>3. CASE GrantVote(n)
        <3>1. /\ n.term = seen.term
              /\ voteReplies' = voteReplies \cup
                     (IF n.open THEN {VoteReply(n, cast, TRUE)} ELSE {})
            BY <2>3 DEF GrantVote, GrantsVote, seen, cast
        <3>2. Old \/ (n.open /\ m = VoteReply(n, cast, TRUE))
            BY <3>1
        <3> QED
            BY <2>2, <3>1, <3>2 DEF VoteReply
    <2>4. CASE DenyVote(n)
        <3>1. voteReplies' = voteReplies \cup
                  (IF n.open THEN {VoteReply(n, seen, FALSE)} ELSE {})
            BY <2>4 DEF DenyVote, seen
        <3>2. Old \/ (n.open /\ m = VoteReply(n, seen, FALSE))
            BY <3>1
        <3> QED
            BY <3>2 DEF VoteReply
    <2> QED
        BY <1>3, <2>3, <2>4 DEF RequestVote
<1>4. ASSUME NEW n, CountVote(n) \/ AppendEntries(n) \/ HandleAppendReply(n)
                    \/ VoteCallFails(n) \/ AppendCallFails(n)
      PROVE  Old
    BY <1>4 DEF CountVote, VoterIsAhead, NoVote, AddVote, WinElection,
        ElectionReturns, AppendEntries, HandleAppendReply, VoteCallFails,
        AppendCallFails
<1>5. ASSUME NEW p, PutReturns(p)
      PROVE  Old
    BY <1>5 DEF PutReturns, calls
<1>6. ASSUME NEW th, NEW f, SendAppendEntries(th, f) \/ ReplicatorEnds(th, f)
      PROVE  Old
    BY <1>6 DEF SendAppendEntries, ReplicatorEnds
<1> QED
    BY <1>1, <1>2, <1>3, <1>4, <1>5, <1>6 DEF NextOrKill, Next, CallStep
-----------------------------------------------------------------------------
(***************************************************************************)
(* The invariant LeaderInv.                                                *)
(***************************************************************************)

\* The step as one server sees it, and what the others see of it.
LEMMA StepOfServer ==
    ASSUME ServersStep, NEW s \in Server
    PROVE  \/ server'[s] = server[s]
           \/ MoveStep(s) \/ WinStep(s) \/ AppendStep(s)
<1>1. CASE QuietStep
    BY <1>1 DEF QuietStep
<1>2. ASSUME NEW t \in Server, MoveStep(t) \/ WinStep(t) \/ AppendStep(t)
      PROVE  server'[s] = server[s] \/ t = s
    BY <1>2 DEF MoveStep, WinStep, AppendStep, Only
<1> QED
    BY <1>1, <1>2 DEF ServersStep

\* An election won stays on record.
LEMMA WinnersStay ==
    ASSUME ServersStep
    PROVE  leaders \subseteq leaders'
BY DEF ServersStep, QuietStep, MoveStep, WinStep, AppendStep, Wins

\* Election threads that have ended stay ended, until the server stands for
\* election in that term again.
LEMMA ElectionOverStays ==
    ASSUME TypeOK, [NextOrKill]_vars, NEW s, NEW term,
           ElectionOver(s, term), ~(Stands(s) /\ server'[s].term = term)
    PROVE  ElectionOver(s, term)'
<1>1. ASSUME NEW m \in voteRequests', m.open
      PROVE  ~(m.src = s /\ m.term = term)
    BY <1>1, OriginOfVoteRequests DEF ElectionOver
<1>2. ASSUME NEW m \in voteReplies'
      PROVE  ~(m.src = s /\ m.thread = term)
    BY <1>2, OriginOfVoteReplies DEF ElectionOver
<1> QED
    BY <1>1, <1>2 DEF ElectionOver

\* The thread that won returns, and ends the election with it.
LEMMA WinnersElectionOver ==
    ASSUME TypeOK, NEW s, NEW term, ElectionReturns(s, term)
    PROVE  ElectionOver(s, term)'
<1>1. /\ voteRequests \in SUBSET VoteRequestCall
      /\ {m \in voteRequests : m.src = s /\ m.term = term} \in SUBSET voteRequests
    BY DEF TypeOK
<1>2. \A m \in voteRequests' : m.open => ~(m.src = s /\ m.term = term)
    BY <1>1, OutcomesOfVoteRequests DEF ElectionReturns
<1> QED
    BY <1>2 DEF ElectionReturns, ElectionOver

LEMMA LeaderCountsNoVotes ==
    ASSUME TypeOK, LeaderInv, [NextOrKill]_vars, NEW s \in Server,
           server'[s].role = "LEADER"
    PROVE  ElectionOver(s, server[s].term)'
<1>1. \/ server'[s] = server[s]
      \/ MoveStep(s) \/ WinStep(s) \/ AppendStep(s)
    BY StepsOfServers, StepOfServer
<1>2. PICK term : term = server'[s].term
    OBVIOUS
<1>3. CASE WinStep(s)
    <2>1. PICK m \in voteReplies : Wins(s, m) /\ ElectionReturns(s, m.thread)
        BY <1>3 DEF WinStep
    <2>2. m.thread = term
        BY <1>2, <2>1 DEF Wins, LeaderInv, LeadersCountNoVotes
    <2>3. ElectionReturns(s, term)
        BY <2>1, <2>2
    <2>4. ElectionOver(s, term)'
        BY <2>3, WinnersElectionOver
    <2> QED
        BY <1>2, <2>4 DEF ElectionOver
<1>4. CASE ~WinStep(s)
    <2>1. server[s].role = "LEADER" /\ server[s].term = term
        BY <1>1, <1>2, <1>4, LoadedFields, FreshFields
           DEF MoveStep, Moves, Keeps, HearsOfTerm, Stands, Follows, Stops,
               Starts, AppendStep, Appends
    <2>2. ElectionOver(s, term)
        BY <2>1 DEF LeaderInv, LeadersCountNoVotes
    <2>3. ~Stands(s)
        BY DEF Stands
    <2>4. ElectionOver(s, term)'
        BY <2>2, <2>3, ElectionOverStays
    <2> QED
        BY <1>2, <2>4 DEF ElectionOver
<1> QED
    BY <1>3, <1>4

LEMMA NextLeaderKnown ==
    ASSUME TypeOK, LeaderInv, [NextOrKill]_vars
    PROVE  TimersPending' /\ KnownLeaderWasElected' /\ LeadersKnowThemselves'
<1> SUFFICES ASSUME NEW s \in Server
             PROVE  /\ server'[s].role # "LEADER" => server'[s].timer
                    /\ server'[s].role = "LEADER" => server'[s].leaderId = s
                    /\ /\ server'[s].role # "CANDIDATE"
                       /\ server'[s].leaderId # None
                       => <<server'[s].term, server'[s].leaderId>> \in leaders'
    BY DEF TimersPending, KnownLeaderWasElected, LeadersKnowThemselves
<1>1. /\ server[s].role # "LEADER" => server[s].timer
      /\ server[s].role = "LEADER" => server[s].leaderId = s
      /\ server[s].role # "CANDIDATE" /\ server[s].leaderId # None
             => <<server[s].term, server[s].leaderId>> \in leaders
    BY DEF LeaderInv, TimersPending, KnownLeaderWasElected,
           LeadersKnowThemselves
<1>2. leaders \subseteq leaders'
    BY StepsOfServers, WinnersStay
<1>3. \/ server'[s] = server[s]
      \/ MoveStep(s) \/ WinStep(s) \/ AppendStep(s)
    BY StepsOfServers, StepOfServer
<1>4. CASE server'[s] = server[s]
    BY <1>1, <1>2, <1>4
<1>5. CASE Keeps(s)
    BY <1>1, <1>2, <1>5 DEF Keeps
<1>6. CASE HearsOfTerm(s) \/ Stands(s) \/ Stops(s) \/ Starts(s)
    BY <1>6, LoadedFields, FreshFields
       DEF HearsOfTerm, Stands, Stops, Starts
<1>7. ASSUME NEW m \in appendRequests, Follows(s, m)
      PROVE  /\ server'[s].role # "LEADER" /\ server'[s].timer
             /\ <<server'[s].term, server'[s].leaderId>> \in leaders'
    BY <1>2, <1>7 DEF Follows, LeaderInv, RequestsFromWinners
<1>8. CASE WinStep(s)
    BY <1>8 DEF WinStep, Wins
<1>9. CASE AppendStep(s)
    BY <1>1, <1>2, <1>9 DEF AppendStep, Appends
<1> QED
    BY <1>3, <1>4, <1>5, <1>6, <1>7, <1>8, <1>9 DEF MoveStep, Moves

LEMMA NextLeader ==
    ASSUME TypeOK, LeaderInv, [NextOrKill]_vars
    PROVE  LeaderInv'
<1>1. leaders \subseteq leaders'
    BY StepsOfServers, WinnersStay
<1>2. ASSUME NEW th \in replicators'
      PROVE  th.server \notin th.left
    <2>1. ASSUME NEW o \in replicators
          PROVE  o.server \notin Due(o)
        BY DEF Due, LeaderInv, NothingToOneself
    <2> QED
        BY <2>1, OriginOfReplicators DEF LeaderInv, NothingToOneself
<1>3. ASSUME NEW m \in appendRequests'
      PROVE  <<m.term, m.src>> \in leaders' /\ m.dst # m.src
    <2>1. CASE \E n \in appendRequests : Copies(m, n)
        BY <1>1, <2>1
           DEF Copies, LeaderInv, RequestsFromWinners, NothingToOneself
    <2>2. ASSUME NEW th \in replicators, NEW f \in Server,
                 SendAppendEntries(th, f),
                 m = AppendRequest(th, server[th.server], f)
          PROVE  <<m.term, m.src>> \in leaders' /\ m.dst # m.src
        <3>1. /\ m.src = th.server /\ m.dst = f
              /\ m.term = server[th.server].term
            BY <2>2 DEF AppendRequest
        <3>2. th.server \in Server /\ th.server # None
            BY TypesInHand, ServerAssumption
        <3>3. <<server[th.server].term, th.server>> \in leaders
            BY <2>2, <3>2 DEF SendAppendEntries, LeaderInv,
                LeadersKnowThemselves, KnownLeaderWasElected
        <3>4. f # th.server
            BY <2>2 DEF SendAppendEntries, Due, LeaderInv, NothingToOneself
        <3> QED
            BY <1>1, <3>1, <3>3, <3>4
    <2> QED
        BY <2>1, <2>2, OriginOfRequests
<1>4. ASSUME NEW m \in voteReplies', m.granted
      PROVE  m.term = m.thread
    BY <1>4, OriginOfVoteReplies DEF LeaderInv, LeadersCountNoVotes
<1>5. \A s \in Server : server'[s].role = "LEADER" =>
                            ElectionOver(s, server[s].term)'
    BY LeaderCountsNoVotes
<1>6. LeadersCountNoVotes'
    BY <1>4, <1>5 DEF LeadersCountNoVotes
<1> QED
    BY <1>2, <1>3, <1>6, NextLeaderKnown
       DEF LeaderInv, RequestsFromWinners, NothingToOneself

LEMMA InitLeader ==
    ASSUME Init
    PROVE  LeaderInv
BY FreshFields
   DEF Init, LeaderInv, TimersPending, KnownLeaderWasElected,
       RequestsFromWinners, LeadersKnowThemselves, NothingToOneself,
       LeadersCountNoVotes

-----------------------------------------------------------------------------
(***************************************************************************)
(* The theorems.                                                           *)
(***************************************************************************)

\* LeaderInv is an invariant: requests come from servers that won their
\* term, who lead no longer than they know themselves as the leader, and
\* no thread of an election that was won counts another vote.
THEOREM LeaderInvariant == Spec => []LeaderInv
<1> DEFINE Inv == TypeOK /\ LeaderInv
<1>1. Init => Inv
    BY InitType, InitLeader
<1>2. Inv /\ [Next]_vars => Inv'
    BY NextType, NextLeader DEF NextOrKill
<1>3. Inv => LeaderInv
    OBVIOUS
<1> QED
    BY <1>1, <1>2, <1>3, PTL DEF Spec

\* A running server that does not lead has an election timeout pending,
\* however it lost its leadership and whether or not it was restarted.
THEOREM TimersArmed == Spec => []TimerArmed
<1>1. TypeOK /\ LeaderInv => TimerArmed
    BY DEF TypeOK, LeaderInv, TimersPending, TimerArmed
<1> QED
    BY <1>1, TypeCorrectness, LeaderInvariant, PTL

\* A follower or leader that names a leader names the winner of the
\* election of its own term: _on_higher_term_discovery forgets the old one.
THEOREM KnownLeadersWereElected == Spec => []KnownLeaderWasElected
<1>1. LeaderInv => KnownLeaderWasElected
    BY DEF LeaderInv
<1> QED
    BY <1>1, LeaderInvariant, PTL

\* No leader receives an AppendEntries request of its own term while disks
\* work: the second assertion of AppendEntries cannot fail.
THEOREM LeadersNeverMeet == Spec => []NeverTwoLeadersMeet
<1>1. ASSUME TypeOK, LeaderInv, ElectionInv
      PROVE  NeverTwoLeadersMeet
    <2> SUFFICES ASSUME DisksWork, NEW m \in appendRequests, m.dst \in up,
                        server[m.dst].role = "LEADER",
                        m.term = server[m.dst].term
                 PROVE  FALSE
        BY DEF NeverTwoLeadersMeet, Received
    <2>1. m.dst \in Server /\ m.dst # None
        BY <1>1, TypesInHand, ServerAssumption
    <2>2. <<m.term, m.src>> \in leaders
        BY <1>1 DEF LeaderInv, RequestsFromWinners
    <2>3. <<m.term, m.dst>> \in leaders
        BY <1>1, <2>1 DEF LeaderInv, LeadersKnowThemselves,
            KnownLeaderWasElected
    <2>4. m.src = m.dst
        BY <1>1, <2>2, <2>3, OneWinner DEF ElectionInv, OneWinnerPerTerm
    <2> QED
        BY <1>1, <2>4 DEF LeaderInv, NothingToOneself
<1> QED
    BY <1>1, TypeCorrectness, LeaderInvariant, ElectionInvariant, PTL

LEMMA CandidatesFailSanity ==
    ASSUME TypeOK, LeaderInv, ElectionInv
    PROVE  OnlyCandidatesFailSanity
<1> SUFFICES ASSUME DisksWork, NEW m \in Received,
                    m.term = server[m.dst].term,
                    server[m.dst].role # "CANDIDATE"
             PROVE  SanityHolds(server[m.dst], m)
    BY DEF OnlyCandidatesFailSanity
<1>1. m \in appendRequests /\ m.dst \in up
    BY DEF Received
<1>2. m.dst \in Server /\ m.dst # None
    BY <1>1, TypesInHand, ServerAssumption
<1>3. <<m.term, m.src>> \in leaders /\ m.dst # m.src
    BY <1>1 DEF LeaderInv, RequestsFromWinners, NothingToOneself
<1>4. ASSUME server[m.dst].leaderId # None
      PROVE  server[m.dst].leaderId = m.src
    <2>1. <<m.term, server[m.dst].leaderId>> \in leaders
        BY <1>2, <1>4 DEF LeaderInv, KnownLeaderWasElected
    <2> QED
        BY <1>3, <2>1, OneWinner DEF ElectionInv, OneWinnerPerTerm
<1>5. server[m.dst].role # "LEADER"
    BY <1>2, <1>3, <1>4 DEF LeaderInv, LeadersKnowThemselves
<1> QED
    BY <1>4, <1>5 DEF SanityHolds

\* While disks work a request of the server's own term fails an assertion of
\* AppendEntries nowhere but at a candidate, which alone may still name the
\* leader of an earlier term.
THEOREM SanityFailsAtCandidates == Spec => []OnlyCandidatesFailSanity
BY CandidatesFailSanity, TypeCorrectness, LeaderInvariant, ElectionInvariant, PTL

\* While a server leads a term its log grows by clients' commands and
\* changes in no other way: it adds its no-op once, when it wins.
THEOREM LeaderLogsAreTheirOwn == Spec => LeaderLogIsItsOwn
<1> DEFINE Own(s) ==
        /\ server[s].role = "LEADER" /\ server'[s].role = "LEADER"
        /\ server[s].term = server'[s].term
        => \/ server'[s].log = server[s].log
           \/ \E c \in issued' \ issued :
                  server'[s].log = Append(server[s].log,
                                    [term |-> server[s].term, command |-> c])
<1>1. ASSUME TypeOK, LeaderInv, [Next]_vars
      PROVE  \A s \in Server : Own(s)
    <2> SUFFICES ASSUME NEW s \in Server,
                        server[s].role = "LEADER", server'[s].role = "LEADER",
                        server[s].term = server'[s].term
                 PROVE  Own(s)
        OBVIOUS
    <2>1. \/ server'[s] = server[s]
          \/ MoveStep(s) \/ WinStep(s) \/ AppendStep(s)
        BY <1>1, StepsOfServers, StepOfServer DEF NextOrKill
    <2>2. CASE MoveStep(s)
        BY <2>2, LoadedFields, FreshFields
           DEF MoveStep, Moves, Keeps, HearsOfTerm, Stands, Follows, Stops,
               Starts, SameLog
    <2>3. CASE WinStep(s)
        <3>1. PICK m \in voteReplies : Wins(s, m)
            BY <2>3 DEF WinStep
        <3>2. m.src = s /\ m.thread = server[s].term
            BY <1>1, <3>1 DEF Wins, LeaderInv, LeadersCountNoVotes
        <3> QED
            BY <1>1, <3>2 DEF LeaderInv, LeadersCountNoVotes, ElectionOver
    <2>4. CASE AppendStep(s)
        BY <2>4 DEF AppendStep, Appends
    <2> QED
        BY <2>1, <2>2, <2>3, <2>4
<1>2. TypeOK /\ LeaderInv /\ [Next]_vars =>
          [\A s \in Server : Own(s)]_vars
    BY <1>1
<1> QED
    BY <1>2, TypeCorrectness, LeaderInvariant, PTL DEF Spec, LeaderLogIsItsOwn
=============================================================================
