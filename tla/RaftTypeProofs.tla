--------------------------- MODULE RaftTypeProofs ---------------------------
(***************************************************************************)
(* Type correctness of the cluster, for any servers, any bounds, with and  *)
(* without state files.                                                    *)
(***************************************************************************)
EXTENDS RaftSafety, RaftReplicaProofs

\* What TypeOK says of the things a step takes in hand.
LEMMA TypesInHand ==
    ASSUME TypeOK
    PROVE  /\ \A s \in Server : /\ server[s] \in ReplicaState
                                /\ disk[s] \in StateFile
                                /\ server[s].term \in Nat
                                /\ server[s].log \in Log
                                /\ Len(server[s].log) \in Nat
                                /\ server[s].commitIndex \in Nat
                                /\ server[s].nextIndex \in [Server -> Int]
           /\ \A m \in voteRequests :
                  /\ m \in VoteRequestCall
                  /\ m.src \in Server /\ m.dst \in Server /\ m.term \in Nat
           /\ \A m \in voteReplies :
                  /\ m \in VoteReplyCall /\ m.src \in Server /\ m.dst \in Server
                  /\ m.thread \in Nat /\ m.term \in Nat
           /\ \A m \in appendRequests :
                  /\ m \in AppendRequestCall
                  /\ m.src \in Server /\ m.dst \in Server
                  /\ m.thread \in Nat /\ m.term \in Nat
                  /\ m.prevLogIndex \in Nat /\ m.entries \in Log
                  /\ Len(m.entries) \in Nat /\ m.leaderCommit \in Nat
           /\ \A m \in appendReplies :
                  /\ m \in AppendReplyCall /\ m.src \in Server /\ m.dst \in Server
                  /\ m.term \in Nat /\ m.success \in BOOLEAN /\ m.matched \in Nat
           /\ \A th \in replicators : th.server \in Server /\ th.thread \in Nat
<1>1. ASSUME NEW s \in Server
      PROVE  /\ server[s] \in ReplicaState
             /\ disk[s] \in StateFile
             /\ server[s].term \in Nat
             /\ server[s].log \in Log
             /\ Len(server[s].log) \in Nat
             /\ server[s].commitIndex \in Nat
             /\ server[s].nextIndex \in [Server -> Int]
    <2>1. server[s] \in ReplicaState /\ disk[s] \in StateFile
        BY DEF TypeOK
    <2>2. Len(server[s].log) \in Nat
        BY <2>1, LenProperties DEF ReplicaState, Log
    <2> QED
        BY <2>1, <2>2 DEF ReplicaState
<1>2. ASSUME NEW m \in appendRequests
      PROVE  /\ m \in AppendRequestCall
             /\ m.src \in Server /\ m.dst \in Server
             /\ m.thread \in Nat /\ m.term \in Nat
             /\ m.prevLogIndex \in Nat /\ m.entries \in Log
             /\ Len(m.entries) \in Nat /\ m.leaderCommit \in Nat
    <2>1. m \in AppendRequestCall
        BY DEF TypeOK
    <2>2. m.entries \in Log /\ Len(m.entries) \in Nat
        BY <2>1, LenProperties DEF AppendRequestCall, Log
    <2> QED
        BY <2>1, <2>2 DEF AppendRequestCall
<1> QED
    BY <1>1, <1>2
       DEF TypeOK, VoteRequestCall, VoteReplyCall, AppendReplyCall

LEMMA UpdateType ==
    ASSUME TypeOK, NEW s \in Server, NEW r \in ReplicaState, Update(s, r)
    PROVE  server' \in [Server -> ReplicaState]
BY DEF TypeOK, Update

LEMMA SaveType ==
    ASSUME TypeOK, NEW s \in Server, NEW r \in ReplicaState,
           Save(s, r) \/ UNCHANGED disk
    PROVE  disk' \in [Server -> StateFile]
BY PersistedType DEF TypeOK, Save

\* A request that is abandoned is the same request, no longer open.
LEMMA OutcomesOfVoteRequests ==
    ASSUME NEW requests \in SUBSET VoteRequestCall,
           NEW abandoned \in SUBSET requests,
           NEW after \in Outcomes(requests, abandoned)
    PROVE  \A m \in after : /\ m \in VoteRequestCall
                            /\ m.open => m \in requests \ abandoned
<1>1. PICK late \in SUBSET Abandoned(abandoned) :
          after = (requests \ abandoned) \cup late
    BY DEF Outcomes
<1>2. ASSUME NEW m \in Abandoned(abandoned)
      PROVE  m \in VoteRequestCall /\ m.open = FALSE
    <2>1. PICK n \in abandoned : m = [n EXCEPT !.open = FALSE]
        BY DEF Abandoned
    <2>2. n \in VoteRequestCall
        OBVIOUS
    <2> QED
        BY <2>1, <2>2 DEF VoteRequestCall
<1> QED
    BY <1>1, <1>2

LEMMA OutcomesOfAppendRequests ==
    ASSUME NEW requests \in SUBSET AppendRequestCall,
           NEW abandoned \in SUBSET requests,
           NEW after \in Outcomes(requests, abandoned)
    PROVE  \A m \in after : /\ m \in AppendRequestCall
                            /\ m.open => m \in requests \ abandoned
<1>1. PICK late \in SUBSET Abandoned(abandoned) :
          after = (requests \ abandoned) \cup late
    BY DEF Outcomes
<1>2. ASSUME NEW m \in Abandoned(abandoned)
      PROVE  m \in AppendRequestCall /\ m.open = FALSE
    <2>1. PICK n \in abandoned : m = [n EXCEPT !.open = FALSE]
        BY DEF Abandoned
    <2>2. n \in AppendRequestCall
        OBVIOUS
    <2> QED
        BY <2>1, <2>2 DEF AppendRequestCall
<1> QED
    BY <1>1, <1>2

LEMMA ElectionReturnsType ==
    ASSUME TypeOK, NEW s \in Server, NEW term \in Nat, ElectionReturns(s, term)
    PROVE  /\ voteRequests' \subseteq VoteRequestCall
           /\ voteReplies' \subseteq VoteReplyCall
           /\ elections' \in [Server -> [term : Nat, votes : SUBSET Server]]
<1>1. voteRequests' \subseteq VoteRequestCall
    BY OutcomesOfVoteRequests DEF TypeOK, ElectionReturns
<1> QED
    BY <1>1 DEF TypeOK, ElectionReturns, NoElection

LEMMA ReplicatorReturnsType ==
    ASSUME TypeOK, NEW th \in replicators, ReplicatorReturns(th)
    PROVE  /\ replicators' \subseteq replicators
           /\ appendRequests' \subseteq AppendRequestCall
           /\ appendReplies' \subseteq AppendReplyCall
<1>1. appendRequests' \subseteq AppendRequestCall
    BY OutcomesOfAppendRequests DEF TypeOK, ReplicatorReturns
<1> QED
    BY <1>1 DEF TypeOK, ReplicatorReturns
-----------------------------------------------------------------------------
LEMMA InitType == Init => TypeOK
<1> SUFFICES ASSUME Init PROVE TypeOK
    OBVIOUS
<1>1. server \in [Server -> ReplicaState]
    BY FreshReplicaType DEF Init
<1>2. EmptyFile \in StateFile
    BY EmptySeq DEF EmptyFile, StateFile, Log
<1>3. disk \in [Server -> StateFile]
    BY <1>2 DEF Init
<1>4. NoElection \in [term : Nat, votes : SUBSET Server]
    BY DEF NoElection
<1>5. elections \in [Server -> [term : Nat, votes : SUBSET Server]]
    BY <1>4 DEF Init
<1>6. {timeouts, crashes, faults} \subseteq Nat
    BY DEF Init
<1>7. /\ up \subseteq Server /\ writable \subseteq Server
      /\ voteRequests \subseteq VoteRequestCall
      /\ voteReplies \subseteq VoteReplyCall
      /\ appendRequests \subseteq AppendRequestCall
      /\ appendReplies \subseteq AppendReplyCall
      /\ replicators \subseteq
             [server : Server, thread : Nat, left : SUBSET Server]
      /\ puts \subseteq [server : Server, index : Nat, entry : Entry]
      /\ issued \subseteq Command
      /\ ballots \subseteq Server \X Nat \X Server
      /\ leaders \subseteq Nat \X Server
    BY DEF Init
<1> QED
    BY <1>1, <1>3, <1>5, <1>6, <1>7 DEF TypeOK

LEMMA LeaderTimeoutType ==
    ASSUME TypeOK, NEW s \in Server, LeaderTimeout(s)
    PROVE  TypeOK'
<1>1. [server[s] EXCEPT !.timer = FALSE] \in ReplicaState
    BY TypesInHand DEF ReplicaState
<1> QED
    BY <1>1, UpdateType
       DEF LeaderTimeout, TypeOK, calls, threads, history, counters

LEMMA ElectionTimeoutType ==
    ASSUME TypeOK, NEW s \in Server, ElectionTimeout(s)
    PROVE  TypeOK'
<1> DEFINE r == BecomeCandidate(server[s], s)
<1>1. r \in ReplicaState /\ r.term \in Nat /\ r.log \in Log
    BY TypesInHand, BecomeCandidateType DEF ReplicaState
<1>2. server' \in [Server -> ReplicaState] /\ disk' \in [Server -> StateFile]
    BY <1>1, UpdateType, SaveType DEF ElectionTimeout
<1>3. Len(r.log) \in Nat /\ LastTerm(r.log) \in Nat
    BY <1>1, LastTermType, LenProperties DEF Log
<1> HIDE DEF r
<1>4. \A peer \in Server : VoteRequest(s, r, peer) \in VoteRequestCall
    BY <1>1, <1>3 DEF VoteRequest, VoteRequestCall
<1>5. voteRequests' \subseteq VoteRequestCall
    BY <1>4 DEF ElectionTimeout, TypeOK, r
<1>6. elections' \in [Server -> [term : Nat, votes : SUBSET Server]]
    BY <1>1 DEF ElectionTimeout, TypeOK, r
<1>7. ballots' \subseteq Server \X Nat \X Server
    BY <1>1 DEF ElectionTimeout, TypeOK, r
<1>8. {timeouts', crashes', faults'} \subseteq Nat
    BY DEF ElectionTimeout, TypeOK
<1> QED
    BY <1>2, <1>5, <1>6, <1>7, <1>8 DEF ElectionTimeout, TypeOK

LEMMA RequestVoteType ==
    ASSUME TypeOK, NEW m \in voteRequests, RequestVote(m)
    PROVE  TypeOK'
<1> DEFINE seen == Observe(server[m.dst], m.term)
           cast == CastVote(seen, m.src)
<1>1. /\ m.src \in Server /\ m.dst \in Server /\ m.term \in Nat
      /\ seen \in ReplicaState /\ seen.term \in Nat
    BY TypesInHand, ObserveType DEF ReplicaState
<1>2. cast \in ReplicaState /\ cast.term \in Nat
    BY <1>1, CastVoteType DEF ReplicaState
<1> HIDE DEF seen, cast
<1>3. CASE GrantVote(m)
    <2>1. server' \in [Server -> ReplicaState] /\ disk' \in [Server -> StateFile]
        BY <1>1, <1>2, <1>3, UpdateType, SaveType DEF GrantVote, seen, cast
    <2>2. voteReplies' \subseteq VoteReplyCall
        <3>1. VoteReply(m, cast, TRUE) \in VoteReplyCall
            BY <1>1, <1>2 DEF VoteReply, VoteReplyCall
        <3> QED
            BY <1>3, <3>1 DEF GrantVote, TypeOK, seen, cast
    <2>3. ballots' \subseteq Server \X Nat \X Server
        BY <1>1, <1>3 DEF GrantVote, TypeOK
    <2> QED
        BY <2>1, <2>2, <2>3 DEF RequestVote, TypeOK, threads, counters
<1>4. CASE DenyVote(m)
    <2>1. server' \in [Server -> ReplicaState] /\ disk' \in [Server -> StateFile]
        BY <1>1, <1>4, UpdateType, SaveType DEF DenyVote, SaveIf, seen
    <2>2. voteReplies' \subseteq VoteReplyCall
        <3>1. VoteReply(m, seen, FALSE) \in VoteReplyCall
            BY <1>1 DEF VoteReply, VoteReplyCall
        <3> QED
            BY <1>4, <3>1 DEF DenyVote, TypeOK, seen
    <2> QED
        BY <1>4, <2>1, <2>2 DEF DenyVote, RequestVote, TypeOK, threads, counters
<1> QED
    BY <1>3, <1>4 DEF RequestVote

LEMMA CountVoteType ==
    ASSUME TypeOK, NEW m \in voteReplies, CountVote(m)
    PROVE  TypeOK'
<1>1. /\ m.src \in Server /\ m.dst \in Server
      /\ m.thread \in Nat /\ m.term \in Nat /\ server[m.src] \in ReplicaState
    BY TypesInHand
<1>2. CASE VoterIsAhead(m)
    <2>1. OnHigherTermDiscovery(server[m.src], m.term) \in ReplicaState
        BY <1>1, OnHigherTermDiscoveryType
    <2>2. server' \in [Server -> ReplicaState] /\ disk' \in [Server -> StateFile]
        BY <1>1, <1>2, <2>1, UpdateType, SaveType DEF VoterIsAhead
    <2>3. /\ voteRequests' \subseteq VoteRequestCall
          /\ voteReplies' \subseteq VoteReplyCall
          /\ elections' \in [Server -> [term : Nat, votes : SUBSET Server]]
        BY <1>1, <1>2, ElectionReturnsType DEF VoterIsAhead
    <2> QED
        BY <1>2, <2>2, <2>3 DEF VoterIsAhead, CountVote, TypeOK, counters
<1>3. CASE NoVote(m)
    BY <1>3 DEF NoVote, CountVote, TypeOK, counters
<1>4. CASE AddVote(m)
    <2>1. elections' \in [Server -> [term : Nat, votes : SUBSET Server]]
        BY <1>1, <1>4 DEF AddVote, VotesWith, TypeOK
    <2> QED
        BY <1>4, <2>1 DEF AddVote, CountVote, TypeOK, counters
<1>5. CASE WinElection(m)
    <2>1. BecomeLeader(server[m.src], m.src) \in ReplicaState
        BY <1>1, BecomeLeaderType
    <2>2. server' \in [Server -> ReplicaState] /\ disk' \in [Server -> StateFile]
        BY <1>1, <1>5, <2>1, UpdateType, SaveType DEF WinElection
    <2>3. /\ voteRequests' \subseteq VoteRequestCall
          /\ voteReplies' \subseteq VoteReplyCall
          /\ elections' \in [Server -> [term : Nat, votes : SUBSET Server]]
        BY <1>1, <1>5, ElectionReturnsType DEF WinElection
    <2>4. replicators' \subseteq
              [server : Server, thread : Nat, left : SUBSET Server]
        BY <1>1, <1>5 DEF WinElection, TypeOK
    <2>5. leaders' \subseteq Nat \X Server
        BY <1>1, <1>5 DEF WinElection, TypeOK
    <2> QED
        BY <2>2, <2>3, <2>4, <2>5 DEF CountVote, TypeOK, counters
<1> QED
    BY <1>2, <1>3, <1>4, <1>5 DEF CountVote
-----------------------------------------------------------------------------
LEMMA SendAppendEntriesType ==
    ASSUME TypeOK, NEW th \in replicators, NEW f \in Server,
           SendAppendEntries(th, f)
    PROVE  TypeOK'
<1> DEFINE r == server[th.server]
           prev == r.nextIndex[f] - 1
<1>1. /\ th \in [server : Server, thread : Nat, left : SUBSET Server]
      /\ th.server \in Server /\ th.thread \in Nat
      /\ r.term \in Nat /\ r.log \in Log /\ Len(r.log) \in Nat
      /\ r.commitIndex \in Nat /\ r.nextIndex[f] \in Int
    BY TypesInHand DEF TypeOK
<1>2. prev \in Nat /\ prev <= Len(r.log)
    BY <1>1 DEF SendAppendEntries, Sendable
<1> HIDE DEF r, prev
<1>3. /\ SubSeq(r.log, 1, prev) \in Log
      /\ SubSeq(r.log, prev + 1, Len(r.log)) \in Log
    BY <1>1, <1>2, SubSeqOfLog
<1>4. LastTerm(SubSeq(r.log, 1, prev)) \in Nat
    BY <1>3, LastTermType
<1>5. AppendRequest(th, r, f) \in AppendRequestCall
    BY <1>1, <1>2, <1>3, <1>4 DEF AppendRequest, AppendRequestCall, prev
<1>6. appendRequests' \subseteq AppendRequestCall
    BY <1>5 DEF SendAppendEntries, TypeOK, r
<1>7. Due(th) \in SUBSET Server
    BY <1>1 DEF Due
<1>8. replicators' \subseteq [server : Server, thread : Nat, left : SUBSET Server]
    BY <1>1, <1>7 DEF SendAppendEntries, TypeOK
<1> QED
    BY <1>6, <1>8 DEF SendAppendEntries, TypeOK, history, counters

LEMMA ReplicatorEndsType ==
    ASSUME TypeOK, NEW th \in replicators, NEW f \in Server,
           ReplicatorEnds(th, f)
    PROVE  TypeOK'
BY ReplicatorReturnsType DEF ReplicatorEnds, TypeOK, history, counters

LEMMA FollowerType ==
    ASSUME TypeOK, NEW m \in appendRequests
    PROVE  /\ Follower(m) \in ReplicaState
           /\ Follower(m).term = Observe(server[m.dst], m.term).term
           /\ Follower(m).log = server[m.dst].log
           /\ Persisted(Follower(m)) = Persisted(Observe(server[m.dst], m.term))
<1> DEFINE seen == Observe(server[m.dst], m.term)
<1>1. /\ m.src \in Server /\ m.dst \in Server /\ m.term \in Nat
      /\ server[m.dst] \in ReplicaState
    BY TypesInHand
<1>2. seen \in ReplicaState /\ seen.log = server[m.dst].log
    BY <1>1, ObserveType
<1> HIDE DEF seen
<1>3. /\ Follow(seen, m.src) \in ReplicaState
      /\ Follow(seen, m.src).term = seen.term
      /\ Follow(seen, m.src).log = seen.log
      /\ Persisted(Follow(seen, m.src)) = Persisted(seen)
    BY <1>1, <1>2, FollowType
<1> QED
    BY <1>2, <1>3 DEF Follower, seen

LEMMA AppendEntriesType ==
    ASSUME TypeOK, NEW m \in appendRequests, AppendEntries(m)
    PROVE  TypeOK'
<1>1. /\ m.src \in Server /\ m.dst \in Server
      /\ m.thread \in Nat /\ m.term \in Nat
      /\ m.prevLogIndex \in Nat /\ m.entries \in Log
      /\ Len(m.entries) \in Nat /\ m.leaderCommit \in Nat
      /\ server[m.dst] \in ReplicaState
    BY TypesInHand
<1>2. \A r \in ReplicaState, success \in BOOLEAN :
          AppendReply(m, r, success) \in AppendReplyCall
    BY <1>1 DEF AppendReply, AppendReplyCall, ReplicaState
<1>3. ASSUME NEW r \in ReplicaState, NEW success \in BOOLEAN,
             FollowLeader(m, r, success)
      PROVE  /\ server' \in [Server -> ReplicaState]
             /\ disk' \in [Server -> StateFile]
             /\ appendReplies' \subseteq AppendReplyCall
    <2>1. server' \in [Server -> ReplicaState] /\ disk' \in [Server -> StateFile]
        BY <1>1, <1>3, UpdateType, SaveType DEF FollowLeader, SaveIf
    <2>2. appendReplies' \subseteq AppendReplyCall
        BY <1>2, <1>3 DEF FollowLeader, TypeOK
    <2> QED
        BY <2>1, <2>2
<1>4. /\ server' \in [Server -> ReplicaState]
      /\ disk' \in [Server -> StateFile]
      /\ appendReplies' \subseteq AppendReplyCall
    <2>1. CASE RejectStaleLeader(m)
        BY <1>1, <1>2, <2>1 DEF RejectStaleLeader, TypeOK
    <2>2. CASE FailAssertion(m)
        BY <2>2 DEF FailAssertion, TypeOK
    <2>3. CASE RefuseEntries(m)
        BY <1>3, <2>3, FollowerType DEF RefuseEntries
    <2>4. CASE TakeEntries(m)
        <3>1. AppendNewEntries(Follower(m), m) \in ReplicaState
            BY <1>1, <2>4, FollowerType, AppendNewEntriesType DEF TakeEntries
        <3> QED
            BY <1>3, <2>4, <3>1 DEF TakeEntries
    <2> QED
        BY <2>1, <2>2, <2>3, <2>4 DEF AppendEntries
<1> QED
    BY <1>4 DEF AppendEntries, TypeOK, threads, history, counters

LEMMA HandleAppendReplyType ==
    ASSUME TypeOK, NEW m \in appendReplies, HandleAppendReply(m)
    PROVE  TypeOK'
<1>1. /\ m.src \in Server /\ m.dst \in Server /\ m.term \in Nat
      /\ m.success \in BOOLEAN /\ m.matched \in Nat
      /\ server[m.src] \in ReplicaState
    BY TypesInHand
<1>2. CASE DeposedMeanwhile(m)
    <2>1. PICK th \in replicators : ReplicatorReturns(th)
        BY <1>2 DEF DeposedMeanwhile, ReplicatorsAwaiting
    <2> QED
        BY <1>2, <2>1, ReplicatorReturnsType
           DEF DeposedMeanwhile, HandleAppendReply, TypeOK, history, counters
<1>3. CASE FollowerIsAhead(m)
    <2>1. PICK th \in replicators : ReplicatorReturns(th)
        BY <1>3 DEF FollowerIsAhead, ReplicatorsAwaiting
    <2>2. OnHigherTermDiscovery(server[m.src], m.term) \in ReplicaState
        BY <1>1, OnHigherTermDiscoveryType
    <2>3. server' \in [Server -> ReplicaState] /\ disk' \in [Server -> StateFile]
        BY <1>1, <1>3, <2>2, UpdateType, SaveType DEF FollowerIsAhead
    <2> QED
        BY <2>1, <2>3, ReplicatorReturnsType
           DEF HandleAppendReply, TypeOK, history, counters
<1>4. CASE UseReply(m)
    <2>1. AdvanceCommitIndex(RecordReply(server[m.src], m), m.src) \in ReplicaState
        BY <1>1, RecordReplyType, AdvanceCommitIndexType
    <2>2. server' \in [Server -> ReplicaState]
        BY <1>1, <1>4, <2>1, UpdateType DEF UseReply
    <2> QED
        BY <1>4, <2>2 DEF UseReply, HandleAppendReply, TypeOK, history, counters
<1> QED
    BY <1>2, <1>3, <1>4 DEF HandleAppendReply
-----------------------------------------------------------------------------
LEMMA PutType ==
    ASSUME TypeOK, NEW s \in Server, NEW command \in Command, Put(s, command)
    PROVE  TypeOK'
<1> DEFINE r == AppendCommand(server[s], command)
<1>1. r \in ReplicaState /\ Len(r.log) \in Nat /\ r.log[Len(r.log)] \in Entry
    BY TypesInHand, AppendCommandType
<1>2. server' \in [Server -> ReplicaState] /\ disk' \in [Server -> StateFile]
    BY <1>1, UpdateType, SaveType DEF Put
<1> HIDE DEF r
<1>3. puts' \subseteq [server : Server, index : Nat, entry : Entry]
    BY <1>1 DEF Put, TypeOK, r
<1> QED
    BY <1>2, <1>3 DEF Put, TypeOK, calls, history

LEMMA PutReturnsType ==
    ASSUME TypeOK, NEW p \in puts, PutReturns(p)
    PROVE  TypeOK'
BY DEF PutReturns, TypeOK, calls, history, counters

LEMMA CrashType ==
    ASSUME TypeOK, NEW s \in Server, Crash(s) \/ Kill(s)
    PROVE  TypeOK'
<1>1. server' \in [Server -> ReplicaState]
    BY FreshReplicaType, UpdateType DEF Crash, Kill, Die
<1>2. voteRequests' \subseteq VoteRequestCall
    BY OutcomesOfVoteRequests DEF Crash, Kill, Die, TypeOK
<1>3. appendRequests' \subseteq AppendRequestCall
    BY OutcomesOfAppendRequests DEF Crash, Kill, Die, TypeOK
<1>4. elections' \in [Server -> [term : Nat, votes : SUBSET Server]]
    <2>1. elections' = [elections EXCEPT ![s] = NoElection]
        BY DEF Crash, Kill, Die
    <2>2. elections \in [Server -> [term : Nat, votes : SUBSET Server]]
        BY DEF TypeOK
    <2>3. NoElection \in [term : Nat, votes : SUBSET Server]
        BY DEF NoElection
    <2> QED
        BY <2>1, <2>2, <2>3
<1>5. /\ voteReplies' \subseteq voteReplies
      /\ appendReplies' \subseteq appendReplies
      /\ replicators' \subseteq replicators /\ puts' \subseteq puts
      /\ up' \subseteq up
    BY DEF Crash, Kill, Die
<1>6. UNCHANGED <<disk, writable, history, issued, timeouts, faults>>
    BY DEF Crash, Kill, Die
<1>7. crashes' \in Nat
    BY DEF Crash, Kill, TypeOK
<1> QED
    BY <1>1, <1>2, <1>3, <1>4, <1>5, <1>6, <1>7 DEF TypeOK, history

LEMMA RestartType ==
    ASSUME TypeOK, NEW s \in Server, Restart(s)
    PROVE  TypeOK'
<1>1. server' \in [Server -> ReplicaState]
    BY TypesInHand, LoadedType, UpdateType DEF Restart
<1> QED
    BY <1>1 DEF Restart, TypeOK, calls, threads, history, counters

LEMMA DiskFailsType ==
    ASSUME TypeOK, NEW s \in Server, DiskFails(s)
    PROVE  TypeOK'
BY DEF DiskFails, TypeOK, calls, threads, history, counters

LEMMA VoteCallFailsType ==
    ASSUME TypeOK, NEW m \in voteRequests \cup voteReplies, VoteCallFails(m)
    PROVE  TypeOK'
<1>1. voteRequests' \subseteq VoteRequestCall
    BY OutcomesOfVoteRequests DEF VoteCallFails, Failed, TypeOK
<1>2. voteReplies' \subseteq VoteReplyCall
    BY DEF VoteCallFails, TypeOK
<1>3. {timeouts', crashes', faults'} \subseteq Nat
    BY DEF VoteCallFails, Fault, TypeOK
<1> QED
    BY <1>1, <1>2, <1>3 DEF VoteCallFails, TypeOK, threads, history

LEMMA AppendCallFailsType ==
    ASSUME TypeOK, NEW m \in appendRequests \cup appendReplies,
           AppendCallFails(m)
    PROVE  TypeOK'
<1>1. appendRequests' \subseteq AppendRequestCall
    BY OutcomesOfAppendRequests DEF AppendCallFails, Failed, TypeOK
<1>2. appendReplies' \subseteq AppendReplyCall
    BY DEF AppendCallFails, TypeOK
<1>3. {timeouts', crashes', faults'} \subseteq Nat
    BY DEF AppendCallFails, Fault, TypeOK
<1> QED
    BY <1>1, <1>2, <1>3 DEF AppendCallFails, TypeOK, threads, history
-----------------------------------------------------------------------------
\* Every step keeps the types, and so does a kill by the frontend.
LEMMA NextType ==
    ASSUME TypeOK, [NextOrKill]_vars
    PROVE  TypeOK'
<1>1. CASE UNCHANGED vars
    BY <1>1 DEF vars, calls, threads, history, counters, TypeOK
<1>2. ASSUME NEW s \in Server, ServerStep(s) \/ Kill(s) PROVE TypeOK'
    BY <1>2, LeaderTimeoutType, ElectionTimeoutType, CrashType, RestartType,
       DiskFailsType, PutType DEF ServerStep, Timeout
<1>3. CASE \E m \in voteRequests : RequestVote(m)
    BY <1>3, RequestVoteType
<1>4. CASE \E m \in voteReplies : CountVote(m)
    BY <1>4, CountVoteType
<1>5. CASE \E th \in replicators, f \in Server :
              SendAppendEntries(th, f) \/ ReplicatorEnds(th, f)
    BY <1>5, SendAppendEntriesType, ReplicatorEndsType
<1>6. CASE \E m \in appendRequests : AppendEntries(m)
    BY <1>6, AppendEntriesType
<1>7. CASE \E m \in appendReplies : HandleAppendReply(m)
    BY <1>7, HandleAppendReplyType
<1>8. CASE \E p \in puts : PutReturns(p)
    BY <1>8, PutReturnsType
<1>9. CASE \E m \in voteRequests \cup voteReplies : VoteCallFails(m)
    BY <1>9, VoteCallFailsType
<1>10. CASE \E m \in appendRequests \cup appendReplies : AppendCallFails(m)
    BY <1>10, AppendCallFailsType
<1> QED
    BY <1>1, <1>2, <1>3, <1>4, <1>5, <1>6, <1>7, <1>8, <1>9, <1>10
       DEF NextOrKill, Next, CallStep

\* The fields of every server, the files, the calls and the threads keep
\* their types in every behaviour: no record of server.py is ever malformed,
\* whatever crashes, is lost or arrives late.
THEOREM TypeCorrectness == Spec => []TypeOK
<1>1. Init => TypeOK
    BY InitType
<1>2. TypeOK /\ [Next]_vars => TypeOK'
    BY NextType DEF NextOrKill
<1> QED
    BY <1>1, <1>2, PTL DEF Spec
=============================================================================
