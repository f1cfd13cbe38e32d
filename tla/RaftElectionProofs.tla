------------------------- MODULE RaftElectionProofs -------------------------
(***************************************************************************)
(* At most one server wins a term, for any number of servers, elections,   *)
(* crashes, lost and late calls, as long as no state file has missed a     *)
(* write.                                                                  *)
(*                                                                         *)
(* VotingInv is inductive while that lasts. A step of one server s is      *)
(* summed up by the record r it leaves in s: its file then holds           *)
(* Persisted(r), and Forward says that no vote is taken back by it.        *)
(***************************************************************************)
EXTENDS RaftTypeProofs

Forward(old, new) ==
    \/ new.term > old.term
    \/ /\ new.term = old.term
       /\ old.votedFor = None \/ new.votedFor = old.votedFor

\* A step of s that leaves r there, saved whenever it had to be.
StepOf(s, r) ==
    /\ s \in up /\ up' = up /\ writable' = writable
    /\ server' = [server EXCEPT ![s] = r]
    /\ \/ Save(s, r)
       \/ disk' = disk /\ Persisted(r) = Persisted(server[s])

LEMMA PersistedFields ==
    ASSUME NEW r
    PROVE  Persisted(r).term = r.term /\ Persisted(r).votedFor = r.votedFor
BY DEF Persisted

LEMMA FileOfRunningServer ==
    ASSUME VotingInv, NEW s \in up
    PROVE  /\ s \in Server
           /\ server[s] \in ReplicaState /\ server[s].term \in Nat
           /\ disk[s].term = server[s].term
           /\ disk[s].votedFor = server[s].votedFor
<1>1. s \in Server /\ server[s] \in ReplicaState
    BY DEF VotingInv, TypeOK
<1>2. disk[s] = Persisted(server[s])
    BY DEF VotingInv, FilesAreCurrent, DisksWork
<1> QED
    BY <1>1, <1>2, PersistedFields DEF ReplicaState

LEMMA StepKeepsFiles ==
    ASSUME VotingInv, NEW s \in Server, NEW r \in ReplicaState, StepOf(s, r)
    PROVE  /\ disk' = [disk EXCEPT ![s] = Persisted(r)]
           /\ FilesAreCurrent'
<1>1. /\ server \in [Server -> ReplicaState] /\ disk \in [Server -> StateFile]
      /\ writable = Server /\ up \subseteq Server
      /\ \A t \in up : disk[t] = Persisted(server[t])
      /\ \A t \in Server \ up : server[t] = FreshReplica
    BY DEF VotingInv, TypeOK, FilesAreCurrent, DisksWork
<1>2. disk' = [disk EXCEPT ![s] = Persisted(r)]
    <2>1. CASE Save(s, r)
        BY <1>1, <2>1 DEF Save
    <2>2. CASE disk' = disk /\ Persisted(r) = Persisted(server[s])
        BY <1>1, <2>2 DEF StepOf
    <2> QED
        BY <2>1, <2>2 DEF StepOf
<1>3. server' = [server EXCEPT ![s] = r] /\ up' = up /\ writable' = writable
      /\ s \in up
    BY DEF StepOf, Update
<1> QED
    BY <1>1, <1>2, <1>3 DEF FilesAreCurrent, DisksWork

\* A step forward keeps every vote already cast, and lowers no term.
LEMMA ForwardKeepsVotes ==
    ASSUME VotingInv, NEW s \in Server, NEW r \in ReplicaState, StepOf(s, r),
           Forward(server[s], r)
    PROVE  /\ \A b \in ballots :
                  \/ disk'[b[1]].term > b[2]
                  \/ disk'[b[1]].term = b[2] /\ disk'[b[1]].votedFor = b[3]
           /\ \A t \in Server : server[t].term <= server'[t].term
<1>1. /\ server \in [Server -> ReplicaState] /\ disk \in [Server -> StateFile]
      /\ ballots \subseteq Server \X Nat \X Server
      /\ s \in up /\ server' = [server EXCEPT ![s] = r]
    BY DEF VotingInv, TypeOK, StepOf, Update
<1>2. /\ r.term \in Nat /\ server[s].term \in Nat
      /\ disk[s].term = server[s].term
      /\ disk[s].votedFor = server[s].votedFor
      /\ disk' = [disk EXCEPT ![s] = Persisted(r)]
      /\ Persisted(r).term = r.term /\ Persisted(r).votedFor = r.votedFor
    <2>1. r.term \in Nat
        BY DEF ReplicaState
    <2> QED
        BY <1>1, <2>1, StepKeepsFiles, PersistedFields, FileOfRunningServer
<1>3. ASSUME NEW b \in ballots
      PROVE  \/ disk'[b[1]].term > b[2]
             \/ disk'[b[1]].term = b[2] /\ disk'[b[1]].votedFor = b[3]
    <2>1. /\ b[1] \in Server /\ b[2] \in Nat /\ b[3] \in Server /\ b[3] # None
        BY <1>1, ServerAssumption
    <2>2. \/ disk[b[1]].term > b[2]
          \/ disk[b[1]].term = b[2] /\ disk[b[1]].votedFor = b[3]
        BY DEF VotingInv, BallotsOnFile
    <2>3. CASE b[1] = s
        BY <1>1, <1>2, <2>1, <2>2, <2>3 DEF Forward
    <2>4. CASE b[1] # s
        BY <1>1, <1>2, <2>1, <2>2, <2>4
    <2> QED
        BY <2>3, <2>4
<1>4. ASSUME NEW t \in Server
      PROVE  server[t].term <= server'[t].term
    <2>1. server[t].term \in Nat
        BY <1>1 DEF ReplicaState
    <2>2. CASE t = s
        BY <1>1, <1>2, <2>1, <2>2 DEF Forward
    <2>3. CASE t # s
        BY <1>1, <2>1, <2>3
    <2> QED
        BY <2>2, <2>3
<1> QED
    BY <1>3, <1>4

\* A majority of ballots stays one as ballots are added.
LEMMA BallotsGrow ==
    ASSUME VotingInv, ballots \subseteq ballots', UNCHANGED leaders
    PROVE  WinnersHadMajority'
BY DEF VotingInv, WinnersHadMajority

\* Threads that wait for no more than before, and for no later terms.
LEMMA ThreadsStay ==
    ASSUME VotingInv, TypeOK', UNCHANGED elections,
           \A t \in Server : server[t].term <= server'[t].term,
           \A m \in voteRequests' : m.open => m \in voteRequests,
           \A m \in voteReplies' :
               m \in voteReplies \/ NewestOrLeftBehind(m.src, m.thread)
    PROVE  ElectionThreads'
<1>1. /\ \A t \in Server : server[t].term \in Nat /\ server'[t].term \in Nat
      /\ \A t \in Server : elections[t].term \in Nat
      /\ \A m \in voteRequests' : m.src \in Server /\ m.term \in Nat
      /\ \A m \in voteReplies' : m.src \in Server /\ m.thread \in Nat
    BY DEF VotingInv, TypeOK, ReplicaState, VoteRequestCall, VoteReplyCall
<1>2. /\ \A t \in Server : elections[t].term <= server[t].term
      /\ \A m \in voteRequests : m.open => NewestOrLeftBehind(m.src, m.term)
      /\ \A m \in voteReplies : NewestOrLeftBehind(m.src, m.thread)
    BY DEF VotingInv, ElectionThreads
<1> QED
    BY <1>1, <1>2 DEF ElectionThreads, NewestOrLeftBehind

\* Steps that have no part in an election.
LEMMA OutsideElections ==
    ASSUME VotingInv, TypeOK', NEW s \in Server, NEW r \in ReplicaState,
           StepOf(s, r), Forward(server[s], r), CallersAreUp',
           UNCHANGED <<elections, voteRequests, voteReplies, ballots, leaders>>
    PROVE  VotingInv'
<1>1. FilesAreCurrent'
    BY StepKeepsFiles
<1>2. BallotsOnFile'
    BY ForwardKeepsVotes DEF BallotsOnFile
<1>3. OneBallot' /\ GrantsAreBallots' /\ CountedAreBallots'
    BY DEF VotingInv, OneBallot, GrantsAreBallots, CountedAreBallots
<1>4. ElectionThreads'
    BY ForwardKeepsVotes, ThreadsStay
<1>5. WinnersHadMajority'
    BY BallotsGrow
<1> QED
    BY <1>1, <1>2, <1>3, <1>4, <1>5 DEF VotingInv

\* Steps that change no server at all.
LEMMA NoServerChanges ==
    ASSUME VotingInv, TypeOK', CallersAreUp',
           UNCHANGED <<server, up, disk, writable, elections, ballots,
                       leaders>>,
           \A m \in voteRequests' : m.open => m \in voteRequests,
           voteReplies' \subseteq voteReplies
    PROVE  VotingInv'
<1>1. FilesAreCurrent' /\ BallotsOnFile' /\ OneBallot' /\ CountedAreBallots'
    BY DEF VotingInv, FilesAreCurrent, DisksWork, BallotsOnFile, OneBallot,
           CountedAreBallots
<1>2. GrantsAreBallots'
    BY DEF VotingInv, GrantsAreBallots
<1>3. \A t \in Server : server[t].term <= server'[t].term
    BY DEF VotingInv, TypeOK, ReplicaState
<1>4. ElectionThreads'
    BY <1>3, ThreadsStay
<1>5. WinnersHadMajority'
    BY BallotsGrow
<1> QED
    BY <1>1, <1>2, <1>4, <1>5 DEF VotingInv
-----------------------------------------------------------------------------
LEMMA InitElection ==
    ASSUME Init
    PROVE  VotingInv
<1>1. TypeOK
    BY InitType
<1>2. FilesAreCurrent
    BY DEF Init, FilesAreCurrent, DisksWork, Persisted, FreshReplica, EmptyFile
<1>3. /\ BallotsOnFile /\ OneBallot /\ GrantsAreBallots /\ WinnersHadMajority
      /\ CallersAreUp
    BY DEF Init, BallotsOnFile, OneBallot, GrantsAreBallots, WinnersHadMajority,
           CallersAreUp
<1>4. CountedAreBallots /\ ElectionThreads
    BY DEF Init, CountedAreBallots, ElectionThreads, NoElection, FreshReplica
<1> QED
    BY <1>1, <1>2, <1>3, <1>4 DEF VotingInv

LEMMA LeaderTimeoutElection ==
    ASSUME VotingInv, TypeOK', NEW s \in Server, LeaderTimeout(s)
    PROVE  VotingInv'
<1> DEFINE r == [server[s] EXCEPT !.timer = FALSE]
<1>1. s \in up
    BY DEF LeaderTimeout
<1>2. server[s] \in ReplicaState
    BY <1>1, FileOfRunningServer
<1>3. /\ r \in ReplicaState /\ Persisted(r) = Persisted(server[s])
      /\ r.term = server[s].term /\ r.votedFor = server[s].votedFor
    BY <1>2 DEF ReplicaState, Persisted
<1> HIDE DEF r
<1>4. StepOf(s, r)
    BY <1>1, <1>3 DEF LeaderTimeout, StepOf, Update, r
<1>5. CallersAreUp'
    BY DEF LeaderTimeout, VotingInv, CallersAreUp, calls, threads
<1> QED
    BY <1>3, <1>4, <1>5, OutsideElections
       DEF LeaderTimeout, Forward, calls, threads, history

LEMMA ElectionTimeoutElection ==
    ASSUME VotingInv, TypeOK', NEW s \in Server, ElectionTimeout(s)
    PROVE  VotingInv'
<1> DEFINE r == BecomeCandidate(server[s], s)
           e == [term |-> r.term, votes |-> {s}]
<1>1. /\ s \in up /\ server[s] \in ReplicaState /\ server[s].term \in Nat
      /\ disk[s].term = server[s].term
    BY FileOfRunningServer DEF ElectionTimeout
<1>2. r \in ReplicaState /\ r.term = server[s].term + 1 /\ r.votedFor = s
    BY <1>1, BecomeCandidateType
<1> HIDE DEF r
<1>3. StepOf(s, r) /\ Forward(server[s], r)
    <2>1. /\ Update(s, r) /\ Save(s, r)
          /\ up' = up /\ writable' = writable
        BY DEF ElectionTimeout, r
    <2>2. r.term > server[s].term
        BY <1>1, <1>2
    <2> QED
        BY <1>1, <2>1, <2>2 DEF StepOf, Forward, Update, Save
<1>4. /\ ballots' = ballots \cup {<<s, r.term, s>>}
      /\ elections' = [elections EXCEPT ![s] = e]
      /\ UNCHANGED <<voteReplies, leaders, up, replicators, appendRequests,
                     appendReplies>>
      /\ \A m \in voteRequests' :
             m \in voteRequests \/ (m.src = s /\ m.term = r.term)
    <2>1. /\ ballots' = ballots \cup {<<s, r.term, s>>}
          /\ elections' = [elections EXCEPT ![s] = e]
          /\ UNCHANGED <<voteReplies, leaders, up, replicators, appendRequests,
                         appendReplies>>
          /\ voteRequests' = voteRequests \cup
                 {VoteRequest(s, r, peer) : peer \in Server \ {s}}
        BY DEF ElectionTimeout, r
    <2>2. \A peer : /\ VoteRequest(s, r, peer).src = s
                    /\ VoteRequest(s, r, peer).term = r.term
        BY DEF VoteRequest
    <2> QED
        BY <2>1, <2>2
<1>5. /\ disk' = [disk EXCEPT ![s] = Persisted(r)] /\ FilesAreCurrent'
      /\ \A t \in Server : server[t].term <= server'[t].term
    BY <1>2, <1>3, StepKeepsFiles, ForwardKeepsVotes
<1>6. /\ disk'[s].term = r.term /\ disk'[s].votedFor = s
      /\ server'[s].term = r.term
    BY <1>1, <1>2, <1>5, PersistedFields
       DEF VotingInv, TypeOK, ElectionTimeout, Update, r
<1>7. BallotsOnFile'
    BY <1>2, <1>3, <1>4, <1>6, ForwardKeepsVotes DEF BallotsOnFile
<1>8. OneBallot'
    <2>1. \A b \in ballots : ~(b[1] = s /\ b[2] = r.term)
        <3>1. ASSUME NEW b \in ballots, b[1] = s
              PROVE  b[2] \in Nat /\ b[2] <= disk[s].term
            BY <1>1, <3>1 DEF VotingInv, TypeOK, BallotsOnFile
        <3> QED
            BY <1>1, <1>2, <3>1
    <2> QED
        BY <1>4, <2>1 DEF VotingInv, OneBallot
<1>9. CallersAreUp'
    BY <1>1, <1>4 DEF VotingInv, CallersAreUp
<1>10. ElectionThreads'
    <2>1. /\ \A t \in Server : server[t].term \in Nat /\ server'[t].term \in Nat
          /\ \A t \in Server : elections[t].term \in Nat
          /\ elections \in [Server -> [term : Nat, votes : SUBSET Server]]
          /\ \A m \in voteRequests : m.src \in Server /\ m.term \in Nat
          /\ \A m \in voteReplies : m.src \in Server /\ m.thread \in Nat
        BY DEF VotingInv, TypeOK, ReplicaState, VoteRequestCall, VoteReplyCall
    <2>2. /\ \A t \in Server : elections[t].term <= server[t].term
          /\ \A m \in voteRequests : m.open => NewestOrLeftBehind(m.src, m.term)
          /\ \A m \in voteReplies : NewestOrLeftBehind(m.src, m.thread)
        BY DEF VotingInv, ElectionThreads
    <2>3. /\ elections'[s].term = r.term
          /\ \A t \in Server \ {s} : elections'[t] = elections[t]
        BY <1>4, <2>1
    <2>4. ASSUME NEW t \in Server, NEW term \in Nat, NewestOrLeftBehind(t, term)
          PROVE  NewestOrLeftBehind(t, term)'
        BY <1>2, <1>5, <1>6, <2>1, <2>2, <2>3, <2>4 DEF NewestOrLeftBehind
    <2>5. \A t \in Server : elections'[t].term <= server'[t].term
        BY <1>2, <1>5, <1>6, <2>1, <2>2, <2>3
    <2>6. \A m \in voteReplies' : NewestOrLeftBehind(m.src, m.thread)'
        BY <1>4, <2>1, <2>2, <2>4
    <2>7. \A m \in voteRequests' : m.open => NewestOrLeftBehind(m.src, m.term)'
        BY <1>4, <2>1, <2>2, <2>3, <2>4 DEF NewestOrLeftBehind
    <2> QED
        BY <2>5, <2>6, <2>7 DEF ElectionThreads
<1>11. GrantsAreBallots'
    BY <1>4 DEF VotingInv, GrantsAreBallots
<1>12. CountedAreBallots'
    <2>1. elections \in [Server -> [term : Nat, votes : SUBSET Server]]
        BY DEF VotingInv, TypeOK
    <2> QED
        BY <1>4, <2>1 DEF VotingInv, CountedAreBallots
<1>13. WinnersHadMajority'
    BY <1>4, BallotsGrow
<1> QED
    BY <1>5, <1>7, <1>8, <1>9, <1>10, <1>11, <1>12, <1>13 DEF VotingInv

LEMMA RequestVoteElection ==
    ASSUME VotingInv, TypeOK', NEW m \in voteRequests, RequestVote(m)
    PROVE  VotingInv'
<1> DEFINE seen == Observe(server[m.dst], m.term)
           cast == CastVote(seen, m.src)
<1>1. /\ TypeOK /\ m.dst \in up
      /\ m.src \in Server /\ m.dst \in Server /\ m.term \in Nat
    BY TypesInHand DEF VotingInv, RequestVote
<1>2. /\ server[m.dst] \in ReplicaState /\ server[m.dst].term \in Nat
      /\ disk[m.dst].term = server[m.dst].term
      /\ disk[m.dst].votedFor = server[m.dst].votedFor
    BY <1>1, FileOfRunningServer
<1>3. /\ seen \in ReplicaState /\ seen.term \in Nat
      /\ m.term > server[m.dst].term => /\ seen.term = m.term
                                        /\ seen.votedFor = None
      /\ ~(m.term > server[m.dst].term) => seen = server[m.dst]
    BY <1>1, <1>2, ObserveType DEF ReplicaState
<1>4. /\ cast \in ReplicaState /\ cast.term = seen.term
      /\ cast.votedFor = m.src
    BY <1>1, <1>3, CastVoteType
<1> HIDE DEF seen, cast
<1>5. /\ UNCHANGED <<up, writable, elections, leaders, replicators,
                     appendRequests, appendReplies>>
      /\ voteRequests' = voteRequests \ {m}
    BY DEF RequestVote, threads
<1>6. m.open => m.src \in up /\ NewestOrLeftBehind(m.src, m.term)
    BY DEF VotingInv, CallersAreUp, ElectionThreads
<1>7. \A r \in ReplicaState, granted \in BOOLEAN :
          /\ VoteReply(m, r, granted).src = m.src
          /\ VoteReply(m, r, granted).dst = m.dst
          /\ VoteReply(m, r, granted).thread = m.term
          /\ VoteReply(m, r, granted).term = r.term
          /\ VoteReply(m, r, granted).granted = granted
    BY DEF VoteReply
<1>8. CASE GrantVote(m)
    <2>1. /\ m.term = seen.term /\ seen.votedFor \in {None, m.src}
          /\ Update(m.dst, cast) /\ Save(m.dst, cast)
          /\ ballots' = ballots \cup {<<m.dst, m.term, m.src>>}
          /\ voteReplies' = voteReplies \cup
                 (IF m.open THEN {VoteReply(m, cast, TRUE)} ELSE {})
        BY <1>8 DEF GrantVote, GrantsVote, seen, cast
    <2>2. StepOf(m.dst, cast)
        BY <1>1, <1>5, <2>1 DEF StepOf, Update, Save
    <2>3. Forward(server[m.dst], cast)
        BY <1>1, <1>2, <1>3, <1>4, <2>1 DEF Forward
    <2>4. /\ disk' = [disk EXCEPT ![m.dst] = Persisted(cast)]
          /\ FilesAreCurrent'
          /\ \A t \in Server : server[t].term <= server'[t].term
        BY <1>1, <1>4, <2>2, <2>3, StepKeepsFiles, ForwardKeepsVotes
    <2>5. disk'[m.dst].term = m.term /\ disk'[m.dst].votedFor = m.src
        BY <1>1, <1>4, <2>1, <2>4, PersistedFields DEF TypeOK
    <2>6. BallotsOnFile'
        BY <1>1, <1>4, <2>1, <2>2, <2>3, <2>5, ForwardKeepsVotes
           DEF BallotsOnFile
    <2>7. OneBallot'
        <3>1. ASSUME NEW b \in ballots, b[1] = m.dst, b[2] = m.term
              PROVE  b[3] = m.src
            <4>1. b[3] \in Server /\ b[3] # None
                BY <1>1, ServerAssumption DEF TypeOK
            <4>2. \/ disk[m.dst].term > m.term
                  \/ disk[m.dst].term = m.term /\ disk[m.dst].votedFor = b[3]
                BY <3>1 DEF VotingInv, BallotsOnFile
            <4> QED
                BY <1>1, <1>2, <1>3, <2>1, <4>1, <4>2
        <3> QED
            BY <2>1, <3>1 DEF VotingInv, OneBallot
    <2>8. \A reply \in voteReplies' :
              \/ reply \in voteReplies
              \/ /\ m.open /\ reply.src = m.src /\ reply.thread = m.term
                 /\ reply.dst = m.dst /\ reply.term = m.term
        BY <1>4, <1>7, <2>1
    <2>9. CallersAreUp'
        BY <1>5, <1>6, <2>8 DEF VotingInv, CallersAreUp
    <2>10. ElectionThreads'
        BY <1>5, <1>6, <2>4, <2>8, ThreadsStay
    <2>11. GrantsAreBallots'
        BY <2>1, <2>8 DEF VotingInv, GrantsAreBallots
    <2>12. CountedAreBallots'
        BY <1>5, <2>1 DEF VotingInv, CountedAreBallots
    <2>13. WinnersHadMajority'
        BY <1>5, <2>1, BallotsGrow
    <2> QED
        BY <2>4, <2>6, <2>7, <2>9, <2>10, <2>11, <2>12, <2>13 DEF VotingInv
<1>9. CASE DenyVote(m)
    <2>1. /\ Update(m.dst, seen)
          /\ SaveIf(m.term > server[m.dst].term, m.dst, seen)
          /\ ballots' = ballots
          /\ voteReplies' = voteReplies \cup
                 (IF m.open THEN {VoteReply(m, seen, FALSE)} ELSE {})
        BY <1>9 DEF DenyVote, seen
    <2>2. StepOf(m.dst, seen)
        BY <1>1, <1>3, <1>5, <2>1 DEF StepOf, Update, Save, SaveIf
    <2>3. Forward(server[m.dst], seen)
        BY <1>1, <1>2, <1>3 DEF Forward
    <2>4. /\ FilesAreCurrent'
          /\ \A t \in Server : server[t].term <= server'[t].term
        BY <1>1, <1>3, <2>2, <2>3, StepKeepsFiles, ForwardKeepsVotes
    <2>5. BallotsOnFile'
        BY <1>1, <1>3, <2>1, <2>2, <2>3, ForwardKeepsVotes DEF BallotsOnFile
    <2>6. \A reply \in voteReplies' :
              \/ reply \in voteReplies
              \/ /\ m.open /\ reply.src = m.src /\ reply.thread = m.term
                 /\ reply.granted = FALSE
        BY <1>3, <1>7, <2>1
    <2>7. CallersAreUp'
        BY <1>5, <1>6, <2>6 DEF VotingInv, CallersAreUp
    <2>8. ElectionThreads'
        BY <1>5, <1>6, <2>4, <2>6, ThreadsStay
    <2>9. OneBallot' /\ GrantsAreBallots' /\ CountedAreBallots'
        BY <1>5, <2>1, <2>6
           DEF VotingInv, OneBallot, GrantsAreBallots, CountedAreBallots
    <2>10. WinnersHadMajority'
        BY <1>5, <2>1, BallotsGrow
    <2> QED
        BY <2>4, <2>5, <2>7, <2>8, <2>9, <2>10 DEF VotingInv
<1> QED
    BY <1>8, <1>9 DEF RequestVote

\* What is left when an election thread returns.
LEMMA ElectionReturnsElection ==
    ASSUME VotingInv, TypeOK', NEW s \in Server, NEW term \in Nat,
           ElectionReturns(s, term), UNCHANGED ballots,
           \A t \in Server : server[t].term <= server'[t].term
    PROVE  /\ ElectionThreads' /\ GrantsAreBallots' /\ CountedAreBallots'
           /\ voteReplies' \subseteq voteReplies
           /\ \A m \in voteRequests' : m.open => m \in voteRequests
<1>1. /\ voteRequests \subseteq VoteRequestCall
      /\ elections \in [Server -> [term : Nat, votes : SUBSET Server]]
      /\ \A t \in Server : server[t].term \in Nat /\ server'[t].term \in Nat
      /\ \A m \in voteRequests : m.src \in Server /\ m.term \in Nat
      /\ \A m \in voteReplies : m.src \in Server /\ m.thread \in Nat
    BY DEF VotingInv, TypeOK, ReplicaState, VoteRequestCall, VoteReplyCall
<1>2. /\ \A t \in Server : elections[t].term <= server[t].term
      /\ \A m \in voteRequests : m.open => NewestOrLeftBehind(m.src, m.term)
      /\ \A m \in voteReplies : NewestOrLeftBehind(m.src, m.thread)
    BY DEF VotingInv, ElectionThreads
<1>3. /\ voteReplies' = {m \in voteReplies : ~(m.src = s /\ m.thread = term)}
      /\ elections' = IF elections[s].term = term
                      THEN [elections EXCEPT ![s] = NoElection]
                      ELSE elections
    BY DEF ElectionReturns
<1>4. \A m \in voteRequests' :
          m.open => m \in voteRequests /\ ~(m.src = s /\ m.term = term)
    BY <1>1, OutcomesOfVoteRequests DEF ElectionReturns
<1>5. NoElection.term = 0 /\ NoElection.votes = {}
    BY DEF NoElection
<1>6. \A t \in Server : \/ elections'[t] = elections[t]
                         \/ /\ t = s /\ elections[s].term = term
                            /\ elections'[t] = NoElection
    BY <1>1, <1>3
<1>7. ASSUME NEW t \in Server, NEW k \in Nat, NewestOrLeftBehind(t, k),
             ~(t = s /\ k = term)
      PROVE  NewestOrLeftBehind(t, k)'
    BY <1>1, <1>2, <1>6, <1>7 DEF NewestOrLeftBehind
<1>8. \A t \in Server : elections'[t].term <= server'[t].term
    BY <1>1, <1>2, <1>5, <1>6
<1>9. ElectionThreads'
    BY <1>1, <1>2, <1>3, <1>4, <1>7, <1>8 DEF ElectionThreads
<1>10. GrantsAreBallots'
    BY <1>3 DEF VotingInv, GrantsAreBallots
<1>11. CountedAreBallots'
    BY <1>5, <1>6 DEF VotingInv, CountedAreBallots
<1> QED
    BY <1>3, <1>4, <1>9, <1>10, <1>11

LEMMA CountVoteElection ==
    ASSUME VotingInv, TypeOK', NEW m \in voteReplies, CountVote(m)
    PROVE  VotingInv'
<1>1. /\ m.src \in Server /\ m.dst \in Server /\ m.src \in up
      /\ m.thread \in Nat /\ m.term \in Nat
    BY TypesInHand DEF VotingInv, CallersAreUp
<1>2. server[m.src] \in ReplicaState /\ server[m.src].term \in Nat
    BY <1>1, FileOfRunningServer
<1>3. /\ UNCHANGED <<up, writable, appendRequests, appendReplies, ballots>>
      /\ OneBallot'
    BY DEF CountVote, VotingInv, OneBallot
<1>4. CASE VoterIsAhead(m)
    <2> DEFINE r == OnHigherTermDiscovery(server[m.src], m.term)
    <2>1. /\ r \in ReplicaState /\ r.term = m.term
        BY <1>1, <1>2, OnHigherTermDiscoveryType
    <2> HIDE DEF r
    <2>2. /\ m.term > server[m.src].term /\ Update(m.src, r) /\ Save(m.src, r)
          /\ ElectionReturns(m.src, m.thread)
          /\ UNCHANGED <<replicators, leaders>>
        BY <1>4 DEF VoterIsAhead, r
    <2>3. StepOf(m.src, r) /\ Forward(server[m.src], r)
        BY <1>1, <1>3, <2>1, <2>2 DEF StepOf, Forward, Update, Save
    <2>4. /\ FilesAreCurrent' /\ BallotsOnFile'
          /\ \A t \in Server : server[t].term <= server'[t].term
        BY <1>1, <1>3, <2>1, <2>3, StepKeepsFiles, ForwardKeepsVotes
           DEF BallotsOnFile
    <2>5. /\ ElectionThreads' /\ GrantsAreBallots' /\ CountedAreBallots'
          /\ voteReplies' \subseteq voteReplies
          /\ \A n \in voteRequests' : n.open => n \in voteRequests
        BY <1>1, <1>3, <2>2, <2>4, ElectionReturnsElection
    <2>6. CallersAreUp'
        BY <1>3, <2>2, <2>5 DEF VotingInv, CallersAreUp
    <2>7. WinnersHadMajority'
        BY <1>3, <2>2, BallotsGrow
    <2> QED
        BY <1>3, <2>4, <2>5, <2>6, <2>7 DEF VotingInv
<1>5. CASE NoVote(m)
    <2>1. /\ UNCHANGED <<server, disk, voteRequests, elections, replicators,
                         leaders>>
          /\ voteReplies' \subseteq voteReplies
        BY <1>5 DEF NoVote
    <2>2. CallersAreUp'
        BY <1>3, <2>1 DEF VotingInv, CallersAreUp
    <2> QED
        BY <1>3, <2>1, <2>2, NoServerChanges
<1>6. ASSUME m.term = server[m.src].term, m.granted
      PROVE  /\ elections[m.src].term = m.term
             /\ VotesWith(m) \in SUBSET Server
             /\ \A v \in VotesWith(m) : <<v, m.term, m.src>> \in ballots
    <2>1. m.term = m.thread /\ <<m.dst, m.thread, m.src>> \in ballots
        BY <1>6 DEF VotingInv, GrantsAreBallots
    <2>2. elections[m.src].term = m.term
        <3>1. NewestOrLeftBehind(m.src, m.thread)
            BY DEF VotingInv, ElectionThreads
        <3> QED
            BY <1>1, <1>2, <1>6, <2>1, <3>1 DEF NewestOrLeftBehind
    <2>3. /\ elections[m.src].votes \in SUBSET Server
          /\ \A v \in elections[m.src].votes : <<v, m.term, m.src>> \in ballots
        BY <1>1, <2>2 DEF VotingInv, TypeOK, CountedAreBallots
    <2> QED
        BY <1>1, <2>1, <2>2, <2>3 DEF VotesWith
<1>7. CASE AddVote(m)
    <2>1. /\ m.term = server[m.src].term /\ m.granted
          /\ elections' = [elections EXCEPT ![m.src].votes = VotesWith(m)]
          /\ voteReplies' = voteReplies \ {m}
          /\ UNCHANGED <<server, disk, voteRequests, replicators, leaders>>
        BY <1>7 DEF AddVote
    <2>2. /\ elections \in [Server -> [term : Nat, votes : SUBSET Server]]
          /\ \A t \in Server : server[t].term \in Nat
          /\ \A n \in voteRequests : n.src \in Server
          /\ \A n \in voteReplies : n.src \in Server
        BY DEF VotingInv, TypeOK, ReplicaState, VoteRequestCall, VoteReplyCall
    <2>3. /\ elections'[m.src].votes = VotesWith(m)
          /\ \A t \in Server : elections'[t].term = elections[t].term
          /\ \A t \in Server \ {m.src} : elections'[t] = elections[t]
        BY <1>1, <2>1, <2>2
    <2>4. CountedAreBallots'
        BY <1>3, <1>6, <2>1, <2>3 DEF VotingInv, CountedAreBallots
    <2>5. ElectionThreads'
        BY <2>1, <2>2, <2>3 DEF VotingInv, ElectionThreads, NewestOrLeftBehind
    <2>6. /\ FilesAreCurrent' /\ BallotsOnFile'
          /\ CallersAreUp' /\ GrantsAreBallots'
        BY <1>3, <2>1
           DEF VotingInv, FilesAreCurrent, DisksWork, BallotsOnFile, CallersAreUp,
               GrantsAreBallots
    <2>7. WinnersHadMajority'
        BY <1>3, <2>1, BallotsGrow
    <2> QED
        BY <1>3, <2>4, <2>5, <2>6, <2>7 DEF VotingInv
<1>8. CASE WinElection(m)
    <2> DEFINE r == BecomeLeader(server[m.src], m.src)
    <2>1. /\ r \in ReplicaState /\ r.term = server[m.src].term
          /\ r.votedFor = server[m.src].votedFor
        BY <1>1, <1>2, BecomeLeaderType
    <2> HIDE DEF r
    <2>2. /\ m.term = server[m.src].term /\ m.granted
          /\ IsMajority(Cardinality(VotesWith(m)))
          /\ Update(m.src, r) /\ Save(m.src, r)
          /\ ElectionReturns(m.src, m.thread)
          /\ leaders' = leaders \cup {<<m.term, m.src>>}
          /\ \A th \in replicators' : th \in replicators \/ th.server = m.src
        BY <1>8 DEF WinElection, r
    <2>3. StepOf(m.src, r) /\ Forward(server[m.src], r)
        BY <1>1, <1>3, <2>1, <2>2 DEF StepOf, Forward, Update, Save
    <2>4. /\ FilesAreCurrent' /\ BallotsOnFile'
          /\ \A t \in Server : server[t].term <= server'[t].term
        BY <1>1, <1>3, <2>1, <2>3, StepKeepsFiles, ForwardKeepsVotes
           DEF BallotsOnFile
    <2>5. /\ ElectionThreads' /\ GrantsAreBallots' /\ CountedAreBallots'
          /\ voteReplies' \subseteq voteReplies
          /\ \A n \in voteRequests' : n.open => n \in voteRequests
        BY <1>1, <1>3, <2>2, <2>4, ElectionReturnsElection
    <2>6. CallersAreUp'
        BY <1>1, <1>3, <2>2, <2>5 DEF VotingInv, CallersAreUp
    <2>7. WinnersHadMajority'
        BY <1>3, <1>6, <2>2 DEF VotingInv, WinnersHadMajority
    <2> QED
        BY <1>3, <2>4, <2>5, <2>6, <2>7 DEF VotingInv
<1> QED
    BY <1>4, <1>5, <1>7, <1>8 DEF CountVote
-----------------------------------------------------------------------------
LEMMA SendAppendEntriesElection ==
    ASSUME VotingInv, TypeOK', NEW th \in replicators, NEW f \in Server,
           SendAppendEntries(th, f)
    PROVE  VotingInv'
<1>1. /\ th \in [server : Server, thread : Nat, left : SUBSET Server]
      /\ th.server \in up
    BY DEF VotingInv, TypeOK, CallersAreUp
<1>2. /\ UNCHANGED <<server, up, disk, writable, voteRequests, voteReplies,
                     appendReplies, elections, ballots, leaders>>
      /\ appendRequests' = appendRequests \cup
                               {AppendRequest(th, server[th.server], f)}
      /\ replicators' = (replicators \ {th}) \cup
                            {[th EXCEPT !.left = Due(th) \ {f}]}
    BY DEF SendAppendEntries, history
<1>3. [th EXCEPT !.left = Due(th) \ {f}].server = th.server
    BY <1>1
<1>4. AppendRequest(th, server[th.server], f).src = th.server
    BY DEF AppendRequest
<1>5. CallersAreUp'
    BY <1>1, <1>2, <1>3, <1>4 DEF VotingInv, CallersAreUp
<1> QED
    BY <1>2, <1>5, NoServerChanges

LEMMA ReplicatorReturnsCallers ==
    ASSUME VotingInv, NEW th \in replicators, ReplicatorReturns(th),
           UNCHANGED <<up, voteRequests, voteReplies>>
    PROVE  CallersAreUp'
<1>1. \A m \in appendRequests' : m.open => m \in appendRequests
    BY OutcomesOfAppendRequests DEF ReplicatorReturns, VotingInv, TypeOK
<1> QED
    BY <1>1 DEF ReplicatorReturns, VotingInv, CallersAreUp

LEMMA ReplicatorEndsElection ==
    ASSUME VotingInv, TypeOK', NEW th \in replicators, NEW f \in Server,
           ReplicatorEnds(th, f)
    PROVE  VotingInv'
<1>1. /\ UNCHANGED <<server, up, disk, writable, voteRequests, voteReplies,
                     elections, ballots, leaders>>
      /\ ReplicatorReturns(th)
    BY DEF ReplicatorEnds, history
<1>2. CallersAreUp'
    BY <1>1, ReplicatorReturnsCallers
<1> QED
    BY <1>1, <1>2, NoServerChanges

\* What FollowLeader leaves in the follower.
LEMMA FollowLeaderStep ==
    ASSUME VotingInv, NEW m \in appendRequests, m.dst \in up,
           NEW r \in ReplicaState, NEW success, FollowLeader(m, r, success),
           r.term = Follower(m).term, r.votedFor = Follower(m).votedFor,
           up' = up, writable' = writable
    PROVE  StepOf(m.dst, r) /\ Forward(server[m.dst], r)
<1>1. /\ TypeOK /\ m.dst \in Server /\ m.src \in Server /\ m.term \in Nat
      /\ server[m.dst] \in ReplicaState /\ server[m.dst].term \in Nat
    BY TypesInHand DEF VotingInv
<1>2. /\ m.term > server[m.dst].term => r.term = m.term
      /\ ~(m.term > server[m.dst].term) =>
             r.term = server[m.dst].term /\ r.votedFor = server[m.dst].votedFor
    <2>1. Persisted(Follower(m)) = Persisted(Observe(server[m.dst], m.term))
        BY <1>1, FollowerType
    <2>2. /\ Follower(m).term = Observe(server[m.dst], m.term).term
          /\ Follower(m).votedFor = Observe(server[m.dst], m.term).votedFor
        BY <2>1, PersistedFields
    <2> QED
        BY <1>1, <2>2, ObserveType
<1>3. /\ Update(m.dst, r)
      /\ SaveIf(m.term > server[m.dst].term \/ r.log # server[m.dst].log,
                m.dst, r)
    BY DEF FollowLeader
<1>4. Forward(server[m.dst], r)
    BY <1>1, <1>2 DEF Forward
<1>5. CASE m.term > server[m.dst].term \/ r.log # server[m.dst].log
    <2>1. Save(m.dst, r)
        BY <1>3, <1>5 DEF SaveIf
    <2> QED
        BY <1>3, <1>4, <2>1 DEF StepOf, Update
<1>6. CASE ~(m.term > server[m.dst].term \/ r.log # server[m.dst].log)
    <2>1. disk' = disk
        BY <1>3, <1>6 DEF SaveIf
    <2>2. Persisted(r) = Persisted(server[m.dst])
        BY <1>2, <1>6 DEF Persisted
    <2> QED
        BY <1>3, <1>4, <2>1, <2>2 DEF StepOf, Update
<1> QED
    BY <1>5, <1>6

LEMMA AppendEntriesElection ==
    ASSUME VotingInv, TypeOK', NEW m \in appendRequests, AppendEntries(m)
    PROVE  VotingInv'
<1>1. /\ TypeOK /\ m.dst \in up /\ m.dst \in Server
      /\ m.prevLogIndex \in Nat /\ m.entries \in Log /\ m.leaderCommit \in Nat
      /\ Follower(m) \in ReplicaState
    BY TypesInHand, FollowerType DEF VotingInv, AppendEntries
<1>2. /\ UNCHANGED <<up, writable, voteRequests, voteReplies, elections,
                     replicators, ballots, leaders>>
      /\ appendRequests' = appendRequests \ {m}
    BY DEF AppendEntries, threads, history
<1>3. ASSUME NEW r, NEW success,
             appendReplies' = appendReplies \cup
                 (IF m.open THEN {AppendReply(m, r, success)} ELSE {})
      PROVE  CallersAreUp'
    <2>1. AppendReply(m, r, success).src = m.src
        BY DEF AppendReply
    <2> QED
        BY <1>2, <1>3, <2>1 DEF VotingInv, CallersAreUp
<1>4. CASE RejectStaleLeader(m)
    <2>1. /\ appendReplies' = appendReplies \cup
                 (IF m.open THEN {AppendReply(m, server[m.dst], FALSE)} ELSE {})
          /\ UNCHANGED <<server, disk>>
        BY <1>4 DEF RejectStaleLeader
    <2>2. CallersAreUp'
        BY <1>3, <2>1
    <2> QED
        BY <1>2, <2>1, <2>2, NoServerChanges
<1>5. CASE FailAssertion(m)
    <2>1. UNCHANGED <<server, disk, appendReplies>>
        BY <1>5 DEF FailAssertion
    <2>2. CallersAreUp'
        BY <1>2, <2>1 DEF VotingInv, CallersAreUp
    <2> QED
        BY <1>2, <2>1, <2>2, NoServerChanges
<1>6. ASSUME NEW r \in ReplicaState, NEW success, FollowLeader(m, r, success),
             r.term = Follower(m).term, r.votedFor = Follower(m).votedFor
      PROVE  VotingInv'
    <2>1. StepOf(m.dst, r) /\ Forward(server[m.dst], r)
        BY <1>1, <1>2, <1>6, FollowLeaderStep
    <2>2. CallersAreUp'
        BY <1>3, <1>6 DEF FollowLeader
    <2> QED
        BY <1>1, <1>2, <2>1, <2>2, OutsideElections
<1>7. CASE RefuseEntries(m)
    BY <1>1, <1>6, <1>7 DEF RefuseEntries
<1>8. CASE TakeEntries(m)
    <2> DEFINE r == AppendNewEntries(Follower(m), m)
    <2>1. Consistent(Follower(m), m) /\ FollowLeader(m, r, TRUE)
        BY <1>8 DEF TakeEntries
    <2>2. /\ r \in ReplicaState
          /\ r.term = Follower(m).term /\ r.votedFor = Follower(m).votedFor
        BY <1>1, <2>1, AppendNewEntriesType
    <2> HIDE DEF r
    <2> QED
        BY <1>6, <2>1, <2>2
<1> QED
    BY <1>4, <1>5, <1>7, <1>8 DEF AppendEntries

LEMMA HandleAppendReplyElection ==
    ASSUME VotingInv, TypeOK', NEW m \in appendReplies, HandleAppendReply(m)
    PROVE  VotingInv'
<1>1. /\ m.src \in Server /\ m.dst \in Server /\ m.src \in up
      /\ m.term \in Nat /\ m.success \in BOOLEAN /\ m.matched \in Nat
    BY TypesInHand DEF VotingInv, CallersAreUp
<1>2. server[m.src] \in ReplicaState /\ server[m.src].term \in Nat
    BY <1>1, FileOfRunningServer
<1>3. UNCHANGED <<up, writable, voteRequests, voteReplies, elections, ballots,
                  leaders>>
    BY DEF HandleAppendReply, history
<1>4. CASE DeposedMeanwhile(m)
    <2>1. CallersAreUp'
        BY <1>3, <1>4, ReplicatorReturnsCallers
           DEF DeposedMeanwhile, ReplicatorsAwaiting
    <2> QED
        BY <1>3, <1>4, <2>1, NoServerChanges DEF DeposedMeanwhile
<1>5. CASE FollowerIsAhead(m)
    <2> DEFINE r == OnHigherTermDiscovery(server[m.src], m.term)
    <2>1. r \in ReplicaState /\ r.term = m.term
        BY <1>1, <1>2, OnHigherTermDiscoveryType
    <2> HIDE DEF r
    <2>2. m.term > server[m.src].term /\ Update(m.src, r) /\ Save(m.src, r)
        BY <1>5 DEF FollowerIsAhead, r
    <2>3. StepOf(m.src, r) /\ Forward(server[m.src], r)
        BY <1>1, <1>3, <2>1, <2>2 DEF StepOf, Forward, Update, Save
    <2>4. CallersAreUp'
        BY <1>3, <1>5, ReplicatorReturnsCallers
           DEF FollowerIsAhead, ReplicatorsAwaiting
    <2> QED
        BY <1>1, <1>3, <2>1, <2>3, <2>4, OutsideElections
<1>6. CASE UseReply(m)
    <2> DEFINE recorded == RecordReply(server[m.src], m)
               r == AdvanceCommitIndex(recorded, m.src)
    <2>1. /\ recorded \in ReplicaState
          /\ Persisted(recorded) = Persisted(server[m.src])
        BY <1>1, <1>2, RecordReplyType
    <2> HIDE DEF recorded
    <2>2. r \in ReplicaState /\ Persisted(r) = Persisted(recorded)
        BY <1>1, <2>1, AdvanceCommitIndexType
    <2> HIDE DEF r
    <2>3. /\ Update(m.src, r)
          /\ appendReplies' = appendReplies \ {m}
          /\ UNCHANGED <<disk, appendRequests, replicators>>
        BY <1>6 DEF UseReply, r, recorded
    <2>4. r.term = server[m.src].term /\ r.votedFor = server[m.src].votedFor
        BY <2>1, <2>2, PersistedFields
    <2>5. StepOf(m.src, r) /\ Forward(server[m.src], r)
        BY <1>1, <1>3, <2>1, <2>2, <2>3, <2>4 DEF StepOf, Forward, Update
    <2>6. CallersAreUp'
        BY <1>3, <2>3 DEF VotingInv, CallersAreUp
    <2> QED
        BY <1>1, <1>3, <2>2, <2>5, <2>6, OutsideElections
<1> QED
    BY <1>4, <1>5, <1>6 DEF HandleAppendReply

LEMMA PutElection ==
    ASSUME VotingInv, TypeOK', NEW s \in Server, NEW command \in Command,
           Put(s, command)
    PROVE  VotingInv'
<1> DEFINE r == AppendCommand(server[s], command)
<1>1. s \in up /\ server[s] \in ReplicaState
    BY FileOfRunningServer DEF Put
<1>2. /\ r \in ReplicaState /\ r.term = server[s].term
      /\ r.votedFor = server[s].votedFor
    BY <1>1, AppendCommandType
<1> HIDE DEF r
<1>3. /\ Update(s, r) /\ Save(s, r)
      /\ UNCHANGED <<up, writable, voteRequests, voteReplies, appendRequests,
                     appendReplies, elections, replicators, ballots, leaders>>
    BY DEF Put, calls, history, r
<1>4. StepOf(s, r) /\ Forward(server[s], r)
    BY <1>1, <1>2, <1>3 DEF StepOf, Forward, Update, Save
<1>5. CallersAreUp'
    BY <1>3 DEF VotingInv, CallersAreUp
<1> QED
    BY <1>2, <1>3, <1>4, <1>5, OutsideElections

LEMMA PutReturnsElection ==
    ASSUME VotingInv, TypeOK', NEW p \in puts, PutReturns(p)
    PROVE  VotingInv'
<1>1. UNCHANGED <<server, up, disk, writable, voteRequests, voteReplies,
                  appendRequests, appendReplies, elections, replicators,
                  ballots, leaders>>
    BY DEF PutReturns, calls, history
<1>2. CallersAreUp'
    BY <1>1 DEF VotingInv, CallersAreUp
<1> QED
    BY <1>1, <1>2, NoServerChanges
-----------------------------------------------------------------------------
LEMMA CrashElection ==
    ASSUME VotingInv, TypeOK', NEW s \in Server, Crash(s) \/ Kill(s)
    PROVE  VotingInv'
<1>1. /\ voteRequests \subseteq VoteRequestCall
      /\ appendRequests \subseteq AppendRequestCall
      /\ server \in [Server -> ReplicaState]
      /\ elections \in [Server -> [term : Nat, votes : SUBSET Server]]
      /\ \A m \in voteRequests : m.src \in Server
      /\ \A m \in voteReplies : m.src \in Server
    BY DEF VotingInv, TypeOK, VoteRequestCall, VoteReplyCall
<1>2. /\ up' = up \ {s}
      /\ server' = [server EXCEPT ![s] = FreshReplica]
      /\ elections' = [elections EXCEPT ![s] = NoElection]
      /\ voteReplies' = {m \in voteReplies : m.src # s}
      /\ appendReplies' = {m \in appendReplies : m.src # s}
      /\ replicators' = {th \in replicators : th.server # s}
      /\ UNCHANGED <<disk, writable, ballots, leaders>>
    BY DEF Crash, Kill, Die, Update, history
<1>3. \A m \in voteRequests' : m.open => m \in voteRequests /\ m.src # s
    BY <1>1, OutcomesOfVoteRequests DEF Crash, Kill, Die
<1>4. \A m \in appendRequests' : m.open => m \in appendRequests /\ m.src # s
    BY <1>1, OutcomesOfAppendRequests DEF Crash, Kill, Die
<1>5. FilesAreCurrent'
    BY <1>1, <1>2 DEF VotingInv, FilesAreCurrent, DisksWork
<1>6. CallersAreUp'
    BY <1>2, <1>3, <1>4 DEF VotingInv, CallersAreUp
<1>7. /\ BallotsOnFile' /\ OneBallot' /\ GrantsAreBallots'
    BY <1>2 DEF VotingInv, BallotsOnFile, OneBallot, GrantsAreBallots
<1>8. CountedAreBallots'
    BY <1>1, <1>2 DEF VotingInv, CountedAreBallots, NoElection
<1>9. ElectionThreads'
    <2>1. /\ elections'[s].term = 0 /\ server'[s].term = 0
          /\ \A t \in Server \ {s} : /\ elections'[t] = elections[t]
                                      /\ server'[t] = server[t]
        BY <1>1, <1>2 DEF NoElection, FreshReplica
    <2> QED
        BY <1>1, <1>2, <1>3, <2>1
           DEF VotingInv, ElectionThreads, NewestOrLeftBehind
<1>10. WinnersHadMajority'
    BY <1>2, BallotsGrow
<1> QED
    BY <1>5, <1>6, <1>7, <1>8, <1>9, <1>10 DEF VotingInv

LEMMA RestartElection ==
    ASSUME VotingInv, TypeOK', NEW s \in Server, Restart(s)
    PROVE  VotingInv'
<1>1. /\ server \in [Server -> ReplicaState] /\ disk[s] \in StateFile
      /\ server[s] = FreshReplica
    BY DEF VotingInv, TypeOK, FilesAreCurrent, DisksWork, Restart
<1>2. /\ up' = up \cup {s}
      /\ server' = [server EXCEPT ![s] = Loaded(disk[s])]
      /\ UNCHANGED <<disk, writable, voteRequests, voteReplies,
                     appendRequests, appendReplies, elections, replicators,
                     ballots, leaders>>
    BY DEF Restart, Update, calls, threads, history
<1>3. /\ Loaded(disk[s]) \in ReplicaState
      /\ Persisted(Loaded(disk[s])) = disk[s]
    BY <1>1, LoadedType
<1>4. FilesAreCurrent'
    BY <1>1, <1>2, <1>3 DEF VotingInv, FilesAreCurrent, DisksWork
<1>5. /\ BallotsOnFile' /\ OneBallot' /\ GrantsAreBallots'
      /\ CountedAreBallots' /\ CallersAreUp'
    BY <1>2 DEF VotingInv, BallotsOnFile, OneBallot, GrantsAreBallots,
                CountedAreBallots, CallersAreUp
<1>6. \A t \in Server : server[t].term <= server'[t].term
    <2>1. server[s].term = 0 /\ server'[s].term \in Nat
        BY <1>1, <1>2, <1>3 DEF FreshReplica, ReplicaState
    <2>2. \A t \in Server \ {s} : /\ server'[t] = server[t]
                                  /\ server[t].term \in Nat
        BY <1>1, <1>2 DEF ReplicaState
    <2> QED
        BY <2>1, <2>2
<1>7. ElectionThreads'
    BY <1>2, <1>6, ThreadsStay
<1>8. WinnersHadMajority'
    BY <1>2, BallotsGrow
<1> QED
    BY <1>4, <1>5, <1>7, <1>8 DEF VotingInv

\* A disk that failed stays failed.
LEMMA DisksOnlyFail ==
    ASSUME TypeOK, [NextOrKill]_vars, DisksWork'
    PROVE  DisksWork
<1>1. writable' \subseteq writable
  <2>1. CASE UNCHANGED vars
    BY <2>1 DEF vars
  <2>2. ASSUME NEW s \in Server, ServerStep(s) \/ Kill(s) PROVE writable' \subseteq writable
    BY <2>2 DEF ServerStep, Timeout, LeaderTimeout, ElectionTimeout, Crash,
        Kill, Die, Restart, DiskFails, Put
  <2>3. ASSUME NEW m, RequestVote(m) \/ CountVote(m) \/ AppendEntries(m)
                   \/ HandleAppendReply(m) \/ VoteCallFails(m)
                   \/ AppendCallFails(m)
        PROVE writable' \subseteq writable
    BY <2>3 DEF RequestVote, CountVote, AppendEntries, HandleAppendReply,
        VoteCallFails, AppendCallFails
  <2>4. ASSUME NEW th, NEW f, SendAppendEntries(th, f) \/ ReplicatorEnds(th, f)
        PROVE writable' \subseteq writable
    BY <2>4 DEF SendAppendEntries, ReplicatorEnds
  <2>5. ASSUME NEW p, PutReturns(p) PROVE writable' \subseteq writable
    BY <2>5 DEF PutReturns
  <2> QED
    BY <2>1, <2>2, <2>3, <2>4, <2>5 DEF NextOrKill, Next, CallStep
<1> QED
    BY <1>1 DEF DisksWork, TypeOK

LEMMA VoteCallFailsElection ==
    ASSUME VotingInv, TypeOK', NEW m \in voteRequests \cup voteReplies,
           VoteCallFails(m)
    PROVE  VotingInv'
<1>1. UNCHANGED <<server, up, disk, writable, appendRequests, appendReplies,
                  elections, replicators, ballots, leaders>>
    BY DEF VoteCallFails, threads, history
<1>2. \A n \in voteRequests' : n.open => n \in voteRequests
    <2>1. CASE m \in voteRequests /\ voteRequests' \in Failed(voteRequests, m)
        <3>1. /\ voteRequests \in SUBSET VoteRequestCall
              /\ {m} \in SUBSET voteRequests
            BY <2>1 DEF VotingInv, TypeOK
        <3> QED
            BY <2>1, <3>1, OutcomesOfVoteRequests DEF Failed
    <2> QED
        BY <2>1 DEF VoteCallFails
<1>3. voteReplies' \subseteq voteReplies
    BY DEF VoteCallFails
<1>4. CallersAreUp'
    BY <1>1, <1>2, <1>3 DEF VotingInv, CallersAreUp
<1> QED
    BY <1>1, <1>2, <1>3, <1>4, NoServerChanges

LEMMA AppendCallFailsElection ==
    ASSUME VotingInv, TypeOK', NEW m \in appendRequests \cup appendReplies,
           AppendCallFails(m)
    PROVE  VotingInv'
<1>1. UNCHANGED <<server, up, disk, writable, voteRequests, voteReplies,
                  elections, replicators, ballots, leaders>>
    BY DEF AppendCallFails, threads, history
<1>2. \A n \in appendRequests' : n.open => n \in appendRequests
    <2>1. CASE /\ m \in appendRequests
               /\ appendRequests' \in Failed(appendRequests, m)
        <3>1. /\ appendRequests \in SUBSET AppendRequestCall
              /\ {m} \in SUBSET appendRequests
            BY <2>1 DEF VotingInv, TypeOK
        <3> QED
            BY <2>1, <3>1, OutcomesOfAppendRequests DEF Failed
    <2> QED
        BY <2>1 DEF AppendCallFails
<1>3. appendReplies' \subseteq appendReplies
    BY DEF AppendCallFails
<1>4. CallersAreUp'
    BY <1>1, <1>2, <1>3 DEF VotingInv, CallersAreUp
<1> QED
    BY <1>1, <1>4, NoServerChanges
-----------------------------------------------------------------------------
LEMMA NextElection ==
    ASSUME VotingInv, [NextOrKill]_vars, DisksWork'
    PROVE  VotingInv'
<1>1. TypeOK'
    BY NextType DEF VotingInv
<1>2. CASE UNCHANGED vars
    BY <1>2 DEF vars, calls, threads, history, VotingInv, TypeOK,
        FilesAreCurrent, DisksWork, BallotsOnFile, OneBallot, CallersAreUp,
        ElectionThreads, NewestOrLeftBehind, GrantsAreBallots,
        CountedAreBallots, WinnersHadMajority, counters
<1>3. ASSUME NEW s \in Server, ServerStep(s) \/ Kill(s) PROVE VotingInv'
  <2>1. ~DiskFails(s)
    BY DEF DiskFails, DisksWork
  <2> QED
    BY <1>1, <1>3, <2>1, LeaderTimeoutElection, ElectionTimeoutElection,
       CrashElection, RestartElection, PutElection
       DEF ServerStep, Timeout
<1>4. CASE \E m \in voteRequests : RequestVote(m)
    BY <1>1, <1>4, RequestVoteElection
<1>5. CASE \E m \in voteReplies : CountVote(m)
    BY <1>1, <1>5, CountVoteElection
<1>6. CASE \E th \in replicators, f \in Server :
               SendAppendEntries(th, f) \/ ReplicatorEnds(th, f)
    BY <1>1, <1>6, SendAppendEntriesElection, ReplicatorEndsElection
<1>7. CASE \E m \in appendRequests : AppendEntries(m)
    BY <1>1, <1>7, AppendEntriesElection
<1>8. CASE \E m \in appendReplies : HandleAppendReply(m)
    BY <1>1, <1>8, HandleAppendReplyElection
<1>9. CASE \E p \in puts : PutReturns(p)
    BY <1>1, <1>9, PutReturnsElection
<1>10. CASE \E m \in voteRequests \cup voteReplies : VoteCallFails(m)
    BY <1>1, <1>10, VoteCallFailsElection
<1>11. CASE \E m \in appendRequests \cup appendReplies : AppendCallFails(m)
    BY <1>1, <1>11, AppendCallFailsElection
<1> QED
    BY <1>2, <1>3, <1>4, <1>5, <1>6, <1>7, <1>8, <1>9, <1>10, <1>11
       DEF NextOrKill, Next, CallStep

\* Two winners of a term would each have a majority of its ballots, hence a
\* voter in common with two ballots in that term.
LEMMA OneWinner ==
    ASSUME VotingInv
    PROVE  OneWinnerPerTerm
<1> SUFFICES ASSUME NEW a \in leaders, NEW b \in leaders, a[1] = b[1]
             PROVE  a[2] = b[2]
    BY DEF OneWinnerPerTerm
<1>1. PICK P \in SUBSET Server : /\ IsMajority(Cardinality(P))
                                 /\ \A v \in P : <<v, a[1], a[2]>> \in ballots
    BY DEF VotingInv, WinnersHadMajority
<1>2. PICK Q \in SUBSET Server : /\ IsMajority(Cardinality(Q))
                                 /\ \A v \in Q : <<v, b[1], b[2]>> \in ballots
    BY DEF VotingInv, WinnersHadMajority
<1>3. PICK v \in Server : v \in P /\ v \in Q
    BY <1>1, <1>2, MajoritiesIntersect
<1>4. <<v, a[1], a[2]>> \in ballots /\ <<v, b[1], b[2]>> \in ballots
    BY <1>1, <1>2, <1>3
<1> QED
    BY <1>4 DEF VotingInv, OneBallot

\* As long as every write has reached the disk, the inductive invariant
\* holds of every state reached.
THEOREM ElectionInvariant == Spec => []ElectionInv
<1> DEFINE Inv == TypeOK /\ ElectionInv
<1>1. Init => Inv
    BY InitElection, InitType DEF ElectionInv
<1>2. Inv /\ [Next]_vars => Inv'
  <2> SUFFICES ASSUME Inv, [Next]_vars PROVE Inv'
    OBVIOUS
  <2>1. TypeOK'
    BY NextType DEF NextOrKill
  <2>2. DisksWork' => VotingInv'
    BY DisksOnlyFail, NextElection DEF ElectionInv, NextOrKill
  <2> QED
    BY <2>1, <2>2 DEF ElectionInv
<1> QED
    BY <1>1, <1>2, PTL DEF Spec

\* At most one server ever wins a term, whatever crashes, restarts, loses
\* or delays calls, while every write reaches the disk.
THEOREM ElectionSafetyHolds == Spec => []ElectionSafety
<1>1. Spec => []ElectionInv
    BY ElectionInvariant
<1>2. ElectionInv => ElectionSafety
    BY OneWinner DEF ElectionInv, ElectionSafety
<1> QED
    BY <1>1, <1>2, PTL

\* A vote that was given is never forgotten or changed within its term,
\* while every write reaches the disk.
THEOREM VotesAreNeverTakenBack == Spec => []VotesAreKept
<1>1. Spec => []ElectionInv
    BY ElectionInvariant
<1>2. ElectionInv => VotesAreKept
    BY DEF ElectionInv, VotingInv, VotesAreKept
<1> QED
    BY <1>1, <1>2, PTL

-----------------------------------------------------------------------------
(***************************************************************************)
(* The elections of the cluster implement Voting: a step gives at most one *)
(* vote or wins at most one election, and what VotingInv says after the    *)
(* step is what Voting asks of it.                                         *)
(***************************************************************************)
OneVote ==
    /\ UNCHANGED leaders
    /\ \E v, c \in Server, t \in Nat : ballots' = ballots \cup {<<v, t, c>>}

OneWin ==
    /\ UNCHANGED ballots
    /\ \E c \in Server, t \in Nat : leaders' = leaders \cup {<<t, c>>}

LEMMA ServerStepHistory ==
    ASSUME TypeOK, NEW s \in Server, ServerStep(s)
    PROVE  UNCHANGED history \/ OneVote
<1>1. CASE ElectionTimeout(s)
  <2> DEFINE t == BecomeCandidate(server[s], s).term
  <2>1. t \in Nat
    BY BecomeCandidateType DEF TypeOK, ReplicaState
  <2>2. UNCHANGED leaders /\ ballots' = ballots \cup {<<s, t, s>>}
    BY <1>1 DEF ElectionTimeout
  <2> QED
    BY <2>1, <2>2 DEF OneVote
<1>2. CASE ~ElectionTimeout(s)
  BY <1>2 DEF ServerStep, Timeout, LeaderTimeout, Crash, Die, Restart,
      DiskFails, Put, history
<1> QED
  BY <1>1, <1>2

LEMMA CallStepHistory ==
    ASSUME TypeOK, CallStep
    PROVE  UNCHANGED history \/ OneVote \/ OneWin
<1>1. ASSUME NEW m \in voteRequests, RequestVote(m)
      PROVE  UNCHANGED history \/ OneVote
  <2>1. /\ m.src \in Server /\ m.dst \in Server /\ m.term \in Nat
        /\ UNCHANGED leaders
    BY <1>1, TypesInHand DEF RequestVote
  <2>2. \/ ballots' = ballots \cup {<<m.dst, m.term, m.src>>}
        \/ UNCHANGED ballots
    BY <1>1 DEF RequestVote, GrantVote, DenyVote
  <2> QED
    BY <2>1, <2>2 DEF OneVote, history
<1>2. ASSUME NEW m \in voteReplies, CountVote(m)
      PROVE  UNCHANGED history \/ OneWin
  <2>1. m.src \in Server /\ m.term \in Nat /\ UNCHANGED ballots
    BY <1>2, TypesInHand DEF CountVote
  <2>2. UNCHANGED leaders \/ leaders' = leaders \cup {<<m.term, m.src>>}
    BY <1>2 DEF CountVote, VoterIsAhead, NoVote, AddVote, WinElection
  <2> QED
    BY <2>1, <2>2 DEF OneWin, history
<1>3. ASSUME NEW m, AppendEntries(m) \/ HandleAppendReply(m)
                    \/ VoteCallFails(m) \/ AppendCallFails(m)
      PROVE  UNCHANGED history
  BY <1>3 DEF AppendEntries, HandleAppendReply, VoteCallFails, AppendCallFails
<1>4. ASSUME NEW th, NEW f, SendAppendEntries(th, f) \/ ReplicatorEnds(th, f)
      PROVE  UNCHANGED history
  BY <1>4 DEF SendAppendEntries, ReplicatorEnds
<1> QED
  BY <1>1, <1>2, <1>3, <1>4 DEF CallStep

LEMMA NextHistory ==
    ASSUME TypeOK, [Next]_vars
    PROVE  UNCHANGED history \/ OneVote \/ OneWin
<1>1. CASE UNCHANGED vars
  BY <1>1 DEF vars
<1>2. ASSUME NEW p, PutReturns(p) PROVE UNCHANGED history
  BY <1>2 DEF PutReturns
<1> QED
  BY <1>1, <1>2, ServerStepHistory, CallStepHistory DEF Next

\* A vote is Voting's: the voter has no other ballot of that term.
LEMMA VoteMaps ==
    ASSUME OneVote, OneBallot'
    PROVE  Election!Next
<1>1. PICK v \in Server, c \in Server, t \in Nat :
          ballots' = ballots \cup {<<v, t, c>>}
  BY DEF OneVote
<1>2. <<v, t, c>> \in ballots' /\ ballots \subseteq ballots'
  BY <1>1
<1>3. \A b \in ballots : b[1] = v /\ b[2] = t => b[3] = c
  BY <1>2 DEF OneBallot
<1>4. Election!Vote(v, t, c)
  BY <1>1, <1>3 DEF Election!Vote, OneVote
<1> QED
  BY <1>2, <1>4 DEF Election!Next

\* A win is Voting's: the ballots of a majority were given before it.
LEMMA WinMaps ==
    ASSUME OneWin, WinnersHadMajority'
    PROVE  Election!Next
<1>1. PICK c \in Server, t \in Nat : leaders' = leaders \cup {<<t, c>>}
  BY DEF OneWin
<1>2. <<t, c>> \in leaders' /\ ballots' = ballots
  BY <1>1 DEF OneWin
<1>3. PICK votes \in SUBSET Server :
          /\ IsMajority(Cardinality(votes))
          /\ \A v \in votes : <<v, t, c>> \in ballots
  BY <1>2 DEF WinnersHadMajority
<1>4. Election!Lead(t, c)
  BY <1>1, <1>2, <1>3 DEF Election!Lead, Majorities
<1> QED
  BY <1>2, <1>4 DEF Election!Next

LEMMA DisksKeepWorking ==
    ASSUME MaxDiskFaults = 0, TypeOK, DisksWork, [Next]_vars
    PROVE  DisksWork'
<1>1. CASE UNCHANGED vars
  BY <1>1 DEF vars, DisksWork
<1>2. ASSUME NEW s \in Server, ServerStep(s) PROVE DisksWork'
  <2>1. ~DiskFails(s)
    <3>1. Cardinality(Server \ writable) = 0
      <4>1. Server \ writable = {}
        BY DEF DisksWork
      <4> QED
        BY <4>1, FS_EmptySet
    <3> QED
      BY <3>1 DEF DiskFails
  <2> QED
    BY <1>2, <2>1 DEF ServerStep, Timeout, LeaderTimeout, ElectionTimeout,
        Crash, Die, Restart, Put, DisksWork
<1>3. ASSUME NEW m, RequestVote(m) \/ CountVote(m) \/ AppendEntries(m)
                    \/ HandleAppendReply(m) \/ VoteCallFails(m)
                    \/ AppendCallFails(m)
      PROVE  DisksWork'
  BY <1>3 DEF RequestVote, CountVote, AppendEntries, HandleAppendReply,
      VoteCallFails, AppendCallFails, DisksWork
<1>4. ASSUME NEW th, NEW f, SendAppendEntries(th, f) \/ ReplicatorEnds(th, f)
      PROVE  DisksWork'
  BY <1>4 DEF SendAppendEntries, ReplicatorEnds, DisksWork
<1>5. ASSUME NEW p, PutReturns(p) PROVE DisksWork'
  BY <1>5 DEF PutReturns, DisksWork
<1> QED
  BY <1>1, <1>2, <1>3, <1>4, <1>5 DEF Next, CallStep

\* When no disk fails, the elections of _start_election and RequestVote are
\* elections of Voting: every step of the cluster gives one vote, wins one
\* election, or does nothing that Voting sees.
THEOREM RaftImplementsVoting ==
    ASSUME MaxDiskFaults = 0
    PROVE  Spec => ImplementsVoting
<1> DEFINE Inv == DisksWork /\ VotingInv
<1>1. Init => Inv /\ Election!Init
  <2> SUFFICES ASSUME Init PROVE Inv /\ Election!Init
    OBVIOUS
  <2>1. VotingInv
    BY InitElection
  <2> QED
    BY <2>1 DEF Init, DisksWork, Election!Init
<1>2. Inv /\ [Next]_vars => Inv'
  <2> SUFFICES ASSUME Inv, [Next]_vars PROVE Inv'
    OBVIOUS
  <2>1. DisksWork'
    BY DisksKeepWorking DEF VotingInv
  <2> QED
    BY <2>1, NextElection DEF NextOrKill
<1>3. Inv /\ Inv' /\ [Next]_vars => [Election!Next]_<<ballots, leaders>>
  <2> SUFFICES ASSUME Inv, Inv', [Next]_vars
               PROVE  [Election!Next]_<<ballots, leaders>>
    OBVIOUS
  <2>1. UNCHANGED history \/ OneVote \/ OneWin
    BY NextHistory DEF VotingInv
  <2>2. OneBallot' /\ WinnersHadMajority'
    BY DEF VotingInv
  <2> QED
    BY <2>1, <2>2, VoteMaps, WinMaps DEF history
<1> QED
  BY <1>1, <1>2, <1>3, PTL DEF Spec, ImplementsVoting, Election!Spec
=============================================================================
