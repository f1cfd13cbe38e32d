------------------------ MODULE RaftReplicatorProofs ------------------------
(***************************************************************************)
(* A Put acknowledged in the term of its entry finds the entry in the log, *)
(* and a leader that has won one election only has a replicator thread,    *)
(* whatever calls are refused, lost or late.                               *)
(***************************************************************************)
EXTENDS RaftLeaderProofs, RaftRounds

(***************************************************************************)
(* A server that goes on running, and one that leads.                      *)
(***************************************************************************)

LogGrows(s) ==
    \/ SameLog(s)
    \/ \E e \in Entry : server'[s].log = Append(server[s].log, e)

\* The log of a running server is that of a leader until its term rises.
LEMMA RunningServer ==
    ASSUME TypeOK, LeaderInv, [NextOrKill]_vars,
           NEW s \in up, s \in up'
    PROVE  /\ server'[s].term \in Nat /\ server[s].term <= server'[s].term
           /\ /\ server[s].role = "LEADER"
              /\ server'[s].term = server[s].term
              => server'[s].role = "LEADER" /\ LogGrows(s)
<1>1. s \in Server
    BY DEF TypeOK
<1>2. server[s].term \in Nat /\ server'[s].term \in Nat
    BY <1>1, NextType DEF TypeOK, ReplicaState
<1>3. \/ server'[s] = server[s]
      \/ MoveStep(s) \/ WinStep(s) \/ AppendStep(s)
    BY <1>1, StepsOfServers, StepOfServer
<1>4. CASE server'[s] = server[s]
    BY <1>2, <1>4 DEF LogGrows, SameLog
<1>5. CASE Keeps(s)
    BY <1>2, <1>5 DEF LogGrows, Keeps
<1>6. CASE HearsOfTerm(s) \/ Stands(s)
    BY <1>2, <1>6 DEF HearsOfTerm, Stands
<1>7. ASSUME NEW m \in appendRequests, Follows(s, m)
      PROVE  /\ server[s].term <= server'[s].term
             /\ server[s].role = "LEADER" => server[s].term < server'[s].term
    BY <1>2, <1>7 DEF Follows
<1>8. CASE WinStep(s)
    <2>1. PICK m \in voteReplies : Wins(s, m)
        BY <1>8 DEF WinStep
    <2>2. m.src = s /\ m.thread = server[s].term
        BY <2>1 DEF Wins, LeaderInv, LeadersCountNoVotes
    <2>3. server[s].role # "LEADER"
        BY <1>1, <2>2 DEF LeaderInv, LeadersCountNoVotes, ElectionOver
    <2> QED
        BY <1>2, <2>1, <2>3 DEF Wins
<1>9. CASE AppendStep(s)
    <2>1. PICK c \in Command : Appends(s, c)
        BY <1>9 DEF AppendStep
    <2>2. [term |-> server[s].term, command |-> c] \in Entry
        BY <1>2 DEF Entry
    <2> QED
        BY <1>2, <2>1, <2>2 DEF Appends, LogGrows
<1>10. ~Stops(s) /\ ~Starts(s)
    BY DEF Stops, Starts
<1> QED
    BY <1>2, <1>3, <1>4, <1>5, <1>6, <1>7, <1>8, <1>9, <1>10
       DEF MoveStep, Moves

\* What is in a log stays in one that grows.
LEMMA GrownLog ==
    ASSUME TypeOK, NEW s \in Server, LogGrows(s)
    PROVE  /\ Len(server[s].log) \in Nat /\ Len(server'[s].log) \in Nat
           /\ Len(server[s].log) <= Len(server'[s].log)
           /\ \A i \in 1..Len(server[s].log) :
                  server'[s].log[i] = server[s].log[i]
<1>1. server[s].log \in Log /\ Len(server[s].log) \in Nat
    BY LenProperties DEF TypeOK, ReplicaState, Log
<1>2. CASE SameLog(s)
    BY <1>1, <1>2 DEF SameLog
<1>3. ASSUME NEW e \in Entry, server'[s].log = Append(server[s].log, e)
      PROVE  /\ Len(server'[s].log) = Len(server[s].log) + 1
             /\ \A i \in 1..Len(server[s].log) :
                    server'[s].log[i] = server[s].log[i]
    BY <1>1, <1>3, AppendProperties DEF Log
<1> QED
    BY <1>1, <1>2, <1>3 DEF LogGrows
-----------------------------------------------------------------------------
(***************************************************************************)
(* Put handlers.                                                           *)
(***************************************************************************)

\* A handler was there before, or its Put has just been taken.
LEMMA OriginOfPuts ==
    ASSUME TypeOK, [NextOrKill]_vars, NEW p \in puts'
    PROVE  \/ p \in puts /\ (p.server \in up => p.server \in up')
           \/ \E s \in Server, c \in Command :
                  /\ Put(s, c)
                  /\ LET r == AppendCommand(server[s], c)
                     IN  p = [server |-> s, index |-> Len(r.log),
                              entry |-> r.log[Len(r.log)]]
<1> DEFINE Old == p \in puts /\ (p.server \in up => p.server \in up')
<1>1. CASE UNCHANGED vars
    BY <1>1 DEF vars, threads
<1>2. ASSUME NEW s \in Server, Die(s)
      PROVE  Old
    BY <1>2 DEF Die
<1>3. ASSUME NEW s \in Server, Timeout(s) \/ Restart(s) \/ DiskFails(s)
      PROVE  Old
    BY <1>3 DEF Timeout, LeaderTimeout, ElectionTimeout, Restart, DiskFails,
        threads
<1>4. ASSUME NEW m, \/ RequestVote(m) \/ CountVote(m) \/ AppendEntries(m)
                    \/ HandleAppendReply(m) \/ VoteCallFails(m)
                    \/ AppendCallFails(m)
      PROVE  Old
    BY <1>4 DEF RequestVote, CountVote, AppendEntries, HandleAppendReply,
        VoteCallFails, AppendCallFails, threads
<1>5. ASSUME NEW th, NEW f, SendAppendEntries(th, f) \/ ReplicatorEnds(th, f)
      PROVE  Old
    BY <1>5 DEF SendAppendEntries, ReplicatorEnds
<1>6. ASSUME NEW q, PutReturns(q)
      PROVE  Old
    BY <1>6 DEF PutReturns
<1>7. ASSUME NEW s \in Server, NEW c \in Command, Put(s, c)
      PROVE  \/ Old
             \/ LET r == AppendCommand(server[s], c)
                IN  p = [server |-> s, index |-> Len(r.log),
                         entry |-> r.log[Len(r.log)]]
    BY <1>7 DEF Put
<1> QED
    BY <1>1, <1>2, <1>3, <1>4, <1>5, <1>6, <1>7
       DEF NextOrKill, Next, ServerStep, CallStep, Crash, Kill

LEMMA NextPutsOnLog ==
    ASSUME TypeOK, LeaderInv, PutsOnLog, [NextOrKill]_vars
    PROVE  PutsOnLog'
<1> SUFFICES ASSUME NEW p \in puts'
             PROVE  /\ p.server \in up'
                    /\ p.entry.term <= server'[p.server].term
                    /\ p.entry.term = server'[p.server].term =>
                           /\ server'[p.server].role = "LEADER"
                           /\ p.index \in 1..Len(server'[p.server].log)
                           /\ server'[p.server].log[p.index] = p.entry
    BY DEF PutsOnLog
<1>1. CASE p \in puts /\ (p.server \in up => p.server \in up')
    <2> DEFINE s == p.server
    <2>1. /\ s \in up /\ s \in up' /\ s \in Server
          /\ p.entry.term \in Nat /\ server[s].term \in Nat
        BY <1>1 DEF PutsOnLog, TypeOK, Entry, ReplicaState
    <2>2. /\ p.entry.term <= server[s].term
          /\ p.entry.term = server[s].term =>
                 /\ server[s].role = "LEADER"
                 /\ p.index \in 1..Len(server[s].log)
                 /\ server[s].log[p.index] = p.entry
        BY <1>1 DEF PutsOnLog
    <2>3. /\ server'[s].term \in Nat /\ server[s].term <= server'[s].term
          /\ /\ server[s].role = "LEADER"
             /\ server'[s].term = server[s].term
             => server'[s].role = "LEADER" /\ LogGrows(s)
        BY <2>1, RunningServer
    <2> HIDE DEF s
    <2>4. ASSUME p.entry.term = server'[s].term
          PROVE  /\ server'[s].role = "LEADER"
                 /\ p.index \in 1..Len(server'[s].log)
                 /\ server'[s].log[p.index] = p.entry
        <3>1. p.entry.term = server[s].term /\ server'[s].term = server[s].term
            BY <2>1, <2>2, <2>3, <2>4
        <3>2. server'[s].role = "LEADER" /\ LogGrows(s)
            BY <2>2, <2>3, <3>1
        <3>3. /\ Len(server[s].log) \in Nat /\ Len(server'[s].log) \in Nat
              /\ Len(server[s].log) <= Len(server'[s].log)
              /\ \A i \in 1..Len(server[s].log) :
                     server'[s].log[i] = server[s].log[i]
            BY <2>1, <3>2, GrownLog
        <3> QED
            BY <2>2, <3>1, <3>2, <3>3
    <2>5. p.entry.term <= server'[s].term
        BY <2>1, <2>2, <2>3
    <2> QED
        BY <2>1, <2>4, <2>5 DEF s
<1>2. ASSUME NEW s \in Server, NEW c \in Command, Put(s, c),
             LET r == AppendCommand(server[s], c)
             IN  p = [server |-> s, index |-> Len(r.log),
                      entry |-> r.log[Len(r.log)]]
      PROVE  /\ p.server = s /\ s \in up'
             /\ p.entry.term = server'[s].term
             /\ server'[s].role = "LEADER"
             /\ p.index \in 1..Len(server'[s].log)
             /\ server'[s].log[p.index] = p.entry
    <2> DEFINE log == server[s].log
               e == [term |-> server[s].term, command |-> c]
    <2>1. /\ log \in Log /\ Len(log) \in Nat /\ e \in Entry
          /\ server[s] \in ReplicaState
        BY LenProperties DEF TypeOK, ReplicaState, Log, Entry
    <2>2. AppendCommand(server[s], c).log = Append(log, e)
        BY <2>1, AppendCommandFields
    <2>3. /\ s \in up' /\ server[s].role = "LEADER"
        BY <1>2 DEF Put
    <2>4. /\ server'[s].log = Append(log, e)
          /\ server'[s].term = server[s].term
          /\ server'[s].role = server[s].role
        BY <1>2, PutMoves DEF Appends
    <2> HIDE DEF log
    <2>5. /\ Len(Append(log, e)) = Len(log) + 1
          /\ Append(log, e)[Len(log) + 1] = e
        BY <2>1, AppendedLog
    <2>6. /\ p.server = s /\ p.index = Len(log) + 1 /\ p.entry = e
        BY <1>2, <2>2, <2>5
    <2>7. p.entry.term = server[s].term
        BY <2>6
    <2>8. /\ p.index \in 1..Len(server'[s].log)
          /\ server'[s].log[p.index] = p.entry
        BY <2>1, <2>4, <2>5, <2>6
    <2> QED
        BY <2>3, <2>4, <2>6, <2>7, <2>8
<1>3. p.entry.term = server'[p.server].term /\ p.entry.term \in Nat
          => p.entry.term <= server'[p.server].term
    OBVIOUS
<1>4. p.entry.term \in Nat
    BY NextType DEF TypeOK, Entry
<1> QED
    BY <1>1, <1>2, <1>3, <1>4, OriginOfPuts
-----------------------------------------------------------------------------
(***************************************************************************)
(* Calls and threads: where they come from, and when they end.             *)
(***************************************************************************)

\* An open request was open before or has just been sent.
LEMMA OriginOfUnanswered ==
    ASSUME TypeOK, [NextOrKill]_vars, NEW m \in Unanswered'
    PROVE  \/ m \in Unanswered
           \/ \E th \in replicators, f \in Server :
                  /\ SendAppendEntries(th, f)
                  /\ m = AppendRequest(th, server[th.server], f)
<1> DEFINE Old == m \in appendRequests
<1>1. m \in appendRequests' /\ m.open
    BY DEF Unanswered
<1>2. appendRequests' \subseteq appendRequests => Old
    BY <1>1
<1>3. ASSUME NEW abandoned \in SUBSET appendRequests,
             appendRequests' \in Outcomes(appendRequests, abandoned)
      PROVE  Old
    BY <1>1, <1>3, OutcomesOfAppendRequests DEF TypeOK
<1>4. ASSUME NEW th \in replicators, ReplicatorReturns(th)
      PROVE  Old
    <2>1. {n \in appendRequests : Awaits(th, n)} \in SUBSET appendRequests
        OBVIOUS
    <2> QED
        BY <1>3, <1>4, <2>1 DEF ReplicatorReturns
<1>5. CASE UNCHANGED vars
    BY <1>1, <1>2, <1>5 DEF vars, calls, Unanswered
<1>6. ASSUME NEW s \in Server, ServerStep(s) \/ Kill(s)
      PROVE  Old
    <2>1. CASE Die(s)
        <3>1. {n \in appendRequests : n.src = s} \in SUBSET appendRequests
            OBVIOUS
        <3> QED
            BY <1>3, <2>1, <3>1 DEF Die
    <2> QED
        BY <1>2, <1>6, <2>1 DEF ServerStep, Timeout, LeaderTimeout,
            ElectionTimeout, Crash, Kill, Restart, DiskFails, Put, calls
<1>7. ASSUME NEW n, RequestVote(n) \/ CountVote(n) \/ AppendEntries(n)
                    \/ VoteCallFails(n)
      PROVE  Old
    BY <1>2, <1>7 DEF RequestVote, CountVote, AppendEntries, VoteCallFails
<1>8. ASSUME NEW n, HandleAppendReply(n)
      PROVE  Old
    BY <1>2, <1>4, <1>8 DEF HandleAppendReply, DeposedMeanwhile,
        FollowerIsAhead, UseReply, ReplicatorsAwaiting
<1>9. ASSUME NEW n, AppendCallFails(n)
      PROVE  Old
    <2>1. CASE n \in appendRequests /\ appendRequests' \in Failed(appendRequests, n)
        <3>1. {n} \in SUBSET appendRequests
            BY <2>1
        <3> QED
            BY <1>2, <1>3, <2>1, <3>1 DEF Failed
    <2> QED
        BY <1>2, <1>9, <2>1 DEF AppendCallFails
<1>10. ASSUME NEW p, PutReturns(p)
       PROVE  Old
    BY <1>2, <1>10 DEF PutReturns, calls
<1>11. ASSUME NEW th \in replicators, NEW f, ReplicatorEnds(th, f)
       PROVE  Old
    BY <1>4, <1>11 DEF ReplicatorEnds
<1>12. ASSUME NEW th \in replicators, NEW f \in Server, SendAppendEntries(th, f)
       PROVE  Old \/ m = AppendRequest(th, server[th.server], f)
    BY <1>1, <1>12 DEF SendAppendEntries
<1> QED
    BY <1>1, <1>5, <1>6, <1>7, <1>8, <1>9, <1>10, <1>11, <1>12
       DEF NextOrKill, Next, CallStep, Unanswered

\* m answers n, and nothing else is answered in the same step.
Answers(m, n) ==
    /\ AppendEntries(n)
    /\ appendReplies' \subseteq appendReplies \cup {m}
    /\ m.src = n.src /\ m.dst = n.dst /\ m.thread = n.thread
    /\ IF m.success THEN m.matched = n.prevLogIndex + Len(n.entries)
       ELSE \/ m.term = server[n.dst].term /\ n.term < m.term
            \/ n.prevLogIndex > 0

LEMMA OriginOfAppendReplies ==
    ASSUME TypeOK, [NextOrKill]_vars, NEW m \in appendReplies'
    PROVE  m \in appendReplies \/ \E n \in Unanswered : Answers(m, n)
<1> DEFINE Old == m \in appendReplies
<1>1. appendReplies' \subseteq appendReplies => Old
    OBVIOUS
<1>2. CASE UNCHANGED vars
    BY <1>2 DEF vars, calls
<1>3. ASSUME NEW s \in Server, ServerStep(s) \/ Kill(s)
      PROVE  Old
    BY <1>1, <1>3 DEF ServerStep, Timeout, LeaderTimeout, ElectionTimeout,
        Crash, Kill, Die, Restart, DiskFails, Put, calls
<1>4. ASSUME NEW n, RequestVote(n) \/ CountVote(n) \/ HandleAppendReply(n)
                    \/ VoteCallFails(n) \/ AppendCallFails(n)
      PROVE  Old
    BY <1>1, <1>4 DEF RequestVote, CountVote, HandleAppendReply,
        DeposedMeanwhile, FollowerIsAhead, UseReply, ReplicatorReturns,
        VoteCallFails, AppendCallFails
<1>5. ASSUME NEW p, PutReturns(p)
      PROVE  Old
    BY <1>5 DEF PutReturns, calls
<1>6. ASSUME NEW th, NEW f, SendAppendEntries(th, f) \/ ReplicatorEnds(th, f)
      PROVE  Old
    BY <1>1, <1>6 DEF SendAppendEntries, ReplicatorEnds, ReplicatorReturns
<1>7. ASSUME NEW n \in appendRequests, AppendEntries(n), ~Old
      PROVE  n \in Unanswered /\ Answers(m, n)
    <2>1. /\ n.dst \in Server /\ n.term \in Nat /\ n.prevLogIndex \in Nat
          /\ server[n.dst] \in ReplicaState /\ server[n.dst].term \in Nat
        BY TypesInHand
    <2>2. CASE RejectStaleLeader(n)
        <3>1. /\ n.open /\ m = AppendReply(n, server[n.dst], FALSE)
              /\ appendReplies' \subseteq appendReplies \cup {m}
            BY <1>7, <2>2 DEF RejectStaleLeader
        <3>2. n.term < server[n.dst].term
            BY <2>2 DEF RejectStaleLeader
        <3> QED
            BY <1>7, <3>1, <3>2 DEF AppendReply, Answers, Unanswered
    <2>3. CASE RefuseEntries(n)
        <3>1. /\ n.open /\ m = AppendReply(n, Follower(n), FALSE)
              /\ appendReplies' \subseteq appendReplies \cup {m}
            BY <1>7, <2>3 DEF RefuseEntries, FollowLeader
        <3>2. n.prevLogIndex > 0
            BY <2>3 DEF RefuseEntries, Consistent, HasPrevious
        <3> QED
            BY <1>7, <3>1, <3>2 DEF AppendReply, Answers, Unanswered
    <2>4. CASE TakeEntries(n)
        <3> DEFINE r == AppendNewEntries(Follower(n), n)
        <3>1. /\ n.open /\ m = AppendReply(n, r, TRUE)
              /\ appendReplies' \subseteq appendReplies \cup {m}
            BY <1>7, <2>4 DEF TakeEntries, FollowLeader
        <3> HIDE DEF r
        <3> QED
            BY <1>7, <3>1 DEF AppendReply, Answers, Unanswered
    <2>5. ~FailAssertion(n)
        BY <1>7 DEF FailAssertion
    <2> QED
        BY <1>7, <2>2, <2>3, <2>4, <2>5 DEF AppendEntries
<1> QED
    BY <1>2, <1>3, <1>4, <1>5, <1>6, <1>7 DEF NextOrKill, Next, CallStep

\* A replicator was there before, goes on with its round, or is started by
\* the thread that wins the election it is named by.
LEMMA OriginOfThreads ==
    ASSUME TypeOK, [NextOrKill]_vars, NEW th \in replicators'
    PROVE  \/ th \in replicators
           \/ \E o \in replicators, f \in Server :
                  /\ SendAppendEntries(o, f)
                  /\ th = [o EXCEPT !.left = Due(o) \ {f}]
           \/ \E m \in voteReplies :
                  /\ CountVote(m) /\ WinElection(m)
                  /\ th = [server |-> m.src, thread |-> m.thread,
                           left |-> Server \ {m.src}]
<1> DEFINE Old == th \in replicators
<1>1. CASE UNCHANGED vars
    BY <1>1 DEF vars, threads
<1>2. ASSUME NEW s \in Server, ServerStep(s) \/ Kill(s)
      PROVE  Old
    BY <1>2 DEF ServerStep, Timeout, LeaderTimeout, ElectionTimeout,
        Crash, Kill, Die, Restart, DiskFails, Put, threads
<1>3. ASSUME NEW m \in voteReplies, CountVote(m), ~Old
      PROVE  /\ WinElection(m)
             /\ th = [server |-> m.src, thread |-> m.thread,
                      left |-> Server \ {m.src}]
    BY <1>3 DEF CountVote, VoterIsAhead, NoVote, AddVote, WinElection
<1>4. ASSUME NEW n, RequestVote(n) \/ AppendEntries(n)
                    \/ VoteCallFails(n) \/ AppendCallFails(n)
      PROVE  Old
    BY <1>4 DEF RequestVote, AppendEntries, VoteCallFails, AppendCallFails,
        threads
<1>5. ASSUME NEW n, HandleAppendReply(n)
      PROVE  Old
    BY <1>5 DEF HandleAppendReply, DeposedMeanwhile, FollowerIsAhead, UseReply,
        ReplicatorReturns
<1>6. ASSUME NEW p, PutReturns(p)
      PROVE  Old
    BY <1>6 DEF PutReturns
<1>7. ASSUME NEW o, NEW f, ReplicatorEnds(o, f)
      PROVE  Old
    BY <1>7 DEF ReplicatorEnds, ReplicatorReturns
<1>8. ASSUME NEW o \in replicators, NEW f \in Server, SendAppendEntries(o, f)
      PROVE  Old \/ th = [o EXCEPT !.left = Due(o) \ {f}]
    BY <1>8 DEF SendAppendEntries
<1> QED
    BY <1>1, <1>2, <1>3, <1>4, <1>5, <1>6, <1>7, <1>8
       DEF NextOrKill, Next, CallStep

\* No call waits for the thread any more.
Released(th) ==
    /\ \A m \in appendRequests' : m.open => ~Awaits(th, m)
    /\ \A m \in appendReplies' : ~Awaits(th, m)

\* A thread stays as it is, sends, or ends, and with it all its calls. It
\* only ends when its server leads no more or a request cannot be built.
LEMMA FateOfThreads ==
    ASSUME TypeOK, [NextOrKill]_vars, NEW th \in replicators
    PROVE  \/ th \in replicators'
           \/ \E f \in Server :
                  /\ SendAppendEntries(th, f)
                  /\ [th EXCEPT !.left = Due(th) \ {f}] \in replicators'
           \/ /\ Released(th)
              /\ \/ server'[th.server].role # "LEADER"
                 \/ \E f \in Due(th) : ~Sendable(server[th.server], f)
<1> DEFINE s == th.server
           Kept == th \in replicators'
<1>1. replicators \subseteq replicators' => Kept
    OBVIOUS
<1>2. s \in Server /\ server[s] \in ReplicaState
    BY TypesInHand
<1>3. ASSUME NEW abandoned \in SUBSET appendRequests,
             appendRequests' \in Outcomes(appendRequests, abandoned),
             NEW m \in appendRequests', m.open
      PROVE  m \in appendRequests \ abandoned
    BY <1>3, OutcomesOfAppendRequests DEF TypeOK
<1>4. ASSUME NEW o, ReplicatorReturns(o)
      PROVE  Kept \/ Released(th)
    <2>1. CASE o = th
        <3>1. {n \in appendRequests : Awaits(th, n)} \in SUBSET appendRequests
            OBVIOUS
        <3>2. \A m \in appendRequests' : m.open => ~Awaits(th, m)
            BY <1>3, <1>4, <2>1, <3>1 DEF ReplicatorReturns
        <3> QED
            BY <1>4, <2>1, <3>2 DEF ReplicatorReturns, Released
    <2>2. CASE o # th
        BY <1>4, <2>2 DEF ReplicatorReturns
    <2> QED
        BY <2>1, <2>2
<1>5. CASE UNCHANGED vars
    BY <1>5 DEF vars, threads
<1>6. ASSUME NEW t \in Server, Die(t)
      PROVE  Kept \/ (Released(th) /\ server'[s].role # "LEADER")
    <2>1. CASE t = s
        <3>1. {n \in appendRequests : n.src = s} \in SUBSET appendRequests
            OBVIOUS
        <3>2. \A m \in appendRequests' : m.open => ~Awaits(th, m)
            BY <1>3, <1>6, <2>1, <3>1 DEF Die, Awaits
        <3>3. \A m \in appendReplies' : ~Awaits(th, m)
            BY <1>6, <2>1 DEF Die, Awaits
        <3>4. server'[s].role = "FOLLOWER"
            BY <1>6, <2>1, DieMoves, FreshFields DEF Stops
        <3> QED
            BY <3>2, <3>3, <3>4 DEF Released
    <2>2. CASE t # s
        BY <1>6, <2>2 DEF Die
    <2> QED
        BY <2>1, <2>2
<1>7. ASSUME NEW t, Timeout(t) \/ Restart(t) \/ DiskFails(t)
                    \/ \E c : Put(t, c)
      PROVE  Kept
    BY <1>7 DEF Timeout, LeaderTimeout, ElectionTimeout, Restart, DiskFails,
        Put, threads
<1>8. ASSUME NEW n, CountVote(n)
      PROVE  Kept
    BY <1>8 DEF CountVote, VoterIsAhead, NoVote, AddVote, WinElection
<1>9. ASSUME NEW n, RequestVote(n) \/ AppendEntries(n)
                    \/ VoteCallFails(n) \/ AppendCallFails(n)
      PROVE  Kept
    BY <1>9 DEF RequestVote, AppendEntries, VoteCallFails, AppendCallFails,
        threads
<1>10. ASSUME NEW p, PutReturns(p)
       PROVE  Kept
    BY <1>10 DEF PutReturns
<1>11. ASSUME NEW o \in replicators, NEW f \in Server, ReplicatorEnds(o, f)
       PROVE  \/ Kept
              \/ /\ Released(th)
                 /\ \/ server'[s].role # "LEADER"
                    \/ \E d \in Due(th) : ~Sendable(server[s], d)
    <2>1. Kept \/ Released(th)
        BY <1>4, <1>11 DEF ReplicatorEnds
    <2>2. o # th => Kept
        BY <1>11 DEF ReplicatorEnds, ReplicatorReturns
    <2>3. UNCHANGED server
        BY <1>11 DEF ReplicatorEnds
    <2>4. o = th => /\ f \in Due(th)
                    /\ server[s].role # "LEADER" \/ ~Sendable(server[s], f)
        BY <1>11 DEF ReplicatorEnds
    <2> QED
        BY <2>1, <2>2, <2>3, <2>4
<1>12. ASSUME NEW o \in replicators, NEW f \in Server, SendAppendEntries(o, f)
       PROVE  \/ Kept
              \/ /\ SendAppendEntries(th, f)
                 /\ [th EXCEPT !.left = Due(th) \ {f}] \in replicators'
    BY <1>12 DEF SendAppendEntries
<1>13. ASSUME NEW n \in appendReplies, HandleAppendReply(n)
       PROVE  Kept \/ (Released(th) /\ server'[s].role # "LEADER")
    <2>1. CASE UseReply(n)
        BY <2>1 DEF UseReply
    <2>2. ASSUME NEW o \in ReplicatorsAwaiting(n), ReplicatorReturns(o),
                 server'[n.src].role # "LEADER"
          PROVE  Kept \/ (Released(th) /\ server'[s].role # "LEADER")
        <3>1. Kept \/ Released(th)
            BY <1>4, <2>2
        <3>2. o # th => Kept
            BY <2>2 DEF ReplicatorReturns
        <3>3. o = th => n.src = s
            BY <2>2 DEF ReplicatorsAwaiting, Awaits
        <3> QED
            BY <2>2, <3>1, <3>2, <3>3
    <2>3. CASE DeposedMeanwhile(n)
        BY <2>2, <2>3 DEF DeposedMeanwhile
    <2>4. CASE FollowerIsAhead(n)
        <3> DEFINE r == OnHigherTermDiscovery(server[n.src], n.term)
        <3>1. n.src \in Server /\ n.term \in Nat /\ server[n.src] \in ReplicaState
            BY TypesInHand
        <3>2. r.role = "FOLLOWER"
            BY <3>1, OnHigherTermDiscoveryFields
        <3>3. server' = [server EXCEPT ![n.src] = r]
            BY <2>4 DEF FollowerIsAhead, Update
        <3>4. server'[n.src].role # "LEADER"
            BY <3>1, <3>2, <3>3 DEF TypeOK
        <3> QED
            BY <2>2, <2>4, <3>4 DEF FollowerIsAhead
    <2> QED
        BY <1>13, <2>1, <2>3, <2>4 DEF HandleAppendReply
<1> QED
    BY <1>5, <1>6, <1>7, <1>8, <1>9, <1>10, <1>11, <1>12, <1>13
       DEF NextOrKill, Next, ServerStep, CallStep, Crash, Kill

\* A process that dies leaves no call that waits and no thread behind.
LEMMA DeadCallNobody ==
    ASSUME TypeOK, [NextOrKill]_vars, NEW s \in up, s \notin up'
    PROVE  /\ \A m \in voteRequests' \cup appendRequests' : m.open => m.src # s
           /\ \A m \in voteReplies' \cup appendReplies' : m.src # s
           /\ \A th \in replicators' : th.server # s
<1>1. Die(s)
    <2>1. ASSUME NEW t, Die(t)
          PROVE  t = s
        BY <2>1 DEF Die
    <2>2. up' # up
        OBVIOUS
    <2>3. ASSUME NEW t, Restart(t)
          PROVE  FALSE
        BY <2>3 DEF Restart
    <2> QED
        BY <2>1, <2>2, <2>3
           DEF NextOrKill, Next, vars, ServerStep, Timeout, LeaderTimeout,
               ElectionTimeout, Crash, Kill, DiskFails, Put, CallStep,
               RequestVote, CountVote, SendAppendEntries, ReplicatorEnds,
               AppendEntries, HandleAppendReply, VoteCallFails,
               AppendCallFails, PutReturns
<1>2. /\ {m \in voteRequests : m.src = s} \in SUBSET voteRequests
      /\ {m \in appendRequests : m.src = s} \in SUBSET appendRequests
    OBVIOUS
<1>3. \A m \in voteRequests' : m.open => m.src # s
    BY <1>1, <1>2, OutcomesOfVoteRequests DEF Die, TypeOK
<1>4. \A m \in appendRequests' : m.open => m.src # s
    BY <1>1, <1>2, OutcomesOfAppendRequests DEF Die, TypeOK
<1> QED
    BY <1>1, <1>3, <1>4 DEF Die

LEMMA NextCallers ==
    ASSUME TypeOK, CallersAreUp, [NextOrKill]_vars
    PROVE  CallersAreUp'
<1>1. ASSUME NEW s \in up
      PROVE  \/ s \in up'
             \/ /\ \A m \in voteRequests' \cup appendRequests' :
                       m.open => m.src # s
                /\ \A m \in voteReplies' \cup appendReplies' : m.src # s
                /\ \A th \in replicators' : th.server # s
    BY DeadCallNobody
<1>2. ASSUME NEW m \in voteRequests', m.open
      PROVE  m.src \in up'
    <2>1. CASE m \in voteRequests
        BY <1>1, <1>2, <2>1 DEF CallersAreUp
    <2> QED
        BY <1>2, <2>1, OriginOfVoteRequests
<1>3. ASSUME NEW m \in appendRequests', m.open
      PROVE  m.src \in up'
    <2>1. m \in Unanswered'
        BY <1>3 DEF Unanswered
    <2>2. CASE m \in Unanswered
        BY <1>1, <1>3, <2>2 DEF CallersAreUp, Unanswered
    <2>3. ASSUME NEW th \in replicators, NEW f \in Server,
                 SendAppendEntries(th, f),
                 m = AppendRequest(th, server[th.server], f)
          PROVE  m.src \in up'
        BY <2>3 DEF SendAppendEntries, AppendRequest, CallersAreUp
    <2> QED
        BY <2>1, <2>2, <2>3, OriginOfUnanswered
<1>4. ASSUME NEW m \in voteReplies'
      PROVE  m.src \in up'
    BY <1>1, <1>4, OriginOfVoteReplies DEF CallersAreUp
<1>5. ASSUME NEW m \in appendReplies'
      PROVE  m.src \in up'
    BY <1>1, <1>5, OriginOfAppendReplies DEF CallersAreUp, Unanswered, Answers
<1>6. ASSUME NEW th \in replicators'
      PROVE  th.server \in up'
    <2>1. th \in replicators => th.server \in up'
        BY <1>1, <1>6 DEF CallersAreUp
    <2>2. ASSUME NEW o \in replicators, NEW f \in Server,
                 SendAppendEntries(o, f), th = [o EXCEPT !.left = Due(o) \ {f}]
          PROVE  th.server \in up'
        <3>1. o.server \in up /\ UNCHANGED up
            BY <2>2 DEF SendAppendEntries, CallersAreUp
        <3>2. th.server = o.server
            BY <2>2 DEF TypeOK
        <3> QED
            BY <3>1, <3>2
    <2>3. ASSUME NEW m \in voteReplies, CountVote(m), th.server = m.src
          PROVE  th.server \in up'
        BY <2>3 DEF CountVote, CallersAreUp
    <2> QED
        BY <2>1, <2>2, <2>3, OriginOfThreads
<1> QED
    BY <1>2, <1>3, <1>4, <1>5, <1>6 DEF CallersAreUp
-----------------------------------------------------------------------------
(***************************************************************************)
(* What a step does to a server that leads after it.                       *)
(***************************************************************************)

\* The server led before, and its next_index stays.
LeadsOn(s) ==
    /\ server[s].role = "LEADER"
    /\ server'[s].term = server[s].term
    /\ server'[s].nextIndex = server[s].nextIndex
    /\ LogGrows(s)

LEMMA NextIndexFields ==
    ASSUME NEW r \in ReplicaState, NEW s \in Server
    PROVE  /\ \A f \in Server : CastVote(r, f).nextIndex = r.nextIndex
           /\ \A c \in Command : AppendCommand(r, c).nextIndex = r.nextIndex
           /\ [r EXCEPT !.timer = FALSE].nextIndex = r.nextIndex
           /\ \A f \in Server \ {s} :
                  BecomeLeader(r, s).nextIndex[f] = Len(BecomeLeader(r, s).log) + 1
BY DEF CastVote, AppendCommand, ResetElectionTimer, BecomeLeader, ReplicaState

LEMMA UsedReplyIndex ==
    ASSUME NEW r \in ReplicaState, NEW m, NEW s
    PROVE  AdvanceCommitIndex(RecordReply(r, m), s).nextIndex =
               [r.nextIndex EXCEPT ![m.dst] =
                    IF m.success THEN m.matched + 1 ELSE @ - 1]
<1> DEFINE next == [r.nextIndex EXCEPT ![m.dst] =
                        IF m.success THEN m.matched + 1 ELSE @ - 1]
           recorded == [r EXCEPT !.nextIndex = next]
           new == AdvanceCommitIndex(recorded, s)
           last == Max(Committable(recorded, s))
           committed == [recorded EXCEPT !.commitIndex = last]
           applied == committed.applied \o
                          SubSeq(committed.log, Len(committed.applied) + 1,
                                 committed.commitIndex)
<1>1. RecordReply(r, m) = recorded
    BY DEF RecordReply
<1>2. new = recorded \/ new = [committed EXCEPT !.applied = applied]
    BY DEF AdvanceCommitIndex, ApplyCommittedEntries
<1> HIDE DEF next, last, applied, new
<1>3. recorded.nextIndex = next /\ committed.nextIndex = next
    BY DEF ReplicaState
<1>4. [committed EXCEPT !.applied = applied].nextIndex = committed.nextIndex
    BY DEF ReplicaState
<1>5. new.nextIndex = next
    BY <1>2, <1>3, <1>4
<1> QED
    BY <1>1, <1>5 DEF new, next

\* Besides winning, only a reply changes what a leader has to send next.
LEMMA StepOfLeader ==
    ASSUME TypeOK, LeaderInv, [NextOrKill]_vars, NEW s \in Server,
           server'[s].role = "LEADER"
    PROVE  \/ LeadsOn(s)
           \/ \E m \in appendReplies :
                  m.src = s /\ HandleAppendReply(m) /\ UseReply(m)
           \/ \E m \in voteReplies :
                  m.src = s /\ CountVote(m) /\ WinElection(m)
<1>1. server[s] \in ReplicaState
    BY DEF TypeOK
<1>2. ASSUME server'[s] = server[s]
      PROVE  LeadsOn(s)
    BY <1>2 DEF LeadsOn, LogGrows, SameLog
<1>3. ASSUME NEW t \in Server, ServerStep(t) \/ Kill(t)
      PROVE  LeadsOn(s)
    <2>1. CASE LeaderTimeout(t)
        <3> DEFINE r == [server[t] EXCEPT !.timer = FALSE]
        <3>1. server[t] \in ReplicaState
            BY DEF TypeOK
        <3>2. /\ r.term = server[t].term /\ r.role = server[t].role
              /\ r.log = server[t].log /\ r.nextIndex = server[t].nextIndex
            BY <3>1 DEF ReplicaState
        <3>3. server' = [server EXCEPT ![t] = r] /\ server[t].role = "LEADER"
            BY <2>1 DEF LeaderTimeout, Update
        <3> HIDE DEF r
        <3>4. t = s => server'[s] = r
            BY <3>3 DEF TypeOK
        <3>5. t # s => server'[s] = server[s]
            BY <3>3 DEF TypeOK
        <3> QED
            BY <1>2, <3>2, <3>3, <3>4, <3>5 DEF LeadsOn, LogGrows, SameLog
    <2>2. CASE ElectionTimeout(t)
        <3>1. Only(t) /\ server'[t].role = "CANDIDATE"
            BY <2>2, ElectionTimeoutMoves DEF MoveStep, Stands
        <3> QED
            BY <1>2, <3>1 DEF Only
    <2>3. CASE Die(t) \/ Restart(t)
        <3>1. Only(t) /\ server'[t].role = "FOLLOWER"
            BY <2>3, DieMoves, RestartMoves, FreshFields, LoadedFields
               DEF MoveStep, Stops, Starts
        <3> QED
            BY <1>2, <3>1 DEF Only
    <2>4. CASE DiskFails(t)
        BY <1>2, <2>4 DEF DiskFails
    <2>5. ASSUME NEW c \in Command, Put(t, c)
          PROVE  LeadsOn(s)
        <3> DEFINE r == AppendCommand(server[t], c)
        <3>1. server[t] \in ReplicaState /\ server[t].term \in Nat
            BY DEF TypeOK, ReplicaState
        <3>2. r.nextIndex = server[t].nextIndex
            BY <3>1, NextIndexFields
        <3>3. /\ Only(t) /\ Appends(t, c) /\ server' = [server EXCEPT ![t] = r]
            BY <2>5, PutMoves DEF AppendStep, Put, Update
        <3> HIDE DEF r
        <3>4. server'[t] = r
            BY <3>3 DEF TypeOK
        <3>5. [term |-> server[t].term, command |-> c] \in Entry
            BY <3>1 DEF Entry
        <3>6. LeadsOn(t)
            BY <3>2, <3>3, <3>4, <3>5 DEF Appends, LeadsOn, LogGrows
        <3> QED
            BY <1>2, <3>3, <3>6 DEF Only
    <2> QED
        BY <1>3, <2>1, <2>2, <2>3, <2>4, <2>5
           DEF ServerStep, Timeout, Crash, Kill
<1>4. ASSUME NEW m \in voteRequests, RequestVote(m)
      PROVE  LeadsOn(s)
    <2> DEFINE t == m.dst
               seen == Observe(server[t], m.term)
               cast == CastVote(seen, m.src)
    <2>1. /\ m.src \in Server /\ t \in Server /\ m.term \in Nat
          /\ server[t] \in ReplicaState /\ server[t].term \in Nat
        BY TypesInHand
    <2>2. /\ seen \in ReplicaState
          /\ m.term > server[t].term => seen.role = "FOLLOWER"
          /\ ~(m.term > server[t].term) => seen = server[t]
        BY <2>1, ObserveType, OnHigherTermDiscoveryFields DEF Observe
    <2> HIDE DEF seen
    <2>3. /\ cast.term = seen.term /\ cast.role = seen.role
          /\ cast.log = seen.log /\ cast.nextIndex = seen.nextIndex
        BY <2>1, <2>2, CastVoteFields, NextIndexFields
    <2> HIDE DEF cast
    <2>4. \/ server' = [server EXCEPT ![t] = seen]
          \/ server' = [server EXCEPT ![t] = cast]
        BY <1>4 DEF RequestVote, GrantVote, DenyVote, Update, seen, cast
    <2>5. t # s => server'[s] = server[s]
        BY <2>4 DEF TypeOK
    <2>6. t = s => server'[s] = seen \/ server'[s] = cast
        BY <2>4 DEF TypeOK
    <2>7. t = s => seen = server[s]
        BY <2>2, <2>3, <2>6
    <2> QED
        BY <1>2, <2>3, <2>5, <2>6, <2>7 DEF LeadsOn, LogGrows, SameLog
<1>5. ASSUME NEW m \in appendRequests, AppendEntries(m)
      PROVE  LeadsOn(s)
    <2>1. m.dst \in Server
        BY TypesInHand
    <2>2. QuietStep \/ (Only(m.dst) /\ server'[m.dst].role # "LEADER")
        BY <1>5, AppendEntriesMoves DEF MoveStep, Follows
    <2> QED
        BY <1>2, <2>1, <2>2 DEF QuietStep, Only
<1>6. ASSUME NEW m, m.src \in Server, m.term \in Nat,
             Update(m.src, OnHigherTermDiscovery(server[m.src], m.term))
      PROVE  LeadsOn(s)
    <2> DEFINE r == OnHigherTermDiscovery(server[m.src], m.term)
    <2>1. server[m.src] \in ReplicaState
        BY <1>6 DEF TypeOK
    <2>2. r.role # "LEADER"
        BY <1>6, <2>1, OnHigherTermDiscoveryFields
    <2>3. server' = [server EXCEPT ![m.src] = r]
        BY <1>6 DEF Update
    <2> HIDE DEF r
    <2>4. server'[s] = server[s]
        BY <2>2, <2>3 DEF TypeOK
    <2> QED
        BY <1>2, <2>4
<1>7. ASSUME NEW m \in voteReplies, CountVote(m)
      PROVE  LeadsOn(s) \/ (m.src = s /\ WinElection(m))
    <2>1. m.src \in Server /\ m.term \in Nat
        BY TypesInHand
    <2>2. CASE VoterIsAhead(m)
        BY <1>6, <2>1, <2>2 DEF VoterIsAhead
    <2>3. CASE NoVote(m) \/ AddVote(m)
        BY <1>2, <2>3 DEF NoVote, AddVote
    <2>4. ASSUME WinElection(m), m.src # s
          PROVE  server'[s] = server[s]
        BY <2>4 DEF WinElection, Update, TypeOK
    <2> QED
        BY <1>2, <1>7, <2>2, <2>3, <2>4 DEF CountVote
<1>8. ASSUME NEW m \in appendReplies, HandleAppendReply(m)
      PROVE  LeadsOn(s) \/ (m.src = s /\ UseReply(m))
    <2>1. m.src \in Server /\ m.term \in Nat
        BY TypesInHand
    <2>2. CASE DeposedMeanwhile(m)
        BY <1>2, <2>2 DEF DeposedMeanwhile
    <2>3. CASE FollowerIsAhead(m)
        BY <1>6, <2>1, <2>3 DEF FollowerIsAhead
    <2>4. ASSUME UseReply(m), m.src # s
          PROVE  server'[s] = server[s]
        BY <2>4 DEF UseReply, Update, TypeOK
    <2> QED
        BY <1>2, <1>8, <2>2, <2>3, <2>4 DEF HandleAppendReply
<1>9. ASSUME \/ UNCHANGED vars
              \/ \E th, f : SendAppendEntries(th, f) \/ ReplicatorEnds(th, f)
              \/ \E m : VoteCallFails(m) \/ AppendCallFails(m)
              \/ \E p : PutReturns(p)
       PROVE  LeadsOn(s)
    BY <1>2, <1>9 DEF vars, SendAppendEntries, ReplicatorEnds, VoteCallFails,
        AppendCallFails, PutReturns
<1> QED
    BY <1>3, <1>4, <1>5, <1>7, <1>8, <1>9 DEF NextOrKill, Next, CallStep
-----------------------------------------------------------------------------
(***************************************************************************)
(* The invariant RoundInv: threads and the calls they wait for.            *)
(***************************************************************************)

\* A thread that sends is still the same thread.
LEMMA SentThread ==
    ASSUME TypeOK, NEW th \in replicators, NEW left
    PROVE  LET new == [th EXCEPT !.left = left]
           IN  /\ new.server = th.server /\ new.thread = th.thread
               /\ new.left = left
               /\ \A m : Awaits(new, m) <=> Awaits(th, m)
BY DEF TypeOK, Awaits

LEMMA NextThreadsWon ==
    ASSUME TypeOK, LeaderInv, RoundInv, [NextOrKill]_vars
    PROVE  ReplicatorsAreWinners'
<1> SUFFICES ASSUME NEW th \in replicators'
             PROVE  /\ <<th.thread, th.server>> \in leaders'
                    /\ th.thread <= server'[th.server].term
                    /\ ElectionOver(th.server, th.thread)'
    BY DEF ReplicatorsAreWinners
<1>1. ASSUME NEW o \in replicators,
             th.server = o.server, th.thread = o.thread
      PROVE  /\ <<th.thread, th.server>> \in leaders'
             /\ th.thread <= server'[th.server].term
             /\ ElectionOver(th.server, th.thread)'
    <2> DEFINE s == o.server
               term == o.thread
    <2>1. /\ <<term, s>> \in leaders /\ term <= server[s].term
          /\ ElectionOver(s, term) /\ s \in up /\ s \in Server
        BY DEF RoundInv, ReplicatorsAreWinners, CallersAreUp, TypeOK
    <2>2. s \in up'
        BY <1>1, NextCallers DEF RoundInv, CallersAreUp
    <2>3. term \in Nat /\ server[s].term \in Nat
        BY TypesInHand
    <2>4. server'[s].term \in Nat /\ server[s].term <= server'[s].term
        BY <2>1, <2>2, RunningServer
    <2>5. ~(Stands(s) /\ server'[s].term = term)
        BY <2>1, <2>3 DEF Stands
    <2> HIDE DEF s, term
    <2>6. ElectionOver(s, term)'
        BY <2>1, <2>5, ElectionOverStays
    <2>7. <<term, s>> \in leaders'
        BY <2>1, StepsOfServers, WinnersStay
    <2>8. th.server = s /\ th.thread = term
        BY <1>1 DEF s, term
    <2> QED
        BY <2>1, <2>3, <2>4, <2>6, <2>7, <2>8 DEF ElectionOver
<1>2. ASSUME NEW o \in replicators, NEW f, th = [o EXCEPT !.left = Due(o) \ {f}]
      PROVE  th.server = o.server /\ th.thread = o.thread
    BY <1>2, SentThread
<1>3. ASSUME NEW m \in voteReplies, CountVote(m), WinElection(m),
             th = [server |-> m.src, thread |-> m.thread,
                   left |-> Server \ {m.src}]
      PROVE  /\ <<th.thread, th.server>> \in leaders'
             /\ th.thread <= server'[th.server].term
             /\ ElectionOver(th.server, th.thread)'
    <2>1. th.server = m.src /\ th.thread = m.thread
        BY <1>3
    <2>2. /\ m.granted /\ m.term = server[m.src].term
          /\ leaders' = leaders \cup {<<m.term, m.src>>}
          /\ ElectionReturns(m.src, m.thread)
        BY <1>3 DEF WinElection
    <2>3. m.term = m.thread
        BY <2>2 DEF LeaderInv, LeadersCountNoVotes
    <2>4. /\ m.src \in Server /\ server[m.src].term \in Nat
          /\ server[m.src] \in ReplicaState
        BY TypesInHand
    <2>5. server'[m.src].term = m.term
        <3>1. server' = [server EXCEPT ![m.src] = BecomeLeader(server[m.src], m.src)]
            BY <1>3 DEF WinElection, Update
        <3>2. BecomeLeader(server[m.src], m.src).term = server[m.src].term
            BY <2>4, BecomeLeaderFields
        <3> QED
            BY <2>2, <2>4, <3>1, <3>2 DEF TypeOK
    <2>6. ElectionOver(m.src, m.thread)'
        BY <2>2, WinnersElectionOver
    <2> QED
        BY <2>1, <2>2, <2>3, <2>4, <2>5, <2>6 DEF ElectionOver
<1> QED
    BY <1>1, <1>2, <1>3, OriginOfThreads

\* A winner names its thread after an election nobody else is named after.
LEMMA WinnersThreadIsNew ==
    ASSUME RoundInv, NEW m \in voteReplies, NEW th \in replicators,
           th.server = m.src
    PROVE  th.thread # m.thread
BY DEF RoundInv, ReplicatorsAreWinners, ElectionOver

LEMMA NextOneThread ==
    ASSUME TypeOK, LeaderInv, RoundInv, [NextOrKill]_vars
    PROVE  OneThreadPerWin'
<1> SUFFICES ASSUME NEW th \in replicators', NEW o \in replicators',
                    th.server = o.server, th.thread = o.thread
             PROVE  th = o
    BY DEF OneThreadPerWin
<1>1. ASSUME NEW a \in replicators, NEW b \in replicators,
             a.server = b.server, a.thread = b.thread
      PROVE  a = b
    BY <1>1 DEF RoundInv, OneThreadPerWin
<1>2. ASSUME NEW a \in replicators, NEW f \in Server, SendAppendEntries(a, f)
      PROVE  th = o
    <2> DEFINE new == [a EXCEPT !.left = Due(a) \ {f}]
    <2>1. replicators' = (replicators \ {a}) \cup {new}
        BY <1>2 DEF SendAppendEntries
    <2>2. new.server = a.server /\ new.thread = a.thread
        BY SentThread
    <2> HIDE DEF new
    <2> QED
        BY <1>1, <2>1, <2>2
<1>3. ASSUME NEW m \in voteReplies, CountVote(m), WinElection(m)
      PROVE  th = o
    <2> DEFINE new == [server |-> m.src, thread |-> m.thread,
                       left |-> Server \ {m.src}]
    <2>1. replicators' = replicators \cup {new}
        BY <1>3 DEF WinElection
    <2>2. new.server = m.src /\ new.thread = m.thread
        OBVIOUS
    <2> HIDE DEF new
    <2>3. \A a \in replicators : ~(a.server = new.server /\ a.thread = new.thread)
        BY <2>2, WinnersThreadIsNew
    <2> QED
        BY <1>1, <2>1, <2>3
<1>4. CASE replicators' \subseteq replicators
    BY <1>1, <1>4
<1> QED
    BY <1>1, <1>2, <1>3, OriginOfThreads

LEMMA NextAwaited ==
    ASSUME TypeOK, RoundInv, [NextOrKill]_vars
    PROVE  CallsAreAwaited'
<1> DEFINE Awaited(m) ==
        \E th \in replicators' : Awaits(th, m) /\ m.dst \notin th.left
<1> SUFFICES ASSUME NEW m \in Unanswered' \cup appendReplies'
             PROVE  Awaited(m)
    BY DEF CallsAreAwaited, Unanswered, Awaits
<1>1. ASSUME NEW th \in replicators, Awaits(th, m), m.dst \notin th.left,
             ~(/\ th.left = {}
               /\ \A n \in Unanswered \cup appendReplies : ~Awaits(th, n))
      PROVE  Awaited(m)
    <2>1. ~Released(th)
        BY <1>1 DEF Released, Unanswered
    <2>2. CASE th \in replicators'
        BY <1>1, <2>2
    <2>3. ASSUME NEW f, [th EXCEPT !.left = Due(th) \ {f}] \in replicators'
          PROVE  Awaited(m)
        <3> DEFINE new == [th EXCEPT !.left = Due(th) \ {f}]
        <3>1. Awaits(new, m) /\ new.left = Due(th) \ {f}
            BY <1>1, SentThread
        <3>2. Due(th) = th.left
            BY <1>1 DEF Due, Unanswered
        <3> QED
            BY <1>1, <2>3, <3>1, <3>2
    <2> QED
        BY <2>1, <2>2, <2>3, FateOfThreads
<1>2. ASSUME NEW n \in Unanswered \cup appendReplies,
             m.src = n.src, m.dst = n.dst, m.thread = n.thread
      PROVE  Awaited(m)
    <2>1. PICK th \in replicators : Awaits(th, n) /\ n.dst \notin th.left
        BY DEF RoundInv, CallsAreAwaited
    <2>2. Awaits(th, m) /\ m.dst \notin th.left
        BY <1>2, <2>1 DEF Awaits
    <2> QED
        BY <1>1, <2>1, <2>2
<1>3. ASSUME NEW th \in replicators, NEW f \in Server, SendAppendEntries(th, f),
             m = AppendRequest(th, server[th.server], f)
      PROVE  Awaited(m)
    <2> DEFINE new == [th EXCEPT !.left = Due(th) \ {f}]
    <2>1. m.src = th.server /\ m.thread = th.thread /\ m.dst = f
        BY <1>3 DEF AppendRequest
    <2>2. Awaits(th, m)
        BY <2>1 DEF Awaits
    <2>3. Awaits(new, m) /\ new.left = Due(th) \ {f}
        BY <2>2, SentThread
    <2>4. new \in replicators'
        BY <1>3 DEF SendAppendEntries
    <2> HIDE DEF new
    <2> QED
        BY <2>1, <2>3, <2>4
<1> QED
    BY <1>2, <1>3, OriginOfUnanswered, OriginOfAppendReplies DEF Answers

\* A thread whose call is still under way does not make it again.
LEMMA NoSecondCall ==
    ASSUME TypeOK, RoundInv, NEW th \in replicators, NEW f \in Server,
           f \in Due(th),
           NEW n \in Unanswered \cup appendReplies, Awaits(th, n)
    PROVE  n.dst # f
<1>1. PICK o \in replicators : Awaits(o, n) /\ n.dst \notin o.left
    BY DEF RoundInv, CallsAreAwaited
<1>2. o = th
    BY <1>1 DEF RoundInv, OneThreadPerWin, Awaits
<1>3. Due(th) = th.left
    BY DEF Due, Unanswered
<1> QED
    BY <1>1, <1>2, <1>3

LEMMA NextOneCall ==
    ASSUME TypeOK, RoundInv, [NextOrKill]_vars
    PROVE  OneCallAtATime'
<1> DEFINE Same(m, n) == SameThread(m, n) /\ m.dst = n.dst
           Sent(m, th, f) == /\ SendAppendEntries(th, f)
                             /\ m = AppendRequest(th, server[th.server], f)
<1>1. ASSUME NEW m, NEW th \in replicators, NEW f \in Server, Sent(m, th, f),
             NEW n \in Unanswered \cup appendReplies
      PROVE  ~Same(m, n) /\ ~Same(n, m)
    <2>1. m.src = th.server /\ m.thread = th.thread /\ m.dst = f
        BY <1>1 DEF AppendRequest
    <2>2. f \in Due(th)
        BY <1>1 DEF SendAppendEntries
    <2>3. Awaits(th, n) => n.dst # f
        BY <2>2, NoSecondCall
    <2> QED
        BY <2>1, <2>3 DEF SameThread, Awaits
<1>2. ASSUME NEW m, NEW th \in replicators, NEW f \in Server, Sent(m, th, f),
             NEW n, NEW o \in replicators, NEW g \in Server, Sent(n, o, g),
             Same(m, n)
      PROVE  m = n
    <2>1. /\ m.src = th.server /\ m.thread = th.thread /\ m.dst = f
          /\ n.src = o.server /\ n.thread = o.thread /\ n.dst = g
        BY <1>2 DEF AppendRequest
    <2>2. th = o /\ f = g
        BY <1>2, <2>1 DEF SameThread, RoundInv, OneThreadPerWin
    <2> QED
        BY <1>2, <2>2
<1>3. ASSUME NEW m, NEW n \in Unanswered, Answers(m, n)
      PROVE  /\ Same(m, n) /\ Same(n, m)
             /\ appendRequests' = appendRequests \ {n}
    BY <1>3 DEF Answers, SameThread, AppendEntries
<1>4. ASSUME NEW m \in Unanswered', NEW n \in Unanswered', Same(m, n)
      PROVE  m = n
    <2>1. m \in Unanswered \/ \E th \in replicators, f \in Server : Sent(m, th, f)
        BY OriginOfUnanswered
    <2>2. n \in Unanswered \/ \E th \in replicators, f \in Server : Sent(n, th, f)
        BY OriginOfUnanswered
    <2>3. CASE m \in Unanswered /\ n \in Unanswered
        BY <1>4, <2>3 DEF RoundInv, OneCallAtATime
    <2> QED
        BY <1>1, <1>2, <1>4, <2>1, <2>2, <2>3
<1>5. ASSUME NEW m \in appendReplies', NEW n \in appendReplies', Same(m, n)
      PROVE  m = n
    <2>1. m \in appendReplies \/ \E o \in Unanswered : Answers(m, o)
        BY OriginOfAppendReplies
    <2>2. n \in appendReplies \/ \E o \in Unanswered : Answers(n, o)
        BY OriginOfAppendReplies
    <2>3. CASE m \in appendReplies /\ n \in appendReplies
        BY <1>5, <2>3 DEF RoundInv, OneCallAtATime
    <2>4. ASSUME NEW o \in Unanswered, NEW p \in appendReplies, Same(o, p)
          PROVE  FALSE
        BY <2>4 DEF RoundInv, OneCallAtATime
    <2>5. ASSUME NEW o \in Unanswered, Answers(m, o), n \in appendReplies
          PROVE  FALSE
        BY <1>3, <1>5, <2>4, <2>5 DEF SameThread
    <2>6. ASSUME NEW o \in Unanswered, Answers(n, o), m \in appendReplies
          PROVE  FALSE
        BY <1>3, <1>5, <2>4, <2>6 DEF SameThread
    <2>7. ASSUME m \notin appendReplies, n \notin appendReplies
          PROVE  m = n
        BY <2>1, <2>7 DEF Answers
    <2> QED
        BY <2>1, <2>2, <2>3, <2>5, <2>6, <2>7
<1>6. ASSUME NEW m \in Unanswered', NEW n \in appendReplies', Same(m, n)
      PROVE  FALSE
    <2>1. m \in Unanswered \/ \E th \in replicators, f \in Server : Sent(m, th, f)
        BY OriginOfUnanswered
    <2>2. n \in appendReplies \/ \E o \in Unanswered : Answers(n, o)
        BY OriginOfAppendReplies
    <2>3. CASE m \in Unanswered /\ n \in appendReplies
        BY <1>6, <2>3 DEF RoundInv, OneCallAtATime
    <2>4. ASSUME NEW o \in Unanswered, Answers(n, o), m \in Unanswered
          PROVE  FALSE
        <3>1. Same(m, o)
            BY <1>3, <1>6, <2>4 DEF SameThread
        <3>2. m = o
            BY <2>4, <3>1 DEF RoundInv, OneCallAtATime
        <3> QED
            BY <1>3, <2>4, <3>2 DEF Unanswered
    <2>5. ASSUME NEW o \in Unanswered, Answers(n, o),
                 NEW th \in replicators, NEW f \in Server, Sent(m, th, f)
          PROVE  FALSE
        <3>1. Same(m, o)
            BY <1>3, <1>6, <2>5 DEF SameThread
        <3> QED
            BY <1>1, <2>5, <3>1
    <2> QED
        BY <1>1, <1>6, <2>1, <2>2, <2>3, <2>4, <2>5
<1> QED
    BY <1>4, <1>5, <1>6 DEF OneCallAtATime, Unanswered, SameThread
-----------------------------------------------------------------------------
(***************************************************************************)
(* The invariant RoundInv: a leader that has won one election only.        *)
(***************************************************************************)

\* All threads of such a leader are those of its one election.
LEMMA ThreadsOfFirst ==
    ASSUME TypeOK, LeaderInv, ReplicatorsAreWinners,
           NEW th \in replicators, FirstLeads(th.server)
    PROVE  th.thread = server[th.server].term
<1>1. th.server \in Server /\ th.server # None
    BY TypesInHand, ServerAssumption
<1>2. <<server[th.server].term, th.server>> \in leaders
    BY <1>1 DEF FirstLeads, LeaderInv, LeadersKnowThemselves,
        KnownLeaderWasElected
<1>3. <<th.thread, th.server>> \in leaders
    BY DEF ReplicatorsAreWinners
<1> QED
    BY <1>2, <1>3 DEF FirstLeads, WonOnce

\* Such a leader led as such before, or has just won, without any thread.
LEMMA FirstLed ==
    ASSUME TypeOK, LeaderInv, RoundInv, [NextOrKill]_vars,
           NEW s \in Server, FirstLeads(s)'
    PROVE  \/ FirstLeads(s) /\ LeadsOn(s)
           \/ /\ FirstLeads(s) /\ SameLog(s) /\ server'[s].term = server[s].term
              /\ \E m \in appendReplies :
                     m.src = s /\ HandleAppendReply(m) /\ UseReply(m)
           \/ /\ \E m \in voteReplies :
                     m.src = s /\ CountVote(m) /\ WinElection(m)
              /\ \A th \in replicators : th.server # s
<1>1. leaders \subseteq leaders'
    BY StepsOfServers, WinnersStay
<1>2. WonOnce(s)
    BY <1>1 DEF FirstLeads, WonOnce
<1>3. server'[s].role = "LEADER" /\ WonOnce(s)'
    BY DEF FirstLeads
<1>4. LeadsOn(s) => FirstLeads(s)
    BY <1>2 DEF LeadsOn, FirstLeads
<1>5. ASSUME NEW m \in appendReplies, m.src = s, UseReply(m)
      PROVE  /\ FirstLeads(s) /\ SameLog(s)
             /\ server'[s].term = server[s].term
    <2> DEFINE r == AdvanceCommitIndex(RecordReply(server[s], m), s)
    <2>1. server[s] \in ReplicaState
        BY DEF TypeOK
    <2>2. r.log = server[s].log /\ r.term = server[s].term
        BY <2>1, UseReplyFields
    <2>3. /\ server[s].role = "LEADER"
          /\ server' = [server EXCEPT ![s] = r]
        BY <1>5 DEF UseReply, Update
    <2> HIDE DEF r
    <2>4. server'[s] = r
        BY <2>3 DEF TypeOK
    <2> QED
        BY <1>2, <2>2, <2>3, <2>4 DEF FirstLeads, SameLog
<1>6. ASSUME NEW m \in voteReplies, m.src = s, WinElection(m),
             NEW th \in replicators, th.server = s
      PROVE  FALSE
    <2>1. <<th.thread, s>> \in leaders'
        BY <1>1, <1>6 DEF RoundInv, ReplicatorsAreWinners
    <2>2. <<m.term, s>> \in leaders' /\ m.granted
        BY <1>6 DEF WinElection
    <2>3. th.thread = m.term
        BY <1>3, <2>1, <2>2 DEF WonOnce
    <2>4. m.term = m.thread
        BY <2>2 DEF LeaderInv, LeadersCountNoVotes
    <2> QED
        BY <1>6, <2>3, <2>4, WinnersThreadIsNew
<1> QED
    BY <1>3, <1>4, <1>5, <1>6, StepOfLeader

\* Two calls of one of its threads' rounds are of the same thread.
LEMMA SameRound ==
    ASSUME TypeOK, LeaderInv, RoundInv,
           NEW m \in Unanswered \cup appendReplies, FirstLeads(m.src)
    PROVE  m.thread = server[m.src].term
<1>1. PICK th \in replicators : Awaits(th, m)
    BY DEF RoundInv, CallsAreAwaited
<1>2. m.src = th.server /\ m.thread = th.thread
    BY <1>1 DEF Awaits
<1> QED
    BY <1>2, ThreadsOfFirst DEF RoundInv

\* What a used reply makes of next_index, and of the other calls.
LEMMA UsedReply ==
    ASSUME TypeOK, LeaderInv, RoundInv,
           NEW m \in appendReplies, UseReply(m), FirstLeads(m.src)
    PROVE  /\ m.dst \in Server
           /\ m.term <= server[m.src].term
           /\ server'[m.src].nextIndex =
                  [server[m.src].nextIndex EXCEPT ![m.dst] =
                       IF m.success THEN m.matched + 1 ELSE @ - 1]
           /\ m \notin appendReplies'
           /\ \A n \in Unanswered \cup appendReplies :
                  n # m /\ n.src = m.src => n.dst # m.dst
<1>1. /\ m.src \in Server /\ m.dst \in Server
      /\ server[m.src] \in ReplicaState
    BY TypesInHand
<1>2. server'[m.src] = AdvanceCommitIndex(RecordReply(server[m.src], m), m.src)
    BY <1>1 DEF UseReply, Update, TypeOK
<1>3. m.term <= server[m.src].term /\ appendReplies' = appendReplies \ {m}
    BY DEF UseReply
<1>4. ASSUME NEW n \in Unanswered \cup appendReplies,
             n.src = m.src, n.dst = m.dst
      PROVE  n = m
    <2>1. SameThread(n, m)
        BY <1>4, SameRound DEF SameThread
    <2> QED
        BY <1>4, <2>1 DEF RoundInv, OneCallAtATime
<1>5. server'[m.src].nextIndex =
          [server[m.src].nextIndex EXCEPT ![m.dst] =
               IF m.success THEN m.matched + 1 ELSE @ - 1]
    <2>1. AdvanceCommitIndex(RecordReply(server[m.src], m), m.src).nextIndex =
              [server[m.src].nextIndex EXCEPT ![m.dst] =
                   IF m.success THEN m.matched + 1 ELSE @ - 1]
        BY <1>1, UsedReplyIndex, Zenon
    <2> QED
        BY <1>2, <2>1
<1>6. m \notin appendReplies'
    BY <1>3
<1>7. \A n \in Unanswered \cup appendReplies :
          n # m /\ n.src = m.src => n.dst # m.dst
    BY <1>4
<1> QED
    BY <1>1, <1>3, <1>5, <1>6, <1>7

\* Calls of such a leader were made by it as such, or are made now.
LEMMA NextRequestsFit ==
    ASSUME TypeOK, LeaderInv, RoundInv, [NextOrKill]_vars
    PROVE  RequestsFit'
<1> SUFFICES ASSUME NEW m \in Unanswered', FirstLeads(m.src)'
             PROVE  /\ m.term = m.thread
                    /\ m.prevLogIndex = server'[m.src].nextIndex[m.dst] - 1
                    /\ m.prevLogIndex + Len(m.entries) <= Len(server'[m.src].log)
    BY DEF RequestsFit, Unanswered, FirstLeads
<1> DEFINE s == m.src
<1>1. CASE m \in Unanswered
    <2>1. /\ s \in Server /\ m.dst \in Server /\ m.prevLogIndex \in Nat
          /\ m.entries \in Log /\ Len(m.entries) \in Nat
        BY <1>1, LenProperties DEF Unanswered, TypeOK, AppendRequestCall, Log
    <2>2. \E th \in replicators : th.server = s
        BY <1>1 DEF RoundInv, CallsAreAwaited, Awaits
    <2>3. FirstLeads(s) =>
              /\ m.term = m.thread
              /\ m.prevLogIndex = server[s].nextIndex[m.dst] - 1
              /\ m.prevLogIndex + Len(m.entries) <= Len(server[s].log)
        BY <1>1 DEF RoundInv, RequestsFit
    <2>4. CASE FirstLeads(s) /\ LeadsOn(s)
        <3>1. /\ Len(server[s].log) \in Nat /\ Len(server'[s].log) \in Nat
              /\ Len(server[s].log) <= Len(server'[s].log)
            BY <2>1, <2>4, GrownLog DEF LeadsOn
        <3>2. server'[s].nextIndex = server[s].nextIndex
            BY <2>4 DEF LeadsOn
        <3>3. m.prevLogIndex + Len(m.entries) <= Len(server[s].log)
            BY <2>3, <2>4
        <3> DEFINE last == m.prevLogIndex + Len(m.entries)
                   old == Len(server[s].log)
                   new == Len(server'[s].log)
        <3>4. last \in Nat
            BY <2>1
        <3> HIDE DEF last, old, new
        <3>5. last <= old /\ old <= new /\ old \in Nat /\ new \in Nat
            BY <3>1, <3>3 DEF last, old, new
        <3>6. last <= new
            BY <3>4, <3>5
        <3> QED
            BY <2>3, <2>4, <3>2, <3>6 DEF last, new
    <2>5. ASSUME FirstLeads(s), SameLog(s), NEW n \in appendReplies,
                 n.src = s, HandleAppendReply(n), UseReply(n)
          PROVE  /\ server'[s].nextIndex[m.dst] = server[s].nextIndex[m.dst]
                 /\ server'[s].log = server[s].log
        <3>1. n # m
            BY <1>1, <2>5 DEF RoundInv, OneCallAtATime, SameThread
        <3>2. m.dst # n.dst
            BY <1>1, <2>5, <3>1, UsedReply
        <3>3. server'[s].nextIndex =
                  [server[s].nextIndex EXCEPT ![n.dst] =
                       IF n.success THEN n.matched + 1 ELSE @ - 1]
            BY <2>5, UsedReply
        <3> QED
            BY <2>5, <3>2, <3>3 DEF SameLog
    <2>6. s \in Server /\ FirstLeads(s)'
        BY <2>1
    <2> QED
        BY <2>2, <2>3, <2>4, <2>5, <2>6, FirstLed
<1>2. ASSUME NEW th \in replicators, NEW f \in Server, SendAppendEntries(th, f),
             m = AppendRequest(th, server[th.server], f)
      PROVE  /\ m.term = m.thread
             /\ m.prevLogIndex = server'[m.src].nextIndex[m.dst] - 1
             /\ m.prevLogIndex + Len(m.entries) <= Len(server'[m.src].log)
    <2> DEFINE t == th.server
               prev == server[t].nextIndex[f] - 1
               log == server[t].log
    <2>1. /\ m.src = t /\ m.dst = f /\ m.thread = th.thread
          /\ m.term = server[t].term /\ m.prevLogIndex = prev
          /\ m.entries = SubSeq(log, prev + 1, Len(log))
        BY <1>2 DEF AppendRequest
    <2>2. UNCHANGED <<server, leaders>> /\ Sendable(server[t], f)
        BY <1>2 DEF SendAppendEntries, history
    <2>3. /\ t \in Server /\ server[t] \in ReplicaState /\ log \in Log
          /\ Len(log) \in Nat /\ server[t].nextIndex[f] \in Int
        BY TypesInHand, LenProperties DEF ReplicaState, Log
    <2>4. prev + 1 \in Nat \ {0} /\ prev \in 0..Len(log)
        <3> DEFINE next == server[t].nextIndex[f]
        <3>1. next \in 1..Len(log) + 1
            BY <2>2 DEF Sendable
        <3> HIDE DEF next, log
        <3>2. next - 1 + 1 \in Nat \ {0} /\ next - 1 \in 0..Len(log)
            BY <2>3, <3>1
        <3> QED
            BY <3>2 DEF next
    <2>5. FirstLeads(t)
        BY <2>1, <2>2 DEF FirstLeads, WonOnce
    <2>6. th.thread = server[t].term
        BY <2>5, ThreadsOfFirst DEF RoundInv
    <2> HIDE DEF log, prev
    <2>7. Len(m.entries) = IF prev + 1 <= Len(log)
                           THEN Len(log) - (prev + 1) + 1 ELSE 0
        BY <2>1, <2>3, <2>4, SubSeqOfLog
    <2>8. prev + Len(m.entries) <= Len(log)
        BY <2>3, <2>4, <2>7
    <2> QED
        BY <2>1, <2>2, <2>6, <2>8 DEF log, prev
<1> QED
    BY <1>1, <1>2, OriginOfUnanswered

LEMMA NextRepliesFit ==
    ASSUME TypeOK, LeaderInv, RoundInv, [NextOrKill]_vars
    PROVE  RepliesFit'
<1> SUFFICES ASSUME NEW m \in appendReplies', FirstLeads(m.src)',
                    m.term <= server'[m.src].term
             PROVE  IF m.success THEN m.matched <= Len(server'[m.src].log)
                    ELSE server'[m.src].nextIndex[m.dst] >= 2
    BY DEF RepliesFit, FirstLeads
<1> DEFINE s == m.src
<1>1. CASE m \in appendReplies
    <2>1. /\ s \in Server /\ m.dst \in Server /\ m.matched \in Nat
        BY <1>1 DEF TypeOK, AppendReplyCall
    <2>2. \E th \in replicators : th.server = s
        BY <1>1 DEF RoundInv, CallsAreAwaited, Awaits
    <2>3. FirstLeads(s) /\ m.term <= server[s].term =>
              IF m.success THEN m.matched <= Len(server[s].log)
              ELSE server[s].nextIndex[m.dst] >= 2
        BY <1>1 DEF RoundInv, RepliesFit
    <2>4. CASE FirstLeads(s) /\ LeadsOn(s)
        <3>1. /\ Len(server[s].log) \in Nat /\ Len(server'[s].log) \in Nat
              /\ Len(server[s].log) <= Len(server'[s].log)
            BY <2>1, <2>4, GrownLog DEF LeadsOn
        <3>2. /\ server'[s].nextIndex = server[s].nextIndex
              /\ m.term <= server[s].term
            BY <2>4 DEF LeadsOn
        <3> QED
            BY <2>1, <2>3, <2>4, <3>1, <3>2
    <2>5. ASSUME FirstLeads(s), SameLog(s), server'[s].term = server[s].term,
                 NEW n \in appendReplies,
                 n.src = s, HandleAppendReply(n), UseReply(n)
          PROVE  IF m.success THEN m.matched <= Len(server'[s].log)
                 ELSE server'[s].nextIndex[m.dst] >= 2
        <3>1. n # m
            BY <2>5, UsedReply
        <3>2. m.dst # n.dst
            BY <1>1, <2>5, <3>1, UsedReply
        <3>3. server'[s].nextIndex =
                  [server[s].nextIndex EXCEPT ![n.dst] =
                       IF n.success THEN n.matched + 1 ELSE @ - 1]
            BY <2>5, UsedReply
        <3>4. server'[s].nextIndex[m.dst] = server[s].nextIndex[m.dst]
            BY <3>2, <3>3
        <3> QED
            BY <2>3, <2>5, <3>4 DEF SameLog
    <2>6. s \in Server /\ FirstLeads(s)'
        BY <2>1
    <2> QED
        BY <2>2, <2>4, <2>5, <2>6, FirstLed
<1>2. ASSUME NEW n \in Unanswered, Answers(m, n)
      PROVE  IF m.success THEN m.matched <= Len(server'[s].log)
             ELSE server'[s].nextIndex[m.dst] >= 2
    <2>1. /\ n.src = s /\ n.dst = m.dst /\ n.thread = m.thread
          /\ n \in appendRequests /\ AppendEntries(n)
        BY <1>2 DEF Answers, Unanswered
    <2>2. /\ s \in Server /\ m.dst \in Server /\ n.term \in Nat
          /\ n.prevLogIndex \in Nat /\ n.entries \in Log
          /\ m.dst # s /\ m.term \in Nat
        <3>1. n.dst # n.src
            BY <2>1 DEF LeaderInv, NothingToOneself
        <3>2. m.term \in Nat
            BY NextType DEF TypeOK, AppendReplyCall
        <3> QED
            BY <2>1, <3>1, <3>2, TypesInHand DEF TypeOK, AppendRequestCall
    <2>3. server'[s] = server[s] /\ UNCHANGED leaders
        <3>1. QuietStep \/ MoveStep(m.dst)
            BY <2>1, AppendEntriesMoves
        <3> QED
            BY <2>2, <3>1 DEF QuietStep, MoveStep, Only
    <2>4. FirstLeads(s)
        BY <2>3 DEF FirstLeads, WonOnce
    <2>5. /\ n.term = n.thread
          /\ n.prevLogIndex = server[s].nextIndex[m.dst] - 1
          /\ n.prevLogIndex + Len(n.entries) <= Len(server[s].log)
        BY <2>1, <2>4 DEF RoundInv, RequestsFit
    <2>6. n.term = server[s].term
        BY <2>1, <2>4, <2>5, SameRound
    <2>7. CASE m.success
        BY <1>2, <2>3, <2>5, <2>7 DEF Answers
    <2>8. CASE ~m.success
        <3>1. ~(n.term < m.term)
            BY <2>2, <2>3, <2>6
        <3>2. n.prevLogIndex > 0
            BY <1>2, <2>8, <3>1 DEF Answers
        <3>3. server[s].nextIndex[m.dst] \in Int
            BY <2>2 DEF TypeOK, ReplicaState
        <3> QED
            BY <2>2, <2>3, <2>5, <2>8, <3>2, <3>3
    <2> QED
        BY <2>7, <2>8
<1> QED
    BY <1>1, <1>2, OriginOfAppendReplies

LEMMA NextRequestsCanBeBuilt ==
    ASSUME TypeOK, LeaderInv, RoundInv, [NextOrKill]_vars
    PROVE  RequestsCanBeBuilt'
<1> SUFFICES ASSUME NEW s \in Server, FirstLeads(s)', NEW f \in Server \ {s}
             PROVE  server'[s].nextIndex[f] \in 1..Len(server'[s].log) + 1
    BY DEF RequestsCanBeBuilt, Sendable, FirstLeads
<1>1. FirstLeads(s) => server[s].nextIndex[f] \in 1..Len(server[s].log) + 1
    BY DEF RoundInv, RequestsCanBeBuilt, Sendable
<1>2. /\ server[s] \in ReplicaState
      /\ Len(server[s].log) \in Nat /\ Len(server'[s].log) \in Nat
    BY NextType, LenProperties DEF TypeOK, ReplicaState, Log
<1>3. CASE FirstLeads(s) /\ LeadsOn(s)
    <2>1. Len(server[s].log) <= Len(server'[s].log)
        BY <1>3, GrownLog DEF LeadsOn
    <2>2. server'[s].nextIndex = server[s].nextIndex
        BY <1>3 DEF LeadsOn
    <2> QED
        <3> DEFINE next == server[s].nextIndex[f]
                   old == Len(server[s].log)
                   new == Len(server'[s].log)
        <3>1. next \in 1..old + 1
            BY <1>1, <1>3
        <3>2. old \in Nat /\ new \in Nat /\ old <= new
            BY <1>2, <2>1
        <3> HIDE DEF next, old, new
        <3>3. next \in 1..new + 1
            BY <3>1, <3>2
        <3> QED
            BY <2>2, <3>3 DEF next, new
<1>4. ASSUME FirstLeads(s), SameLog(s), server'[s].term = server[s].term,
             NEW m \in appendReplies, m.src = s,
             HandleAppendReply(m), UseReply(m)
      PROVE  server'[s].nextIndex[f] \in 1..Len(server'[s].log) + 1
    <2> DEFINE next == server[s].nextIndex
    <2>1. /\ m.term <= server[s].term
          /\ server'[s].nextIndex =
                 [next EXCEPT ![m.dst] = IF m.success THEN m.matched + 1 ELSE @ - 1]
        BY <1>4, UsedReply
    <2>2. IF m.success THEN m.matched <= Len(server[s].log)
          ELSE next[m.dst] >= 2
        BY <1>4, <2>1 DEF RoundInv, RepliesFit
    <2>3. next \in [Server -> Int] /\ m.matched \in Nat
        BY DEF TypeOK, ReplicaState, AppendReplyCall
    <2>4. next[f] \in 1..Len(server[s].log) + 1
        BY <1>1, <1>4
    <2> HIDE DEF next
    <2>5. CASE m.dst = f /\ m.success
        <3>1. server'[s].nextIndex[f] = m.matched + 1
            BY <2>1, <2>3, <2>5
        <3> QED
            BY <1>2, <1>4, <2>2, <2>3, <2>5, <3>1 DEF SameLog
    <2>6. CASE m.dst = f /\ ~m.success
        <3>1. server'[s].nextIndex[f] = next[f] - 1
            BY <2>1, <2>3, <2>6
        <3>2. next[f] >= 2
            BY <2>2, <2>6
        <3> QED
            BY <1>2, <1>4, <2>4, <3>1, <3>2 DEF SameLog
    <2>7. CASE m.dst # f
        <3>1. server'[s].nextIndex[f] = next[f]
            BY <2>1, <2>3, <2>7
        <3> QED
            BY <1>4, <2>4, <3>1 DEF SameLog
    <2> QED
        BY <2>5, <2>6, <2>7
<1>5. ASSUME NEW m \in voteReplies, m.src = s, WinElection(m)
      PROVE  server'[s].nextIndex[f] \in 1..Len(server'[s].log) + 1
    <2> DEFINE r == BecomeLeader(server[s], s)
    <2>1. r.nextIndex[f] = Len(r.log) + 1
        BY <1>2, NextIndexFields
    <2>2. server' = [server EXCEPT ![s] = r]
        BY <1>5 DEF WinElection, Update
    <2> HIDE DEF r
    <2>3. server'[s] = r
        BY <2>2 DEF TypeOK
    <2> QED
        BY <1>2, <2>1, <2>3
<1> QED
    BY <1>3, <1>4, <1>5, FirstLed

\* A process comes up as a follower.
LEMMA RestartedFollows ==
    ASSUME TypeOK, [NextOrKill]_vars, NEW s, s \notin up, s \in up'
    PROVE  server'[s].role = "FOLLOWER"
<1>1. PICK t \in Server : Restart(t)
    <2>1. ~(up' \subseteq up)
        OBVIOUS
    <2>2. ASSUME NEW t, Die(t)
          PROVE  up' \subseteq up
        BY <2>2 DEF Die
    <2> QED
        BY <2>1, <2>2
           DEF NextOrKill, Next, vars, ServerStep, Timeout, LeaderTimeout,
               ElectionTimeout, Crash, Kill, DiskFails, Put, CallStep,
               RequestVote, CountVote, SendAppendEntries, ReplicatorEnds,
               AppendEntries, HandleAppendReply, VoteCallFails,
               AppendCallFails, PutReturns
<1>2. t = s
    BY <1>1 DEF Restart
<1> QED
    BY <1>1, <1>2, RestartMoves, LoadedFields DEF Starts

LEMMA NextFirstReplicates ==
    ASSUME TypeOK, LeaderInv, RoundInv, [NextOrKill]_vars
    PROVE  FirstWinReplicates'
<1> SUFFICES ASSUME NEW s \in up', FirstLeads(s)'
             PROVE  \E th \in replicators' : th.server = s
    BY DEF FirstWinReplicates, FirstLeads
<1>1. s \in Server
    BY NextType DEF TypeOK
<1>2. CASE FirstLeads(s)
    <2>1. s \in up
        <3>1. server'[s].role # "FOLLOWER"
            BY DEF FirstLeads
        <3> QED
            BY <3>1, RestartedFollows
    <2>2. PICK th \in replicators : th.server = s
        BY <1>2, <2>1 DEF RoundInv, FirstWinReplicates
    <2>3. \A f \in Due(th) : Sendable(server[s], f)
        BY <1>1, <1>2, <2>2 DEF RoundInv, RequestsCanBeBuilt, Due, LeaderInv,
            NothingToOneself, TypeOK
    <2>4. server'[s].role = "LEADER"
        BY DEF FirstLeads
    <2>5. \A left : [th EXCEPT !.left = left].server = s
        BY <2>2, SentThread
    <2> QED
        BY <2>2, <2>3, <2>4, <2>5, FateOfThreads
<1>3. ASSUME NEW m \in voteReplies, m.src = s, WinElection(m)
      PROVE  \E th \in replicators' : th.server = s
    <2> DEFINE new == [server |-> m.src, thread |-> m.thread,
                       left |-> Server \ {m.src}]
    <2>1. new \in replicators' /\ new.server = s
        BY <1>3 DEF WinElection
    <2> QED
        BY <2>1
<1> QED
    BY <1>1, <1>2, <1>3, FirstLed

LEMMA InitRound ==
    ASSUME Init
    PROVE  RoundInv
<1>1. \A s \in Server : server[s].role # "LEADER"
    BY FreshFields DEF Init
<1>2. up \subseteq Server
    BY DEF Init
<1> QED
    BY <1>1, <1>2
       DEF Init, RoundInv, CallersAreUp, PutsOnLog, ReplicatorsAreWinners,
           OneThreadPerWin, CallsAreAwaited, OneCallAtATime, Unanswered,
           RequestsFit, RepliesFit, RequestsCanBeBuilt, FirstWinReplicates,
           FirstLeads

LEMMA NextRound ==
    ASSUME TypeOK, LeaderInv, RoundInv, [NextOrKill]_vars
    PROVE  RoundInv'
<1>1. CallersAreUp' /\ PutsOnLog'
    BY NextCallers, NextPutsOnLog DEF RoundInv
<1>2. ReplicatorsAreWinners' /\ OneThreadPerWin'
    BY NextThreadsWon, NextOneThread
<1>3. CallsAreAwaited' /\ OneCallAtATime'
    BY NextAwaited, NextOneCall
<1>4. RequestsFit' /\ RepliesFit' /\ RequestsCanBeBuilt'
    BY NextRequestsFit, NextRepliesFit, NextRequestsCanBeBuilt
<1>5. FirstWinReplicates'
    BY NextFirstReplicates
<1> QED
    BY <1>1, <1>2, <1>3, <1>4, <1>5 DEF RoundInv
-----------------------------------------------------------------------------
(***************************************************************************)
(* The theorems.                                                           *)
(***************************************************************************)

\* RoundInv is an invariant: a server that goes on leading its term keeps
\* the entries its Put handlers wait for; every call has one thread that
\* waits for it, and a thread has one call to a follower under way.
THEOREM RoundInvariant == Spec => []RoundInv
<1> DEFINE Inv == TypeOK /\ LeaderInv /\ RoundInv
<1>1. Init => Inv
    BY InitType, InitLeader, InitRound
<1>2. Inv /\ [Next]_vars => Inv'
    BY NextType, NextLeader, NextRound DEF NextOrKill
<1>3. Inv => RoundInv
    OBVIOUS
<1> QED
    BY <1>1, <1>2, <1>3, PTL DEF Spec

LEMMA PutsOnLogAckTheirOwn ==
    ASSUME TypeOK, RoundInv
    PROVE  AcksInItsTerm
<1> SUFFICES ASSUME NEW p \in puts, server[p.server].term = p.entry.term
             PROVE  /\ p.index <= Len(server[p.server].log)
                    /\ server[p.server].log[p.index] = p.entry
    BY DEF AcksInItsTerm
<1>1. /\ p.index \in 1..Len(server[p.server].log)
      /\ server[p.server].log[p.index] = p.entry
    BY DEF RoundInv, PutsOnLog
<1>2. Len(server[p.server].log) \in Nat
    BY LenProperties DEF RoundInv, PutsOnLog, TypeOK, ReplicaState, Log
<1> QED
    BY <1>1, <1>2

\* A Put acknowledged while its server is still in the term of the entry
\* finds the entry in the log: only another term of the server in between
\* makes the poll acknowledge an entry that is gone.
THEOREM PutsAckTheirOwn == Spec => []AcksInItsTerm
BY PutsOnLogAckTheirOwn, TypeCorrectness, RoundInvariant, PTL

\* A leader that has won one election only has a replicator thread: with no
\* second thread beside it, refusals take next_index no further than to 1.
THEOREM FirstWinsReplicate == Spec => []FirstWinReplicates
<1>1. RoundInv => FirstWinReplicates
    BY DEF RoundInv
<1> QED
    BY <1>1, RoundInvariant, PTL
=============================================================================
