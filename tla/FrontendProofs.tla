--------------------------- MODULE FrontendProofs ---------------------------
(***************************************************************************)
(* The cluster behind the frontend: what RaftCluster promises holds while  *)
(* servers are killed, started again and cleared, and nothing from before  *)
(* a StartRaft is left after it.                                           *)
(*                                                                         *)
(* Every step of the frontend is a step of the cluster or of NextOrKill,   *)
(* or leaves the cluster alone, but for RemoveFile and ClearState. When    *)
(* these run all servers are dead. The first takes a state file away, and  *)
(* the second leaves a cluster that never ran.                             *)
(***************************************************************************)
EXTENDS Frontend, RaftLogProofs, RaftReplicatorProofs

(***************************************************************************)
(* What a server applies comes from its log.                               *)
(***************************************************************************)

\* new is old after a method that may have applied entries of its log.
AppliesOwn(old, new) ==
    Commands(new.applied) \subseteq Commands(old.applied) \cup Commands(new.log)

LEMMA SameApplied ==
    ASSUME NEW old, NEW new, new.applied = old.applied
    PROVE  AppliesOwn(old, new)
BY DEF AppliesOwn

LEMMA ApplyCommittedEntriesOwn ==
    ASSUME NEW r \in ReplicaState, r.commitIndex <= Len(r.log)
    PROVE  /\ AppliesOwn(r, ApplyCommittedEntries(r))
           /\ ApplyCommittedEntries(r).log = r.log
<1> DEFINE first == Len(r.applied) + 1
           more == SubSeq(r.log, first, r.commitIndex)
           new == r.applied \o more
<1>1. /\ r.applied \in Seq(Entry) /\ Len(r.applied) \in Nat
      /\ r.log \in Seq(Entry) /\ Len(r.log) \in Nat /\ r.commitIndex \in Nat
    BY LenProperties DEF ReplicaState, Log
<1>2. \A i \in first..r.commitIndex : i \in 1..Len(r.log) /\ r.log[i] \in Entry
    BY <1>1, ElementOfSeq
<1>3. /\ more \in Seq(Entry)
      /\ Len(more) = IF first <= r.commitIndex + 1
                     THEN r.commitIndex - first + 1 ELSE 0
      /\ \A i \in 1..r.commitIndex - first + 1 : more[i] = r.log[first + i - 1]
    BY <1>1, <1>2, SubSeqProperties
<1> HIDE DEF more
<1>4. ASSUME NEW i \in 1..Len(more)
      PROVE  \E j \in 1..Len(r.log) : more[i] = r.log[j]
    <2>1. i \in 1..r.commitIndex - first + 1
        BY <1>1, <1>3
    <2>2. first + i - 1 \in first..r.commitIndex
        BY <1>1, <2>1
    <2> QED
        BY <1>2, <1>3, <2>1, <2>2
<1>5. /\ Len(new) = Len(r.applied) + Len(more) /\ Len(more) \in Nat
      /\ \A i \in 1..Len(r.applied) + Len(more) :
             new[i] = IF i <= Len(r.applied) THEN r.applied[i]
                      ELSE more[i - Len(r.applied)]
    <2>1. more \in Seq(Entry)
        BY <1>3
    <2>2. Len(more) \in Nat
        BY <2>1, LenProperties
    <2> QED
        BY <1>1, <2>1, <2>2, ConcatProperties
<1> HIDE DEF new
<1>6. ASSUME NEW i \in 1..Len(new)
      PROVE  \/ \E j \in 1..Len(r.applied) : new[i] = r.applied[j]
             \/ \E j \in 1..Len(r.log) : new[i] = r.log[j]
    <2>1. CASE i <= Len(r.applied)
        BY <1>1, <1>5, <2>1
    <2>2. CASE ~(i <= Len(r.applied))
        <3>1. i - Len(r.applied) \in 1..Len(more)
            BY <1>1, <1>5, <2>2
        <3>2. new[i] = more[i - Len(r.applied)]
            BY <1>5, <2>2
        <3> QED
            BY <1>4, <3>1, <3>2
    <2> QED
        BY <2>1, <2>2
<1>7. Commands(new) \subseteq Commands(r.applied) \cup Commands(r.log)
    BY <1>6 DEF Commands
<1>8. /\ ApplyCommittedEntries(r).applied = new
      /\ ApplyCommittedEntries(r).log = r.log
    BY DEF ApplyCommittedEntries, ReplicaState, new, more
<1> QED
    BY <1>7, <1>8 DEF AppliesOwn

LEMMA AppendNewEntriesOwn ==
    ASSUME NEW r \in ReplicaState, NEW m,
           m.prevLogIndex \in Nat, m.entries \in Log, m.leaderCommit \in Nat,
           Consistent(r, m)
    PROVE  AppliesOwn(r, AppendNewEntries(r, m))
<1> DEFINE log == MergeEntries(r.log, m.prevLogIndex, m.entries)
           merged == [r EXCEPT !.log = log]
           last == Min({m.leaderCommit, Len(log)})
           committed == [merged EXCEPT !.commitIndex = last]
<1>1. r.log \in Log /\ Len(r.log) \in Nat
    BY LenProperties DEF ReplicaState, Log
<1>2. m.prevLogIndex <= Len(r.log)
    BY <1>1 DEF Consistent, HasPrevious
<1>3. log \in Log /\ Len(log) \in Nat
    BY <1>1, <1>2, MergeEntriesType, LenProperties DEF Log
<1>4. AppendNewEntries(r, m) =
          IF m.leaderCommit > r.commitIndex THEN ApplyCommittedEntries(committed)
                                            ELSE merged
    BY DEF AppendNewEntries
<1> HIDE DEF log
<1>5. last \in Nat /\ last <= Len(log)
    BY <1>3, MinIsLeast
<1> HIDE DEF last
<1>6. /\ committed \in ReplicaState /\ committed.commitIndex <= Len(committed.log)
      /\ committed.applied = r.applied /\ merged.applied = r.applied
    BY <1>3, <1>5 DEF ReplicaState
<1> HIDE DEF committed, merged
<1>7. AppliesOwn(committed, ApplyCommittedEntries(committed))
    BY <1>6, ApplyCommittedEntriesOwn
<1>8. AppliesOwn(r, ApplyCommittedEntries(committed))
    BY <1>6, <1>7 DEF AppliesOwn
<1>9. AppliesOwn(r, merged)
    BY <1>6, SameApplied
<1> QED
    BY <1>4, <1>8, <1>9

LEMMA UseReplyOwn ==
    ASSUME NEW r \in ReplicaState, NEW s \in Server, NEW m,
           m.dst \in Server, m.success \in BOOLEAN, m.matched \in Nat
    PROVE  AppliesOwn(r, AdvanceCommitIndex(RecordReply(r, m), s))
<1> DEFINE recorded == RecordReply(r, m)
           last == Max(Committable(recorded, s))
           committed == [recorded EXCEPT !.commitIndex = last]
<1>1. recorded \in ReplicaState
    BY RecordReplyType
<1>2. recorded.applied = r.applied
    BY DEF RecordReply, ReplicaState
<1>3. AdvanceCommitIndex(recorded, s) =
          IF Committable(recorded, s) = {} THEN recorded
                                           ELSE ApplyCommittedEntries(committed)
    BY DEF AdvanceCommitIndex
<1> HIDE DEF recorded
<1>4. recorded.log \in Log /\ Len(recorded.log) \in Nat
      /\ recorded.commitIndex \in Nat
    BY <1>1, LenProperties DEF ReplicaState, Log
<1>5. /\ Committable(recorded, s) \in SUBSET Nat
      /\ \A i \in Committable(recorded, s) : i <= Len(recorded.log)
    BY <1>4 DEF Committable
<1>6. CASE Committable(recorded, s) # {}
    <2>1. last \in Nat /\ last <= Len(recorded.log)
        BY <1>4, <1>5, <1>6, MaxIsGreatest
    <2> HIDE DEF last
    <2>2. /\ committed \in ReplicaState
          /\ committed.commitIndex <= Len(committed.log)
          /\ committed.applied = r.applied
        BY <1>1, <1>2, <2>1 DEF ReplicaState
    <2> HIDE DEF committed
    <2>3. AppliesOwn(committed, ApplyCommittedEntries(committed))
        BY <2>2, ApplyCommittedEntriesOwn
    <2>4. AppliesOwn(r, ApplyCommittedEntries(committed))
        BY <2>2, <2>3 DEF AppliesOwn
    <2> QED
        BY <1>3, <1>6, <2>4 DEF recorded
<1>7. CASE Committable(recorded, s) = {}
    BY <1>2, <1>3, <1>7, SameApplied DEF recorded
<1> QED
    BY <1>6, <1>7

LEMMA UpdateOwn ==
    ASSUME TypeOK, NEW t \in Server, NEW r, Update(t, r),
           AppliesOwn(server[t], r), NEW s \in Server
    PROVE  AppliesOwn(server[s], server'[s])
<1>1. server'[s] = IF s = t THEN r ELSE server[s]
    BY DEF TypeOK, Update
<1> QED
    BY <1>1, SameApplied

\* The methods that leave the state machine alone, or start with none.
LEMMA AppliedStays ==
    ASSUME NEW r \in ReplicaState, NEW s \in Server, NEW term \in Nat,
           NEW command
    PROVE  /\ AppliesOwn(r, [r EXCEPT !.timer = FALSE])
           /\ AppliesOwn(r, BecomeCandidate(r, s))
           /\ AppliesOwn(r, BecomeLeader(r, s))
           /\ AppliesOwn(r, OnHigherTermDiscovery(r, term))
           /\ AppliesOwn(r, Observe(r, term))
           /\ AppliesOwn(r, CastVote(Observe(r, term), s))
           /\ AppliesOwn(r, AppendCommand(r, command))
           /\ Follow(Observe(r, term), s).applied = r.applied
<1> DEFINE seen == Observe(r, term)
<1>1. seen \in ReplicaState /\ seen.applied = r.applied
    BY ObserveType
<1>2. /\ [r EXCEPT !.timer = FALSE].applied = r.applied
      /\ BecomeCandidate(r, s).applied = r.applied
      /\ OnHigherTermDiscovery(r, term).applied = r.applied
      /\ AppendCommand(r, command).applied = r.applied
    BY DEF BecomeCandidate, OnHigherTermDiscovery, AppendCommand,
        ResetElectionTimer, ReplicaState
<1>3. BecomeLeader(r, s).applied = r.applied
    BY DEF BecomeLeader, ResetElectionTimer, ReplicaState
<1> HIDE DEF seen
<1>4. CastVote(seen, s).applied = seen.applied
    BY <1>1 DEF CastVote, ResetElectionTimer, ReplicaState
<1>5. Follow(seen, s).applied = seen.applied
    BY <1>1 DEF Follow, ResetElectionTimer, ReplicaState
<1> QED
    BY <1>1, <1>2, <1>3, <1>4, <1>5, SameApplied DEF seen

LEMMA EmptyStateMachine ==
    /\ \A r : AppliesOwn(r, FreshReplica)
    /\ \A r, file : AppliesOwn(r, Loaded(file))
<1>1. /\ FreshReplica.applied = <<>>
      /\ \A file : Loaded(file).applied = <<>>
    BY DEF FreshReplica, Loaded
<1>2. Commands(<<>>) = {}
    BY DEF Commands
<1> QED
    BY <1>1, <1>2 DEF AppliesOwn

LEMMA AppendEntriesOwn ==
    ASSUME TypeOK, NEW m \in appendRequests, AppendEntries(m), NEW s \in Server
    PROVE  AppliesOwn(server[s], server'[s])
<1>1. /\ m.src \in Server /\ m.dst \in Server /\ m.term \in Nat
      /\ m.prevLogIndex \in Nat /\ m.entries \in Log /\ m.leaderCommit \in Nat
      /\ server[m.dst] \in ReplicaState /\ Follower(m) \in ReplicaState
    BY TypesInHand, FollowerType
<1>2. Follower(m).applied = server[m.dst].applied
    BY <1>1, AppliedStays DEF Follower
<1>3. CASE RejectStaleLeader(m) \/ FailAssertion(m)
    BY <1>3, SameApplied DEF RejectStaleLeader, FailAssertion
<1>4. CASE RefuseEntries(m)
    <2>1. Update(m.dst, Follower(m))
        BY <1>4 DEF RefuseEntries, FollowLeader
    <2>2. AppliesOwn(server[m.dst], Follower(m))
        BY <1>2, SameApplied
    <2> QED
        BY <1>1, <2>1, <2>2, UpdateOwn
<1>5. CASE TakeEntries(m)
    <2>1. /\ Update(m.dst, AppendNewEntries(Follower(m), m))
          /\ Consistent(Follower(m), m)
        BY <1>5 DEF TakeEntries, FollowLeader
    <2>2. AppliesOwn(Follower(m), AppendNewEntries(Follower(m), m))
        BY <1>1, <2>1, AppendNewEntriesOwn
    <2>3. AppliesOwn(server[m.dst], AppendNewEntries(Follower(m), m))
        BY <1>2, <2>2 DEF AppliesOwn
    <2> QED
        BY <1>1, <2>1, <2>3, UpdateOwn
<1> QED
    BY <1>3, <1>4, <1>5 DEF AppendEntries

\* The state machine of a server takes nothing that is not in its log.
LEMMA NextApplied ==
    ASSUME TypeOK, [NextOrKill]_vars, NEW s \in Server
    PROVE  AppliesOwn(server[s], server'[s])
<1>1. ASSUME UNCHANGED server
      PROVE  AppliesOwn(server[s], server'[s])
    BY <1>1, SameApplied
<1>2. CASE UNCHANGED vars
    BY <1>1, <1>2 DEF vars
<1>3. ASSUME NEW t \in Server, ServerStep(t) \/ Kill(t)
      PROVE  AppliesOwn(server[s], server'[s])
    <2>1. server[t] \in ReplicaState
        BY TypesInHand
    <2>2. CASE LeaderTimeout(t)
        <3>1. Update(t, [server[t] EXCEPT !.timer = FALSE])
            BY <2>2 DEF LeaderTimeout
        <3> QED
            BY <2>1, <3>1, AppliedStays, UpdateOwn
    <2>3. CASE ElectionTimeout(t)
        <3>1. Update(t, BecomeCandidate(server[t], t))
            BY <2>3 DEF ElectionTimeout
        <3> QED
            BY <2>1, <3>1, AppliedStays, UpdateOwn
    <2>4. CASE Crash(t) \/ Kill(t)
        <3>1. Update(t, FreshReplica)
            BY <2>4 DEF Crash, Kill, Die
        <3> QED
            BY <3>1, EmptyStateMachine, UpdateOwn
    <2>5. CASE Restart(t)
        <3>1. Update(t, Loaded(disk[t]))
            BY <2>5 DEF Restart
        <3> QED
            BY <3>1, EmptyStateMachine, UpdateOwn
    <2>6. CASE DiskFails(t)
        BY <1>1, <2>6 DEF DiskFails
    <2>7. ASSUME NEW command \in Command, Put(t, command)
          PROVE  AppliesOwn(server[s], server'[s])
        <3>1. Update(t, AppendCommand(server[t], command))
            BY <2>7 DEF Put
        <3> QED
            BY <2>1, <3>1, AppliedStays, UpdateOwn
    <2> QED
        BY <1>3, <2>2, <2>3, <2>4, <2>5, <2>6, <2>7 DEF ServerStep, Timeout
<1>4. ASSUME NEW m \in voteRequests, RequestVote(m)
      PROVE  AppliesOwn(server[s], server'[s])
    <2>1. /\ m.dst \in Server /\ m.src \in Server /\ m.term \in Nat
          /\ server[m.dst] \in ReplicaState
        BY TypesInHand
    <2>2. \/ Update(m.dst, CastVote(Observe(server[m.dst], m.term), m.src))
          \/ Update(m.dst, Observe(server[m.dst], m.term))
        BY <1>4 DEF RequestVote, GrantVote, DenyVote
    <2> QED
        BY <2>1, <2>2, AppliedStays, UpdateOwn
<1>5. ASSUME NEW m \in voteReplies, CountVote(m)
      PROVE  AppliesOwn(server[s], server'[s])
    <2>1. /\ m.src \in Server /\ m.term \in Nat /\ server[m.src] \in ReplicaState
        BY TypesInHand
    <2>2. \/ UNCHANGED server
          \/ Update(m.src, OnHigherTermDiscovery(server[m.src], m.term))
          \/ Update(m.src, BecomeLeader(server[m.src], m.src))
        BY <1>5 DEF CountVote, VoterIsAhead, NoVote, AddVote, WinElection
    <2> QED
        BY <1>1, <2>1, <2>2, AppliedStays, UpdateOwn
<1>6. ASSUME NEW m \in appendRequests, AppendEntries(m)
      PROVE  AppliesOwn(server[s], server'[s])
    BY <1>6, AppendEntriesOwn
<1>7. ASSUME NEW m \in appendReplies, HandleAppendReply(m)
      PROVE  AppliesOwn(server[s], server'[s])
    <2>1. /\ m.src \in Server /\ m.term \in Nat /\ server[m.src] \in ReplicaState
          /\ m.dst \in Server /\ m.success \in BOOLEAN /\ m.matched \in Nat
        BY TypesInHand
    <2>2. \/ UNCHANGED server
          \/ Update(m.src, OnHigherTermDiscovery(server[m.src], m.term))
          \/ Update(m.src, AdvanceCommitIndex(RecordReply(server[m.src], m), m.src))
        BY <1>7 DEF HandleAppendReply, DeposedMeanwhile, FollowerIsAhead, UseReply
    <2>3. AppliesOwn(server[m.src],
                     AdvanceCommitIndex(RecordReply(server[m.src], m), m.src))
        BY <2>1, UseReplyOwn
    <2> QED
        BY <1>1, <2>1, <2>2, <2>3, AppliedStays, UpdateOwn
<1>8. ASSUME \/ \E th, f : SendAppendEntries(th, f) \/ ReplicatorEnds(th, f)
             \/ \E m : VoteCallFails(m) \/ AppendCallFails(m)
             \/ \E p : PutReturns(p)
      PROVE  UNCHANGED server
    BY <1>8 DEF SendAppendEntries, ReplicatorEnds, VoteCallFails,
        AppendCallFails, PutReturns
<1> QED
    BY <1>1, <1>2, <1>3, <1>4, <1>5, <1>6, <1>7, <1>8
       DEF NextOrKill, Next, CallStep
-----------------------------------------------------------------------------
(***************************************************************************)
(* Steps of the cluster: nothing erased comes back, and a server that is   *)
(* down holds nothing.                                                     *)
(***************************************************************************)
CommandsOf(links) == {a.entry.command : a \in links}

LEMMA CommandsOfLinks ==
    ASSUME NEW index, NEW term, NEW entries
    PROVE  CommandsOf(LinksAfter(index, term, entries)) = Commands(entries)
<1> DEFINE links == LinksAfter(index, term, entries)
<1>1. ASSUME NEW a \in links
      PROVE  \E i \in 1..Len(entries) : a.entry.command = entries[i].command
    BY DEF LinksAfter
<1>2. ASSUME NEW i \in 1..Len(entries)
      PROVE  \E a \in links : a.entry.command = entries[i].command
    <2> DEFINE a == [index |-> index + i, entry |-> entries[i],
                     before |-> IF i = 1 THEN term ELSE entries[i - 1].term]
    <2>1. a \in links
        BY DEF LinksAfter
    <2>2. a.entry.command = entries[i].command
        OBVIOUS
    <2> HIDE DEF a, links
    <2> QED
        BY <2>1, <2>2
<1> HIDE DEF links
<1>3. CommandsOf(links) = Commands(entries)
    BY <1>1, <1>2 DEF CommandsOf, Commands
<1> QED
    BY <1>3 DEF links

LogsAreFresh ==
    \A s \in Server :
        (Commands(server[s].log) \cup Commands(disk[s].log)) \cap erased = {}

LinksAreFresh == CommandsOf(Links) \cap erased = {}

LEMMA FreshLinks ==
    LogsAreFresh /\ RequestsAreFresh <=> LinksAreFresh
<1>1. ASSUME NEW log PROVE CommandsOf(LinksOf(log)) = Commands(log)
    BY CommandsOfLinks DEF LinksOf
<1>2. ASSUME NEW m PROVE CommandsOf(LinksIn(m)) = Commands(m.entries)
    BY CommandsOfLinks DEF LinksIn
<1>3. \A c : c \in CommandsOf(Links) <=>
          \/ \E s \in Server : \/ c \in CommandsOf(LinksOf(server[s].log))
                               \/ c \in CommandsOf(LinksOf(disk[s].log))
          \/ \E m \in appendRequests : c \in CommandsOf(LinksIn(m))
    BY DEF Links, CommandsOf
<1>4. \A c : c \in CommandsOf(Links) <=>
          \/ \E s \in Server : \/ c \in Commands(server[s].log)
                               \/ c \in Commands(disk[s].log)
          \/ \E m \in appendRequests : c \in Commands(m.entries)
    BY <1>1, <1>2, <1>3
<1> QED
    BY <1>4 DEF LogsAreFresh, RequestsAreFresh, LinksAreFresh

LEMMA FreshLinksNext ==
    LinksAreFresh' => LogsAreFresh' /\ RequestsAreFresh'
BY FreshLinks, PTL

LEMMA NextFresh ==
    ASSUME TypeOK, CommandInv, StartsFresh, RequestsAreFresh,
           erased \subseteq issued, [NextOrKill]_vars, UNCHANGED erased
    PROVE  /\ StartsFresh' /\ RequestsAreFresh'
           /\ erased' \subseteq issued'
<1>1. CommandsOf(Links) \cap erased = {}
    BY FreshLinks DEF StartsFresh, LogsAreFresh, LinksAreFresh
<1>2. RequestsStartAtZero
    BY DEF CommandInv
<1>3. issued \subseteq Command
    BY DEF TypeOK
<1>4. CommandsOf(Links') \cap erased = {}
    <2>1. ASSUME NEW s, NEW c, c \notin erased,
                 Links' \subseteq Links \cup {NewLink(s, c)}
          PROVE  CommandsOf(Links') \cap erased = {}
        <3>1. NewLink(s, c).entry.command = c
            BY DEF NewLink
        <3> QED
            BY <1>1, <2>1, <3>1 DEF CommandsOf
    <2>2. NoOp \notin erased
        BY <1>3, NoOpAssumption
    <2>3. \A s, c : Appends(s, c) => c \notin erased
        BY DEF Appends
    <2>4. CASE Links' \subseteq Links
        BY <1>1, <2>4 DEF CommandsOf
    <2> QED
        BY <1>2, <2>1, <2>2, <2>3, <2>4, LinksStep
<1>5. LogsAreFresh' /\ RequestsAreFresh'
    BY <1>4, FreshLinksNext DEF LinksAreFresh
<1>6. ASSUME NEW s \in Server
      PROVE  Commands(server'[s].applied) \cap erased = {}
    <2>1. /\ Commands(server[s].applied) \cap erased = {}
          /\ Commands(server'[s].log) \cap erased = {}
        BY <1>5 DEF StartsFresh, LogsAreFresh
    <2>2. AppliesOwn(server[s], server'[s])
        BY NextApplied
    <2> QED
        BY <2>1, <2>2 DEF AppliesOwn
<1>7. issued \subseteq issued'
    BY StepsOfServers
       DEF ServersStep, QuietStep, MoveStep, WinStep, AppendStep, Appends
<1> QED
    BY <1>5, <1>6, <1>7 DEF StartsFresh, LogsAreFresh

\* Fields and votes change only at servers that are up.
LEMMA NextDownServers ==
    ASSUME TypeOK, CallersAreUp, DownServersHoldNothing, [NextOrKill]_vars
    PROVE  DownServersHoldNothing'
<1> SUFFICES ASSUME NEW s \in Server, s \notin up'
             PROVE  server'[s] = FreshReplica /\ elections'[s] = NoElection
    BY DEF DownServersHoldNothing
<1>1. /\ server \in [Server -> ReplicaState]
      /\ elections \in [Server -> [term : Nat, votes : SUBSET Server]]
      /\ s \notin up => server[s] = FreshReplica /\ elections[s] = NoElection
    BY DEF TypeOK, DownServersHoldNothing
<1>2. ASSUME up \subseteq up', UNCHANGED server,
             elections'[s] \in {elections[s], NoElection}
      PROVE  server'[s] = FreshReplica /\ elections'[s] = NoElection
    BY <1>1, <1>2
<1>3. ASSUME NEW t \in up, UNCHANGED up, NEW r, Update(t, r),
             elections'[s] \in {elections[s], NoElection}
      PROVE  server'[s] = FreshReplica /\ elections'[s] = NoElection
    <2>1. s \notin up /\ s # t
        BY <1>3
    <2>2. server'[s] = server[s]
        BY <1>1, <1>3, <2>1 DEF Update
    <2> QED
        BY <1>1, <1>3, <2>1, <2>2
<1>4. CASE UNCHANGED vars
    BY <1>2, <1>4 DEF vars, threads
<1>5. ASSUME NEW t \in Server, ServerStep(t) \/ Kill(t)
      PROVE  server'[s] = FreshReplica /\ elections'[s] = NoElection
    <2>1. CASE LeaderTimeout(t)
        <3>1. /\ t \in up /\ UNCHANGED <<up, elections>>
              /\ Update(t, [server[t] EXCEPT !.timer = FALSE])
            BY <2>1 DEF LeaderTimeout, threads
        <3> QED
            BY <1>3, <3>1
    <2>2. CASE ElectionTimeout(t)
        <3>1. /\ t \in up /\ UNCHANGED up
              /\ Update(t, BecomeCandidate(server[t], t))
            BY <2>2 DEF ElectionTimeout
        <3>2. s # t
            BY <3>1
        <3>3. elections'[s] = elections[s]
            BY <1>1, <2>2, <3>2 DEF ElectionTimeout
        <3> QED
            BY <1>3, <3>1, <3>3
    <2>3. CASE Crash(t) \/ Kill(t)
        <3>1. /\ up' = up \ {t} /\ Update(t, FreshReplica)
              /\ elections' = [elections EXCEPT ![t] = NoElection]
            BY <2>3 DEF Crash, Kill, Die
        <3> QED
            BY <1>1, <3>1 DEF Update
    <2>4. CASE Restart(t)
        <3>1. /\ up' = up \cup {t} /\ Update(t, Loaded(disk[t]))
              /\ UNCHANGED elections
            BY <2>4 DEF Restart, threads
        <3> QED
            BY <1>1, <3>1 DEF Update
    <2>5. CASE DiskFails(t)
        BY <1>2, <2>5 DEF DiskFails, threads
    <2>6. ASSUME NEW command \in Command, Put(t, command)
          PROVE  server'[s] = FreshReplica /\ elections'[s] = NoElection
        <3>1. /\ t \in up /\ UNCHANGED <<up, elections>>
              /\ Update(t, AppendCommand(server[t], command))
            BY <2>6 DEF Put
        <3> QED
            BY <1>3, <3>1
    <2> QED
        BY <1>5, <2>1, <2>2, <2>3, <2>4, <2>5, <2>6 DEF ServerStep, Timeout
<1>6. ASSUME NEW m \in voteRequests, RequestVote(m)
      PROVE  server'[s] = FreshReplica /\ elections'[s] = NoElection
    <2>1. m.dst \in up /\ UNCHANGED <<up, elections>>
        BY <1>6 DEF RequestVote, threads
    <2>2. \E r : Update(m.dst, r)
        BY <1>6 DEF RequestVote, GrantVote, DenyVote
    <2> QED
        BY <1>3, <2>1, <2>2
<1>7. ASSUME NEW m \in voteReplies, CountVote(m)
      PROVE  server'[s] = FreshReplica /\ elections'[s] = NoElection
    <2>1. m.src \in up /\ UNCHANGED up
        BY <1>7 DEF CountVote, CallersAreUp
    <2>2. ElectionReturns(m.src, m.thread) =>
              elections'[s] \in {elections[s], NoElection}
        BY <1>1 DEF ElectionReturns
    <2>3. CASE VoterIsAhead(m) \/ WinElection(m)
        <3>1. /\ \E r : Update(m.src, r)
              /\ ElectionReturns(m.src, m.thread)
            BY <2>3 DEF VoterIsAhead, WinElection
        <3> QED
            BY <1>3, <2>1, <2>2, <3>1
    <2>4. CASE NoVote(m)
        BY <1>2, <2>1, <2>4 DEF NoVote
    <2>5. CASE AddVote(m)
        <3>1. s # m.src
            BY <2>1
        <3>2. elections'[s] = elections[s]
            BY <1>1, <2>5, <3>1 DEF AddVote
        <3> QED
            BY <1>2, <2>1, <2>5, <3>2 DEF AddVote
    <2> QED
        BY <1>7, <2>3, <2>4, <2>5 DEF CountVote
<1>8. ASSUME NEW m \in appendRequests, AppendEntries(m)
      PROVE  server'[s] = FreshReplica /\ elections'[s] = NoElection
    <2>1. m.dst \in up /\ UNCHANGED <<up, elections>>
        BY <1>8 DEF AppendEntries, threads
    <2>2. UNCHANGED server \/ \E r : Update(m.dst, r)
        BY <1>8 DEF AppendEntries, RejectStaleLeader, FailAssertion,
            RefuseEntries, TakeEntries, FollowLeader
    <2> QED
        BY <1>2, <1>3, <2>1, <2>2
<1>9. ASSUME NEW m \in appendReplies, HandleAppendReply(m)
      PROVE  server'[s] = FreshReplica /\ elections'[s] = NoElection
    <2>1. m.src \in up /\ UNCHANGED <<up, elections>>
        BY <1>9 DEF HandleAppendReply, CallersAreUp
    <2>2. UNCHANGED server \/ \E r : Update(m.src, r)
        BY <1>9 DEF HandleAppendReply, DeposedMeanwhile, FollowerIsAhead, UseReply
    <2> QED
        BY <1>2, <1>3, <2>1, <2>2
<1>10. ASSUME \/ \E m : VoteCallFails(m) \/ AppendCallFails(m)
              \/ \E th, f : SendAppendEntries(th, f) \/ ReplicatorEnds(th, f)
              \/ \E p : PutReturns(p)
       PROVE  UNCHANGED <<server, up, elections>>
    BY <1>10 DEF VoteCallFails, AppendCallFails, SendAppendEntries,
        ReplicatorEnds, PutReturns, threads
<1>11. CASE UNCHANGED <<server, up, elections>>
    BY <1>2, <1>11
<1> QED
    BY <1>4, <1>5, <1>6, <1>7, <1>8, <1>9, <1>10, <1>11
       DEF NextOrKill, Next, CallStep
-----------------------------------------------------------------------------
(***************************************************************************)
(* Steps of the frontend: what it remembers, and what it does to servers.  *)
(***************************************************************************)
LEMMA TasksInHand ==
    ASSUME worker \in Tasks
    PROVE  /\ worker.left \in SUBSET Server
           /\ worker.target \in Server \cup {None}
           /\ worker.command \in Command \cup {None}
BY DEF Tasks

LEMMA NewTasks ==
    ASSUME NEW left \in SUBSET Server
    PROVE  /\ Idle \in Tasks /\ Idle.doing = "idle"
           /\ Idle.command = None
           /\ \A d \in {"find server", "kill all", "restart"} :
                  Task(d, left) \in Tasks /\ Task(d, left).doing = d
           /\ \A c \in Command :
                  /\ [Task("find leader", left) EXCEPT !.command = c] \in Tasks
                  /\ [Task("find leader", left) EXCEPT !.command = c].command = c
BY DEF Tasks, Idle, Task

\* The worker goes on with its task.
LEMMA TaskGoesOn ==
    ASSUME worker \in Tasks, NEW s \in Server
    PROVE  /\ [worker EXCEPT !.left = @ \ {s}] \in Tasks
           /\ [worker EXCEPT !.left = @ \ {s}].doing = worker.doing
           /\ [worker EXCEPT !.left = @ \ {s}].command = worker.command
           /\ \A d \in {"put", "get"} :
                  LET w == [worker EXCEPT !.doing = d, !.left = {}, !.target = s]
                  IN  w \in Tasks /\ w.doing = d /\ w.command = worker.command
BY DEF Tasks

LEMMA NextTask ==
    ASSUME worker \in Tasks, NEW d \in {"await put", "start"}
    PROVE  /\ [worker EXCEPT !.doing = d] \in Tasks
           /\ [worker EXCEPT !.doing = d].doing = d
BY DEF Tasks

LEMMA NextTarget ==
    ASSUME worker \in Tasks, NEW s \in Server \cup {None}
    PROVE  /\ [worker EXCEPT !.target = s] \in Tasks
           /\ [worker EXCEPT !.target = s].doing = worker.doing
           /\ [worker EXCEPT !.target = s].command = worker.command
BY DEF Tasks

LEMMA WorkerSteps ==
    ASSUME worker \in Tasks, ForwardsItsCall, [FrontendNext]_<<vars, frontend>>
    PROVE  worker' \in Tasks /\ ForwardsItsCall'
<1>1. ASSUME worker' \in {worker, Idle}
      PROVE  worker' \in Tasks /\ ForwardsItsCall'
    BY <1>1, NewTasks DEF ForwardsItsCall
<1>2. ASSUME NEW s \in Server, worker' = [worker EXCEPT !.left = @ \ {s}]
      PROVE  worker' \in Tasks /\ ForwardsItsCall'
    BY <1>2, TaskGoesOn DEF ForwardsItsCall
<1>3. ASSUME NEW d \in {"await put", "start"},
             worker' = [worker EXCEPT !.doing = d]
      PROVE  worker' \in Tasks /\ ForwardsItsCall'
    BY <1>3, NextTask DEF ForwardsItsCall
<1>4. ASSUME NEW s \in Server, Found(s)
      PROVE  worker' \in Tasks /\ ForwardsItsCall'
    <2> DEFINE d == IF worker.doing = "find leader" THEN "put" ELSE "get"
    <2>1. worker' = [worker EXCEPT !.doing = d, !.left = {}, !.target = s]
        BY <1>4 DEF Found
    <2>2. d \in {"put", "get"}
        OBVIOUS
    <2>3. worker' \in Tasks /\ worker'.doing = d /\ worker'.command = worker.command
        BY <2>1, <2>2, TaskGoesOn
    <2>4. d = "put" => worker.command \in Command
        BY DEF ForwardsItsCall
    <2> QED
        BY <2>2, <2>3, <2>4 DEF ForwardsItsCall
<1>5. CASE \E s \in Server :
              \/ Missed(s) \/ StartProcess(s) \/ KillOrphan(s) \/ RemoveFile(s)
    BY <1>1, <1>2, <1>5
       DEF Missed, StartProcess, KillOrphan, RemoveFile, frontend
<1>6. ASSUME NEW s \in Server, ForgetProcess(s) \/ StopProcess(s)
      PROVE  worker' \in Tasks /\ ForwardsItsCall'
    <2>1. PICK o \in Server \cup {None} : worker' = [worker EXCEPT !.target = o]
        BY <1>6 DEF ForgetProcess, StopProcess
    <2> QED
        BY <2>1, NextTarget DEF ForwardsItsCall
<1>7. CASE \/ PutArrives \/ PutRefused \/ GetAnswered \/ CallFails
           \/ ClearState \/ AdminFails \/ \E p \in puts : PutAnswered(p)
    BY <1>1, <1>3, <1>7 DEF PutArrives, PutRefused, GetAnswered, CallFails,
        ClearState, NewCluster, AdminFails, PutAnswered
<1>8. CASE ClientStep
    <2>1. ASSUME NEW left \in SUBSET Server,
                 NEW d \in {"find server", "kill all", "restart"},
                 worker' = Task(d, left)
          PROVE  worker' \in Tasks /\ ForwardsItsCall'
        BY <2>1, NewTasks DEF ForwardsItsCall
    <2>2. ASSUME NEW c \in Command, PutCall(c)
          PROVE  worker' \in Tasks /\ ForwardsItsCall'
        <3>1. worker' = [Task("find leader", Server) EXCEPT !.command = c]
            BY <2>2 DEF PutCall
        <3>2. worker' \in Tasks /\ worker'.command = c
            BY <3>1, NewTasks
        <3> QED
            BY <3>2 DEF ForwardsItsCall
    <2>3. \A ids \in IdRanges : ids \in SUBSET Server
        BY IdRangesAssumption
    <2> QED
        BY <1>8, <2>1, <2>2, <2>3
           DEF ClientStep, GetCall, StartRaft, StartServer, Administers
<1>9. CASE \/ ClusterStep \/ \E p \in puts : AbandonedPutReturns(p)
           \/ UNCHANGED <<vars, frontend>>
    BY <1>1, <1>9 DEF ClusterStep, AbandonedPutReturns, frontend
<1> QED
    BY <1>4, <1>5, <1>6, <1>7, <1>8, <1>9 DEF FrontendNext, WorkerStep

\* What a step of the frontend is to the cluster unless it is about files.
ClusterMoves ==
    /\ [NextOrKill]_vars /\ UNCHANGED <<writable, erased, removed>>
    /\ processes' \subseteq Server /\ OrphansAreGone'

LEMMA CallStepsStartNothing ==
    ASSUME CallStep
    PROVE  UNCHANGED <<up, writable>>
<1>1. ASSUME NEW m, \/ RequestVote(m) \/ CountVote(m) \/ AppendEntries(m)
                    \/ HandleAppendReply(m) \/ VoteCallFails(m)
                    \/ AppendCallFails(m)
      PROVE  UNCHANGED <<up, writable>>
    BY <1>1 DEF RequestVote, CountVote, AppendEntries, HandleAppendReply,
        VoteCallFails, AppendCallFails
<1>2. ASSUME NEW th, NEW f, SendAppendEntries(th, f) \/ ReplicatorEnds(th, f)
      PROVE  UNCHANGED <<up, writable>>
    BY <1>2 DEF SendAppendEntries, ReplicatorEnds
<1> QED
    BY <1>1, <1>2 DEF CallStep

\* A step that starts no server loses track of none that runs.
LEMMA NoneIsLost ==
    ASSUME OrphansAreGone, up' \subseteq up,
           \/ worker'.doing # "start"
           \/ worker'.doing = worker.doing /\ UNCHANGED processes
    PROVE  OrphansAreGone'
BY DEF OrphansAreGone

LEMMA FrontendStepMoves ==
    ASSUME TypeOK, FrontendTypeOK, OrphansAreGone, ForwardsItsCall,
           [FrontendNext]_<<vars, frontend>>,
           ~ClearState, \A s \in Server : ~RemoveFile(s)
    PROVE  ClusterMoves
<1>1. processes \subseteq Server /\ worker \in Tasks
    BY DEF FrontendTypeOK
<1>2. UNCHANGED vars => UNCHANGED <<up, writable>>
    BY DEF vars
<1>3. ASSUME UNCHANGED <<vars, processes, erased, removed>>,
             worker'.doing \in {worker.doing} \cup
                 {"idle", "find leader", "find server", "put", "get",
                  "kill all", "restart"}
      PROVE  ClusterMoves
    BY <1>1, <1>2, <1>3, NoneIsLost DEF ClusterMoves
<1>4. CASE \/ PutRefused \/ GetAnswered \/ CallFails \/ AdminFails
           \/ UNCHANGED <<vars, frontend>>
    BY <1>3, <1>4, NewTasks DEF PutRefused, GetAnswered, CallFails, AdminFails,
        frontend
<1>5. ASSUME NEW s \in Server, Found(s) \/ Missed(s)
      PROVE  ClusterMoves
    <2>1. CASE Found(s)
        <3> DEFINE d == IF worker.doing = "find leader" THEN "put" ELSE "get"
        <3>1. worker' = [worker EXCEPT !.doing = d, !.left = {}, !.target = s]
            BY <2>1 DEF Found
        <3>2. worker'.doing = d
            BY <1>1, <3>1, TaskGoesOn
        <3> QED
            BY <1>3, <2>1, <3>2 DEF Found
    <2>2. CASE Missed(s)
        <3>1. worker' \in {Idle, [worker EXCEPT !.left = @ \ {s}]}
            BY <2>2 DEF Missed
        <3>2. worker'.doing \in {"idle", worker.doing}
            BY <1>1, <3>1, TaskGoesOn, NewTasks
        <3> QED
            BY <1>3, <2>2, <3>2 DEF Missed
    <2> QED
        BY <1>5, <2>1, <2>2
<1>6. CASE ClientStep
    <2>1. /\ UNCHANGED <<vars, processes, erased, removed>>
          /\ worker'.doing \in {"find leader", "find server", "kill all", "restart"}
        <3>1. \A left, c :
                  /\ Task("find server", left).doing = "find server"
                  /\ Task("kill all", left).doing = "kill all"
                  /\ Task("restart", left).doing = "restart"
                  /\ [Task("find leader", left) EXCEPT !.command = c].doing
                         = "find leader"
            BY DEF Task, Idle
        <3>2. ASSUME NEW c, PutCall(c)
              PROVE  /\ UNCHANGED <<vars, processes, erased, removed>>
                     /\ worker'.doing = "find leader"
            BY <3>1, <3>2 DEF PutCall
        <3>3. CASE GetCall
            BY <3>1, <3>3 DEF GetCall
        <3>4. ASSUME \/ \E ids \in IdRanges : StartRaft(ids)
                     \/ \E s \in Server : StartServer(s)
              PROVE  /\ UNCHANGED <<vars, processes, erased, removed>>
                     /\ worker'.doing \in {"kill all", "restart"}
            BY <3>1, <3>4 DEF StartRaft, StartServer, Administers
        <3> QED
            BY <1>6, <3>2, <3>3, <3>4 DEF ClientStep
    <2> QED
        BY <1>3, <2>1
<1>7. ASSUME NEW s \in Server, ForgetProcess(s)
      PROVE  ClusterMoves
    <2>1. /\ processes' = processes \ {s} /\ UNCHANGED <<vars, erased, removed>>
          /\ worker.doing \in {"kill all", "restart"}
          /\ worker' = [worker EXCEPT !.target = s]
        BY <1>7 DEF ForgetProcess
    <2>2. worker'.doing = worker.doing
        BY <1>1, <2>1, NextTarget
    <2> QED
        BY <1>1, <1>2, <2>1, <2>2, NoneIsLost DEF ClusterMoves
<1>8. ASSUME NEW s \in Server, StopProcess(s) \/ KillOrphan(s)
      PROVE  ClusterMoves
    <2>1. /\ UNCHANGED <<processes, erased, removed>>
          /\ Kill(s) \/ UNCHANGED vars
          /\ worker' \in {worker, [worker EXCEPT !.target = None]}
        BY <1>8 DEF StopProcess, KillOrphan, frontend
    <2>2. worker'.doing = worker.doing
        BY <1>1, <2>1, NextTarget
    <2>3. up' \subseteq up /\ UNCHANGED writable /\ [NextOrKill]_vars
        BY <1>2, <2>1 DEF Kill, Die, NextOrKill
    <2> QED
        BY <1>1, <2>1, <2>2, <2>3, NoneIsLost DEF ClusterMoves
<1>9. ASSUME NEW s \in Server, StartProcess(s)
      PROVE  ClusterMoves
    <2>1. /\ processes' = processes \cup {s} /\ UNCHANGED <<erased, removed>>
          /\ Restart(s)
          /\ worker' \in {Idle, [worker EXCEPT !.left = @ \ {s}]}
        BY <1>9 DEF StartProcess
    <2>2. up' = up \cup {s} /\ UNCHANGED writable
        BY <2>1 DEF Restart
    <2>3. worker'.doing \in {"idle", worker.doing}
        BY <1>1, <2>1, TaskGoesOn, NewTasks
    <2>4. OrphansAreGone'
        BY <2>1, <2>2, <2>3 DEF OrphansAreGone
    <2>5. NextOrKill
        BY <2>1 DEF NextOrKill, Next, ServerStep
    <2> QED
        BY <1>1, <2>1, <2>2, <2>4, <2>5 DEF ClusterMoves
<1>10. CASE PutArrives
    <2>1. /\ Put(worker.target, worker.command)
          /\ UNCHANGED <<processes, erased, removed>>
          /\ worker.command \in Command
          /\ worker' = [worker EXCEPT !.doing = "await put"]
        BY <1>10 DEF PutArrives, ForwardsItsCall
    <2>2. worker.target \in Server /\ UNCHANGED <<up, writable>>
        BY <2>1 DEF Put, TypeOK
    <2>3. NextOrKill
        BY <2>1, <2>2 DEF NextOrKill, Next, ServerStep
    <2>4. worker'.doing # "start"
        BY <1>1, <2>1, NextTask
    <2> QED
        BY <1>1, <2>1, <2>2, <2>3, <2>4, NoneIsLost DEF ClusterMoves
<1>11. ASSUME NEW p \in puts, PutAnswered(p) \/ AbandonedPutReturns(p)
      PROVE  ClusterMoves
    <2>1. /\ PutReturns(p) /\ UNCHANGED <<processes, erased, removed>>
          /\ worker' \in {worker, Idle}
        BY <1>11 DEF PutAnswered, AbandonedPutReturns, frontend
    <2>2. UNCHANGED <<up, writable>>
        BY <2>1 DEF PutReturns
    <2>3. NextOrKill
        BY <2>1 DEF NextOrKill, Next
    <2> QED
        BY <1>1, <2>1, <2>2, <2>3, NoneIsLost, NewTasks DEF ClusterMoves
<1>12. CASE ClusterStep
    <2>1. UNCHANGED <<processes, worker, erased, removed>>
        BY <1>12 DEF ClusterStep, frontend
    <2>2. NextOrKill
        BY <1>12 DEF ClusterStep, NextOrKill, Next, ServerStep
    <2>3. ASSUME NEW s, Timeout(s) \/ Crash(s)
          PROVE  up' \subseteq up /\ UNCHANGED writable
        BY <2>3 DEF Timeout, LeaderTimeout, ElectionTimeout, Crash, Die
    <2>4. up' \subseteq up /\ UNCHANGED writable
        BY <1>12, <2>3, CallStepsStartNothing DEF ClusterStep
    <2> QED
        BY <1>1, <2>1, <2>2, <2>4, NoneIsLost DEF ClusterMoves
<1> QED
    BY <1>4, <1>5, <1>6, <1>7, <1>8, <1>9, <1>10, <1>11, <1>12
       DEF FrontendNext, WorkerStep

LEMMA AdminSteps ==
    ASSUME admins \in 0..MaxAdmins, [FrontendNext]_<<vars, frontend>>
    PROVE  admins' \in 0..MaxAdmins
<1>1. \A task : Administers(task) => admins' \in 0..MaxAdmins
    BY MaxAdminsAssumption DEF Administers
<1> QED
    BY <1>1 DEF FrontendNext, WorkerStep, ClientStep, ClusterStep, PutCall,
        GetCall, StartRaft, StartServer, Found, Missed, ForgetProcess,
        StopProcess, KillOrphan, RemoveFile, StartProcess, PutArrives,
        PutRefused, GetAnswered, CallFails, PutAnswered, ClearState, NewCluster, AdminFails, AbandonedPutReturns,
        frontend
-----------------------------------------------------------------------------
(***************************************************************************)
(* RemoveFile: the servers are dead, and one more of them has no file.     *)
(***************************************************************************)
LEMMA EmptyFileType == EmptyFile \in StateFile /\ LinksOf(EmptyFile.log) = {}
BY EmptySeq, LinksOfEmptyLog DEF EmptyFile, StateFile, Log

LEMMA NextFiles ==
    ASSUME FrontendInv, NEW s \in Server, RemoveFile(s)
    PROVE  FrontendInv'
<1>1. /\ disk' = [disk EXCEPT ![s] = EmptyFile] /\ removed' = removed \cup {s}
      /\ UNCHANGED <<server, up, writable, voteRequests, voteReplies,
                     appendRequests, appendReplies, elections, replicators,
                     puts, ballots, leaders, issued, timeouts, crashes, faults,
                     processes, worker, admins, erased>>
    BY DEF RemoveFile, calls, threads, history, counters
<1>2. /\ FrontendTypeOK /\ TypeOK /\ DisksWork /\ OrphansAreGone
      /\ LeaderInv /\ CommandInv /\ RoundInv /\ DownServersHoldNothing
      /\ ForwardsItsCall /\ StartsFresh /\ RequestsAreFresh
    BY DEF FrontendInv
<1>3. \A t \in Server : disk'[t] \in {disk[t], EmptyFile}
    BY <1>1, <1>2 DEF TypeOK
<1>4. TypeOK'
    BY <1>1, <1>2, EmptyFileType DEF TypeOK
<1>5. /\ FrontendTypeOK' /\ DisksWork' /\ OrphansAreGone'
      /\ DownServersHoldNothing' /\ ForwardsItsCall' /\ RequestsAreFresh'
    BY <1>1, <1>2 DEF FrontendTypeOK, DisksWork, OrphansAreGone,
        DownServersHoldNothing, ForwardsItsCall, RequestsAreFresh
<1>6. LeaderInv'
    BY <1>1, <1>2 DEF LeaderInv, TimersPending, KnownLeaderWasElected,
        RequestsFromWinners, LeadersKnowThemselves, NothingToOneself,
        LeadersCountNoVotes, ElectionOver
<1>7. CommandInv'
    <2>1. Links' \subseteq Links
        BY <1>1, <1>3, EmptyFileType DEF Links
    <2> QED
        BY <1>1, <1>2, <2>1 DEF CommandInv, RequestsStartAtZero,
            CommandsAreIssued, OneLinkPerCommand
<1>8. RoundInv'
    BY <1>1, <1>2
       DEF RoundInv, CallersAreUp, PutsOnLog, ReplicatorsAreWinners,
           OneThreadPerWin, CallsAreAwaited, OneCallAtATime, Unanswered,
           RequestsFit, RepliesFit, RequestsCanBeBuilt, FirstWinReplicates,
           FirstLeads, WonOnce, ElectionOver
<1>9. StartsFresh'
    <2>1. Commands(EmptyFile.log) = {}
        BY DEF Commands, EmptyFile
    <2> QED
        BY <1>1, <1>2, <1>3, <2>1 DEF StartsFresh
<1>10. ~FilesAreWhole'
    BY <1>1 DEF FilesAreWhole
<1> QED
    BY <1>4, <1>5, <1>6, <1>7, <1>8, <1>9, <1>10 DEF FrontendInv
-----------------------------------------------------------------------------
(***************************************************************************)
(* ClearState: a cluster that never ran.                                   *)
(***************************************************************************)
NeverRan ==
    /\ TypeOK /\ DisksWork
    /\ up = {} /\ replicators = {} /\ puts = {}
    /\ \A s \in Server : /\ server[s] = FreshReplica /\ disk[s] = EmptyFile
                         /\ elections[s] = NoElection
    /\ voteRequests = {} /\ voteReplies = {}
    /\ appendRequests = {} /\ appendReplies = {}
    /\ ballots = {} /\ leaders = {}

LEMMA NothingInACluster ==
    ASSUME NeverRan
    PROVE  /\ VotingInv /\ LeaderInv /\ CommandInv /\ MatchingInv
           /\ RoundInv
           /\ DownServersHoldNothing /\ StartsFresh /\ RequestsAreFresh
<1>1. Links \subseteq {}
    <2>1. \A s \in Server : LinksOf(server[s].log) = {} /\ LinksOf(disk[s].log) = {}
        BY FreshFields, LinksOfEmptyLog DEF NeverRan, EmptyFile
    <2> QED
        BY <2>1 DEF NeverRan, Links
<1>2. VotingInv
    BY FreshFields
       DEF NeverRan, VotingInv, FilesAreCurrent, BallotsOnFile, OneBallot,
           CallersAreUp, ElectionThreads, GrantsAreBallots, CountedAreBallots,
           WinnersHadMajority, NoElection
<1>3. LeaderInv
    BY FreshFields
       DEF NeverRan, LeaderInv, TimersPending, KnownLeaderWasElected,
           RequestsFromWinners, LeadersKnowThemselves, NothingToOneself,
           LeadersCountNoVotes
<1>4. CommandInv
    BY <1>1 DEF NeverRan, CommandInv, RequestsStartAtZero, CommandsAreIssued,
        OneLinkPerCommand
<1>5. MatchingInv
    BY <1>1, FreshFields
       DEF NeverRan, MatchingInv, LinksAgree, LinksAreOfWinners,
           LeadersHoldTheirTerm, WonForGood, RequestsAreTaken,
           SuccessIsOfWinners, SuccessMeansMatch
<1>6. StartsFresh
    <2>1. Commands(<<>>) = {}
        BY DEF Commands
    <2>2. FreshReplica.applied = <<>>
        BY DEF FreshReplica
    <2> QED
        BY <2>1, <2>2, FreshFields DEF NeverRan, StartsFresh, EmptyFile
<1>7. RoundInv
    BY FreshFields
       DEF NeverRan, RoundInv, CallersAreUp, PutsOnLog, ReplicatorsAreWinners,
           OneThreadPerWin, CallsAreAwaited, OneCallAtATime, Unanswered,
           RequestsFit, RepliesFit, RequestsCanBeBuilt, FirstWinReplicates,
           FirstLeads
<1> QED
    BY <1>2, <1>3, <1>4, <1>5, <1>6, <1>7
       DEF NeverRan, DownServersHoldNothing, RequestsAreFresh

LEMMA NothingInTheNextCluster ==
    NeverRan' => /\ VotingInv' /\ LeaderInv' /\ CommandInv' /\ MatchingInv'
                 /\ RoundInv'
                 /\ DownServersHoldNothing' /\ StartsFresh' /\ RequestsAreFresh'
<1>1. NeverRan => /\ VotingInv /\ LeaderInv /\ CommandInv /\ MatchingInv
                  /\ RoundInv
                  /\ DownServersHoldNothing /\ StartsFresh /\ RequestsAreFresh
    BY NothingInACluster
<1> QED
    BY <1>1, PTL

\* StartRaft clears the state when no process is left, so nothing waits for
\* an answer and no server holds anything but its file, which is deleted.
LEMMA ClearedClusterNeverRan ==
    ASSUME FrontendInv, ClearState
    PROVE  NeverRan'
<1>1. /\ TypeOK /\ DisksWork /\ CallersAreUp /\ PutsOnLog
      /\ DownServersHoldNothing
    BY DEF FrontendInv, RoundInv
<1>2. /\ up = {} /\ disk = [s \in Server |-> EmptyFile]
      /\ voteRequests' = {} /\ voteReplies' = {}
      /\ appendRequests' = {} /\ appendReplies' = {}
      /\ timeouts' = 0 /\ ballots' = {} /\ leaders' = {}
      /\ UNCHANGED <<server, up, disk, writable, threads, issued, crashes, faults>>
    BY DEF ClearState, NewCluster, NoServerLeft
<1>3. UNCHANGED <<elections, replicators, puts>>
    BY <1>2 DEF threads
<1>4. replicators = {} /\ puts = {}
    BY <1>1, <1>2 DEF CallersAreUp, PutsOnLog
<1>5. \A s \in Server : server[s] = FreshReplica /\ elections[s] = NoElection
    BY <1>1, <1>2 DEF DownServersHoldNothing
<1>6. TypeOK'
    BY <1>1, <1>2, <1>3 DEF TypeOK
<1> QED
    BY <1>1, <1>2, <1>3, <1>4, <1>5, <1>6 DEF NeverRan, DisksWork
-----------------------------------------------------------------------------
(***************************************************************************)
(* The theorems.                                                           *)
(***************************************************************************)
LEMMA InitFrontend ==
    ASSUME FrontendInit
    PROVE  FrontendInv
<1>1. Init /\ processes = Server /\ worker = Idle /\ admins = 0 /\ erased = {}
      /\ removed = {}
    BY DEF FrontendInit
<1>2. VotingInv /\ LeaderInv /\ MatchingInv /\ RoundInv
    BY <1>1, InitElection, InitLeader, InitMatching, InitRound
<1>3. CommandInv
    BY <1>1, InitLinks DEF CommandInv, CommandsAreIssued, OneLinkPerCommand
<1>4. up = Server
    BY <1>1 DEF Init
<1>5. Idle \in Tasks /\ Idle.doing = "idle"
    BY NewTasks
<1>6. FrontendTypeOK /\ OrphansAreGone /\ ForwardsItsCall
    BY <1>1, <1>4, <1>5, MaxAdminsAssumption
       DEF FrontendTypeOK, OrphansAreGone, ForwardsItsCall
<1>7. TypeOK /\ DisksWork
    BY <1>2 DEF VotingInv, FilesAreCurrent
<1> QED
    BY <1>1, <1>2, <1>3, <1>4, <1>6, <1>7
       DEF FrontendInv, DownServersHoldNothing, StartsFresh, RequestsAreFresh

LEMMA NextFrontend ==
    ASSUME FrontendInv, [FrontendNext]_<<vars, frontend>>
    PROVE  FrontendInv'
<1>1. /\ FrontendTypeOK /\ TypeOK /\ DisksWork /\ OrphansAreGone
      /\ LeaderInv /\ CommandInv /\ RoundInv /\ CallersAreUp
      /\ FilesAreWhole => VotingInv /\ MatchingInv
      /\ DownServersHoldNothing /\ ForwardsItsCall
      /\ StartsFresh /\ RequestsAreFresh
    BY DEF FrontendInv, RoundInv
<1>2. worker' \in Tasks /\ ForwardsItsCall' /\ admins' \in 0..MaxAdmins
    BY <1>1, WorkerSteps, AdminSteps DEF FrontendTypeOK
<1>3. CASE ClearState
    <2>1. NeverRan'
        BY <1>3, ClearedClusterNeverRan
    <2>2. /\ processes' \subseteq Server /\ up' \subseteq processes'
          /\ erased' \subseteq issued' /\ removed' \subseteq Server
        BY <1>1, <1>3 DEF ClearState, NewCluster, NoServerLeft, FrontendTypeOK
    <2> QED
        BY <1>2, <2>1, <2>2, NothingInTheNextCluster
           DEF FrontendInv, FrontendTypeOK, OrphansAreGone, NeverRan
<1>4. CASE \E s \in Server : RemoveFile(s)
    BY <1>4, NextFiles
<1>5. CASE ~ClearState /\ \A s \in Server : ~RemoveFile(s)
    <2>1. /\ [NextOrKill]_vars /\ UNCHANGED <<writable, erased, removed>>
          /\ processes' \subseteq Server /\ OrphansAreGone'
        BY <1>1, <1>5, FrontendStepMoves DEF ClusterMoves
    <2>2. TypeOK' /\ DisksWork'
        BY <1>1, <2>1, NextType DEF DisksWork
    <2>3. LeaderInv' /\ CommandInv' /\ RoundInv'
        BY <1>1, <2>1, NextLeader, NextCommands, NextRound
    <2>4. FilesAreWhole' => VotingInv' /\ MatchingInv'
        <3> SUFFICES ASSUME FilesAreWhole'
                     PROVE  VotingInv' /\ MatchingInv'
            OBVIOUS
        <3>1. VotingInv /\ MatchingInv
            BY <1>1, <2>1 DEF FilesAreWhole
        <3>2. VotingInv'
            BY <2>1, <2>2, <3>1, NextElection
        <3>3. StepWithFiles
            BY <1>1, <2>1, <2>3, <3>1, <3>2 DEF StepWithFiles
        <3> QED
            BY <3>2, <3>3, NextMatching
    <2>5. DownServersHoldNothing'
        BY <1>1, <2>1, NextDownServers
    <2>6. /\ StartsFresh' /\ RequestsAreFresh' /\ erased' \subseteq issued'
          /\ removed' \subseteq Server
        <3>1. erased \subseteq issued /\ removed \subseteq Server
            BY <1>1 DEF FrontendTypeOK
        <3> QED
            BY <1>1, <2>1, <3>1, NextFresh
    <2> QED
        BY <1>2, <2>1, <2>2, <2>3, <2>4, <2>5, <2>6
           DEF FrontendInv, FrontendTypeOK
<1> QED
    BY <1>3, <1>4, <1>5

\* FrontendInv is an invariant of the frontend with its cluster: between one
\* StartRaft and the next the servers are a cluster of their own, wherever
\* _kill_server, rmtree or Popen failed and whichever calls came after that.
THEOREM FrontendInvariant == FrontendSpec => []FrontendInv
BY InitFrontend, NextFrontend, PTL DEF FrontendSpec

\* No server of an earlier cluster runs beside those that StartRaft starts,
\* though _kill_server takes a server off the record before it stops it, and
\* any call before may have failed in between.
THEOREM NoOrphansInANewCluster == FrontendSpec => []OrphansAreGone
<1>1. FrontendInv => OrphansAreGone
    BY DEF FrontendInv
<1> QED
    BY <1>1, FrontendInvariant, PTL

\* After a StartRaft no log, state file or state machine ever holds a
\* command from before it, late calls and abandoned Puts included.
THEOREM NothingSurvivesStartRaft == FrontendSpec => []StartsFresh
<1>1. FrontendInv => StartsFresh
    BY DEF FrontendInv
<1> QED
    BY <1>1, FrontendInvariant, PTL

\* What the cluster promises by itself it promises behind the frontend too,
\* from one StartRaft to the next: no command twice in a log, a pending
\* election timeout wherever none leads, Puts that a server acknowledges for
\* their own entry unless its term has changed, and a replicator for every
\* leader that won its first election. And, unless a StartRaft has removed
\* some state files and failed: at most one winner of a term, votes that are
\* not forgotten, logs that match, replies that are true, and assertions of
\* AppendEntries that fail at candidates only.
PromisedAnyway ==
    /\ NoEntryTwice /\ TimerArmed /\ KnownLeaderWasElected
    /\ AcksInItsTerm /\ FirstWinReplicates

PromisedWithFiles ==
    /\ OneWinnerPerTerm /\ BallotsOnFile /\ LogMatching /\ SuccessMeansMatch
    /\ OnlyCandidatesFailSanity

THEOREM PromisesBehindFrontend ==
    FrontendSpec => [](PromisedAnyway /\ (FilesAreWhole => PromisedWithFiles))
<1>1. ASSUME FrontendInv
      PROVE  PromisedAnyway /\ (FilesAreWhole => PromisedWithFiles)
    <2>1. TypeOK /\ LeaderInv /\ CommandInv /\ RoundInv
        BY <1>1 DEF FrontendInv
    <2>2. NoEntryTwice
        BY <2>1, EntriesOnce
    <2>3. TimerArmed /\ KnownLeaderWasElected
        BY <2>1 DEF TypeOK, LeaderInv, TimersPending, TimerArmed
    <2>4. AcksInItsTerm /\ FirstWinReplicates
        BY <2>1, PutsOnLogAckTheirOwn DEF RoundInv
    <2>5. ASSUME FilesAreWhole
          PROVE  PromisedWithFiles
        <3>1. VotingInv /\ MatchingInv
            BY <1>1, <2>5 DEF FrontendInv
        <3>2. OneWinnerPerTerm /\ BallotsOnFile
            BY <3>1, OneWinner DEF VotingInv
        <3>3. LogMatching /\ SuccessMeansMatch
            BY <2>1, <3>1, LogsOfLinksMatch DEF MatchingInv
        <3>4. OnlyCandidatesFailSanity
            BY <2>1, <3>1, CandidatesFailSanity DEF ElectionInv
        <3> QED
            BY <3>2, <3>3, <3>4 DEF PromisedWithFiles
    <2> QED
        BY <2>2, <2>3, <2>4, <2>5 DEF PromisedAnyway
<1> QED
    BY <1>1, FrontendInvariant, PTL
=============================================================================
