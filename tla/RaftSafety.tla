----------------------------- MODULE RaftSafety -----------------------------
(***************************************************************************)
(* What the cluster of RaftCluster promises.                               *)
(***************************************************************************)
EXTENDS RaftCluster

VoteRequestCall ==
    [src : Server, dst : Server, term : Nat, lastLogIndex : Nat,
     lastLogTerm : Nat, open : BOOLEAN]

VoteReplyCall ==
    [src : Server, dst : Server, thread : Nat, term : Nat, granted : BOOLEAN]

AppendRequestCall ==
    [src : Server, dst : Server, thread : Nat, term : Nat, prevLogIndex : Nat,
     prevLogTerm : Nat, entries : Log, leaderCommit : Nat, open : BOOLEAN]

AppendReplyCall ==
    [src : Server, dst : Server, thread : Nat, term : Nat,
     success : BOOLEAN, matched : Nat]

\* The variables have the types the code gives them.
TypeOK ==
    /\ server \in [Server -> ReplicaState]
    /\ up \subseteq Server
    /\ disk \in [Server -> StateFile]
    /\ writable \subseteq Server
    /\ voteRequests \subseteq VoteRequestCall
    /\ voteReplies \subseteq VoteReplyCall
    /\ appendRequests \subseteq AppendRequestCall
    /\ appendReplies \subseteq AppendReplyCall
    /\ elections \in [Server -> [term : Nat, votes : SUBSET Server]]
    /\ replicators \subseteq
           [server : Server, thread : Nat, left : SUBSET Server]
    /\ puts \subseteq [server : Server, index : Nat, entry : Entry]
    /\ issued \subseteq Command
    /\ {timeouts, crashes, faults} \subseteq Nat
    /\ ballots \subseteq Server \X Nat \X Server
    /\ leaders \subseteq Nat \X Server

\* So far every _persist_state has reached the disk.
DisksWork == writable = Server

\* While disks work no term is won by two servers, over crashes and restarts
\* too: the majority test of _start_election and the vote of RequestVote.
OneWinnerPerTerm == \A a, b \in leaders : a[1] = b[1] => a[2] = b[2]

ElectionSafety == DisksWork => OneWinnerPerTerm

\* While disks work a vote once given, to oneself or to another, is still in
\* the voter's state file, or the file is in a later term: _persist_state is
\* called before a vote leaves the server.
BallotsOnFile ==
    \A b \in ballots :
        \/ disk[b[1]].term > b[2]
        \/ disk[b[1]].term = b[2] /\ disk[b[1]].votedFor = b[3]

VotesAreKept == DisksWork => BallotsOnFile

\* Two logs that hold the same term at an index agree up to it: the
\* consistency check and the conflict rule of AppendEntries.
LogMatching ==
    \A s, t \in Server :
        \A i \in 1..Min({Len(server[s].log), Len(server[t].log)}) :
            server[s].log[i].term = server[t].log[i].term =>
                SubSeq(server[s].log, 1, i) = SubSeq(server[t].log, 1, i)

\* A leader that gets "success" in its own term from a follower still in
\* that term shares its log with it up to the index it will record.
SuccessMeansMatch ==
    \A m \in appendReplies :
        /\ m.success
        /\ server[m.src].role = "LEADER" /\ server[m.src].term = m.term
        /\ disk[m.dst].term = m.term
        => /\ m.matched <= Len(disk[m.dst].log)
           /\ m.matched <= Len(server[m.src].log)
           /\ SubSeq(disk[m.dst].log, 1, m.matched) =
                  SubSeq(server[m.src].log, 1, m.matched)

\* Every running server that does not lead has an election timeout pending,
\* by whatever role and step it came there: the TODOs of
\* _on_higher_term_discovery.
TimerArmed ==
    \A s \in up : server[s].role # "LEADER" => server[s].timer

\* The leader a follower or leader knows has won the election of the
\* server's own term.
KnownLeaderWasElected ==
    \A s \in Server :
        /\ server[s].role # "CANDIDATE"
        /\ server[s].leaderId # None
        => <<server[s].term, server[s].leaderId>> \in leaders

\* No log holds a client's command twice, however often the entries of a
\* request are sent, refused, sent again or arrive late.
NoEntryTwice ==
    \A s \in Server :
        \A i, j \in 1..Len(server[s].log) :
            /\ server[s].log[i].command \in Command
            /\ server[s].log[i].command = server[s].log[j].command
            => i = j

Received == {m \in appendRequests : m.dst \in up}

\* The two assertions of AppendEntries, for every request that may arrive:
\* while disks work it does not come from another leader of the term, and
\* the leader already known is the one that sends it.
NeverTwoLeadersMeet ==
    DisksWork => \A m \in Received :
        server[m.dst].role = "LEADER" => m.term # server[m.dst].term

LeaderIdIsSane ==
    \A m \in Received :
        m.term = server[m.dst].term => server[m.dst].leaderId \in {None, m.src}

\* Of the requests of its own term only a candidate can fail one: it still
\* names the leader of an earlier term, which _start_election keeps.
OnlyCandidatesFailSanity ==
    DisksWork => \A m \in Received :
        /\ m.term = server[m.dst].term
        /\ ~SanityHolds(server[m.dst], m)
        => server[m.dst].role = "CANDIDATE"

\* While a server leads a term its log changes only by appending commands
\* that clients put on it.
LeaderLogIsItsOwn ==
    [][\A s \in Server :
         /\ server[s].role = "LEADER" /\ server'[s].role = "LEADER"
         /\ server[s].term = server'[s].term
         => \/ server'[s].log = server[s].log
            \/ \E c \in issued' \ issued :
                   server'[s].log = Append(server[s].log,
                                     [term |-> server[s].term, command |-> c])
      ]_vars

\* "Check if this entry is replicated on majority": whatever a running
\* server holds committed is in the state files of a majority.
Holds(s, index, entry) ==
    index <= Len(disk[s].log) /\ disk[s].log[index] = entry

CommittedOnMajority ==
    \A s \in up : \A i \in 1..Len(server[s].applied) :
        IsMajority(Cardinality(
            {t \in Server : Holds(t, i, server[s].applied[i])}))

\* A Put that is about to answer success finds its own entry in the log.
AcksOwnEntry ==
    \A p \in puts : PutIsAcked(p) =>
        server[p.server].log[p.index] = p.entry

\* "Periodically send AppendEntries to all peers while leader": a leader has
\* a replicator thread.
LeaderReplicates ==
    \A s \in up : server[s].role = "LEADER" =>
        \E th \in replicators : th.server = s
-----------------------------------------------------------------------------
(***************************************************************************)
(* Why no term has two winners while state files can be relied on. A vote  *)
(* is a ballot; the votes a candidate counts are ballots for it in its     *)
(* term; a voter casts one ballot a term because its file remembers it;    *)
(* and two majorities share a voter.                                       *)
(***************************************************************************)
OneBallot ==
    \A b, c \in ballots : b[1] = c[1] /\ b[2] = c[2] => b[3] = c[3]

FilesAreCurrent ==
    /\ DisksWork
    /\ \A s \in up : disk[s] = Persisted(server[s])
    /\ \A s \in Server \ up : server[s] = FreshReplica

\* Only a running server waits for an answer.
CallersAreUp ==
    /\ \A m \in voteRequests \cup appendRequests : m.open => m.src \in up
    /\ \A m \in voteReplies \cup appendReplies : m.src \in up
    /\ \A th \in replicators : th.server \in up

\* An election thread is the newest of its server, or of a term left behind.
NewestOrLeftBehind(s, term) ==
    term = elections[s].term \/ term < server[s].term

ElectionThreads ==
    /\ \A s \in Server : elections[s].term <= server[s].term
    /\ \A m \in voteRequests : m.open => NewestOrLeftBehind(m.src, m.term)
    /\ \A m \in voteReplies : NewestOrLeftBehind(m.src, m.thread)

GrantsAreBallots ==
    \A m \in voteReplies : m.granted =>
        m.term = m.thread /\ <<m.dst, m.thread, m.src>> \in ballots

CountedAreBallots ==
    \A s \in Server : \A v \in elections[s].votes :
        <<v, elections[s].term, s>> \in ballots

WinnersHadMajority ==
    \A l \in leaders : \E votes \in SUBSET Server :
        /\ IsMajority(Cardinality(votes))
        /\ \A v \in votes : <<v, l[1], l[2]>> \in ballots

VotingInv ==
    /\ TypeOK
    /\ FilesAreCurrent
    /\ BallotsOnFile
    /\ OneBallot
    /\ CallersAreUp
    /\ ElectionThreads
    /\ GrantsAreBallots
    /\ CountedAreBallots
    /\ WinnersHadMajority

\* What the proof of ElectionSafety rests on: votes given, votes on file,
\* votes counted and elections won agree while disks work.
ElectionInv == DisksWork => VotingInv

-----------------------------------------------------------------------------
(***************************************************************************)
(* Why a server knows only leaders that were elected, and keeps its timer, *)
(* with working disks or without: requests come from winners, and who has  *)
(* won an election counts no further vote of it.                           *)
(***************************************************************************)
TimersPending ==
    \A s \in Server : server[s].role # "LEADER" => server[s].timer

RequestsFromWinners ==
    \A m \in appendRequests : <<m.term, m.src>> \in leaders

LeadersKnowThemselves ==
    \A s \in Server : server[s].role = "LEADER" => server[s].leaderId = s

NothingToOneself ==
    /\ \A th \in replicators : th.server \notin th.left
    /\ \A m \in appendRequests : m.dst # m.src

\* No election thread of s waits for a vote in this term.
ElectionOver(s, term) ==
    /\ \A m \in voteRequests : m.open => ~(m.src = s /\ m.term = term)
    /\ \A m \in voteReplies : ~(m.src = s /\ m.thread = term)

LeadersCountNoVotes ==
    /\ \A m \in voteReplies : m.granted => m.term = m.thread
    /\ \A s \in Server :
           server[s].role = "LEADER" => ElectionOver(s, server[s].term)

LeaderInv ==
    /\ TimersPending
    /\ KnownLeaderWasElected
    /\ RequestsFromWinners
    /\ LeadersKnowThemselves
    /\ NothingToOneself
    /\ LeadersCountNoVotes
-----------------------------------------------------------------------------
\* The elections of _start_election and RequestVote, crashes and late calls
\* included, are elections of Voting when no disk fails.
Majorities == {votes \in SUBSET Server : IsMajority(Cardinality(votes))}

Election == INSTANCE Voting WITH Quorum <- Majorities

ImplementsVoting == Election!Spec
=============================================================================
