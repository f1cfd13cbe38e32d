---------------------------- MODULE RaftReplica ----------------------------
(***************************************************************************)
(* The state of one KeyValueStoreServicer and what its methods do to it.   *)
(*                                                                         *)
(* Each operator maps the record r of a server's fields to the record a    *)
(* method, or a part of one run under self._state_lock, leaves behind.     *)
(* RaftCluster says when they run. The state machine is kept as the        *)
(* sequence of entries applied to it, so last_applied is its length.       *)
(***************************************************************************)
EXTENDS RaftLog

Role == {"FOLLOWER", "CANDIDATE", "LEADER"}

\* timer tells whether an election timeout is pending. nextIndex holds 0
\* for a key that next_index does not have: it has the other servers' keys
\* while the server leads, the only time it is read, and none otherwise.
ReplicaState ==
    [term : Nat, votedFor : Server \cup {None}, role : Role,
     leaderId : Server \cup {None}, timer : BOOLEAN, log : Log,
     commitIndex : Nat, applied : Log, nextIndex : [Server -> Int]]

NoPeers == [f \in Server |-> 0]

FreshReplica ==
    [term |-> 0, votedFor |-> None, role |-> "FOLLOWER",
     leaderId |-> None, timer |-> TRUE, log |-> <<>>,
     commitIndex |-> 0, applied |-> <<>>, nextIndex |-> NoPeers]

(***************************************************************************)
(* Persistence: the three fields _persist_state writes and _load_state     *)
(* reads back. A server with no state file starts from EmptyFile.          *)
(***************************************************************************)
StateFile == [term : Nat, votedFor : Server \cup {None}, log : Log]

EmptyFile == [term |-> 0, votedFor |-> None, log |-> <<>>]

Persisted_NoVote(r) == [term |-> r.term, votedFor |-> None, log |-> r.log]

Persisted(r) == [term |-> r.term, votedFor |-> r.votedFor, log |-> r.log]

Loaded_VoteForgotten(file) ==
    [FreshReplica EXCEPT !.term = file.term, !.log = file.log]

Loaded(file) ==
    [FreshReplica EXCEPT !.term = file.term, !.votedFor = file.votedFor,
                         !.log = file.log]
-----------------------------------------------------------------------------
(***************************************************************************)
(* Terms and elections.                                                    *)
(***************************************************************************)
ResetElectionTimer(r) == [r EXCEPT !.timer = TRUE]

OnHigherTermDiscovery_NoTimer(r, term) ==
    [r EXCEPT !.role = "FOLLOWER", !.term = term, !.votedFor = None,
              !.leaderId = None, !.nextIndex = NoPeers]

OnHigherTermDiscovery_KeepsLeader(r, term) ==
    ResetElectionTimer(
        [r EXCEPT !.role = "FOLLOWER", !.term = term, !.votedFor = None,
                  !.nextIndex = NoPeers])

OnHigherTermDiscovery(r, term) ==
    ResetElectionTimer(
        [r EXCEPT !.role = "FOLLOWER", !.term = term, !.votedFor = None,
                  !.leaderId = None, !.nextIndex = NoPeers])

\* What a request handler does first with the term of the request.
Observe(r, term) ==
    IF term > r.term THEN OnHigherTermDiscovery(r, term) ELSE r

\* m is a RequestVote request; r has already observed its term.
GrantsVote_VotesTwice(r, m) ==
    m.term = r.term /\ UpToDate(m.lastLogTerm, m.lastLogIndex, r.log)

GrantsVote(r, m) ==
    /\ m.term = r.term
    /\ r.votedFor \in {None, m.src}
    /\ UpToDate(m.lastLogTerm, m.lastLogIndex, r.log)

CastVote(r, candidate) ==
    ResetElectionTimer([r EXCEPT !.votedFor = candidate])

BecomeCandidate_NoOwnVote(r, s) ==
    ResetElectionTimer([r EXCEPT !.term = @ + 1, !.role = "CANDIDATE",
                                 !.votedFor = None])

BecomeCandidate(r, s) ==
    ResetElectionTimer(
        [r EXCEPT !.term = @ + 1, !.role = "CANDIDATE", !.votedFor = s])

BecomeLeader_PastTheEnd(r, s) ==
    LET log == Append(r.log, [term |-> r.term, command |-> NoOp])
    IN  ResetElectionTimer(
            [r EXCEPT !.role = "LEADER", !.leaderId = s, !.log = log,
                      !.nextIndex = [f \in Server |->
                                        IF f = s THEN 0 ELSE Len(log) + 2]])

\* The new leader adds its no-op, then points next_index past it.
BecomeLeader(r, s) ==
    LET log == Append(r.log, [term |-> r.term, command |-> NoOp])
    IN  ResetElectionTimer(
            [r EXCEPT !.role = "LEADER", !.leaderId = s, !.log = log,
                      !.nextIndex = [f \in Server |->
                                        IF f = s THEN 0 ELSE Len(log) + 1]])
-----------------------------------------------------------------------------
(***************************************************************************)
(* Following a leader. m is an AppendEntries request of the server's term. *)
(***************************************************************************)

\* The two assertions of AppendEntries (python -O leaves them out).
SanityHolds_Off(r, m) == TRUE

SanityHolds(r, m) ==
    r.leaderId \in {None, m.src} /\ r.role # "LEADER"

Follow(r, leader) ==
    ResetElectionTimer(
        [r EXCEPT !.role = IF @ = "CANDIDATE" THEN "FOLLOWER" ELSE @,
                  !.leaderId = leader])

Consistent(r, m) == HasPrevious(r.log, m.prevLogIndex, m.prevLogTerm)

ApplyCommittedEntries(r) ==
    [r EXCEPT !.applied =
        @ \o SubSeq(r.log, Len(@) + 1, r.commitIndex)]

AppendNewEntries(r, m) ==
    LET merged == [r EXCEPT !.log =
                       MergeEntries(r.log, m.prevLogIndex, m.entries)]
    IN  IF m.leaderCommit > r.commitIndex
        THEN ApplyCommittedEntries(
                 [merged EXCEPT !.commitIndex =
                     Min({m.leaderCommit, Len(merged.log)})])
        ELSE merged
-----------------------------------------------------------------------------
(***************************************************************************)
(* Leading. m is a reply to an AppendEntries request; m.matched is the     *)
(* prevLogIndex + len(entries) of the request it answers.                  *)
(***************************************************************************)
RecordReply_NoBackUp(r, m) ==
    IF m.success THEN [r EXCEPT !.nextIndex[m.dst] = m.matched + 1] ELSE r

RecordReply(r, m) ==
    [r EXCEPT !.nextIndex[m.dst] = IF m.success THEN m.matched + 1
                                                ELSE @ - 1]

\* next_index stands in for the missing match_index: an entry below it is
\* taken to be on that follower.
Replicas(r, s, index) ==
    {s} \cup {f \in Server \ {s} : r.nextIndex[f] > index}

Committable(r, s) ==
    {i \in r.commitIndex + 1..Len(r.log) :
        /\ r.log[i].term = r.term
        /\ IsMajority(Cardinality(Replicas(r, s, i)))}

AdvanceCommitIndex(r, s) ==
    IF Committable(r, s) = {} THEN r
    ELSE ApplyCommittedEntries(
             [r EXCEPT !.commitIndex = Max(Committable(r, s))])

AppendCommand(r, command) ==
    [r EXCEPT !.log = Append(@, [term |-> r.term, command |-> command])]
=============================================================================
