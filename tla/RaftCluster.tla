---------------------------- MODULE RaftCluster ----------------------------
(***************************************************************************)
(* A cluster of KeyValueStoreServicer processes: their RPCs, the threads   *)
(* each of them runs, their state files, crashes, restarts and lost calls. *)
(*                                                                         *)
(* A step is a section run under self._state_lock, with the sends and the  *)
(* thread starts that follow it. Each RPC runs in a thread of its own and  *)
(* has no deadline: a call is a record that turns from request to reply.   *)
(* In both, src is the caller and dst the callee. A request is open while  *)
(* a thread waits for the answer; once that thread has returned, died or   *)
(* got an error the request may still arrive, but its answer is dropped.   *)
(* Handlers run in a pool of Workers threads. All of them return within    *)
(* one step but Put, which keeps its worker while it polls: a request to a *)
(* server whose workers are all taken waits.                               *)
(***************************************************************************)
EXTENDS RaftReplica

CONSTANTS
    Workers,        \* max_workers of a server's thread pool (10)
    Candidates,     \* bound: the servers whose election timeout runs out
    MaxElections,   \* bound: elections started in a behaviour
    MaxCrashes,     \* bound: crashes in a behaviour
    MaxFaults,      \* bound: calls to a live server that fail
    MaxInFlight,    \* bound: AppendEntries calls under way at a time, not
                    \*        counting those that wait for a worker
    MaxLate,        \* bound: requests that may arrive though abandoned
    MaxDiskFaults,  \* bound: servers whose disk stops taking writes
    MaxIdleTimers   \* bound: leaders whose timer has run out

ASSUME WorkersAssumption == Workers \in Nat \ {0}

ASSUME BoundsAssumption ==
    /\ Candidates \subseteq Server
    /\ {MaxElections, MaxCrashes, MaxFaults, MaxInFlight, MaxLate,
        MaxDiskFaults, MaxIdleTimers} \subseteq Nat

VARIABLES
    server,         \* the fields of each servicer
    up,             \* the servers whose process runs
    disk,           \* each server's state file
    writable,       \* the servers whose _persist_state reaches the disk
    voteRequests, voteReplies,          \* RequestVote calls
    appendRequests, appendReplies,      \* AppendEntries calls
    elections,      \* votes counted by each server's newest election thread
    replicators,    \* threads in _replicate_to_followers
    puts,           \* Put handlers that wait for their entry to commit
    issued,         \* commands clients have put; each is put once
    timeouts, crashes, faults,      \* counters for the bounds
    ballots,        \* history: <<voter, term, candidate>> of every vote
    leaders         \* history: <<term, server>> of every election won

calls == <<voteRequests, voteReplies, appendRequests, appendReplies>>
threads == <<elections, replicators, puts>>
history == <<ballots, leaders>>
counters == <<issued, timeouts, crashes, faults>>

vars == <<server, up, disk, writable, calls, threads, history, counters>>

\* Server fields of s after a step, and the file if the step saves it.
Update(s, r) == server' = [server EXCEPT ![s] = r]

Save(s, r) ==
    disk' = IF s \in writable THEN [disk EXCEPT ![s] = Persisted(r)] ELSE disk

SaveIf(called, s, r) == IF called THEN Save(s, r) ELSE UNCHANGED disk

\* The server has a worker left to run a handler.
Free(s) == Cardinality({p \in puts : p.server = s}) < Workers

NoElection == [term |-> 0, votes |-> {}]

Init ==
    /\ server = [s \in Server |-> FreshReplica]
    /\ up = Server
    /\ disk = [s \in Server |-> EmptyFile]
    /\ writable = Server
    /\ voteRequests = {} /\ voteReplies = {}
    /\ appendRequests = {} /\ appendReplies = {}
    /\ elections = [s \in Server |-> NoElection]
    /\ replicators = {} /\ puts = {} /\ issued = {}
    /\ timeouts = 0 /\ crashes = 0 /\ faults = 0
    /\ ballots = {} /\ leaders = {}

\* The requests once no thread waits for the abandoned ones any more: some
\* of these may still arrive, MaxLate at a time, and the others never do.
Abandoned(requests) == {[m EXCEPT !.open = FALSE] : m \in requests}

Late(requests) == {m \in requests : ~m.open}

Outcomes(requests, abandoned) ==
    {(requests \ abandoned) \cup late :
        late \in {l \in SUBSET Abandoned(abandoned) :
                     l = {} \/ Cardinality(Late(requests) \cup l) <= MaxLate}}
-----------------------------------------------------------------------------
(***************************************************************************)
(* Elections: _start_election and RequestVote.                             *)
(***************************************************************************)
VoteRequest_Sentinel(s, r, peer) ==
    [src |-> s, dst |-> peer, term |-> r.term, lastLogIndex |-> Len(r.log) - 1,
     lastLogTerm |-> LastTerm(r.log), open |-> TRUE]

VoteRequest(s, r, peer) ==
    [src |-> s, dst |-> peer, term |-> r.term, lastLogIndex |-> Len(r.log),
     lastLogTerm |-> LastTerm(r.log), open |-> TRUE]

\* A leader's timer runs out too, once, and nothing arms it again until the
\* leader steps down.
LeaderTimeout(s) ==
    /\ s \in up /\ server[s].timer /\ server[s].role = "LEADER"
    /\ Cardinality({t \in up : ~server[t].timer}) < MaxIdleTimers
    /\ Update(s, [server[s] EXCEPT !.timer = FALSE])
    /\ UNCHANGED <<up, disk, writable, calls, threads, history, counters>>

ElectionTimeout(s) ==
    /\ s \in up /\ server[s].timer /\ server[s].role # "LEADER"
    /\ s \in Candidates /\ timeouts < MaxElections
    /\ timeouts' = timeouts + 1
    /\ LET r == BecomeCandidate(server[s], s)
       IN  /\ Update(s, r)
           /\ Save(s, r)
           /\ elections' =
                  [elections EXCEPT ![s] = [term |-> r.term, votes |-> {s}]]
           /\ voteRequests' = voteRequests \cup
                  {VoteRequest(s, r, peer) : peer \in Server \ {s}}
           /\ ballots' = ballots \cup {<<s, r.term, s>>}
    /\ UNCHANGED <<up, writable, voteReplies, appendRequests, appendReplies,
                   replicators, puts, leaders, issued, crashes, faults>>

VoteReply(m, r, granted) ==
    [src |-> m.src, dst |-> m.dst, thread |-> m.term, term |-> r.term,
     granted |-> granted]

GrantVote(m) ==
    LET seen == Observe(server[m.dst], m.term)
        r == CastVote(seen, m.src)
    IN  /\ GrantsVote(seen, m)
        /\ Update(m.dst, r)
        /\ Save(m.dst, r)
        /\ ballots' = ballots \cup {<<m.dst, m.term, m.src>>}
        /\ voteReplies' = voteReplies \cup
               (IF m.open THEN {VoteReply(m, r, TRUE)} ELSE {})

DenyVote(m) ==
    LET r == Observe(server[m.dst], m.term)
    IN  /\ ~GrantsVote(r, m)
        /\ Update(m.dst, r)
        /\ SaveIf(m.term > server[m.dst].term, m.dst, r)
        /\ voteReplies' = voteReplies \cup
               (IF m.open THEN {VoteReply(m, r, FALSE)} ELSE {})
        /\ UNCHANGED ballots

RequestVote(m) ==
    /\ m \in voteRequests /\ m.dst \in up /\ Free(m.dst)
    /\ GrantVote(m) \/ DenyVote(m)
    /\ voteRequests' = voteRequests \ {m}
    /\ UNCHANGED <<up, writable, appendRequests, appendReplies, threads,
                   leaders, counters>>

ElectionReturns_KeepsCounting(s, term) ==
    UNCHANGED <<voteRequests, voteReplies, elections>>

\* An election thread returns: it drops what it was still waiting for.
ElectionReturns(s, term) ==
    /\ voteRequests' \in Outcomes(voteRequests,
                          {m \in voteRequests : m.src = s /\ m.term = term})
    /\ voteReplies' = {m \in voteReplies : ~(m.src = s /\ m.thread = term)}
    /\ elections' = IF elections[s].term = term
                    THEN [elections EXCEPT ![s] = NoElection]
                    ELSE elections

\* How an election thread takes the reply m.
VoterIsAhead(m) ==
    /\ m.term > server[m.src].term
    /\ LET r == OnHigherTermDiscovery(server[m.src], m.term)
       IN  Update(m.src, r) /\ Save(m.src, r)
    /\ ElectionReturns(m.src, m.thread)
    /\ UNCHANGED <<replicators, leaders>>

NoVote(m) ==
    /\ \/ m.term < server[m.src].term
       \/ m.term = server[m.src].term /\ ~m.granted
    /\ voteReplies' = voteReplies \ {m}
    /\ UNCHANGED <<server, disk, voteRequests, elections, replicators, leaders>>

VotesWith(m) == elections[m.src].votes \cup {m.dst}

AddVote(m) ==
    /\ m.term = server[m.src].term /\ m.granted
    /\ ~IsMajority(Cardinality(VotesWith(m)))
    /\ elections' = [elections EXCEPT ![m.src].votes = VotesWith(m)]
    /\ voteReplies' = voteReplies \ {m}
    /\ UNCHANGED <<server, disk, voteRequests, replicators, leaders>>

WinElection_StaleVotes(m) ==
    /\ m.granted /\ IsMajority(Cardinality(VotesWith(m)))
    /\ LET r == BecomeLeader(server[m.src], m.src)
       IN  Update(m.src, r) /\ Save(m.src, r)
    /\ ElectionReturns(m.src, m.thread)
    /\ replicators' = replicators \cup
           {[server |-> m.src, thread |-> m.thread,
             left |-> Server \ {m.src}]}
    /\ leaders' = leaders \cup {<<server[m.src].term, m.src>>}

\* A thread of _replicate_to_followers is named by the election that
\* started it; left is who it has still to send to in this round.
WinElection(m) ==
    /\ m.term = server[m.src].term /\ m.granted
    /\ IsMajority(Cardinality(VotesWith(m)))
    /\ LET r == BecomeLeader(server[m.src], m.src)
       IN  Update(m.src, r) /\ Save(m.src, r)
    /\ ElectionReturns(m.src, m.thread)
    /\ replicators' = replicators \cup
           {[server |-> m.src, thread |-> m.thread,
             left |-> Server \ {m.src}]}
    /\ leaders' = leaders \cup {<<m.term, m.src>>}

CountVote(m) ==
    /\ m \in voteReplies
    /\ VoterIsAhead(m) \/ NoVote(m) \/ AddVote(m) \/ WinElection(m)
    /\ UNCHANGED <<up, writable, appendRequests, appendReplies, puts,
                   ballots, counters>>
-----------------------------------------------------------------------------
(***************************************************************************)
(* Replication: _replicate_to_followers and AppendEntries.                 *)
(***************************************************************************)
Awaits(th, m) == m.src = th.server /\ m.thread = th.thread

\* Whom a replicator sends to next: the rest of its round, or everyone
\* once every call of the round has been answered or has failed.
Due(th) ==
    IF /\ th.left = {}
       /\ \A m \in appendRequests : ~(m.open /\ Awaits(th, m))
       /\ \A m \in appendReplies : ~Awaits(th, m)
    THEN Server \ {th.server}
    ELSE th.left

ReplicatorReturns(th) ==
    /\ replicators' = replicators \ {th}
    /\ appendRequests' \in
           Outcomes(appendRequests, {m \in appendRequests : Awaits(th, m)})
    /\ appendReplies' = {m \in appendReplies : ~Awaits(th, m)}

AppendRequest_LastTerm(th, r, f) ==
    [src |-> th.server, dst |-> f, thread |-> th.thread, term |-> r.term,
     prevLogIndex |-> r.nextIndex[f] - 1, prevLogTerm |-> LastTerm(r.log),
     entries |-> SubSeq(r.log, r.nextIndex[f], Len(r.log)),
     leaderCommit |-> r.commitIndex, open |-> TRUE]

AppendRequest(th, r, f) ==
    LET prev == r.nextIndex[f] - 1
    IN  [src |-> th.server, dst |-> f, thread |-> th.thread, term |-> r.term,
         prevLogIndex |-> prev, prevLogTerm |-> LastTerm(SubSeq(r.log, 1, prev)),
         entries |-> SubSeq(r.log, prev + 1, Len(r.log)),
         leaderCommit |-> r.commitIndex, open |-> TRUE]

\* next_index can only name a request when the entry before it exists, and
\* slot 0 of the log, which holds no entry, is not among those to send.
Sendable(r, f) == r.nextIndex[f] \in 1..Len(r.log) + 1

SendAppendEntries(th, f) ==
    /\ th \in replicators /\ f \in Due(th)
    /\ server[th.server].role = "LEADER"
    /\ Sendable(server[th.server], f)
    /\ Cardinality({m \in appendRequests : Free(m.dst)})
           + Cardinality(appendReplies) < MaxInFlight
    /\ replicators' = (replicators \ {th}) \cup
                          {[th EXCEPT !.left = Due(th) \ {f}]}
    /\ appendRequests' = appendRequests \cup
                             {AppendRequest(th, server[th.server], f)}
    /\ UNCHANGED <<server, up, disk, writable, voteRequests, voteReplies,
                   appendReplies, elections, puts, history, counters>>

\* The thread ends: the server no longer leads, or preparing the request
\* raised. (A next_index below 0 takes three replicators at once.)
ReplicatorEnds(th, f) ==
    /\ th \in replicators /\ f \in Due(th)
    /\ \/ server[th.server].role # "LEADER"
       \/ ~Sendable(server[th.server], f) /\ server[th.server].nextIndex[f] >= 0
    /\ ReplicatorReturns(th)
    /\ UNCHANGED <<server, up, disk, writable, voteRequests, voteReplies,
                   elections, puts, history, counters>>

AppendReply(m, r, success) ==
    [src |-> m.src, dst |-> m.dst, thread |-> m.thread, term |-> r.term,
     success |-> success,
     matched |-> IF success THEN m.prevLogIndex + Len(m.entries) ELSE 0]

\* What the handler of the request m does to the follower.
RejectStaleLeader(m) ==
    /\ m.term < server[m.dst].term
    /\ appendReplies' = appendReplies \cup
           (IF m.open THEN {AppendReply(m, server[m.dst], FALSE)} ELSE {})
    /\ UNCHANGED <<server, disk>>

\* The assertion's exception reaches the caller as an error.
FailAssertion(m) ==
    /\ m.term >= server[m.dst].term
    /\ ~SanityHolds(Observe(server[m.dst], m.term), m)
    /\ UNCHANGED <<server, disk, appendReplies>>

Follower(m) == Follow(Observe(server[m.dst], m.term), m.src)

FollowLeader(m, r, success) ==
    /\ m.term >= server[m.dst].term
    /\ SanityHolds(Observe(server[m.dst], m.term), m)
    /\ Update(m.dst, r)
    /\ SaveIf(m.term > server[m.dst].term \/ r.log # server[m.dst].log,
              m.dst, r)
    /\ appendReplies' = appendReplies \cup
           (IF m.open THEN {AppendReply(m, r, success)} ELSE {})

RefuseEntries(m) ==
    /\ ~Consistent(Follower(m), m)
    /\ FollowLeader(m, Follower(m), FALSE)

TakeEntries(m) ==
    /\ Consistent(Follower(m), m)
    /\ FollowLeader(m, AppendNewEntries(Follower(m), m), TRUE)

AppendEntries(m) ==
    /\ m \in appendRequests /\ m.dst \in up /\ Free(m.dst)
    /\ \/ RejectStaleLeader(m) \/ FailAssertion(m)
       \/ RefuseEntries(m) \/ TakeEntries(m)
    /\ appendRequests' = appendRequests \ {m}
    /\ UNCHANGED <<up, writable, voteRequests, voteReplies, threads,
                   history, counters>>

\* What the replicator does with the reply m. It returns unless it leads.
ReplicatorsAwaiting(m) == {th \in replicators : Awaits(th, m)}

DeposedMeanwhile(m) ==
    /\ server[m.src].role # "LEADER"
    /\ \E th \in ReplicatorsAwaiting(m) : ReplicatorReturns(th)
    /\ UNCHANGED <<server, disk>>

FollowerIsAhead_KeepsLeading(m) ==
    /\ server[m.src].role = "LEADER" /\ m.term > server[m.src].term
    /\ appendReplies' = appendReplies \ {m}
    /\ UNCHANGED <<server, disk, appendRequests, replicators>>

FollowerIsAhead(m) ==
    /\ server[m.src].role = "LEADER" /\ m.term > server[m.src].term
    /\ LET r == OnHigherTermDiscovery(server[m.src], m.term)
       IN  Update(m.src, r) /\ Save(m.src, r)
    /\ \E th \in ReplicatorsAwaiting(m) : ReplicatorReturns(th)

\* The reply is not compared with the leader's term from below.
UseReply(m) ==
    /\ server[m.src].role = "LEADER" /\ m.term <= server[m.src].term
    /\ Update(m.src, AdvanceCommitIndex(RecordReply(server[m.src], m), m.src))
    /\ appendReplies' = appendReplies \ {m}
    /\ UNCHANGED <<disk, appendRequests, replicators>>

HandleAppendReply(m) ==
    /\ m \in appendReplies
    /\ DeposedMeanwhile(m) \/ FollowerIsAhead(m) \/ UseReply(m)
    /\ UNCHANGED <<up, writable, voteRequests, voteReplies, elections, puts,
                   history, counters>>
-----------------------------------------------------------------------------
(***************************************************************************)
(* Clients: Put. A server that is not the leader refuses at once, and Get  *)
(* and GetState only read: neither is a step.                              *)
(***************************************************************************)
Put_IndexBefore(s, command) ==
    /\ s \in up /\ Free(s) /\ server[s].role = "LEADER"
    /\ command \notin issued
    /\ LET r == AppendCommand(server[s], command)
       IN  /\ Update(s, r)
           /\ Save(s, r)
           /\ puts' = puts \cup {[server |-> s, index |-> Len(server[s].log),
                                  entry |-> r.log[Len(r.log)]]}
    /\ issued' = issued \cup {command}
    /\ UNCHANGED <<up, writable, calls, elections, replicators, history,
                   timeouts, crashes, faults>>

Put(s, command) ==
    /\ s \in up /\ Free(s) /\ server[s].role = "LEADER"
    /\ command \notin issued
    /\ LET r == AppendCommand(server[s], command)
       IN  /\ Update(s, r)
           /\ Save(s, r)
           /\ puts' = puts \cup {[server |-> s, index |-> Len(r.log),
                                  entry |-> r.log[Len(r.log)]]}
    /\ issued' = issued \cup {command}
    /\ UNCHANGED <<up, writable, calls, elections, replicators, history,
                   timeouts, crashes, faults>>

\* The poll of commit_index that answers success, or "Not leader".
PutIsAcked(p) ==
    /\ server[p.server].role = "LEADER"
    /\ server[p.server].commitIndex >= p.index

PutReturns(p) ==
    /\ p \in puts
    /\ server[p.server].role # "LEADER" \/ PutIsAcked(p)
    /\ puts' = puts \ {p}
    /\ UNCHANGED <<server, up, disk, writable, calls, elections, replicators,
                   history, counters>>
-----------------------------------------------------------------------------
(***************************************************************************)
(* Faults.                                                                 *)
(***************************************************************************)

\* The process dies: its fields and its threads are gone. What it had sent
\* may still arrive.
Die(s) ==
    /\ s \in up
    /\ up' = up \ {s}
    /\ Update(s, FreshReplica)
    /\ voteRequests' \in
           Outcomes(voteRequests, {m \in voteRequests : m.src = s})
    /\ voteReplies' = {m \in voteReplies : m.src # s}
    /\ appendRequests' \in
           Outcomes(appendRequests, {m \in appendRequests : m.src = s})
    /\ appendReplies' = {m \in appendReplies : m.src # s}
    /\ elections' = [elections EXCEPT ![s] = NoElection]
    /\ replicators' = {th \in replicators : th.server # s}
    /\ puts' = {p \in puts : p.server # s}
    /\ UNCHANGED <<disk, writable, history, issued, timeouts, faults>>

Crash(s) ==
    /\ crashes < MaxCrashes
    /\ crashes' = crashes + 1
    /\ Die(s)

\* The frontend stops a process, which the bound on crashes does not count.
Kill(s) == Die(s) /\ UNCHANGED crashes

Restart(s) ==
    /\ s \in Server \ up
    /\ up' = up \cup {s}
    /\ Update(s, Loaded(disk[s]))
    /\ UNCHANGED <<disk, writable, calls, threads, history, counters>>

\* From here on _persist_state logs an exception and carries on. Under
\* persistent_state_path = memory it writes nothing either: there every
\* server takes this step before its first write.
DiskFails(s) ==
    /\ s \in writable /\ Cardinality(Server \ writable) < MaxDiskFaults
    /\ writable' = writable \ {s}
    /\ UNCHANGED <<server, up, disk, calls, threads, history, counters>>

\* The caller gets an error and goes on. The request is gone if nothing
\* listens at the other end, and may yet arrive, late, otherwise.
Fault(dst) ==
    \/ dst \notin up /\ UNCHANGED faults
    \/ dst \in up /\ faults < MaxFaults /\ faults' = faults + 1

Failed(requests, m) ==
    IF m.dst \in up THEN Outcomes(requests, {m}) ELSE {requests \ {m}}

VoteCallFails(m) ==
    /\ \/ /\ m \in voteRequests /\ m.open
          /\ voteRequests' \in Failed(voteRequests, m)
          /\ UNCHANGED voteReplies
       \/ /\ m \in voteReplies /\ m.dst \notin up
          /\ voteReplies' = voteReplies \ {m}
          /\ UNCHANGED voteRequests
    /\ Fault(m.dst)
    /\ UNCHANGED <<server, up, disk, writable, appendRequests, appendReplies,
                   threads, history, issued, timeouts, crashes>>

AppendCallFails_EndsThread(m) ==
    /\ m \in appendRequests \cup appendReplies /\ m.dst \notin up
    /\ \E th \in ReplicatorsAwaiting(m) : ReplicatorReturns(th)
    /\ UNCHANGED <<server, up, disk, writable, voteRequests, voteReplies,
                   elections, puts, history, counters>>

AppendCallFails(m) ==
    /\ \/ /\ m \in appendRequests /\ m.open
          /\ appendRequests' \in Failed(appendRequests, m)
          /\ UNCHANGED appendReplies
       \/ /\ m \in appendReplies /\ m.dst \notin up
          /\ appendReplies' = appendReplies \ {m}
          /\ UNCHANGED appendRequests
    /\ Fault(m.dst)
    /\ UNCHANGED <<server, up, disk, writable, voteRequests, voteReplies,
                   threads, history, issued, timeouts, crashes>>
-----------------------------------------------------------------------------
Timeout(s) == LeaderTimeout(s) \/ ElectionTimeout(s)

ServerStep(s) ==
    \/ Timeout(s)
    \/ Crash(s) \/ Restart(s) \/ DiskFails(s)
    \/ \E command \in Command : Put(s, command)

\* Calls and the threads that make, handle and await them.
CallStep ==
    \/ \E m \in voteRequests : RequestVote(m)
    \/ \E m \in voteReplies : CountVote(m)
    \/ \E th \in replicators, f \in Server :
           SendAppendEntries(th, f) \/ ReplicatorEnds(th, f)
    \/ \E m \in appendRequests : AppendEntries(m)
    \/ \E m \in appendReplies : HandleAppendReply(m)
    \/ \E m \in voteRequests \cup voteReplies : VoteCallFails(m)
    \/ \E m \in appendRequests \cup appendReplies : AppendCallFails(m)

Next ==
    \/ \E s \in Server : ServerStep(s)
    \/ CallStep
    \/ \E p \in puts : PutReturns(p)

\* The steps of a cluster whose processes the frontend may kill.
NextOrKill == Next \/ \E s \in Server : Kill(s)

Spec == Init /\ [][Next]_vars
=============================================================================
