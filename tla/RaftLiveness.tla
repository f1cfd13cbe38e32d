---------------------------- MODULE RaftLiveness ----------------------------
(***************************************************************************)
(* What must eventually happen in the cluster, and the scheduling it rests *)
(* on: every thread that is not blocked is run again, a call to a live     *)
(* server is handled and answered, and a call to a dead one fails. Nothing *)
(* is assumed of timeouts, faults, crashes and restarts.                   *)
(***************************************************************************)
EXTENDS RaftSafety

Between(calls_, src, dst) == {m \in calls_ : m.src = src /\ m.dst = dst}

\* There is one vote request per peer and election, so it does not matter
\* which of them the next fair step takes.
ElectionsProceed ==
    /\ WF_vars(\E m \in voteRequests : RequestVote(m))
    /\ WF_vars(\E m \in voteReplies : CountVote(m))

HeartbeatsProceed(s, f) ==
    /\ WF_vars(\E th \in replicators : /\ th.server = s
                                       /\ \/ SendAppendEntries(th, f)
                                          \/ ReplicatorEnds(th, f))
    /\ WF_vars(\E m \in Between(appendRequests, s, f) : AppendEntries(m))
    /\ WF_vars(\E m \in Between(appendReplies, s, f) : HandleAppendReply(m))

CallsToTheDeadFail(f) ==
    WF_vars(/\ f \notin up
            /\ \E m \in appendRequests \cup appendReplies :
                   m.dst = f /\ AppendCallFails(m))

PutsPoll(s) == WF_vars(\E p \in puts : p.server = s /\ PutReturns(p))

\* Only the servers in Candidates ever lead.
Fairness ==
    /\ ElectionsProceed
    /\ \A s \in Candidates :
           /\ PutsPoll(s)
           /\ \A f \in Server \ {s} : HeartbeatsProceed(s, f)
    /\ \A f \in Server : CallsToTheDeadFail(f)

FairSpec == Spec /\ Fairness

\* Every Put handler returns, or dies with its server: its poll of
\* commit_index ends once the entry commits or the server stops leading.
\* ([]<>~P is P ~> ~P, and cheaper to check.)
Waiting(s, c) == \E p \in puts : p.server = s /\ p.entry.command = c

PutsReturn ==
    \A s \in Server, c \in Command : []<>~Waiting(s, c)

\* "Periodically send AppendEntries to all peers while leader": when a leader
\* has sent to every peer, the round ends and the next one begins, or it
\* stops leading.
WaitsForReplies(s) ==
    /\ server[s].role = "LEADER"
    /\ \E th \in replicators : th.server = s /\ Due(th) = {}

RoundsEnd == \A s \in Server : []<>~WaitsForReplies(s)

\* A server that leads for good brings every log that stays up to its own,
\* whatever the logs held before: next_index backs up until the follower's
\* consistency check succeeds.
LeadsForGood(s) == <>[](server[s].role = "LEADER")

LogsConverge ==
    \A s \in Server : \A f \in Server \ {s} :
        LeadsForGood(s) /\ <>[](f \in up)
            => <>[](server[f].log = server[s].log)
=============================================================================
