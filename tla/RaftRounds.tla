----------------------------- MODULE RaftRounds -----------------------------
(***************************************************************************)
(* What a leader's Put handlers and replicator rely on, and what holds of  *)
(* them as long as no second term of the same leader comes in between.     *)
(***************************************************************************)
EXTENDS RaftSafety

\* A Put that is acknowledged in the term its entry was appended in finds
\* that entry in the log: the poll needs to look at nothing but the term.
AcksInItsTerm ==
    \A p \in puts :
        PutIsAcked(p) /\ server[p.server].term = p.entry.term =>
            /\ p.index <= Len(server[p.server].log)
            /\ server[p.server].log[p.index] = p.entry

WonOnce(s) == \A l, k \in leaders : l[2] = s /\ k[2] = s => l = k

FirstLeads(s) == server[s].role = "LEADER" /\ WonOnce(s)

\* A leader that has won no other election has a replicator thread: refused,
\* lost and late calls never take next_index where no request can be built.
FirstWinReplicates ==
    \A s \in up : FirstLeads(s) => \E th \in replicators : th.server = s
-----------------------------------------------------------------------------
\* Why AcksInItsTerm: a handler's server leads the handler's term or has
\* left it for good, and a leader only appends to its log.
PutsOnLog ==
    \A p \in puts :
        /\ p.server \in up
        /\ p.entry.term <= server[p.server].term
        /\ p.entry.term = server[p.server].term =>
               /\ server[p.server].role = "LEADER"
               /\ p.index \in 1..Len(server[p.server].log)
               /\ server[p.server].log[p.index] = p.entry

\* Why FirstWinReplicates. A replicator is named by an election its server
\* has won and counts no more votes for.
ReplicatorsAreWinners ==
    \A th \in replicators :
        /\ <<th.thread, th.server>> \in leaders
        /\ th.thread <= server[th.server].term
        /\ ElectionOver(th.server, th.thread)

SameThread(m, n) == m.src = n.src /\ m.thread = n.thread

OneThreadPerWin ==
    \A th, o \in replicators :
        th.server = o.server /\ th.thread = o.thread => th = o

Unanswered == {m \in appendRequests : m.open}

\* Every call has a thread that waits for it, which is not about to make
\* the same call, and has not made it twice.
CallsAreAwaited ==
    \A m \in Unanswered \cup appendReplies :
        \E th \in replicators : Awaits(th, m) /\ m.dst \notin th.left

OneCallAtATime ==
    /\ \A m, n \in Unanswered : SameThread(m, n) /\ m.dst = n.dst => m = n
    /\ \A m, n \in appendReplies : SameThread(m, n) /\ m.dst = n.dst => m = n
    /\ \A m \in Unanswered, n \in appendReplies :
           ~(SameThread(m, n) /\ m.dst = n.dst)

\* What a call says is still what next_index says.
RequestsFit ==
    \A m \in Unanswered : FirstLeads(m.src) =>
        /\ m.term = m.thread
        /\ m.prevLogIndex = server[m.src].nextIndex[m.dst] - 1
        /\ m.prevLogIndex + Len(m.entries) <= Len(server[m.src].log)

RepliesFit ==
    \A m \in appendReplies :
        FirstLeads(m.src) /\ m.term <= server[m.src].term =>
            IF m.success THEN m.matched <= Len(server[m.src].log)
            ELSE server[m.src].nextIndex[m.dst] >= 2

RequestsCanBeBuilt ==
    \A s \in Server : FirstLeads(s) =>
        \A f \in Server \ {s} : Sendable(server[s], f)

\* All that Put handlers and replicators rely on.
RoundInv ==
    /\ CallersAreUp
    /\ PutsOnLog
    /\ ReplicatorsAreWinners
    /\ OneThreadPerWin
    /\ CallsAreAwaited
    /\ OneCallAtATime
    /\ RequestsFit
    /\ RepliesFit
    /\ RequestsCanBeBuilt
    /\ FirstWinReplicates
=============================================================================
