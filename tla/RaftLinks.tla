----------------------------- MODULE RaftLinks -----------------------------
(***************************************************************************)
(* Why logs match. A log is a chain of links: an entry, its index and the  *)
(* term of the entry before it. The entries of an AppendEntries request    *)
(* are links too, the first with the term of prevLogIndex. Every link was  *)
(* made once, by a leader that appended an entry to its own log; a         *)
(* follower only puts links together that belong together.                 *)
(***************************************************************************)
EXTENDS RaftSafety

\* The links of entries that follow an entry of this index and term.
LinksAfter(index, term, entries) ==
    {[index |-> index + i, entry |-> entries[i],
      before |-> IF i = 1 THEN term ELSE entries[i - 1].term] :
         i \in 1..Len(entries)}

LinksOf(log) == LinksAfter(0, 0, log)

LinksIn(m) == LinksAfter(m.prevLogIndex, m.prevLogTerm, m.entries)

Links ==
    UNION ({LinksOf(server[s].log) : s \in Server}
               \cup {LinksOf(disk[s].log) : s \in Server}
               \cup {LinksIn(m) : m \in appendRequests})

\* A request without a previous entry says so in both fields.
RequestsStartAtZero ==
    \A m \in appendRequests : m.prevLogIndex = 0 => m.prevLogTerm = 0

\* A client's command is in one link, wherever it is copied to.
CommandsAreIssued ==
    \A a \in Links : a.entry.command \in Command => a.entry.command \in issued

OneLinkPerCommand ==
    \A a, b \in Links :
        a.entry.command \in Command /\ a.entry.command = b.entry.command => a = b

CommandInv == RequestsStartAtZero /\ CommandsAreIssued /\ OneLinkPerCommand
-----------------------------------------------------------------------------
(***************************************************************************)
(* While disks work a term has one leader, which alone makes its links.    *)
(***************************************************************************)

\* Index and term tell a link from every other.
LinksAgree ==
    \A a, b \in Links :
        a.index = b.index /\ a.entry.term = b.entry.term => a = b

LinksAreOfWinners ==
    \A a \in Links : \E l \in leaders : l[1] = a.entry.term

LeadersHoldTheirTerm ==
    \A s \in Server : server[s].role = "LEADER" =>
        \A a \in Links :
            a.entry.term = server[s].term => a.index <= Len(server[s].log)

\* A term that was won is over for its winner's election threads, and will
\* not be the term of another election of the winner.
WonForGood ==
    \A l \in leaders : l[1] <= disk[l[2]].term /\ ElectionOver(l[2], l[1])

LeadsIn(s, term) == server[s].role = "LEADER" /\ server[s].term = term

\* What a request says is in the log of its sender while that leads the term.
TakenFrom(log, m) ==
    /\ m.prevLogIndex + Len(m.entries) <= Len(log)
    /\ HasPrevious(log, m.prevLogIndex, m.prevLogTerm)
    /\ \A i \in 1..Len(m.entries) : log[m.prevLogIndex + i] = m.entries[i]

RequestsAreTaken ==
    \A m \in appendRequests :
        LeadsIn(m.src, m.term) => TakenFrom(server[m.src].log, m)

SuccessIsOfWinners ==
    \A m \in appendReplies : m.success =>
        <<m.term, m.src>> \in leaders /\ m.dst # m.src /\ m.term <= disk[m.dst].term

MatchingInv ==
    /\ LinksAgree
    /\ LinksAreOfWinners
    /\ LeadersHoldTheirTerm
    /\ WonForGood
    /\ RequestsAreTaken
    /\ SuccessIsOfWinners
    /\ SuccessMeansMatch

LogInv == DisksWork => MatchingInv
-----------------------------------------------------------------------------
\* What AppendEntries and Put make of the logs, crashes, late calls and
\* restarts included, is what Ledger makes of them when no disk fails.
Replication == INSTANCE Ledger WITH
    winners <- leaders,
    logs <- [s \in Server |-> server[s].log],
    known <- Links

ImplementsLedger == Replication!Spec
=============================================================================
