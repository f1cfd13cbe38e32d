------------------------------- MODULE Ledger -------------------------------
(***************************************************************************)
(* What replication promises, without the requests, files and indexes it   *)
(* is made of. A log is a chain of links: an entry, its index and the term *)
(* of the entry before it. A link is written once, by the winner of its    *)
(* term, at the end of its log; all other logs are put together from links *)
(* that are known, and a link that is lost never comes back.               *)
(***************************************************************************)
EXTENDS Integers, Sequences

CONSTANTS
    Server,
    Command,    \* what clients store, each once
    NoOp        \* what a winner writes first

VARIABLES
    winners,    \* <<term, server>> of every election won
    logs,       \* each server's log
    known       \* the links that servers, files and requests hold

LinksOf(log) ==
    {[index |-> i, entry |-> log[i],
      before |-> IF i = 1 THEN 0 ELSE log[i - 1].term] : i \in 1..Len(log)}

Init ==
    /\ winners = {} /\ known = {}
    /\ logs = [s \in Server |-> <<>>]

\* The winner of a term holds every link of the term that is known.
Write(term, s, command) ==
    /\ \A l \in known : l.entry.term = term => l.index <= Len(logs[s])
    /\ logs' = [logs EXCEPT ![s] =
                    Append(@, [term |-> term, command |-> command])]
    /\ known' \subseteq known \cup LinksOf(logs'[s])

Win(term, s) ==
    /\ \A w \in winners : w[1] # term
    /\ winners' = winners \cup {<<term, s>>}
    /\ Write(term, s, NoOp)

Store(term, s, command) ==
    /\ <<term, s>> \in winners
    /\ \A l \in known : l.entry.command # command
    /\ Write(term, s, command)
    /\ UNCHANGED winners

Copy(s) ==
    /\ \A t \in Server \ {s} : logs'[t] = logs[t]
    /\ known' \subseteq known
    /\ UNCHANGED winners

Next ==
    /\ \/ \E s \in Server : Copy(s)
       \/ \E w \in winners, command \in Command : Store(w[1], w[2], command)
       \/ \E w \in winners' : Win(w[1], w[2])
    /\ UNION {LinksOf(logs'[s]) : s \in Server} \subseteq known'

Spec == Init /\ [][Next]_<<winners, logs, known>>
=============================================================================
