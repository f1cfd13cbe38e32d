------------------------------ MODULE Startup ------------------------------
(***************************************************************************)
(* A server that starts while its election timer already runs: __init__    *)
(* arms the timer before it sets _log, names the state file and loads it,  *)
(* and does not hold the lock meanwhile. RaftCluster takes __init__ as one *)
(* step; here Restart is replaced by its stages, and _load_state by its    *)
(* assignments. A starting server has no port yet, so it is not in up.     *)
(***************************************************************************)
EXTENDS RaftSafety

VARIABLES
    stage,      \* how far the __init__ of each server has come
    content,    \* what json.load has returned to it
    found       \* history: the state file each process found

startup == <<stage, content, found>>

Stages ==
    {"none", "timer armed", "log set", "file named", "file read", "term set",
     "vote set", "loaded"}

StartupInit ==
    /\ Init
    /\ stage = [s \in Server |-> "none"]
    /\ content = [s \in Server |-> EmptyFile]
    /\ found = [s \in Server |-> EmptyFile]

Goes(s, from, to) == stage[s] = from /\ stage' = [stage EXCEPT ![s] = to]

ArmTimer(s) ==
    /\ s \notin up /\ Goes(s, "none", "timer armed")
    /\ Update(s, FreshReplica)
    /\ found' = [found EXCEPT ![s] = disk[s]]
    /\ UNCHANGED <<up, disk, writable, calls, threads, history, counters,
                   content>>

SetLog(s) ==
    Goes(s, "timer armed", "log set") /\ UNCHANGED <<vars, content, found>>

NameFile(s) ==
    Goes(s, "log set", "file named") /\ UNCHANGED <<vars, content, found>>

\* _load_state: the file is read, then its fields are assigned one by one.
\* Without a file they stay as they are.
ReadFile(s) ==
    /\ Goes(s, "file named", IF disk[s] = EmptyFile THEN "loaded" ELSE "file read")
    /\ content' = [content EXCEPT ![s] = disk[s]]
    /\ UNCHANGED <<vars, found>>

\* One assignment of _load_state to this server's fields.
Assign(s, r) ==
    /\ Update(s, r)
    /\ UNCHANGED <<up, disk, writable, calls, threads, history, counters,
                   content, found>>

LoadTerm(s) ==
    /\ Goes(s, "file read", "term set")
    /\ Assign(s, [server[s] EXCEPT !.term = content[s].term])

LoadVote(s) ==
    /\ Goes(s, "term set", "vote set")
    /\ Assign(s, [server[s] EXCEPT !.votedFor = content[s].votedFor])

LoadEntry(s) ==
    LET log == server[s].log
    IN  /\ stage[s] = "vote set" /\ Len(log) < Len(content[s].log)
        /\ Assign(s, [server[s] EXCEPT !.log =
                          Append(log, content[s].log[Len(log) + 1])])
        /\ UNCHANGED stage

EndOfFile(s) ==
    /\ Goes(s, "vote set", "loaded")
    /\ Len(server[s].log) = Len(content[s].log)
    /\ UNCHANGED <<vars, content, found>>

\* __init__ makes the channels and ends; the server gets its port.
StartServing(s) ==
    /\ Goes(s, "loaded", "none")
    /\ up' = up \cup {s}
    /\ content' = [content EXCEPT ![s] = EmptyFile]
    /\ UNCHANGED <<server, disk, writable, calls, threads, history, counters,
                   found>>

\* _start_election in the middle of __init__. Before _log is set it raises
\* between the new term and the new timer; before the file is named it
\* raises in _persist_state; and at the latest it raises for _channels, so
\* that nobody is asked for a vote.
EarlyTimeout(s) ==
    /\ stage[s] # "none" /\ server[s].timer
    /\ timeouts < MaxElections /\ timeouts' = timeouts + 1
    /\ LET r == BecomeCandidate(server[s], s)
       IN  /\ Update(s, [r EXCEPT !.timer = stage[s] # "timer armed"])
           /\ SaveIf(stage[s] \notin {"timer armed", "log set"}, s, r)
    /\ UNCHANGED <<up, writable, calls, threads, history, issued, crashes,
                   faults, startup>>

StartupStep(s) ==
    \/ ArmTimer(s) \/ SetLog(s) \/ NameFile(s) \/ ReadFile(s)
    \/ LoadTerm(s) \/ LoadVote(s) \/ LoadEntry(s) \/ EndOfFile(s)
    \/ StartServing(s) \/ EarlyTimeout(s)

ClusterStep ==
    /\ \/ \E s \in Server : Timeout(s) \/ Crash(s)
       \/ CallStep
    /\ UNCHANGED startup

StartupNext == ClusterStep \/ \E s \in Server : StartupStep(s)

StartupSpec == StartupInit /\ [][StartupNext]_<<vars, startup>>

\* "Load persistent state from disk if available": a server that has started
\* has the log that its file held when it began, and the term and the vote,
\* unless it has gone on to a later term since.
LoadsItsFile ==
    [][\A s \in Server :
         StartServing(s) /\ found[s] # EmptyFile
             => /\ server'[s].log = found[s].log
                /\ \/ server'[s].term > found[s].term
                   \/ Persisted(server'[s]) = found[s]
      ]_<<vars, startup>>
=============================================================================
