------------------------------ MODULE Frontend ------------------------------
(***************************************************************************)
(* The FrontEndServicer in front of the cluster: it finds a server with    *)
(* GetState, forwards Put and Get with a deadline of two seconds, and      *)
(* starts, kills and restarts the server processes.                        *)
(*                                                                         *)
(* Its pool has one thread, so it does one thing at a time: worker says    *)
(* which, and how far it has come. A reply of GetState is taken where the  *)
(* server gives it; it may be stale when the call that follows arrives.    *)
(* Deadlines may pass at any time.                                         *)
(***************************************************************************)
EXTENDS RaftLiveness, RaftLinks, RaftRounds

CONSTANTS
    IdRanges,       \* the server ids 0..n-1, for every n StartRaft is given
    MaxAdmins       \* bound: calls of StartRaft and StartServer

ASSUME IdRangesAssumption ==
    /\ IdRanges \subseteq (SUBSET Server) \ {{}}
    /\ \A a, b \in IdRanges : a \subseteq b \/ b \subseteq a

ASSUME MaxAdminsAssumption == MaxAdmins \in Nat

VARIABLES
    processes,      \* the servers in _server_processes
    worker,         \* what the worker does: see Tasks
    admins,         \* counter for the bound
    erased,         \* history: commands put before the last StartRaft
    removed         \* history: state files that a StartRaft has removed
                    \*          without coming to the end of it

frontend == <<processes, worker, admins, erased, removed>>

\* left: the servers to hear from, or to start; target: where the call went,
\* or the server that _kill_server is stopping.
Tasks ==
    [doing : {"idle", "find leader", "put", "await put", "find server", "get",
              "kill all", "start", "restart"},
     left : SUBSET Server, target : Server \cup {None},
     command : Command \cup {None}]

Idle == [doing |-> "idle", left |-> {}, target |-> None, command |-> None]

Task(doing, servers) == [Idle EXCEPT !.doing = doing, !.left = servers]

\* The state the first StartRaft leaves when all servers have come up.
FrontendInit ==
    /\ Init
    /\ processes = Server /\ worker = Idle /\ admins = 0
    /\ erased = {} /\ removed = {}
-----------------------------------------------------------------------------
(***************************************************************************)
(* Put and Get.                                                            *)
(***************************************************************************)
PutCall(command) ==
    /\ worker = Idle /\ command \notin issued
    /\ worker' = [Task("find leader", Server) EXCEPT !.command = command]
    /\ UNCHANGED <<vars, processes, admins, erased, removed>>

GetCall ==
    /\ worker = Idle
    /\ worker' = Task("find server", Server)
    /\ UNCHANGED <<vars, processes, admins, erased, removed>>

\* The next result in the queue of the search. Get takes any server that
\* answers, Put one that says it leads.
Found(s) ==
    /\ worker.doing \in {"find leader", "find server"}
    /\ s \in worker.left \cap up /\ Free(s)
    /\ worker.doing = "find leader" => server[s].role = "LEADER"
    /\ worker' =
           [worker EXCEPT
               !.doing = IF @ = "find leader" THEN "put" ELSE "get",
               !.left = {}, !.target = s]
    /\ UNCHANGED <<vars, processes, admins, erased, removed>>

\* Another answer, an error, or none before the deadline.
Missed_ErrorsLost(s) ==
    /\ worker.doing \in {"find leader", "find server"}
    /\ s \in worker.left \cap up
    /\ worker' = IF worker.left = {s} THEN Idle
                 ELSE [worker EXCEPT !.left = @ \ {s}]
    /\ UNCHANGED <<vars, processes, admins, erased, removed>>

Missed(s) ==
    /\ worker.doing \in {"find leader", "find server"}
    /\ s \in worker.left
    /\ worker' = IF worker.left = {s} THEN Idle
                 ELSE [worker EXCEPT !.left = @ \ {s}]
    /\ UNCHANGED <<vars, processes, admins, erased, removed>>

\* The forwarded call gets a worker of the server.
PutArrives ==
    /\ worker.doing = "put"
    /\ Put(worker.target, worker.command)
    /\ worker' = [worker EXCEPT !.doing = "await put"]
    /\ UNCHANGED <<processes, admins, erased, removed>>

PutRefused ==
    /\ worker.doing = "put"
    /\ worker.target \in up /\ Free(worker.target)
    /\ server[worker.target].role # "LEADER"
    /\ worker' = Idle
    /\ UNCHANGED <<vars, processes, admins, erased, removed>>

Awaited(p) ==
    /\ worker.doing = "await put"
    /\ p.server = worker.target /\ p.entry.command = worker.command

PutAnswered(p) ==
    /\ Awaited(p) /\ PutReturns(p)
    /\ worker' = Idle
    /\ UNCHANGED <<processes, admins, erased, removed>>

\* The frontend no longer waits for this handler.
AbandonedPutReturns(p) ==
    /\ ~Awaited(p) /\ PutReturns(p)
    /\ UNCHANGED frontend

GetAnswered ==
    /\ worker.doing = "get"
    /\ worker.target \in up /\ Free(worker.target)
    /\ worker' = Idle
    /\ UNCHANGED <<vars, processes, admins, erased, removed>>

\* The deadline passes or the server dies: an RpcError. A call that no
\* worker has taken by then is dropped; a Put handler goes on.
CallFails ==
    /\ worker.doing \in {"put", "await put", "get"}
    /\ worker' = Idle
    /\ UNCHANGED <<vars, processes, admins, erased, removed>>
-----------------------------------------------------------------------------
(***************************************************************************)
(* StartRaft and StartServer.                                              *)
(***************************************************************************)
Administers(task) ==
    /\ worker = Idle /\ admins < MaxAdmins
    /\ admins' = admins + 1
    /\ worker' = task
    /\ UNCHANGED <<vars, processes, erased, removed>>

StartRaft(ids) == Administers(Task("kill all", ids))

StartServer(s) == Administers(Task("restart", {s}))

\* _kill_server takes the server off the record, and then stops its process
\* and waits for its death, if it has not died before.
ForgetProcess(s) ==
    /\ worker.target = None /\ s \in processes
    /\ worker.doing = "kill all" \/ (worker.doing = "restart" /\ s \in worker.left)
    /\ processes' = processes \ {s}
    /\ worker' = [worker EXCEPT !.target = s]
    /\ UNCHANGED <<vars, admins, erased, removed>>

StopProcess(s) ==
    /\ worker.doing \in {"kill all", "restart"} /\ worker.target = s
    /\ IF s \in up THEN Kill(s) ELSE UNCHANGED vars
    /\ worker' = [worker EXCEPT !.target = None]
    /\ UNCHANGED <<processes, admins, erased, removed>>

RecordIsEmpty ==
    worker.doing = "kill all" /\ worker.target = None /\ processes = {}

\* pkill sends a signal that ends the process at once to each that is left.
KillOrphan(s) == RecordIsEmpty /\ Kill(s) /\ UNCHANGED frontend

NoServerLeft_NoPkill == RecordIsEmpty

NoServerLeft == RecordIsEmpty /\ up = {}

\* rmtree removes one state file after the other.
RemoveFile(s) ==
    /\ NoServerLeft /\ disk[s] # EmptyFile
    /\ disk' = [disk EXCEPT ![s] = EmptyFile]
    /\ removed' = removed \cup {s}
    /\ UNCHANGED <<server, up, writable, calls, threads, history, counters,
                   processes, worker, admins, erased>>

\* With the servers the connections of their calls are gone. The bound on
\* elections and the history start again.
NewCluster ==
    /\ NoServerLeft
    /\ worker' = [worker EXCEPT !.doing = "start"]
    /\ voteRequests' = {} /\ voteReplies' = {}
    /\ appendRequests' = {} /\ appendReplies' = {}
    /\ timeouts' = 0 /\ ballots' = {} /\ leaders' = {}
    /\ erased' = issued /\ removed' = {}
    /\ UNCHANGED <<server, up, disk, writable, threads, issued, crashes, faults,
                   processes, admins>>

ClearState_KeepsFiles == NewCluster

ClearState == disk = [s \in Server |-> EmptyFile] /\ NewCluster

StartProcess_NotRecorded(s) ==
    /\ worker.doing \in {"start", "restart"} /\ worker.target = None
    /\ s \in worker.left \ processes
    /\ Restart(s)
    /\ worker' = IF worker.left = {s} THEN Idle
                 ELSE [worker EXCEPT !.left = @ \ {s}]
    /\ UNCHANGED <<processes, admins, erased, removed>>

StartProcess(s) ==
    /\ worker.doing \in {"start", "restart"} /\ worker.target = None
    /\ s \in worker.left \ processes
    /\ Restart(s)
    /\ processes' = processes \cup {s}
    /\ worker' = IF worker.left = {s} THEN Idle
                 ELSE [worker EXCEPT !.left = @ \ {s}]
    /\ UNCHANGED <<admins, erased, removed>>

\* An exception in _kill_server, pkill, rmtree or Popen ends the call where
\* it stands.
AdminFails ==
    /\ worker.doing \in {"kill all", "start", "restart"}
    /\ worker' = Idle
    /\ UNCHANGED <<vars, processes, admins, erased, removed>>
-----------------------------------------------------------------------------
WorkerStep ==
    \/ \E s \in Server :
           \/ Found(s) \/ Missed(s)
           \/ ForgetProcess(s) \/ StopProcess(s) \/ KillOrphan(s)
           \/ RemoveFile(s) \/ StartProcess(s)
    \/ PutArrives \/ PutRefused \/ GetAnswered \/ CallFails
    \/ \E p \in puts : PutAnswered(p)
    \/ ClearState \/ AdminFails

ClientStep ==
    \/ \E command \in Command : PutCall(command)
    \/ GetCall
    \/ \E ids \in IdRanges : StartRaft(ids)
    \/ \E s \in Server : StartServer(s)

\* Disks work here: DiskFails is left to the runs of the cluster alone.
ClusterStep ==
    /\ \/ \E s \in Server : Timeout(s) \/ Crash(s)
       \/ CallStep
    /\ UNCHANGED frontend

FrontendNext ==
    \/ WorkerStep \/ ClientStep \/ ClusterStep
    \/ \E p \in puts : AbandonedPutReturns(p)

FrontendSpec == FrontendInit /\ [][FrontendNext]_<<vars, frontend>>

\* The worker's thread runs, every GetState ends in a result for the queue,
\* and every call in an answer or an error.
FairFrontendSpec ==
    FrontendSpec /\ Fairness /\ WF_<<vars, frontend>>(WorkerStep)
-----------------------------------------------------------------------------
FrontendTypeOK ==
    /\ processes \subseteq Server
    /\ worker \in Tasks
    /\ admins \in 0..MaxAdmins
    /\ erased \subseteq issued
    /\ removed \subseteq Server

\* "Also try to kill any orphaned server processes": once StartRaft starts
\* servers, each server that runs is one it has started and has on record,
\* though an earlier call that failed may have left a server running that
\* _server_processes had lost.
OrphansAreGone == worker.doing = "start" => up \subseteq processes

\* The one worker, which every call of every client needs, is given back:
\* a search ends, whichever servers are dead or busy.
FrontendReturns == []<>(worker = Idle)

\* "Clear persistent state directory for a fresh cluster start": no log, no
\* state file and no state machine that a Get reads has an entry from before
\* the last StartRaft.
Commands(log) == {log[i].command : i \in 1..Len(log)}

StartsFresh ==
    \A s \in Server :
        (Commands(server[s].log) \cup Commands(server[s].applied)
             \cup Commands(disk[s].log)) \cap erased = {}

\* Nor is such an entry on its way to a server.
RequestsAreFresh ==
    \A m \in appendRequests : Commands(m.entries) \cap erased = {}

\* Nothing of a process is left when it has died.
DownServersHoldNothing ==
    \A s \in Server \ up : server[s] = FreshReplica /\ elections[s] = NoElection

\* What the worker looks for a leader to put is a client's command.
ForwardsItsCall ==
    worker.doing \in {"find leader", "put"} => worker.command \in Command

\* No StartRaft has failed between its first removal of a state file and the
\* start of its servers. If one has, servers that StartServer starts may
\* have forgotten their votes and entries.
FilesAreWhole == removed = {}

\* What the proofs about the frontend rest on: between one StartRaft and the
\* next its servers are a cluster of their own, which keeps what clusters
\* keep with their files as long as these are whole, and the rest anyway.
FrontendInv ==
    /\ FrontendTypeOK
    /\ TypeOK
    /\ DisksWork
    /\ OrphansAreGone
    /\ LeaderInv
    /\ CommandInv
    /\ RoundInv
    /\ FilesAreWhole => VotingInv /\ MatchingInv
    /\ DownServersHoldNothing
    /\ ForwardsItsCall
    /\ StartsFresh
    /\ RequestsAreFresh

\* A Put handler outlives the restart of the followers it waits for: once
\* every server has been started again, it returns.
PutsOutliveRestarts == []<>(up = Server) => PutsReturn
=============================================================================
