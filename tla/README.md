# A verification of Raft-Caching

TLA+ models of the Raft key-value store under `src/src/kvstore`, checked with
TLC on small instances, with theorems proved by TLAPS for all of them. Paths
below are relative to `src/src/kvstore`.

## The system

| Component | State | Operations |
|---|---|---|
| Raft server (`server.py`, `KeyValueStoreServicer`) | `_current_term`, `_voted_for`, `_role`, `_leader_id`, `_election_timer`, `_log`, `_commit_index`, `_last_applied`, `_state_machine`, `_next_index`, all under `_state_lock` | RPC handlers `RequestVote`, `AppendEntries`, `Put`, `Get`, `GetState`; threads `_start_election` (timer), `_replicate_to_followers`, and one short-lived thread per outgoing call |
| State file (`_persist_state`, `_load_state`) | term, vote and log of a server, or nothing with `persistent_state_path = memory`, the value in `config.ini` | rewritten whole after every change that must survive; an exception while writing is logged and swallowed |
| Cache (`cache.py`) | one of seven policies in front of the state machine | `get`, `put`, `invalidate`, filled by `Get` and by the application of entries |
| Frontend (`frontend.py`) | `_server_processes`, channels, one worker thread | `StartRaft`, `StartServer`, `Get` and `Put` forwarded to a server found with `GetState`, deadline 2 s |
| gRPC server of each server | ten worker threads | runs one handler per worker; a `Put` keeps its worker while it polls |
| Start-up (`KeyValueStoreServicer.__init__`) | the fields, one after the other | arms the timer, sets the log, names and loads the state file, opens the channels; without the lock |
| `utils.py`, `config.ini` | none | which servers are active, where state files go, which cache |
| `benchmark.py`, `workloads.py` | none of the system's | generate keys, measure hit rates |

Servers talk over gRPC calls that have **no deadline**: a call ends with a
reply or, when the peer is gone, an error. Inside a server everything that
touches state runs under one re-entrant lock, and the lock is released between
the sections of a method: while an election thread waits for votes, while a
replicator waits for the replies of its round, while `Put` sleeps between two
polls. What makes the system hard is what happens in those gaps: another
section raises the term, cuts the log, wins an election; a call is delayed
past the end of the thread that made it; a process dies and starts again from
its file.

What makes each component correct:

* elections: one winner per term, over restarts; a vote given is not given
  again; a server that does not lead has a timer pending;
* replication: logs that share a term at an index agree up to it, a success
  reply means a shared prefix, a lasting leader brings the others to its log,
  an entry is committed only when a majority stores it;
* `Put`: success is answered for the client's own entry; every handler returns;
* caches: a cached value is the applied one; size stays within capacity; the
  victim is the one the policy names;
* worker pool: a round of AppendEntries ends, whatever the handlers wait for;
* frontend: its one worker is given back by every call; a fresh cluster holds
  nothing of the one before, and no server of it runs on unrecorded;
* start-up: a server has what its state file held when it began.

## Modules

| Module | What it holds |
|---|---|
| `RaftLog` | entries, the comparisons `RequestVote` and `AppendEntries` make on logs, the append loop as one operator `MergeEntries` |
| `RaftReplica` | the record of one server's fields and a pure operator for each method, or locked section of one, that changes it |
| `RaftCluster` | the state machine: servers, state files, calls under way, threads, crashes, restarts, faults |
| `RaftSafety` | type invariant, safety invariants, an action property, and the inductive invariants about elections and leaders |
| `RaftLinks` | why logs match: the inductive invariants about logs and entries |
| `RaftRounds` | what `Put` handlers and replicator threads rely on, and what holds of them while no second win of the same server comes between: two properties and their inductive invariant |
| `Voting` | what elections promise: an abstract specification of ballots and winners, with no messages, files or threads |
| `Ledger` | what replication promises: an abstract specification of logs made of links, with no requests, files, indexes or roles |
| `RaftLiveness` | fairness and the liveness properties of the cluster |
| `MCRaft` | the above for TLC, with a symmetry set |
| `Frontend` | `FrontEndServicer` composed with the cluster: EXTENDS `RaftLiveness`, `RaftLinks` and `RaftRounds` and takes their actions and invariants |
| `Startup` | the cluster with `__init__` in stages: EXTENDS `RaftSafety` and replaces `Restart` |
| `RaftReplicaProofs`, `RaftTypeProofs`, `RaftElectionProofs`, `RaftLeaderProofs` | theorems about the cluster, each module resting on those before it |
| `RaftLogProofs`, `RaftReplicatorProofs` | theorems about logs, and about `Put` and the replicators; both rest on the four above |
| `FrontendProofs` | theorems about the cluster behind the frontend |
| `CacheBase` | the fields every cache has, operations on dictionaries and queues |
| `RandomCache`, `FifoCache`, `LruCache`, `LfuCache`, `SlruCache`, `SieveCache` | one policy each: a record, and operators for `get`, `put`, `invalidate` and `clear` |
| `Caches` | `create_cache` and the methods of `CachePolicy`, by policy |
| `Store` | what a server promises of reads: the value applied last |
| `CachedStore` | the state machine: dictionary and cache of one server; implements `Store` |
| `CacheInvariants` | what every policy keeps true of its structures, as one inductive invariant |
| `MCCachedStore` | the above for TLC, with a symmetry set |
| `CacheProofs` | theorems about the seven policies and `CachedStore` |

`RaftCluster` EXTENDS `RaftReplica`, which EXTENDS `RaftLog`; every action of
the cluster is a guard, a `RaftReplica` operator applied to the server it
concerns, and the calls and threads that come and go.

### How the model reads the code

* A **step** is one section run under `_state_lock`, together with the sends
  and thread starts that follow it. `RLock` makes sections of one server
  atomic; a crash therefore falls between sections. Within a section
  `_persist_state` may run twice (a higher term, then new entries): the model
  has the last content only. A crash between the two would leave a file with
  the new term and without the entries, before any reply has left, which is
  the state of a server that handled the higher term and lost the rest.
* A **call** is a record in `voteRequests`, `voteReplies`, `appendRequests` or
  `appendReplies`, and its handling at the callee and at the caller are two
  steps. `open` says whether a thread still waits for it. When that thread
  returns, dies, or gets an error, a request on its way may still arrive
  (`Outcomes`, at most `MaxLate` of them at a time); nobody reads its answer.
  Requests that are equal in every field and abandoned are one record.
* A **thread** of `_start_election` or `_replicate_to_followers` is named by
  its server and the term it was started in. Threads do not end when their
  server is deposed; they end where the code ends them. An election thread
  that was overtaken can only be refused or step the server down, so votes are
  kept for the newest one only (`NewestOrLeftBehind`, an invariant).
* The **timer** is a flag: armed, or fired or never set. Any armed timer may
  fire at any time. A timer cancelled just after it has fired runs
  `_start_election` all the same, which is a timer that fires right after it
  was armed again. A leader's timer runs out without effect and stays so until
  it steps down (`LeaderTimeout`).
* The **worker pool** of a server is `Workers`, ten in the code. Every handler
  but `Put` takes one step, so only the `Put` handlers that poll hold a worker;
  a request to a server without a free one (`Free`) stays where it is. Its
  caller has no deadline and waits too.
* **Heartbeats** are rounds with no pause between them; the 15 ms sleep only
  delays them.
* `next_index` is total, with 0 for a missing key. A request that cannot be
  built (the entry before it does not exist, or the slice holds the `None`
  sentinel of slot 0) raises in the replicator thread, which is then gone.
* The two **assertions** of `AppendEntries` raise in the handler: nothing
  changes and the caller sees an error.
* The **state machine** is the sequence of entries applied; keys and values
  are one opaque command, and each command is put at most once.
* **History**: `ballots` and `leaders` record votes and elections won. No step
  reads them.

### The caches

`CachedStore` is independent of `RaftCluster`: entries reach a server's state
machine in log order, and which entries those are makes no difference to the
cache, so any entry may come next. An applied entry (`ApplyEntry`) and a `Get`
are sections under `_state_lock` and thus steps. A server is configured with
one policy or none, a capacity and a write strategy; `Init` chooses. `Get` is
three actions: a hit changes what the policy remembers, a miss fills the cache
from the dictionary, a missing key leaves it alone. The entry with the empty
key, the no-op, is never applied and is not among `Key`.

An OrderedDict is a sequence of keys beside the data, oldest first. The linked
list of SIEVE is such a sequence from tail to head, so `node.prev` is the next
key. Where the code mutates several structures in turn (index and list, buckets
and frequencies), the operator gives the result; `BookkeepingAgrees` says that
they agree. `random.randrange` is a choice among all keys. The decay of
`lfu_decay` rebuilds the buckets in one go; `DecayInterval` replaces
`max(128, 8 * capacity)` so that decay is reached. `clear`, an operation of
every policy that no server calls, may come at any time (`ClearCache`).
Counters of hits and misses are left out.

History: `answer`, `recency`, `lastRead` and `used` say what was answered and
which keys were used when, by the policy's own documentation rather than its
fields; the eviction properties compare the victim with them.

### The frontend

`Frontend` adds the one worker of `FrontEndServicer` to the cluster. `worker`
says what it is doing, whom it has still to hear from or to start, and where
the forwarded call went. A search (`_find_leader_server`,
`_find_available_server`) asks every active server and takes results from a
queue in any order: `Found` is the answer that ends it, `Missed` any other
answer, an error, or the deadline of that call. `GetState` is answered by a
worker of the server, hence the guard `Free`. A reply is taken where the server
gives it; until the call that follows arrives the server may be deposed, die or
fill its pool. The deadline of two seconds may pass at any time (`CallFails`):
a call that no worker has taken is then dropped, a `Put` handler that has begun
goes on alone (`AbandonedPutReturns`). A client that tries again issues a new
command, since `clientId` and `requestId` are not passed on.

`StartRaft` and `StartServer` are sequences of steps, each of which may be the
last, as an exception ends the call where it stands (`AdminFails`).
`_kill_server` takes the server off `_server_processes` (`ForgetProcess`) and
then stops its process, if that has not died (`StopProcess`); in between
`worker.target` names it, and a failure there leaves an orphan, a server that
runs without a record. When the record is empty, `pkill` sends its signal to
each orphan (`KillOrphan`); no server has a handler for it, so it ends them at
once. Then the state files go one by one (`RemoveFile`), `ClearState` ends the
removal, and ids 0 to n-1 are started (`IdRanges`; the order in which `range(n)`
starts them is left open). Servers that are not dead run on all the while; when
all are, their connections are closed and nothing sent before arrives.
`ClearState` starts the bounds and the history of elections again, and `erased`
remembers the commands of the old cluster. `Init` is the cluster after a first
`StartRaft` of all active servers. A `StartRaft` of fewer servers than
`config.ini` names leaves the others down, and they count towards majorities.

When a `StartRaft` fails with some of the files removed, `StartServer` may start
servers of which some have forgotten their votes and entries and some have not,
as in memory mode. `removed` has those files until a `StartRaft` gets further,
and what needs votes to be remembered is claimed while it is empty
(`FilesAreWhole`). `StartServer` of a server whose orphan runs starts a second
process with its id; there the model waits until the call fails (see below).

### Start-up

In `RaftCluster` a restart is one step. `Startup` has the stages of `__init__`
that the timer, armed in its first lines (39), can fall between: the log (42),
the name of the state file (66), the reading of the file (575), the assignment
of the term, the vote and each entry of the log (577-592), and the end.
`_start_election` fails differently in each: for want of `_log`, then of
`_state_dir`, then, after it has written over the file what is loaded so far, of
`_channels`, so nobody is asked for a vote. Before `_log` exists it fails
between the new term and the new timer, and the server then starts with no
timer pending: what `TimerArmed` says of restarts is of those that no timeout
interrupts, like everything that is said of `RaftCluster`. A starting server has
no port, so no call reaches it. `_start_election` itself is one step.

### Slips

An operator `X_Slip` beside `X` is a likely mistake in the code `X` models. No
definition uses it. Each property of a passing run has one such slip which,
put in the place of `X`, makes TLC find the property violated.

## Runs

`caches` uses `MCCachedStore`, `frontend` `Frontend`, `early_timeout`
`Startup`, the others `MCRaft`. Deadlock is not checked: the bounds on
timeouts, crashes and faults end a behaviour in a state where the real system
would only wait for its next timeout.

| Run | Instance | What it shows |
|---|---|---|
| `replication` | 3 servers, 1 command, 2 elections, 2 append calls at a time, 1 late | `LogMatching`, `SuccessMeansMatch`; `LogInv`, the invariant of their proof; `FirstWinReplicates`; `ImplementsLedger` |
| `elections` | 3 servers, 2 elections, 1 crash, 1 disk that may stop writing, 1 leader whose timer has run out | `TypeOK`; while disks work `ElectionSafety`, `VotesAreKept`, `NeverTwoLeadersMeet`, `OnlyCandidatesFailSanity` and `ElectionInv`, the invariant of their proofs; with or without them `KnownLeaderWasElected`, `TimerArmed`, `LeaderLogIsItsOwn`, and `LeaderInv` that they are proved from |
| `two_replicators` | 2 servers, 1 command, 3 elections, 1 crash, 1 fault, 1 late | `SuccessMeansMatch`, `NoEntryTwice` with two replicator threads on one leader; `CommandInv`, from which the second is proved; `AcksInItsTerm` and `RoundInv`, from which it is proved; `ImplementsVoting` |
| `deposed_leader` | 3 servers with 1 worker each, 1 command, 2 elections, fairness | `PutsReturn`, `LogsConverge` |
| `frontend` | 2 servers with 1 worker each, 1 command, 2 elections per cluster, 2 calls of `StartRaft` or `StartServer`, fairness | `OrphansAreGone`, `StartsFresh`, and `FrontendInv` that they are proved from; `FrontendReturns`, `PutsOutliveRestarts` |
| `caches` | 4 keys, 2 values, capacities 1 to 3, every policy and none, both strategies | `ImplementsStore`, `WithinCapacity`, `BookkeepingAgrees`, `LeastRecentGoes`, `LeastFrequentGoes`, `ScanResistance`, `SecondChance`; `StoreInv`, from which all are proved |
| `commit_without_majority` | 3 servers, 1 election | violates `CommittedOnMajority` |
| `leader_id_assertion` | 3 servers, 3 elections | violates `LeaderIdIsSane` |
| `wrong_ack` | 3 servers, 1 command, 3 elections | violates `AcksOwnEntry` |
| `no_replicator` | 2 servers, 3 elections | violates `LeaderReplicates` |
| `pool_deadlock` | 3 servers with 1 worker each, 2 commands, 2 elections, fairness | violates `RoundsEnd` |
| `early_timeout` | 3 servers, 2 elections, 1 crash | violates `LoadsItsFile` |

Why the bounds are enough for what each run asks. Two elections give two
leaders, hence diverging logs and a deposed leader with calls under way; three
let one server lead twice, the only way to get two replicator threads. One
crash with one restart is enough for a vote or an entry to be lost, and with
one crash only the disk of the server that crashes matters, so one bad disk
stands for the memory mode as well. Late calls, votes among them, are in
`replication` and `two_replicators`, where `ImplementsLedger` and
`ImplementsVoting` say that no term is won twice; `elections` has the crash and
the disk in their place. A leader whose timer has run out behaves as one whose
timer is armed until it steps down, when the timer must be armed again: a leader
with such a timer (`MaxIdleTimers`) is in `elections`, which asks for that with
`TimerArmed`, and in no other run. Two append calls at a time let a late one
race a fresh one; calls that wait for a worker are not counted, so that they
never keep others from being sent. One worker per server is a pool that one
`Put` fills, as ten fill the real one; with one command at most one pool is
full, which `deposed_leader` shows to be harmless, and with two the deadlock of
`pool_deadlock` is there. In `frontend` two servers make every follower needed
for a majority, and the two administrative calls can fall anywhere, the second
after a first that ended between any two of its steps; a `StartRaft` that fails
half way leaves servers down as one of fewer servers does, and the calls of
clients are unbounded. Servers that die by themselves are in the other runs.
Two servers of which one has forgotten its votes and one has not take a third
call, which only the theorems have. `elections` has no command, so a leader's
log stays as it is there; that it may grow, in `LeaderLogIsItsOwn`, is for the
theorem. For the caches, capacity 3 has a
protected segment of two keys, 2 one of one key, 1 none; a fourth key makes
every capacity overflow; a frequency of 4 is halved twice before it is 1; two
values tell a stale one from the new one. All states are reached, the bound on
frequencies is the only one. Symmetry is used in runs of safety properties
only.

### Fairness

All of it is weak: a thread that is not blocked runs again, a call to a live
server with a free worker is handled and answered, a call to a dead one fails
(gRPC reports a refused or reset connection). `Fairness` states it for election
calls, for each pair of servers in replication, and for the `Put` handlers of
each server; it is stated only for the servers that may lead. Nothing is
assumed of timeouts, crashes, restarts or lost calls. The frontend adds that
its worker thread runs and that a search receives a result of every server
(each `GetState` has a deadline), which is fairness of `WorkerStep`.

`PutsReturn` is checked without crashes: with a majority gone for good `Put`
polls forever, which the code allows. `PutsOutliveRestarts` has servers killed, and
asks for the return only when all servers are up again and again.

### Disagreements between the code and what it says

1. `commit_without_majority`. `next_index` doubles as match index
   (`server.py:461`) and starts past the whole log (274-279): the first reply
   of any kind, a refusal too, commits everything up to the no-op. The comment
   at 455 says "Check if this entry is replicated on majority".
2. `leader_id_assertion`. `_start_election` keeps `_leader_id` (200-214); the
   next leader of the new term trips the "sanity" assertion at 314-316, and
   does so with every heartbeat of the term.
3. `wrong_ack`. The poll of `Put` (496-503) looks at role and commit index, not
   at the entry, and answers success for an entry that was cut.
4. `no_replicator`. A replicator that outlives a deposition (role, not term, is
   checked at 391 and 421) shares `next_index` with its successor; after two
   decrements for one refusal the slice contains the sentinel, both threads
   raise, and a leader is left that sends nothing.
5. `pool_deadlock`. A leader that was overtaken without hearing of it and the
   leader of the new term each wait in line 417 for the other's reply, and
   `Put` handlers hold every worker of both (617), waiting for entries that the
   same rounds would commit. No call has a deadline: neither sends a heartbeat
   again, though 385 says "Periodically send AppendEntries to all peers while
   leader, also serving as heartbeat."
6. `early_timeout`. The timer of line 39 fires before line 69 has read the
   state file, which takes a start of 150 ms or more (the file holds the whole
   log). `_start_election` writes term 1, a vote for itself and an empty log
   over the file and then fails for want of `_channels`. What `_load_state`
   ("Load persistent state from disk if available.", 563) finds is no longer
   what the server stored: in the run it had voted for another server in term
   1, and starts with a vote for itself in that term.

Not a disagreement: a `Get` may return an old value, from a server that lags,
was deposed or has just restarted. The code says so ("all servers can serve
reads", 509) and promises nothing more.

Besides: with `persistent_state_path = memory`, the committed configuration,
or a disk that fails, a restarted voter may vote twice in a term. What is said
of elections below is said while every write reaches the disk (`DisksWork`).

## Proofs

Every safety invariant and every action property that a passing run checks is
also a theorem, for any finite set of servers, any commands, keys and values,
and every value of the bounds. The assumptions on constants: servers are
finite in number and `None` is not one (`ServerAssumption`), no client's
command is the no-op (`NoOpAssumption`: an entry with the empty key is never
applied, so commands stand for the others), a pool has a worker
(`WorkersAssumption`), bounds are naturals (`BoundsAssumption`,
`MaxAdminsAssumption`), `range(n)` gives nested sets (`IdRangesAssumption`), a
capacity is at least 1, the only ones `cache.py:25` accepts, and `None` is no key
(`CapacityAssumption`, `NoneAssumption`), a decay interval is at least 1
(`DecayIntervalAssumption`).

| Theorem | Module | States |
|---|---|---|
| `TypeCorrectness` | `RaftTypeProofs` | `TypeOK` |
| `ElectionInvariant`, `ElectionSafetyHolds`, `VotesAreNeverTakenBack` | `RaftElectionProofs` | `ElectionInv`, `ElectionSafety`, `VotesAreKept` |
| `RaftImplementsVoting` | `RaftElectionProofs` | `ImplementsVoting`, for `MaxDiskFaults = 0` |
| `LeaderInvariant`, `TimersArmed`, `KnownLeadersWereElected`, `LeaderLogsAreTheirOwn`, `LeadersNeverMeet`, `SanityFailsAtCandidates` | `RaftLeaderProofs` | `LeaderInv`, `TimerArmed`, `KnownLeaderWasElected`, `LeaderLogIsItsOwn`, `NeverTwoLeadersMeet`, `OnlyCandidatesFailSanity` |
| `CommandInvariant`, `NoCommandTwice`, `LogInvariant`, `LogsMatch`, `SuccessIsTrue` | `RaftLogProofs` | `CommandInv`, `NoEntryTwice`, `LogInv`, `LogMatching`, `SuccessMeansMatch` |
| `RaftImplementsLedger` | `RaftLogProofs` | `ImplementsLedger`, for `MaxDiskFaults = 0` |
| `RoundInvariant`, `PutsAckTheirOwn`, `FirstWinsReplicate` | `RaftReplicatorProofs` | `RoundInv`, `AcksInItsTerm`, `FirstWinReplicates` |
| `FrontendInvariant`, `NoOrphansInANewCluster`, `NothingSurvivesStartRaft`, `PromisesBehindFrontend` | `FrontendProofs` | `FrontendInv`, `OrphansAreGone`, `StartsFresh`, and the promises of the cluster |
| `StoreInvariant`, `NeverOverCapacity`, `BooksAlwaysAgree` | `CacheProofs` | `StoreInv`, `WithinCapacity`, `BookkeepingAgrees` |
| `LruEvictsLeastRecent`, `LfuEvictsLeastFrequent`, `SlruResistsScans`, `SieveSparesTheUsed` | `CacheProofs` | `LeastRecentGoes`, `LeastFrequentGoes`, `ScanResistance`, `SecondChance` |
| `CacheIsTransparent` | `CacheProofs` | `ImplementsStore` |

**With which disks.** What depends on votes being remembered is claimed while
every write reaches the disk (`DisksWork`): `ElectionSafety`, `VotesAreKept`,
`NeverTwoLeadersMeet`, `OnlyCandidatesFailSanity`, `ElectionInv` and `LogInv`
carry the hypothesis in their definition, `LogsMatch` and `SuccessIsTrue` in
their statement; the two refinements are of the cluster in which no disk fails
(`MaxDiskFaults = 0`). The other
theorems about the cluster, those of `RaftReplicatorProofs` among them, hold in
memory mode and over failed writes too. `replication` and
`two_replicators` have no bad disk, `elections` may have one.

**Types.** Not only a matter of shapes: that `prevLogIndex` stays a natural
needs the guard `Sendable`, that a merged log is a log needs the consistency
check, that applied entries exist needs the bound on the commit index.

**Elections.** `ElectionSafety` is not inductive. `ElectionInv` adds why it
holds: a file is what its running server would save (`FilesAreCurrent`), so a
vote outlives a crash (`VotesAreKept`); a voter casts one ballot a term
(`OneBallot`); a granted reply and a counted vote are ballots
(`GrantsAreBallots`, `CountedAreBallots`); an election thread is the newest of
its server or of a term left behind (`ElectionThreads`), so votes are added up
for the term they were given in; callers are up (`CallersAreUp`), so a reply
never meets a server that restarted without the thread; a winner had a majority
(`WinnersHadMajority`). Two majorities share a voter. The step lemmas sum up a
section of server `s` by the record `r` it leaves: `StepOf(s, r)` says that `r`
is saved whenever it had to be, `Forward` that no vote is taken back by it.

The refinement maps `ballots` and `leaders` to themselves and `Quorum` to the
majorities. A step adds at most one vote or one winner (`ServerStepHistory`,
`CallStepHistory`); that the vote is the voter's only one of its term is
`OneBallot` after the step, and that the winner has a quorum is
`WinnersHadMajority` after it, so the invariant of the election proof is what
makes each step one of `Voting`.

**Leaders.** Without disks votes may be given twice and a term may have two
winners, but who leads still has won: requests come from winners
(`RequestsFromWinners`), so a known leader is one. `_start_election` lets a
majority be counted after its server has gone on; that no leader is made leader
again, by a late vote of the term it leads, is `LeadersCountNoVotes`, and hence
its log changes by its own appends only. `LeadersNeverMeet` adds `ElectionInv`:
a request of the term a server leads comes from the one winner, itself, and
nobody calls itself (`NothingToOneself`). `SanityFailsAtCandidates` says how far
disagreement 2 goes: a follower of the request's term names no other leader
than the winner, so the assertion fails at servers that started an election and
at no others.

**Logs.** A log is taken as a set of links (`RaftLinks`): an entry, its index
and the term of the entry before it. What a request carries is links as well.
`MergeMakesNoLink` says of the append loop that the log it leaves has links of
the old log and of the request only, for which the consistency check and the
cut at the first conflict are both needed; so links are made by a leader that
appends and by nothing else (`LinksStep`). A command is issued once, hence in
one link (`CommandInv`), hence at most once in a log: no disk is needed for
that. While disks work a term has one winner, which makes all links of the
term, and its log holds all of them while it leads (`LeadersHoldTheirTerm`);
a term once won cannot be won again by the same server after a restart
(`WonForGood`). So index and term tell one link from another (`LinksAgree`),
and logs that share a link share, by descending from link to link, everything
before it (`LogsAgree`). The descent is an induction on the index, which is
done on the least index where two logs differ, as the provers do not take the
library's induction rule. `SuccessMeansMatch` is part of the invariant: that a
follower still agrees when the reply arrives needs that other leaders' requests
do not reach it in that term, and that requests of its own leader say what the
leader's log says (`RequestsAreTaken`), so that a merge does not cut what was
agreed (`FollowersKeepAgreement`).

**Ledger.** Logs map to logs, winners to `leaders`, and what is known to
`Links`: all links of logs, state files and requests. A link that no log, file
or request holds any more is forgotten and cannot come back, which is why
`Copy` may only shrink `known`. `LinksStep` sorts the steps: a win or a `Put`
adds one link (`WinIsWin`, `AppendIsStore`), everything else, a crash, a
restart, a late request, a merge that cuts, is a `Copy` (`CopyMaps`). What
`Ledger` asks of a `Write`, that nobody knows a link of the term beyond the
writer's log, is `LeadersHoldTheirTerm` for a leader and `WinnersAreNew` for
one that has just won; that a stored command is in no known link is
`CommandsAreIssued`. So the refinement needs `LogInv` and `CommandInv` whole.

**Puts and rounds.** Two of the disagreements need the same server to win
twice. `wrong_ack` needs it between two polls of one `Put`, `no_replicator`
to have two replicator threads; the theorems of `RaftReplicatorProofs` say that
nothing less does it. `AcksInItsTerm`: a handler's server leads the handler's
term, with the entry where the handler put it, or its term has moved on for
good (`PutsOnLog`), because a leader's log only grows while it leads a term.
`FirstWinReplicates` is far from inductive: that the thread of a server's first
win never has to build a request that cannot be built (`RequestsCanBeBuilt`)
needs that each refusal takes `next_index` down once and not below 1. A reply
is a refusal of what `next_index` said when it was sent (`RequestsFit`,
`RepliesFit`), because a thread has one call to each follower at a time
(`OneCallAtATime`) and waits for it before the next round (`CallsAreAwaited`),
and because the thread is the only one of its server: each thread belongs to a
win whose election is over (`ReplicatorsAreWinners`, `OneThreadPerWin`). A
request that starts at the first entry is not refused in the leader's term,
hence `nextIndex >= 2` in `RepliesFit`. Together they are `RoundInv`, which TLC checks on
`two_replicators`, where both a first and a second win occur.

**Frontend.** `NextOrKill` is a step of the cluster or the killing of a server
by the frontend, and all lemmas about the cluster are proved for it. Every step
of `Frontend` is such a step, or leaves the cluster alone
(`FrontendStepMoves`), but for `RemoveFile` and `ClearState`. These run when
every server is dead, orphans too. Of the invariants of the cluster only
`VotingInv` and `MatchingInv` rest on the files, and they are claimed while
`FilesAreWhole`; the others survive a file that is removed (`NextFiles`). After
`ClearState` nothing is left of the old servers (`CallersAreUp`, `PutsOnLog`,
`DownServersHoldNothing`) or of their files, and the variables are those of a
cluster that never ran (`ClearedClusterNeverRan`), in which the invariants hold
as they do in `Init`, so a `StartRaft` that succeeds repairs what one that
failed has left. `OrphansAreGone` follows because between `ClearState` and the
end of the call servers come up and go on record in one step (`NoneIsLost`).
`PromisesBehindFrontend` concludes what the frontend leaves of the promises of
the cluster, the handlers of `Put` calls it has given up on included: those
that no file matters to hold without condition, the others while
`FilesAreWhole`. `StartsFresh` needs that no
request on its way holds an erased command (`RequestsAreFresh`), that what is
applied comes from the log (`NextApplied`), and that a new link is of a new
command. `ForwardsItsCall` had to be added when the proof of a step
failed: `Tasks` allows a search for a leader on behalf of a `Get`, which would
then be put.

**Caches.** `StoreInv` has one conjunct per policy for what its structures
promise (`QueueInv`, `RandomInv`, `LfuInv`, `SlruInv`, `SieveInv`), one for the
agreement of the cache with the state machine, and one for the histories. Each
operation of each policy has one lemma of the form: from a cache that satisfies
the invariant, it leaves one that does, and the keys and values it holds are the
old ones but for what it was asked to insert or remove and at most one victim.
`EvictingStep` traces an eviction back to the `put` that caused it. The lemmas
on victims then say which key goes: the head of the queue, the head of the
bucket of the least frequency, a key of probation, a key whose bit is clear or,
when every bit is set, any. The invariant ties each to the history: LRU's queue
is the order of use, each LFU bucket is in that order, the key read last is in
SLRU's protected segment, and keys used since the last eviction have their bit
set. `CacheIsTransparent` maps the state machine to the dictionary of `Store`
and forgets the cache: a hit answers what the dictionary has because
`AgreementInv` holds, a miss and an applied entry keep it.

`RaftReplicaProofs` has the lemmas on logs, on least and greatest elements and
on majorities, and one on each operator of `RaftReplica`.

**Only model-checked.** `PutsReturn`, `LogsConverge`, `FrontendReturns` and
`PutsOutliveRestarts` are liveness under fairness, out of the prover's reach.
The six properties the code breaks are refuted by TLC; there is nothing to
prove of them. `Startup`, of which only such a property is checked, has no
theorem.

## Not modelled, and why

`benchmark.py`, `workloads.py` and the plotting notebook generate random keys
and measure; they keep no state of the system. Configuration files are
constants. Left out of the modelled parts:

* requests with invalid arguments, which are refused and change nothing, and
  `_ping_server`, which nothing calls;
* the death of the frontend itself, whose servers live on as orphans until the
  `pkill` of the next `StartRaft`;
* a second process of one id, which `StartServer` starts when a `_kill_server`
  that failed has left the first one running without a record: the two have one
  port and one file, and the cluster model has one process per server;
* a server process that hangs without dying, and a state file that cannot be
  parsed;
* a `next_index` below 0, which takes three replicators at once;
* the statistics of the caches.

## Plan

1. A theorem about `Startup`: everything that does not depend on the file,
   `TimerArmed` excepted (the failure before `_log` exists), and for which
   start-ups the file is loaded after all.
2. What commitment promises although followers are not asked: applied entries
   are entries of the log at the time, and the conditions under which
   `CommittedOnMajority` holds after all, as theorems about the code as it is.
3. `AcksOwnEntry` and `LeaderReplicates` of the cluster with the two changes
   the theorems point at: a poll that compares the term, a replicator that ends
   with its term.
