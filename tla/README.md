# A verification project for replication, locking and distributed commit

NormousDB is a document database server: a storage layer, a query engine, replica
sets and sharding. This project models, in TLA+, the parts in which several threads or
several processes have to agree: the replica set, the lock manager and the commit of
transactions over several shards. TLC checks the modules on small instances and TLAPS
proves theorems about them for every value of the constants. All paths below are
relative to `src/src/normous/`.

## 1. The system

### 1.1 Components

| Component | State | Operations | What makes it correct |
|---|---|---|---|
| Elections: `db/repl/replication_coordinator_impl_elect_v1.cpp`, `vote_requester.cpp`, `topology_coordinator.cpp` | term, role, last vote (memory and document), the election's callback and captured term, vote tally | start an election, dry run, store the own vote, request and count votes, answer a vote request, learn a term, restart | one vote per voter and term, one winner per term, votes that survive a crash, every candidacy ends |
| Member role: `replication_coordinator_impl.cpp`, `..._heartbeat.cpp`, `topology_coordinator.cpp` | role, leader mode, follower mode, applier state, catch-up state, config state, pending term, `_canAcceptNonLocalWrites` | win, catch up, drain, complete the transition, step down by term, heartbeat or command, reconfigure, change the follower mode | writes only on a drained primary, a constant term while primary, step-downs, reconfigurations and attempts that end, the handlers' invariants |
| Steady-state replication: `bgsync.cpp`, `oplog_fetcher.cpp`, `sync_tail.cpp`, `rollback_impl.cpp` | producer state, last fetched optime, buffer, batches, oplog, last applied optime | start, fetch, enqueue, roll back, stop, batch, apply, signal an empty pipeline | an oplog that is one history, no fetch on a primary, an empty pipeline after the drain, a secondary that catches up |
| Commit point: `topology_coordinator.cpp`, `replication_coordinator_impl.cpp`, `oplog_fetcher.cpp`, `repl_set_commands.cpp` | members' oplogs, known positions, last committed optime | report positions, count a majority, advance, learn from the sync source, roll back | a committed entry is never rolled back; the commit point is on the member's own branch |
| Recovery: `sync_tail.cpp`, `replication_recovery.cpp`, `replication_consistency_markers_impl.cpp`, `rollback_impl.cpp`, WiredTiger's checkpoints | truncate point, minValid, appliedThrough, stable timestamp and its candidates, journal, checkpoint | multiApply, become primary, flush, checkpoint, roll back, shut down, recover from the oplog | after a crash at any point the data equals a prefix of the oplog that has all that was reported durable |
| Lock manager: `db/concurrency/lock_manager.cpp`, `lock_state.cpp` | granted list, conflict queue, counters, partitions | lock, convert, unlock, downgrade, time out, clean up | compatible grants only, counters that match the lists, no lost wake-up, nobody waits for ever |
| Distributed commit: `db/transaction_coordinator*.cpp`, `db/transaction_participant.cpp`, `db/commands/txn_two_phase_commit_cmds.cpp`, `s/transaction_router.cpp` | coordinator's state machine, votes, acknowledgements, participants' transaction states | prepare, vote, coordinate, commit, acknowledge, abort, expire | atomic commit at one timestamp, a client that is told the truth, participants that do not stay prepared |
| Heartbeats, sync source selection: `topology_coordinator.cpp`, `sync_source_resolver.cpp` | member data, ping times, denylist | process a response, choose and change a sync source | no cycle that starves everybody, a usable source is found |
| Write concern: `replication_coordinator_impl.cpp`, `reporter.cpp` | waiters, members' optimes | wait, wake, report | a waiter is woken once its concern holds or its primary steps down |
| Initial sync, two-phase drop, rollback via refetch | callback chains, queues | | each ends, with every entry applied |
| Sharding: `db/s/migration_*`, `metadata_manager.cpp`, `s/catalog_cache.cpp` | chunk ownership, ranges to delete, cached routing | migrate, delete a range, refresh | one owner per chunk, no deletion under a cursor |
| Executors, pools, queues: `executor/*`, `util/concurrency/*`, `util/queue.h` | work queues, connections | schedule, cancel, wait | each callback runs once |

`PROJECT.json` lists these and the remaining parts (query, storage, tools) with the
reason why each is left out or when it is planned.

### 1.2 How they interact

`ReplicationCoordinatorImpl` owns one mutex, `_mutex`, and the `TopologyCoordinator`
that it guards. A handler is a chain of callbacks on the replication executor, of
command threads and of the applier thread; each takes `_mutex`, releases it around
everything that blocks (the network, the last-vote document, the global lock) and
goes on with values captured before. A member that wins an election leaves its producer
running for catch-up (`CatchupState`), stops it when it enters drain mode, and becomes
master when the applier reports an empty pipeline (`signalDrainComplete`). A step-down
starts the producer again. The producer's fetcher in turn brings new terms and so starts
step-downs, and its rollback changes the follower mode.

Members report their positions to their sync sources (`replSetUpdatePosition`); the
primary takes the commit point from them, and members learn it with the entries that
they fetch. The commit point and what a member has applied give its stable timestamp, at
which the storage engine takes checkpoints. Rollback returns to the last of them, and
recovery, after a crash as in a rollback, applies the oplog on top of it.

Every operation locks through the lock manager; the transition to primary, step-downs
and rollback take its global lock. A router (`TransactionRouter`) sends
`prepareTransaction` to the participants and `coordinateCommitTransaction` to the shard
that the transaction touched first; that shard's `TransactionCoordinatorService` collects
votes, sends the decision and answers.

### 1.3 What is hard

The windows between two holds of a mutex, with a captured term, leader mode or optime
that is stale afterwards; elections that are cancelled by a reconfiguration at any of
their stages; a step-down command against an election and a drain; vote requests and
position reports that are lost, delayed or served by a process that steps down; crashes
between any two of the writes of a vote, a batch, a rollback or a transition to primary;
a one-second timeout that stands for "the pipeline is empty"; the bounded buffer; commit
points that are ahead of the oplog; a lock that is granted while its waiter gives up, and
intent locks that migrate between partitions and lock head; votes, decisions and the next
transaction of a session that overtake each other. `PROJECT.json` lists each as a hazard
at the line where it bites.

## 2. The modules

| Module | Models | Checked with | Proofs |
|---|---|---|---|
| `Election.tla` | all voters of a set, with their votes | `MCElection.tla` | `ElectionProofs.tla` |
| `MemberRole.tla` | the role of one member | `MCMemberRole.tla` | `MemberRoleProofs.tla` |
| `OplogApplication.tla` | the replication threads of one member | `MCOplogApplication.tla` | `OplogApplicationProofs.tla` |
| `CommitPoint.tla` | the oplogs, positions and commit points of all members | `MCCommitPoint.tla` | `CommitPointProofs.tla` |
| `CrashRecovery.tla` | what one member has on disk, and its recovery | `MCCrashRecovery.tla` | `CrashRecoveryProofs.tla` |
| `LockManager.tla` | one resource of the lock manager and its lockers | `MCLockManager.tla` | `LockManagerProofs.tla` |
| `TransactionCommit.tla` | router, coordinators and participants of a session | `MCTransactionCommit.tla` | `TransactionCommitProofs.tla` |
| `AtomicCommit.tla` | what the commit of a transaction promises | by refinement, in `MCTransactionCommit.tla` | |

In all of them an action is what one thread does under one hold of the mutex that guards
what it changes. `map` in `PROJECT.json` names the lines of each definition. Operators
whose comment starts with "Mutant:" are deliberately wrong variants of the definition
that follows them: for each property there is one that a run must refute.

Where the code has a race or a failure that would end every behaviour before the rest can
be judged, a constant (`Faults`, in `OplogApplication` `Race`, in `MemberRole` `Overlap`)
says whether the model takes it. The passing runs exclude them, apart from `Overtake` of
`TransactionCommit` and those of `CommitPoint`, which three members cannot reach, and
section 4 says what happens with each of them. A property listed there is not caught by the
passing runs in the case that its row names.

### 2.1 Election

Variables are functions of the node: `term`, `role`, `lastVote` and so on are the fields
of `TopologyCoordinator` with these names, `durableVote` is the document in
`local.replset.election`, `phase` and `electTerm` say which callback of the own election
is due and the term that it has captured, `tally` is `VoteRequester::Algorithm`. A
`replSetRequestVotes` call is one record in `reqs` from its sending to its response, with
the stages of its handler: sent, waiting for a step-down to finish, past `updateTerm`,
storing the vote. A call can be lost (it is never served) and can arrive after its round
is over (`live` is false). `LearnTerm` stands for all the other ways in which a term
arrives: heartbeats, responses, `updateTerm` of commands, oplog metadata. `Restart` loses
the memory and what the process was serving; between the installation of the
configuration and the restoration of the term (`RestoreTerm`) the node already serves
requests. An optime is its term; two optimes of one term compare either way.

`grants`, `elected`, `leaders` and `voteRegressed` are history variables.

### 2.2 MemberRole

One member in an environment that may do anything: votes come out either way, terms
arrive, the applier's buffer runs empty, configurations arrive that do or do not leave the
member electable. `announcing` holds the won elections whose callback has not yet started
catch-up. `command` has a record per `replSetStepDown` thread, with the term and the
leader mode that it has captured. `drain` is the applier thread in `signalDrainComplete`:
before the call, after the first check, and while it holds the global lock over a release
of `_mutex`, the only place where somebody does so; `GlobalLockFree` makes all others wait.
A failed `invariant()` puts its name into `failed`, and the process takes no further step.

### 2.3 OplogApplication

```
source -> docs -> buffer -> batch -> ops -> applying -> oplog
```

The sync source is a sequence of entries that grows, and that is replaced by another
branch when somebody else is elected. An entry is its optime. `links` records for every
entry ever written its predecessor, which is what "the same history" means in
`LogMatching`. The producer, the batcher and the applier each have a program position;
the role of the member is reduced to secondary, catch-up, draining and primary with the
exits that `MemberRole` has. `UpdateTerm` in `FetchDocuments` is what ties the pipeline to
the term: an entry of a newer term is enqueued only after the step-down has begun, and
with `pendingTerm` set the drain cannot end.

### 2.4 CommitPoint

Per member the oplog (a sequence of terms), term, role, the positions that it knows of the
others (`known`, which is `MemberData`) and its commit point; one position report per
sender may be under way. An election is one step of the candidate and a majority of voters
(`WinElection`), so that a term has one leader and a member that steps down does not vote.
This is an idealisation: `MayVote` keeps the conditions that matter here, the term and the
comparison of optimes, `Election` has the election vote by vote, and what this module shows
holds outside the two failures that `Election` reaches (`ElectionIdUnique` and
`OneVotePerTerm` in section 4). A leader begins to step down when it learns a newer term
(`UpdateTerm`), or without one, because of its heartbeats (`StepDownSelf`); either step down
ends in `FinishStepDown`, which takes over a pending term if there is one. A
`replSetStepDown` that succeeds is the step `StepDown`; while it is only attempted, the member
is a leader that commits and does not write. `MemberRole` has all of this with its windows.
`Fetch` takes entries and the commit
point from any member that is ahead, so that sync sources form chains; `Rollback` returns
to the common point, and stops at the assertions of `rollback_impl.cpp` when its timestamp or
its optime is before that of the commit point. `SendReport`, `ReceiveTerm` and `ReceivePositions` are
`replSetUpdatePosition`: the sender's term is processed before the positions, each under
its own hold of `_mutex`. Positions in heartbeat responses are not separate: a report may
go from any member to any other. `history` is no variable of the program: it is the longest
oplog that some primary has found committed, and it is what the properties compare with.

Two of the code's behaviours are in `Faults`: `OffBranch`, a fetch from a source that is not
on the branch of a commit point which the member has learned ahead of its own oplog, and
`OldTerm`, the first write of a primary whose oplog has entries of a newer term than its own
by then. Both take five members (section 4). With the three of the run both are allowed, and
they add no state to it. `LogAssumption` says what oplogs a set may begin with: terms do
not decrease along an oplog, and two oplogs that share an entry share all before it.

### 2.5 CrashRecovery

One member with its tables `oplog` and `data` per timestamp and the markers
`oplogTruncateAfterPoint`, `minValid` and `appliedThrough`; the other members are one sync
source, of whose oplog a prefix is committed. `journal` is the set of states that a crash
may leave, `checkpoint` the last stable one. With majority read concern the oplog and the
truncate point are journaled and the data and the minValid document are in stable
checkpoints only; without it all are journaled. The applying thread (`pc`) takes one step
per write of `multiApply`, writer threads in any order; the transition to primary, the
rollback, a clean shutdown and `recoverFromOplog` are sequences of steps too, and `Crash`
may come between any two. `kept` is a history variable: a rollback has kept a stable optime
candidate between the stable timestamp and its common point, as
`replication_coordinator_impl.cpp:2573` always does. `TakeToken` and `FlushJournal` are the journal flusher with its
listener, which reads the optime that it will report before it flushes.

### 2.6 LockManager

One resource, global or not. `grantedList`, `conflictList`, `grantedCounts`,
`conflictCounts` and `partitions` are the fields of `LockHead`, `heads` the
`PartitionedLockHead`s. A locker has one request; `pc` is where its thread is. What the
code does under the bucket's mutex is a sequence of steps of the thread in `bucket`, one
per look at a request in `_onLockModeChanged`, and what it does under a partition's mutex
is one step; the reads of a status without a mutex (`unlock()`, a wait that times out) are
steps of their own. `Notify` and `Granted` are `CondVarLockGrantNotification`.

### 2.7 TransactionCommit and AtomicCommit

The transactions of one session, numbered 1, 2..., each writing to all shards. `router`,
`coord` (the coordinator's state machine with its transition table), `catalog`, `doing`
(what a coordinator thread does after releasing the mutex) and `handler` (where
`coordinateCommitTransaction` is) model the two services; `active`, `txnState`,
`preparedAt`, `committedAt` and `aborted` the participants. A message is received at most
once, in any order, and one that is never received is lost. A cluster time travels with
every message, and prepare timestamps are taken from it.

`AtomicCommit.tla` is the promise: one decision per transaction; commit needs the consent
of every shard and has the latest consent as its timestamp; shards end as decided; the
client is told of a commit after all have committed. `Promise` in `TransactionCommit.tla`
is `INSTANCE AtomicCommit WITH` a refinement mapping in which the decision is told from the
state of the coordinator, or from the first abort anywhere, and a shard counts as
committed only at the commit timestamp. The property `ImplementsAtomicCommit` is
`Promise!Spec`.

## 3. Runs

| Run | Instance | Shows |
|---|---|---|
| `election` | 3 voters, 2 candidacies, terms up to 2, 1 restart | votes unique and durable, one winner per term |
| `election_liveness` | 2 voters, 3 candidacies, 1 restart, fair | candidacies end, a pending term is adopted |
| `member_role` | 1 step-down command, every kind of reconfiguration, terms up to 3, fair | writes only after the drain, the term of a primary is fixed, handlers' invariants, step-downs, reconfigurations and attempts end |
| `oplog_application` | oplogs of 4 entries, terms up to 3, a buffer and batches of 2 | one history, no fassert, a producer in step with its member: stopped on a primary, never behind what is applied |
| `oplog_application_liveness` | oplogs of 3 entries, a buffer and batches of 1, fair | drain mode ends, a secondary catches up |
| `commit_point` | 3 members, two of which begin with an entry of their own, terms up to 4, oplogs of 3 entries, 2 reports or step-downs without a newer term | what is committed stays committed, no member that has all of it loses any, commit points are committed and on the member's branch |
| `crash_recovery` | 4 timestamps, terms up to 3, batches of 2, 1 crash, with and without majority read concern | data and oplog agree after every crash, nothing reported durable is lost, stable checkpoints hold committed data only, recovery stops at no invariant but the one on `appliedThrough`, and at that one only after a rollback that has kept a candidate (section 4) |
| `lock_manager` | 3 lockers, 2 partitions, global and other resources, all modes, all conversions, recursion 2 | no conflicting grants, no invariant fails, no lost wake-up, no deadlock |
| `lock_manager_liveness` | modes IX, S and X, no conversions, recursion 1, fair | every waiter is granted or times out |
| `late_grant` | as `lock_manager`, with `LateGrant` | violation, see 4 |
| `txn_commit` | 3 shards, 2 transactions, the second of which may overtake the first, expiry on any shard | atomicity, no broken state machine, implements `AtomicCommit` |
| `txn_commit_liveness` | 3 shards, 1 transaction that may expire on the coordinator's shard, fair | a prepared shard learns the decision, a client that commits gets an answer |

The largest are `crash_recovery` (4.1 million states), `lock_manager` (3.3 million),
`commit_point` (1.8 million), `oplog_application` (1.3 million) and `txn_commit` (1.2
million); none takes more than four minutes.

Bounds. Two candidates among three voters are the smallest set in which votes can split
and a voter can be asked twice; two terms let a primary learn a newer one while it steps
down, one restart lets a vote be forgotten. The two-voter instance makes room for three
candidacies and liveness. In `MemberRole` three terms suffice for a member to be elected,
step down, be elected again and step down again while a callback of the first term is
still due. In `OplogApplication` four entries fill a buffer of two while two more are in
a batch or in the oplog, and three terms are the initial one, one of this member and one
of another, in either order. `CommitPoint` begins with two former primaries that each have
an entry nobody else has, and two more elections follow; this is the shortest way to an
entry of an old term that a majority has and that can still be replaced. Two reports are
enough for one to be overtaken by another, or by an election. A rollback that goes behind the
commit point needs a majority without the member that rolls back and without its source,
hence five members: no property of the run is about it, and section 4 has that case. In `CrashRecovery` four
timestamps hold a checkpoint, a divergent entry and a batch of two; recovery from the one
crash may itself be followed by everything but another crash. `LockManager`'s three
lockers are a holder and two waiters, or two conversions and a newcomer; two of them share
a partition. Three shards are one whose vote is early, one whose vote is late and the
coordinator's own; `MaxTime` 6 leaves room for every prepare and decision to be later than
the last. Nodes, commands, lockers of one partition and participants are symmetric where no
liveness property is checked. Elections, roles, commit points, timestamps and transactions
stop at their bounds, so these runs do not check for deadlock; the oplog pipeline and the
lock manager never stop, and their runs do.

Fairness. `Election` and `MemberRole` assume weak fairness of the callbacks that are
scheduled on the executor (it runs every callback, with a result or with
`CallbackCanceled`; vote requests have a timeout) and of the step-down command, whose wait
ends at its deadline. Nothing is assumed of elections being started, of votes being granted
or of messages arriving. `OplogApplication` assumes weak fairness of its three
threads, which are loops with timeouts, and of a scheduled step-down; strong fairness says
that a sync source that is ahead again and again sooner or later answers, and that a
rollback that is tried again and again sooner or later succeeds. Both retry for ever in
the code, and no liveness can be expected of a network that never delivers.
`TransactionCommit` assumes that messages arrive, that the coordinator's threads run, and
that a router which is committing goes on; nothing of clients that commit, abort or
begin, and nothing of expiry. `LockManager` assumes weak fairness of the steps that a
thread takes while it has the bucket's mutex, of the wake-up of a granted waiter and of
the cleaner; strong fairness of taking the mutex, which is free again and again, and of
`Unlock`: operations end.

## 4. Where the code departs from what it says

**`late_grant`** is the run whose property TLC refutes. `LockManager::unlock` looks at the
status of a request and at its recursive count before it has the bucket's mutex. For a
conversion that has timed out the count stays positive; a grant of the conversion in
between makes `unlock` find the status granted under the mutex, and it takes the request
off the granted list, although its owner goes on holding the lock. The comment there
(`lock_manager.cpp:503`) says that the fast path "did already ensure
request->recursiveCount == 0".

Two more failures take no race and no fault. They are not among the runs of `PROJECT.json`,
and each has a cfg that TLC refutes in less than a minute.

**`CommonPointNotBeforeCommitPoint`** (`MCCommitPoint5.cfg`): "Rollback common point should be
>= the replication commit point" (`rollback_impl.cpp:661`) is asserted on every rollback. `n1`
commits `<<1, 2, 4>>` with two of the five members. `n4` has `<<1, 2>>` and learns the commit
point with a batch from a member that has it, before it has the entry at that point; the
metadata of a batch are processed first. Then it finds `n5`, a former primary with `<<1, 3>>`,
whose optime is beyond its own: the common point is the first entry, and the assertion stops
the process (13 states). No committed entry is lost by it: a majority keeps them all, and the
theorem `CommittedIsNotRolledBack` says that a member which has all of them loses none. `n4`
does not have all of them, and if it had not learned the commit point, it would roll back the
committed entry of term 2 and fetch it again later. `MCLateSpec` has those behaviours of `Spec`
in which `n1` alone leads, so that TLC gets there soon.

**`AppliedThroughIsStable`** (`MCCrashRecoveryKept.cfg`): recovery from a stable timestamp
asserts that `appliedThrough`, when it is set, has that timestamp (`*stableTimestamp ==
appliedThrough.getTimestamp()`, `replication_recovery.cpp:257`). Leaving rollback keeps the
stable optime candidates up to the common point (`replication_coordinator_impl.cpp:2573`),
also those after the stable timestamp that the data went back to. The entries between the two
are applied again by recovery, which does not write `appliedThrough` as of each of them. When
such a candidate becomes the stable timestamp and a checkpoint is taken there,
`appliedThrough` as of that timestamp is the former stable timestamp, and the next restart
stops at the assertion (41 states). One rollback with a candidate in that place, an advancing
commit point and a crash are enough.

The models reach more such failures. No run is spent on them; each row says how to see it.
"In" a cfg means: that cfg with the change, and with the property as its only one.

| Property | In | What happens |
|---|---|---|
| `ElectionIdUnique` | `MCElection.cfg`, `MaxTerm = 3` | `_onVoteRequestComplete` unlocks `_mutex` between the check of the term and the transition to leader (`elect_v1.cpp:330`). A newer term learned in the window is taken for the term of the election, and two nodes become primary with one election id |
| `OneVotePerTerm` | `MCElection.cfg`, `MaxElections = 3` | a vote is refused when the last vote has the *same* term (`topology_coordinator.cpp:2658`). A primary in `kSteppingDown` can vote above its term, then again in it. The theorem `ElectionSafety` shows that this is the only way to a second vote |
| `WritesOnlyAfterDrain` | `MCMemberRole.cfg`, `Command = {c1, c2}` | the abort function of a `replSetStepDown` command that has outlived its term restores its mode over the attempt of another one (`topology_coordinator.cpp:1304`), and the member accepts writes in drain mode |
| `DrainedLeaderIsMaster` | `MCMemberRole.cfg` | a drain that completes during a step-down attempt that fails leaves the member leader-elect for ever (`topology_coordinator.cpp:2423`) |
| `CancelFindsVoteRequester` | `MCMemberRole.cfg` | an election is cancelled while the own vote is written: `_voteRequester` is null (`replication_coordinator_impl.cpp:3528`) |
| `StepDownFinishesOnce` | `MCMemberRole.cfg` | a reconfiguration ends the leader role before `_stepDownFinish` runs |
| `WritesSwitchUnderGlobalLock` | `MCMemberRole.cfg` | a reconfiguration by command changes `_canAcceptNonLocalWrites` without the global lock |
| `CatchupStartsOnce` | `MCMemberRole.cfg`, `Overlap = TRUE` | a second election is won before the first one's callback has started catch-up |
| `DrainedPipelineIsEmpty` | `MCOplogApplication.cfg`, `Race = {"DrainExit"}` | the applier takes a second without a batch for an empty pipeline (`sync_tail.cpp:794`). Entries enqueued just before, in the same term, are left behind when the member starts to write, and it aborts when they are handed over |
| `FetchesBeyondApplied` | `MCOplogApplication.cfg`, `Race = {"DelayedStart"}` | the loop in `BackgroundSync::start` (`bgsync.cpp:757`) never uses what it reads in its second pass, so an oplog that has grown since the first read is not noticed |
| `PrimaryDoesNotFetch` | `MCOplogApplication.cfg`, `Race = {"ElectedInRollback"}` | `_runRollback` ends by starting the producer (`bgsync.cpp:640`), also on a member that has been elected meanwhile, and nothing stops it on the primary |
| `Atomicity` | `MCTransactionCommit.cfg`, `Shards <- TwoShards`, `Expiring = {c}`, `Faults = {"StrayAbort"}` | `createCoordinator` aborts the coordinator of the session's previous transaction, and the abort that it sends carries the number of the new one (`transaction_coordinator_service.cpp:106`): it aborts a shard that has prepared the new transaction |
| `ImplementsAtomicCommit` | `MCTransactionCommit.cfg`, `Faults = {"GiveUp"}` | a router that gives up reports an error and aborts, while the coordinator may still commit |
| `NeverBroken` | `MCTransactionCommit.cfg`, `Faults = {"Retry"}` | a second `coordinateCommitTransaction` meets a state in which the state machine has no row for it |
| `PreparedIsResolved`, `CommitIsAnswered` | `MCTransactionCommitLive.cfg`, `Expiring <- ThreeShards` | a participant that cannot prepare tells nobody: `_sendVoteAbort` (`txn_two_phase_commit_cmds.cpp:157`) has no caller, the coordinator waits for its vote, the others stay prepared and the router waits for an answer |
| `FailsOnlyAfterKeptCandidate` | `MCCrashRecovery.cfg`, `Faults = {"LateMark"}` | the producer sets `appliedThrough` without the mutex that role changes take (`bgsync.cpp:421`), and a primary restarts with it set |
| `DurableSurvives` | `MCCrashRecovery.cfg`, `Faults = {"LateFlush"}` | a flush reports an optime that it read before a rollback |
| `StableOnBranch` | five members (`n4` begins with `<<1, 2>>`, the others with `<<1>>`), `MaxTerm = 3`, `MaxLog = 2`, `Faults = {"OffBranch"}` | a member learns a commit point beyond its own oplog and then fetches from a source on another branch: entries below its commit point are not committed, against the assertion at `rollback_impl.cpp:661`. With `Faults = {}` the five members pass (960,887 states), and three members never get there |
| `LogInv` | five members that begin with `<<1>>`, `MaxTerm = 4`, `MaxLog = 3`, `MaxEvents = 0`, `Faults = {"OldTerm"}` | a primary-elect of term 3 catches up from a former primary-elect that has fetched entries of term 4 and has not yet finished its step-down to it, so that its metadata still carry term 2. Nothing compares the entries with the own term, and the first entry that `completeTransitionToPrimary` writes is of term 3: the terms of the oplog go down, and optimes no longer order it (8 states) |
| `NeverFails` | `MCLockManager.cfg`, `Faults = {"GlobalUpgrade"}` | `lockBegin` sets the flags of a request for the global lock that is already granted (`lock_state.cpp:757`), and an `invariant()` about them fails at the unlock |

`MemberRole`'s `failed`, like that of the other modules, ends the behaviour: the passing
runs and the proofs are about behaviours up to such a failure.

Two more things that the lock manager's models show and no text contradicts: a waiter
behind the front that gives up leaves a compatible waiter behind it in the queue until the
next release, and a global S request that is put at the front of the queue still counts
the modes of waiters behind it as conflicts.

## 5. Proofs

`ElectionProofs.tla` (any finite set of voters, any bounds):

* `ElectionTypes`: `Spec => []TypeOK`.
* `VotesUnique`, `ElectionSafety`, `VotesDurable`: the safety invariants of the run
  `election`; `LastVotesWithinTerm`: a node's last vote is never beyond its term.

They follow from `ElectionInv`, which is inductive and defined at the end of
`Election.tla`. None of the four is inductive alone. A vote counted is a recorded vote of
the election's term only because a late response of an earlier round finds nobody
(`RequestInv`: a live call belongs to the election under way) and because the own vote is
stored before the count starts (`TallyInv`). Votes of a term are unique because no vote
given so far, recorded or on its way to the document (`CastVotes`), is beyond the last
vote in memory (`VoteInv`), which in turn needs the last vote to be within the term
(`LastVoteWithinTerm`) so that a candidate's new term is above all that it has voted in,
and the document to be no older than any recorded vote, for the restart
(`GrantedVotesDurable`). Two winners then share a voter, since two majorities intersect,
and that voter has two votes in one term. Assumptions: `NodeAssumption`,
`ReasonAssumption`, `BoundAssumption`, `NobodyAssumption`.

`MemberRoleProofs.tla` (any bounds, any kinds of reconfiguration):

* `MemberTypes`, `TermFixed`: for any number of step-down commands and with overlapping
  elections.
* `HandlerInvariants`: with one command at a time (`SingleCommand`), `OtherInvariantsHold`.
* `WritesAfterDrain`: with one command at a time and no overlapping elections,
  `WritesOnlyAfterDrain`.

`RoleInv` relates role, leader mode, phase and vote requester; `CommandInv` says that a
waiting command that captured the current term is the one whose attempt is under way;
`DrainInv` relates catch-up, applier state and the captured term of the drain to the
leader mode. The hypothesis `SingleCommand` is needed: with two commands TLC refutes the
conclusion (section 4).

`TransactionCommitProofs.tla` (any shards, any number of transactions of a session, any
shards on which transactions may expire):

* `TransactionTypes`: `Spec => []TypeOK`, with any of the faults.
* `TransactionsAtomic`, `CoordinatorNeverBroken`: `Atomicity` and `NeverBroken`.
* `TransactionsKeepPromise`: `Spec => Promise!Spec`, the refinement of `AtomicCommit`.

The last two items have the hypothesis `NoOtherFault`, that is `Faults \subseteq
{"Overtake"}`: a new transaction may overtake the former one's messages, but the abort that
`createCoordinator` sends on overtaking (`StrayAbort`) is excluded; section 4 shows what
each other fault breaks. `Atomicity` says that no shard commits what another aborts; that all
commit at one timestamp is part of the refinement. None of the properties is inductive, because what a
shard does when a message arrives is right only by what its sender knew.
`CommitProtocolInv`, at the end of `TransactionCommit.tla`, ties each message in flight to
the state of the coordinator that has sent it or will receive it: `VoteInv` says that a
vote to commit, on its way or counted, is the prepare timestamp of its shard, and on its
way once; `CoordinatorInv` that a coordinator which has decided to commit has the list and
all votes; `CommitInv` that a commit, on its way or carried out, is of a coordinator that
has decided so, and at the latest of the votes; `AbortInv` that an abort, or a negative
answer, is of a transaction that cannot commit any more. The refinement follows the
mapping: `Decision` is the abstract decision, `Ending` a shard's abstract state,
`CommitTime` the timestamp and `Told` what the client has heard. Most steps leave all of
them alone and are stutters; the step that completes the votes is the decision to commit,
the first abort anywhere the decision to abort, and each end of a shard and each answer to
the client is the abstract step of that name, whose guard is a conjunct of the invariant.

`LockManagerProofs.tla` (any finite set of lockers, any partitions, any modes, conversions
and recursion bound; without faults):

* `LockInvariant`: `Spec => []LockInv`, and from it
* `LockTypes`, `LocksExclude`, `LockManagerNeverFails`, `NoWakeupIsLost`: the four
  invariants of the run `lock_manager`.

The code grants by its counters, and never looks at the lists to find a conflict. So
`MutualExclusion` needs `CountInv` (each counter is the number of requests on the list in
that mode, the target modes of pending conversions included), which needs `ListInv` (a
request is on the one list that goes with its status, and once) in every state in which
somebody is in the middle of an operation, hence `ThreadInv` and `ModeInv` (what a thread
is about to do goes with the status, the modes and the flags of its request) and
`BucketInv` (a scan belongs to the holder of the bucket's mutex). Requests in partitions
appear in no counter: `PartitionInv` says that while there are partitions only intent modes
are granted and nobody waits. `NoLostWakeup` lets the front of the queue wait for a granted mode, or, for a global S or X
request that was put there while something was granted, for a mode that somebody else waits
for (`PutBefore`); its own mode does not count. `WakeupInv` is the same for the middle of a
scan: what may go on has been told, or is still ahead of the cursor. Assumptions: `LockerAssumption`
(the lockers are finitely many, since the counters are cardinalities, and the names used
for "nobody" and for the cleaner are not theirs) and the bounds.

`CommitPointProofs.tla` (any finite set of members, any bounds, any oplogs to begin with
that satisfy `LogAssumption`):

* `CommitPointInvariant`: `Spec => []CommitPointInv`, and from it
* `CommitPointTypesHold`, `CommitPointsAreCommitted`, `CommittedStaysCommitted`: `TypeOK`,
  `CommitPointIsCommitted` and `CommittedGrows`.
* `CommittedIsNotRolledBack`: `CommittedIsKept`, a member whose oplog has all that is
  committed keeps it.
* `StableOpTimeOnBranch`: `StableOnBranch`.

The first five have the hypothesis `"OldTerm" \notin Faults`, the last one `Faults = {}`:
section 4 shows what each of the two breaks. `OldTerm` is a hypothesis on behaviours and not
on constants that a deployment could choose; the theorems say that the commit protocol is
safe as long as the terms in an oplog do not go down.

A primary commits by counting reported positions, which are optimes and not histories, and
a report may be late, relayed, or of a term that is over. So `CommitPointInv` is about what
could still be counted. `LogInv` says that oplogs are sorted and that an entry determines
those before it; `TermInv` that a majority knows the term of everything that occurs in an
oplog, a position or a report, and that entries of a leader's term are all its own;
`ReportInv` that the term of a report is known before its positions count. `Acked` is what
the leader of a term may yet count of a member, `Unchosen(t, i)` that a majority is out of
its reach, and `ChosenInv` that for each entry either this holds or the entry is
`Inherited`: it is in every oplog that has later terms and in that of every later
primary-elect, and whoever counts for it has it. `HistoryOK` says the same of the committed
entries. The steps fall into four kinds. A quiet one (reports, fetches, rollbacks, terms)
adds no optime that did not occur, and takes entries from a member only in favour of a fresher
one (`QuietStep`). An append extends the oplog of the one leader of its term. An election
gives each (t, i) one of the two alternatives: voters that cannot be counted any more, or
a voter that has the entry and is no fresher than the winner. A commit finds a majority that
is `Acked`, so that the entry is not `Unchosen`, and the history that it adds is safe
(`MayCommitFacts`) and comparable with the former one (`HistoriesCompare`). For
`StableOnBranch`, `BranchInv` adds that a member's entries up to its commit point agree with
the history and that it has the commit point's term. Assumptions: `NodeAssumption`,
`BoundAssumption`, `LogAssumption`.

`OplogApplicationProofs.tla` (any bounds on terms, entries and batches, any buffer that has
room for a batch):

* `TypeCorrect`: `Spec => []TypeOK`, with any of the races.
* `OneHistory`, `NoInvariantFails`, `ProducerKeepsStep`: `LogMatching`, `InvariantsHold` and
  `ProducerInStep`, the safety invariants of the run `oplog_application`.
* `DrainedIsEmpty`: `DrainedPipelineIsEmpty`.

All but the first have the hypothesis `Race = {}`: section 4 shows what each of `DrainExit`,
`DelayedStart` and `ElectedInRollback` breaks. Types are not inductive alone, because a
timestamp is bounded only by the term that it was written in: `TypeInv` adds what terms the
entries of the member and its source have (`TermInv`, `EntryInv`) and that what a thread is at
work on is not empty (`ShapeInv`). For the history no stage of the pipeline can be looked at
alone. `HistoryInv` is about `Pipeline`, the oplog followed by everything between the producer
and the applier, so that handing entries on changes nothing; `FetchInv` says that a running
producer goes on where the pipeline ends, that its cursor and the documents it holds
continue it, and what of this remains when another thread stops the producer between its
steps; `RollbackInv` that a rollback runs on a secondary with an empty pipeline, as
`_runRollback` waits for; `ApplierInv` that only the applier moves the oplog of a member that
is not primary, and that the term it read before it found nothing to apply is evidence of
an empty pipeline as long as it is the member's term. Assumptions: `RaceAssumption`,
`BoundAssumption`.

`CrashRecoveryProofs.tla` (any number of entries, terms, crashes and entries of a batch,
with and without majority read concern):

* `TypeCorrect`: `Spec => []TypeOK`, with any of the faults.
* `CrashKeepsData`, `DurableIsKept`, `StableIsNeverRolledBack`,
  `RecoveryFailsOnlyAfterKeptCandidate`: `DataMatchesOplog`, `DurableSurvives`,
  `StableIsCommitted` and `FailsOnlyAfterKeptCandidate`.

The latter have the hypothesis `Faults = {}`, which excludes `LateMark` and `LateFlush`, two
races that section 4 describes, and no rollback: the failure of `AppliedThroughIsStable` is
part of the behaviours, and the last theorem says that it is the only one and what comes before it.
`RecoveryInv`, at the end of `CrashRecovery.tla`, is about
every state that a crash could leave as much as about the one in memory. Already the types
need that the oplog, and every oplog in the journal, is whole below its truncate point
(`LogInv`), which holds in the middle of a batch because the entries that are not yet written
follow that point (`BatchInv`). `ProgressInv` places the applied and durable optimes, and
the one that the flusher has read, in these oplogs; `DataInv` says that the data differs from
the oplog only where an entry of the batch is left to apply; `DocumentInv` that
`appliedThrough` is either unset or the end of the last batch, and that `minValid` is never
beyond what is there. With majority read concern a crash takes data and documents from the
checkpoint and the oplog from the journal, which are of different moments: `StableInv` and
`CheckpointInv` say that both agree with what is committed up to the stable timestamp, so
that the entries after it can be applied again, and `CandidateInv` that each candidate for
the next stable timestamp is an entry that the document of its moment knows as applied,
unless a rollback has kept one.
They rest on `CommitInv` (what the member has up to its commit point is what a majority
has) and, for a member that leads, `LeaderInv`. Without majority read concern the journal
has all tables of one moment, and `JournalInv` says that in each such state what the data
lacks comes after its applied point. Assumptions: `BoundAssumption`, `ModeAssumption`,
`FaultAssumption`.

TLC has checked both invariants before: `PipelineInv` with the constants of
`MCOplogApplication.cfg`, `RecoveryInv` with those of `MCCrashRecovery.cfg` and three
timestamps.

Only model-checked: every liveness property (fairness and ENABLED are out of the prover's
reach, as are inductions over recursive definitions, of which these modules have none).
Every other property of a passing run is a theorem.

## 6. What is not modelled

* Elections and roles: arbiters and their veto, the required vote of the primary in a
  catch-up takeover, sets of one member, maintenance mode, startup and initiation,
  shutdown; timestamps of votes. In `Election` the configuration is fixed, in `MemberRole`
  only the own electability changes.
* Replication: `slaveDelay`, sync sources too stale to use, rollback via refetch, the
  content of entries.
* Commit point: durable positions apart from applied ones, arbiters, configurations that
  change the voters, committed snapshots for readers, waiters of a write concern.
* Recovery: the initial sync flag, rollback via refetch, holes in a primary's oplog, an
  oplog that has been emptied; WiredTiger is external, and appears as what its tables,
  its journal and its checkpoints keep.
* Locks: unlocks delayed to the end of a unit of work, saving and restoring of a lock
  state, the temporary global resource, the deadlock detector, tickets; several resources.
* Distributed commit: the single-shard commit, snapshot errors and statement retries of the
  router, and with them `createCoordinator` for a number that has a coordinator already
  (`transaction_coordinator_service.cpp:89-103`); statements and their locks, retryable
  writes, checkout and reaping of sessions.
  Nothing of the coordinator is persisted in this code, so a failover loses it.

Most of the repository is not here at all. Query, aggregation, matching, BSON, full-text
search, the shell and the commands' parsing are sequential evaluations over documents, a
matter of unit tests and not of state spaces. Sharding, executors, pools and the client's
view of a set do have concurrency and are left for later.

## 7. Plan

Every safety property of the runs that holds for all values of the constants has its
theorem. What is left is to model more.

Models in order: sync source selection and liveness timeouts; the waiters of a write
concern; executors, queues and pools; the hand-over of a chunk between two shards.
