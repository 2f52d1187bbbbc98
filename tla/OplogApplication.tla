-------------------------- MODULE OplogApplication --------------------------
(***************************************************************************)
(* Steady-state replication on one member: the producer thread of          *)
(* BackgroundSync with its OplogFetcher and rollback, the OplogBuffer, the  *)
(* OpQueueBatcher and the applier thread of SyncTail, against the changes  *)
(* of the member's role (MemberRole.tla) and of its sync source's oplog.   *)
(*                                                                         *)
(*   source -> docs -> buffer -> batch -> ops -> applying -> oplog         *)
(*                                                                         *)
(* An action is what one thread does under one hold of the mutex that      *)
(* guards the state it changes.  A failed invariant() or fassert() ends    *)
(* the process: what was wrong is then the value of "failed".              *)
(***************************************************************************)
EXTENDS Integers, Sequences

CONSTANTS
    Race,           \* which of the races in Races may happen
    MaxTs,          \* bound on the length of an oplog
    MaxTerm,        \* bound on terms
    BufferSize,     \* OplogBuffer: its size limit, in entries
    BatchLimit      \* replBatchLimitOperations, and entries per fetched batch

\* DrainExit: entries arrive, or the batcher still has some, while the applier of
\* a primary takes the pipeline to be empty.  ElectedInRollback: the member wins
\* an election while its producer is in _runRollback.  DelayedStart: the producer
\* stays between the two parts of start() until the member has become primary
\* and stepped down.
Races == {"DrainExit", "ElectedInRollback", "DelayedStart"}

ASSUME RaceAssumption == Race \subseteq Races
ASSUME BoundAssumption ==
    /\ MaxTs \in Nat \ {0} /\ MaxTerm \in Nat \ {0}
    /\ BatchLimit \in Nat \ {0} /\ BufferSize \in Nat /\ BufferSize >= BatchLimit

VARIABLES
    source,         \* the oplog of the sync source
    sourceTerm,     \* the term in which entries are added to it
    newestTerm,     \* the newest term of the set
    links,          \* every entry ever written, with its predecessor
    mode,           \* _memberState and _applierState
    term,           \* TopologyCoordinator::_term
    pendingTerm,    \* _pendingTermUpdateDuringStepDown, 0 when it is none
    oplog,          \* the local oplog
    lastApplied,    \* getMyLastAppliedOpTime()
    state,          \* BackgroundSync::_state
    lastFetched,    \* BackgroundSync::_lastOpTimeFetched
    producer,       \* where the producer thread is
    cursor,         \* the optime that start() has read or the fetcher is at
    docs,           \* the documents of a response, not yet enqueued
    buffer,         \* the OplogBuffer
    batch,          \* the batch in the making in OpQueueBatcher::run
    ops,            \* OpQueueBatcher::_ops
    applier,        \* where the applier thread is
    applying,       \* the batch that it has taken
    termRead,       \* termWhenBufferIsEmpty
    startOfBatch,   \* lastAppliedOpTimeAtStartOfBatch
    failed          \* the invariant() or fassert() that has failed, or "none"

others == <<source, sourceTerm, newestTerm>>
member == <<mode, term, pendingTerm>>
local == <<oplog, lastApplied, links>>
fetching == <<producer, cursor, docs>>
applierThread == <<applier, applying, termRead, startOfBatch>>
vars == <<others, member, local, state, lastFetched, fetching, buffer, batch, ops,
          applierThread, failed>>

-----------------------------------------------------------------------------
Term == 1..MaxTerm
Ts == 1..(MaxTs + MaxTerm)
Entry == [term : Term, ts : Ts]
NullOpTime == [term |-> 0, ts |-> 0]
FirstEntry == [term |-> 1, ts |-> 1]

\* The order of OpTimes.
Less(a, b) == a.term < b.term \/ (a.term = b.term /\ a.ts < b.ts)

Elements(log) == {log[i] : i \in DOMAIN log}
Top(log) == log[Len(log)]

\* The entry that a primary of term t adds to log.
NewEntry(log, t) == [term |-> t, ts |-> Top(log).ts + 1]

Init ==
    /\ source = <<FirstEntry>> /\ oplog = <<FirstEntry>> /\ links = {}
    /\ sourceTerm = 1 /\ newestTerm = 1 /\ term = 1 /\ pendingTerm = 0
    /\ mode = "secondary" /\ lastApplied = FirstEntry
    /\ state = "Starting" /\ lastFetched = NullOpTime
    /\ producer = "idle" /\ cursor = NullOpTime /\ docs = <<>>
    /\ buffer = <<>> /\ batch = <<>> /\ ops = <<>>
    /\ applier = "idle" /\ applying = <<>> /\ termRead = 0
    /\ startOfBatch = NullOpTime
    /\ failed = "none"

\* The process aborts.
Fail(invariant) ==
    /\ failed' = invariant
    /\ UNCHANGED <<others, member, local, state, lastFetched, fetching, buffer, batch,
                   ops, applierThread>>

-----------------------------------------------------------------------------
(* The other members. *)

\* The primary that the sync source follows adds an entry.
SourceWrites ==
    /\ Top(source).ts < MaxTs
    /\ source' = Append(source, NewEntry(source, sourceTerm))
    /\ links' = links \union {<<Top(source), NewEntry(source, sourceTerm)>>}
    /\ UNCHANGED <<sourceTerm, newestTerm, member, oplog, lastApplied, state,
                   lastFetched, fetching, buffer, batch, ops, applierThread, failed>>

\* Another member is elected: the sync source follows it from a prefix of its
\* own oplog, or has replicated from this member.
SourceChanges(log, n) ==
    /\ newestTerm < MaxTerm
    /\ newestTerm' = newestTerm + 1 /\ sourceTerm' = newestTerm + 1
    /\ source' = SubSeq(log, 1, n)
    /\ UNCHANGED <<member, local, state, lastFetched, fetching, buffer, batch, ops,
                   applierThread, failed>>

-----------------------------------------------------------------------------
(* The role of the member. *)

Primary == mode \in {"catchup", "draining", "primary"}

\* processWinElection and CatchupState::start_inlock: the producer goes on.
WinElection ==
    /\ mode = "secondary" /\ newestTerm < MaxTerm
    /\ producer \in {"waiting", "check", "rollback", "reset", "restart"}
         => "ElectedInRollback" \in Race
    /\ newestTerm' = newestTerm + 1 /\ term' = newestTerm + 1
    /\ mode' = "catchup"
    /\ UNCHANGED <<pendingTerm, source, sourceTerm, local, state, lastFetched,
                   fetching, buffer, batch, ops, applierThread, failed>>

\* _enterDrainMode_inlock: stopProducer() keeps the last fetched optime.
EnterDrainMode == mode' = "draining" /\ state' = "Stopped"

\* Catch-up reaches its target, times out or is aborted.
EndCatchup ==
    /\ mode = "catchup"
    /\ EnterDrainMode
    /\ UNCHANGED <<others, term, pendingTerm, local, lastFetched, fetching, buffer,
                   batch, ops, applierThread, failed>>

\* Mutant: the producer is not started.
LeaveProducerStopped == UNCHANGED state

\* BackgroundSync::startProducerIfStopped.
StartProducerIfStopped == state' = IF state = "Stopped" THEN "Starting" ELSE state

\* _updateMemberStateFromTopologyCoordinator_inlock of a member that stops being
\* primary.
StepDown ==
    /\ Primary
    /\ mode = "primary" /\ producer = "starting" => "DelayedStart" \in Race
    /\ mode' = "secondary"
    /\ term' = IF pendingTerm = 0 THEN term ELSE pendingTerm
    /\ pendingTerm' = 0
    /\ StartProducerIfStopped
    /\ UNCHANGED <<others, local, lastFetched, fetching, buffer, batch, ops,
                   applierThread, failed>>

\* An entry of the own term is written to the local oplog.
LogOp ==
    LET e == NewEntry(oplog, term) IN
    /\ oplog' = Append(oplog, e) /\ lastApplied' = e
    /\ links' = links \union {<<Top(oplog), e>>}

PrimaryWrite ==
    /\ mode = "primary" /\ Top(oplog).ts < MaxTs
    /\ LogOp
    /\ UNCHANGED <<others, member, state, lastFetched, fetching, buffer, batch, ops,
                   applierThread, failed>>

-----------------------------------------------------------------------------
(* The producer thread.                                                     *)

\* start(), up to the mutex: the newest entry of the oplog is read.
ReadLastApplied ==
    /\ producer = "idle" /\ state = "Starting"
    /\ cursor' = Top(oplog) /\ producer' = "starting"
    /\ UNCHANGED <<others, member, local, state, lastFetched, docs, buffer, batch, ops,
                   applierThread, failed>>

\* Mutant: only an unset optime is set.
SetLastFetchedIfNull ==
    lastFetched' = IF lastFetched = NullOpTime THEN cursor ELSE lastFetched

\* The optime to fetch from: the later one of what was fetched and what was read.
SetLastFetched ==
    lastFetched' = IF Less(cursor, lastFetched) THEN lastFetched ELSE cursor

\* start(), under the mutex.  When lastApplied is not what was read the loop
\* reads again, but then finds the state not Starting and returns.
Start ==
    /\ producer = "starting"
    /\ IF state = "Starting"
       THEN state' = "Running" /\ SetLastFetched
       ELSE UNCHANGED <<state, lastFetched>>
    /\ producer' = "idle"
    /\ UNCHANGED <<others, member, local, cursor, docs, buffer, batch, ops,
                   applierThread, failed>>

\* _produce(): a sync source is chosen and the fetcher started.
StartFetcher ==
    /\ producer = "idle" /\ state = "Running"
    /\ producer' = "fetching" /\ cursor' = lastFetched
    /\ UNCHANGED <<others, member, local, state, lastFetched, docs, buffer, batch, ops,
                   applierThread, failed>>

\* The fetcher is shut down, fails, or leaves a sync source that is not ahead or
\* no longer to be used.
FetcherEnds ==
    /\ producer = "fetching"
    /\ producer' = "idle"
    /\ UNCHANGED <<others, member, local, state, lastFetched, cursor, docs, buffer,
                   batch, ops, applierThread, failed>>

\* A response starts with the entry at the cursor, which is skipped.
FollowingEntries(n) ==
    \E i \in DOMAIN source :
        /\ source[i] = cursor /\ i + n <= Len(source)
        /\ docs' = SubSeq(source, i + 1, i + n)

\* Mutant: terms are learned from heartbeats only.
UpdateTermNever == UNCHANGED member

\* _processReplSetMetadata_inlock: a primary begins to step down for a newer term.
UpdateTerm ==
    /\ IF sourceTerm > term /\ ~Primary THEN term' = sourceTerm ELSE UNCHANGED term
    /\ IF sourceTerm > term /\ Primary
       THEN pendingTerm' = sourceTerm ELSE UNCHANGED pendingTerm
    /\ UNCHANGED mode

\* OplogFetcher::_onSuccessfulBatch and checkRemoteOplogStart: the sync source is
\* ahead and has the entry at the cursor.
FetchDocuments(n) ==
    /\ producer = "fetching" /\ Less(cursor, Top(source))
    /\ FollowingEntries(n)
    /\ UpdateTerm
    /\ producer' = "enqueue"
    /\ UNCHANGED <<others, local, state, lastFetched, cursor, buffer, batch,
                   ops, applierThread, failed>>

\* OplogStartMissing: the sync source is ahead on another branch of history.
FetchFindsDivergence ==
    /\ producer = "fetching" /\ Less(cursor, Top(source))
    /\ cursor \notin Elements(source)
    /\ producer' = "missing"
    /\ UNCHANGED <<others, member, local, state, lastFetched, cursor, docs, buffer,
                   batch, ops, applierThread, failed>>

\* Mutant: no wait for space.
EnqueueAtOnce ==
    /\ producer = "enqueue"
    /\ Primary /\ applier = "empty" => "DrainExit" \in Race
    /\ IF state = "Running"
       THEN buffer' = buffer \o docs /\ lastFetched' = Top(docs)
       ELSE UNCHANGED <<buffer, lastFetched>>
    /\ producer' = "enqueued"
    /\ UNCHANGED <<others, member, local, state, cursor, docs, batch, ops,
                   applierThread, failed>>

\* _enqueueDocuments, once the buffer has space.
EnqueueDocuments ==
    /\ producer = "enqueue"
    /\ Len(buffer) + Len(docs) <= BufferSize
    /\ Primary /\ applier = "empty" => "DrainExit" \in Race
    /\ IF state = "Running"
       THEN buffer' = buffer \o docs /\ lastFetched' = Top(docs)
       ELSE UNCHANGED <<buffer, lastFetched>>
    /\ producer' = "enqueued"
    /\ UNCHANGED <<others, member, local, state, cursor, docs, batch, ops,
                   applierThread, failed>>

\* shouldStopFetching: a producer that is not Running fetches no further.
ShouldStopFetching ==
    /\ producer = "enqueued"
    /\ IF state = "Running"
       THEN producer' = "fetching" /\ cursor' = Top(docs)
       ELSE producer' = "idle" /\ UNCHANGED cursor
    /\ docs' = <<>>
    /\ UNCHANGED <<others, member, local, state, lastFetched, buffer, batch, ops,
                   applierThread, failed>>

\* _runRollback, its first lines: a primary aborts catch-up instead.
RunRollback ==
    /\ producer = "missing"
    /\ producer' = IF state = "Running" /\ ~Primary THEN "waiting" ELSE "idle"
    /\ IF state = "Running" /\ mode = "catchup"
       THEN EnterDrainMode
       ELSE UNCHANGED <<mode, state>>
    /\ UNCHANGED <<others, term, pendingTerm, local, lastFetched, cursor, docs,
                   buffer, batch, ops, applierThread, failed>>

\* Mutant: rollback does not wait for what has been fetched.
RollbackWaitsForNothing ==
    /\ producer = "waiting"
    /\ producer' = "check"
    /\ UNCHANGED <<others, member, local, state, lastFetched, cursor, docs, buffer,
                   batch, ops, applierThread, failed>>

\* _runRollback waits until what has been fetched is applied.
RollbackWaits ==
    /\ producer = "waiting"
    /\ \/ ~Less(lastApplied, lastFetched) /\ producer' = "check"
       \/ Less(lastApplied, lastFetched) /\ state # "Running" /\ producer' = "idle"
    /\ UNCHANGED <<others, member, local, state, lastFetched, cursor, docs, buffer,
                   batch, ops, applierThread, failed>>

\* _runRollbackViaRecoverToCheckpoint returns when the producer is not Running.
RollbackChecksState ==
    /\ producer = "check"
    /\ producer' = IF state = "Running" THEN "rollback" ELSE "reset"
    /\ UNCHANGED <<others, member, local, state, lastFetched, cursor, docs, buffer,
                   batch, ops, applierThread, failed>>

\* The entries that both oplogs start with.
CommonPoint ==
    CHOOSE n \in DOMAIN oplog :
        /\ n <= Len(source) /\ SubSeq(oplog, 1, n) = SubSeq(source, 1, n)
        /\ n < Len(oplog) /\ n < Len(source) => oplog[n + 1] # source[n + 1]

\* RollbackImpl::runRollback on a member that can enter ROLLBACK.
RollbackSucceeds ==
    /\ producer = "rollback" /\ mode = "secondary"
    /\ oplog' = SubSeq(oplog, 1, CommonPoint) /\ lastApplied' = oplog[CommonPoint]
    /\ producer' = "reset"
    /\ UNCHANGED <<others, member, links, state, lastFetched, cursor, docs, buffer,
                   batch, ops, applierThread, failed>>

\* It fails with an error to retry, as it does on a primary.
RollbackFails ==
    /\ producer = "rollback"
    /\ producer' = "reset"
    /\ UNCHANGED <<others, member, local, state, lastFetched, cursor, docs, buffer,
                   batch, ops, applierThread, failed>>

\* stop(true).
Stop ==
    /\ producer = "reset"
    /\ IF buffer = <<>>
       THEN /\ state' = "Stopped" /\ lastFetched' = NullOpTime
            /\ producer' = "restart"
            /\ UNCHANGED <<others, member, local, cursor, docs, buffer, batch, ops,
                           applierThread, failed>>
       ELSE Fail("BufferNotEmpty")

\* startProducerIfStopped(), the end of _runRollback.
Restart ==
    /\ producer = "restart"
    /\ StartProducerIfStopped
    /\ producer' = "idle"
    /\ UNCHANGED <<others, member, local, lastFetched, cursor, docs, buffer, batch, ops,
                   applierThread, failed>>

-----------------------------------------------------------------------------
(* The batcher thread. *)

\* tryPopAndWaitForMore until the batch ends: at its limit, before or after an
\* entry that is applied alone, or where the buffer is empty.
FillBatch(n) ==
    /\ batch = <<>> /\ n <= Len(buffer)
    /\ batch' = SubSeq(buffer, 1, n) /\ buffer' = SubSeq(buffer, n + 1, Len(buffer))
    /\ UNCHANGED <<others, member, local, state, lastFetched, fetching, ops,
                   applierThread, failed>>

\* The previous batch has been taken.
EmitBatch ==
    /\ batch # <<>> /\ ops = <<>>
    /\ ops' = batch /\ batch' = <<>>
    /\ UNCHANGED <<others, member, local, state, lastFetched, fetching, buffer,
                   applierThread, failed>>

-----------------------------------------------------------------------------
(* The applier thread. *)

\* Mutant: the term is read once.
ReadTermOnce ==
    /\ applier = "idle"
    /\ termRead' = (IF termRead = 0 THEN term ELSE termRead) /\ applier' = "waiting"
    /\ UNCHANGED <<others, member, local, state, lastFetched, fetching, buffer, batch,
                   ops, applying, startOfBatch, failed>>

\* The start of its loop.
ReadTerm ==
    /\ applier = "idle"
    /\ termRead' = term /\ applier' = "waiting"
    /\ UNCHANGED <<others, member, local, state, lastFetched, fetching, buffer, batch,
                   ops, applying, startOfBatch, failed>>

\* getNextBatch returns a batch, which must be newer than what was applied.
TakeBatch ==
    /\ applier = "waiting" /\ ops # <<>>
    /\ IF Less(lastApplied, Head(ops))
       THEN /\ applying' = ops /\ ops' = <<>> /\ startOfBatch' = lastApplied
            /\ applier' = "taken"
            /\ UNCHANGED <<others, member, local, state, lastFetched, fetching, buffer,
                           batch, termRead, failed>>
       ELSE Fail("OplogOutOfOrder")

\* getNextBatch returns none after a second.
TakeNothing ==
    /\ applier = "waiting" /\ ops = <<>>
    /\ Primary /\ buffer \o batch # <<>> => "DrainExit" \in Race
    /\ applier' = "empty"
    /\ UNCHANGED <<others, member, local, state, lastFetched, fetching, buffer, batch,
                   ops, applying, termRead, startOfBatch, failed>>

\* canCompleteTransitionToPrimary: not when the member is stepping down.
CanExitDrainMode == mode = "draining" /\ termRead = term /\ pendingTerm = 0

\* signalDrainComplete, with the entry that onTransitionToPrimary logs.
SignalDrainComplete ==
    /\ applier = "empty"
    /\ applier' = "idle"
    /\ IF CanExitDrainMode
       THEN mode' = "primary" /\ LogOp
       ELSE UNCHANGED <<mode, local>>
    /\ UNCHANGED <<others, term, pendingTerm, state, lastFetched, fetching, buffer,
                   batch, ops, applying, termRead, startOfBatch, failed>>

\* multiApply writes the oplog, then applies.  It must not run on a primary.
MultiApply ==
    /\ applier = "taken"
    /\ IF mode = "primary"
       THEN Fail("CannotApplyOplogWhilePrimary")
       ELSE /\ oplog' = oplog \o applying
            /\ applier' = "applied"
            /\ UNCHANGED <<others, member, lastApplied, links, state, lastFetched,
                           fetching, buffer, batch, ops, applying, termRead,
                           startOfBatch, failed>>

\* The end of the loop: nobody else may have moved lastApplied.
FinalizeBatch ==
    /\ applier = "applied"
    /\ IF lastApplied = startOfBatch
       THEN /\ lastApplied' = Top(applying) /\ applying' = <<>>
            /\ applier' = "idle"
            /\ UNCHANGED <<others, member, oplog, links, state, lastFetched, fetching,
                           buffer, batch, ops, termRead, startOfBatch, failed>>
       ELSE Fail("LastAppliedChanged")

-----------------------------------------------------------------------------
EnvironmentStep ==
    \/ SourceWrites
    \/ \E log \in {source, oplog} : \E n \in DOMAIN log : SourceChanges(log, n)
    \/ WinElection \/ EndCatchup \/ StepDown \/ PrimaryWrite

ProducerStep ==
    \/ ReadLastApplied \/ Start \/ StartFetcher \/ FetcherEnds
    \/ \E n \in 1..BatchLimit : FetchDocuments(n)
    \/ FetchFindsDivergence \/ EnqueueDocuments \/ ShouldStopFetching
    \/ RunRollback \/ RollbackWaits \/ RollbackChecksState
    \/ RollbackSucceeds \/ RollbackFails \/ Stop \/ Restart

BatcherStep == EmitBatch \/ \E n \in 1..BatchLimit : FillBatch(n)

ApplierStep ==
    \/ ReadTerm \/ TakeBatch \/ TakeNothing \/ SignalDrainComplete
    \/ MultiApply \/ FinalizeBatch

Next ==
    /\ failed = "none"
    /\ EnvironmentStep \/ ProducerStep \/ BatcherStep \/ ApplierStep

Spec == Init /\ [][Next]_vars

\* The process has not aborted.
Alive == failed = "none"

\* Every thread runs on, a scheduled step-down is executed, and of a sync source
\* that is ahead again and again some response arrives and some rollback to it
\* succeeds.
FairSpec ==
    /\ Spec
    /\ WF_vars(Alive /\ ProducerStep) /\ WF_vars(Alive /\ BatcherStep)
    /\ WF_vars(Alive /\ ApplierStep)
    /\ WF_vars(Alive /\ pendingTerm # 0 /\ StepDown)
    /\ SF_vars(Alive /\ \E n \in 1..BatchLimit : FetchDocuments(n))
    /\ SF_vars(Alive /\ FetchFindsDivergence) /\ SF_vars(Alive /\ RollbackSucceeds)

-----------------------------------------------------------------------------
(* Properties. *)

\* What has left the buffer and is not yet in the oplog.
Unapplied == (IF applier = "taken" THEN applying ELSE <<>>) \o ops \o batch \o buffer

Log == Seq(Entry)
OpTime == Entry \union {NullOpTime}

\* Every variable has its type.
TypeOK ==
    /\ source \in Log /\ oplog \in Log /\ links \subseteq Entry \X Entry
    /\ sourceTerm \in Term /\ newestTerm \in Term
    /\ term \in Term /\ pendingTerm \in 0..MaxTerm
    /\ mode \in {"secondary", "catchup", "draining", "primary"}
    /\ lastApplied \in Entry
    /\ state \in {"Stopped", "Starting", "Running"} /\ lastFetched \in OpTime
    /\ producer \in {"idle", "starting", "fetching", "enqueue", "enqueued", "missing",
                     "waiting", "check", "rollback", "reset", "restart"}
    /\ cursor \in OpTime /\ docs \in Log
    /\ Len(buffer) <= BufferSize /\ Len(ops) <= BatchLimit
    /\ buffer \in Log /\ batch \in Log /\ ops \in Log /\ applying \in Log
    /\ applier \in {"idle", "waiting", "empty", "taken", "applied"}
    /\ termRead \in 0..MaxTerm /\ startOfBatch \in OpTime
    /\ failed \in {"none", "BufferNotEmpty", "OplogOutOfOrder", "LastAppliedChanged",
                   "CannotApplyOplogWhilePrimary"}

\* The oplog, and what is on its way into it, has no gap, no repetition and no
\* mixture of histories: each entry follows the one that it was written after.
LogMatching ==
    LET log == oplog \o Unapplied IN
    \A i \in 2..Len(log) : <<log[i - 1], log[i]>> \in links

\* No invariant() or fassert() of stop, _oplogApplication and multiApply fails.
InvariantsHold == failed = "none"

\* A member that has left drain mode has applied all that it had fetched.
DrainedPipelineIsEmpty == mode = "primary" => Unapplied = <<>>

\* The producer does not run on a primary that has left drain mode.
PrimaryDoesNotFetch == mode = "primary" => state = "Stopped"

\* A running producer does not fetch again what has been applied.
FetchesBeyondApplied == state = "Running" => ~Less(lastFetched, lastApplied)

\* The producer follows the role and the oplog of its member, whichever thread has
\* stopped or started it last (_runRollback, start, stopProducer).
ProducerInStep == PrimaryDoesNotFetch /\ FetchesBeyondApplied

\* Drain mode ends.
DrainEnds == mode = "draining" ~> mode # "draining"

\* A member that stays secondary gets as far as its sync source.
SecondaryCatchesUp == <>[](mode = "secondary") => <>[]~Less(lastApplied, Top(source))

-----------------------------------------------------------------------------
(* The inductive invariant of the types, with any of the races. *)

\* The term that the member has, or will have when it has stepped down.
KnownTerm == IF pendingTerm = 0 THEN term ELSE pendingTerm

\* The entries of the member and those of the sync source.
Held == UNION {Elements(l) : l \in {oplog, docs, buffer, batch, ops, applying}}
Entries == Held \union Elements(source)

\* The terms of the member and of its sync source come from different elections.
TermInv ==
    /\ sourceTerm <= newestTerm /\ term <= newestTerm /\ termRead <= newestTerm
    /\ pendingTerm # 0 => Primary /\ term < pendingTerm /\ pendingTerm <= sourceTerm
    /\ Primary => sourceTerm # term

\* A member knows the terms of its entries, and before it has drained nobody has entries
\* of its own.  A primary's first entry may go beyond MaxTs, one per term.
EntryInv ==
    /\ \A e \in Elements(source) : e.term <= sourceTerm
    /\ \A e \in Held : e.term <= KnownTerm
    /\ \A e \in Entries : e.ts < MaxTs + e.term
    /\ mode \in {"catchup", "draining"} => \A e \in Entries : e.term # term

\* Oplogs begin alike, and what a thread is at work on is not empty.
ShapeInv ==
    /\ source # <<>> /\ oplog # <<>> /\ source[1] = FirstEntry /\ oplog[1] = FirstEntry
    /\ producer \in {"enqueue", "enqueued"} => docs # <<>>
    /\ applier \in {"taken", "applied"} => applying # <<>>
    /\ Len(batch) <= BatchLimit

TypeInv == TypeOK /\ TermInv /\ EntryInv /\ ShapeInv

-----------------------------------------------------------------------------
(* The inductive invariant of the pipeline, without races. *)

\* All that the member has, in the order in which it reaches the oplog.
Pipeline == oplog \o Unapplied

\* The sequence l continues a history that ends with e, where pairs are the entries
\* with their predecessors.
Continues(e, l, pairs) ==
    /\ \A i \in DOMAIN l : l[i].ts = e.ts + i /\ e.term <= l[i].term
    /\ \A i, j \in DOMAIN l : i <= j => l[i].term <= l[j].term
    /\ \A i \in DOMAIN l : <<IF i = 1 THEN e ELSE l[i - 1], l[i]>> \in pairs

\* The sequence l is a history from its beginning on.
History(l, pairs) ==
    /\ l # <<>> /\ l[1] = FirstEntry
    /\ \A i \in DOMAIN l : l[i].ts = i
    /\ \A i, j \in DOMAIN l : i <= j => l[i].term <= l[j].term
    /\ \A i \in 2..Len(l) : <<l[i - 1], l[i]>> \in pairs

HistoryInv == History(source, links) /\ History(Pipeline, links)

\* A producer that runs goes on where the pipeline ends; one that does not run has kept
\* its place while there is something in the pipeline.
FetchInv ==
    /\ producer # "reset" => ~Less(Top(Pipeline), lastFetched)
    /\ state = "Running" /\ producer # "reset" => lastFetched = Top(Pipeline)
    /\ Unapplied # <<>> => lastFetched = Top(Pipeline)
    /\ producer = "starting" =>
        /\ state # "Running" /\ ~Less(Top(Pipeline), cursor)
        /\ mode # "primary" => Top(Pipeline) \in {cursor, lastFetched}
    /\ producer \in {"fetching", "enqueue"} /\ state = "Running" => cursor = lastFetched
    /\ producer = "enqueue" => Continues(cursor, docs, links)
    /\ producer = "enqueued" /\ state = "Running" => lastFetched = Top(docs)

\* A rollback runs on a secondary that has applied all it had fetched.
RollbackInv ==
    /\ producer \in {"waiting", "check", "rollback", "reset"} =>
        mode = "secondary" /\ state = "Running"
    /\ producer \in {"check", "rollback", "reset", "restart"} =>
        Unapplied = <<>> /\ applier # "applied"
    /\ producer = "reset" => ~Less(lastFetched, lastApplied)
    /\ producer = "restart" => mode = "secondary" /\ state = "Stopped"

\* Only the applier moves the oplog of a member that is not primary, and it leaves drain
\* mode with nothing left to apply.
ApplierInv ==
    /\ IF applier = "applied"
       THEN Top(applying) = Top(oplog) /\ Less(lastApplied, Top(oplog))
       ELSE lastApplied = Top(oplog)
    /\ applier \in {"taken", "applied"} => lastApplied = startOfBatch /\ mode # "primary"
    /\ applier = "empty" /\ Primary /\ termRead = term =>
        buffer = <<>> /\ batch = <<>> /\ ops = <<>>
    /\ mode \in {"draining", "primary"} => state = "Stopped"
    /\ mode = "primary" => Unapplied = <<>> /\ Top(oplog).term = term

PipelineInv ==
    /\ TypeInv /\ HistoryInv /\ FetchInv /\ RollbackInv /\ ApplierInv /\ failed = "none"
=============================================================================
