----------------------------- MODULE CrashRecovery -----------------------------
(***************************************************************************)
(* What a member writes to disk while it applies batches, is primary, rolls *)
(* back and takes checkpoints, and how ReplicationRecoveryImpl puts oplog  *)
(* and data together again after a crash at any moment.                    *)
(*                                                                         *)
(* Timestamps are 1, 2, 3...; an oplog entry is the term in which it was   *)
(* written, and an optime is a pair of term and timestamp.  The other      *)
(* members are one sync source whose first "committed" entries are on a    *)
(* majority.  With majority read concern the oplog and the truncate point  *)
(* are in the journal, and data and the minValid document, whose writes    *)
(* have timestamps, are in stable checkpoints only; without it everything  *)
(* is in the journal.  A crash keeps the journal up to some write after    *)
(* the last flush.  A failed invariant() or fassert() is recorded in       *)
(* "failed".                                                               *)
(***************************************************************************)
EXTENDS Integers, Sequences, FiniteSetsExt

CONSTANTS
    MaxTimestamp,   \* bound on timestamps
    MaxTerm,        \* bound on terms
    MaxBatch,       \* bound on the entries of a batch
    MaxCrashes,     \* bound on crashes
    MajorityModes,  \* the values of enableMajorityReadConcern
    Faults          \* which of FaultKinds may happen

\* LateMark: the producer marks the applied point when the member is primary already.
\* LateFlush: a rollback runs between the read of the last applied optime and the
\* end of the flush that makes it durable.
FaultKinds == {"LateMark", "LateFlush"}

ASSUME BoundAssumption ==
    MaxTimestamp \in Nat \ {0} /\ MaxTerm \in Nat \ {0} /\ MaxBatch \in Nat \ {0}
        /\ MaxCrashes \in Nat
ASSUME ModeAssumption == MajorityModes \subseteq BOOLEAN /\ MajorityModes # {}
ASSUME FaultAssumption == Faults \subseteq FaultKinds

VARIABLES
    source,         \* the oplog of the sync source: a sequence of terms
    committed,      \* the number of its entries that are on a majority
    leader,         \* whether the latest term is the member's or another's
    term,           \* the latest term
    majority,       \* enableMajorityReadConcern
    oplog,          \* per timestamp: the term of the oplog entry, or 0
    truncate,       \* oplogTruncateAfterPoint, or 0
    data,           \* per timestamp: the term of the entry in the data, or 0
    doc,            \* per timestamp: the minValid document as of that timestamp
    journal,        \* the states of the journaled tables that a crash may leave
    checkpoint,     \* the last stable checkpoint
    stable,         \* WiredTigerKVEngine::_stableTimestamp
    role,           \* "primary" or "secondary"
    pc,             \* where the applying, recovering or electing thread is
    recovering,     \* the caller of recoverFromOplog
    batch,          \* the entries of the batch that are still to be written or applied
    last,           \* the last timestamp of the batch
    lastApplied,    \* the last applied optime
    lastDurable,    \* the last durable optime, as reported
    token,          \* the optime that a flush in progress will report
    commit,         \* TopologyCoordinator::_lastCommittedOpTime
    candidates,     \* _stableOpTimeCandidates
    kept,           \* history: a rollback has kept a candidate beyond the stable timestamp
    producer,       \* whether the producer has passed its check for Running
    crashes,        \* the number of crashes
    failed          \* the invariant() or fassert() that has failed, or "none"

others == <<source, committed, leader, term>>
markers == <<truncate, doc>>
tables == <<oplog, data, markers>>
disk == <<journal, checkpoint>>
applier == <<pc, recovering, batch, last>>
progress == <<lastApplied, lastDurable, token>>
stability == <<commit, candidates, stable, kept>>
memory == <<role, progress, stability, producer>>
vars == <<others, majority, tables, disk, applier, memory, crashes, failed>>

-----------------------------------------------------------------------------
Timestamps == 1..MaxTimestamp
Terms == 1..MaxTerm
Null == <<0, 0>>
OpTimes == (Terms \X Timestamps) \union {Null}

Leq(a, b) == a[1] < b[1] \/ (a[1] = b[1] /\ a[2] <= b[2])
Later(a, b) == IF Leq(a, b) THEN b ELSE a

\* _getTopOfOplog: the last entry, as a timestamp.
Top == Max({t \in Timestamps : oplog[t] > 0} \union {0})
OpTime(t) == IF t = 0 THEN Null ELSE <<oplog[t], t>>

\* The table as of timestamp s.
UpTo(table, s) == [t \in Timestamps |-> IF t <= s THEN table[t] ELSE 0]
DocUpTo(s) == [t \in Timestamps |-> IF t <= s THEN doc[t] ELSE doc[s]]

\* The document as it is read without a timestamp, and a write of it at timestamp s.
Document == doc[MaxTimestamp]
SetAppliedThrough(s, through) ==
    [t \in Timestamps |-> IF t >= s THEN [doc[t] EXCEPT !.through = through] ELSE doc[t]]
SetMinValidToAtLeast(s, valid) ==
    [t \in Timestamps |-> IF t >= s THEN [doc[t] EXCEPT !.valid = Later(@, valid)]
                          ELSE doc[t]]

\* What the journal holds once the current write has reached it.
Logged ==
    [oplog |-> oplog', truncate |-> truncate', data |-> IF majority THEN <<>> ELSE data',
     doc |-> IF majority THEN <<>> ELSE doc']
Log == journal' = journal \union {Logged} /\ UNCHANGED checkpoint
LogAndFlush == journal' = {Logged} /\ UNCHANGED checkpoint

Init ==
    /\ source = <<1>> /\ committed = 1 /\ leader = "other" /\ term = 1
    /\ majority \in MajorityModes
    /\ oplog = [t \in Timestamps |-> IF t = 1 THEN 1 ELSE 0]
    /\ truncate = 0 /\ data = oplog
    /\ doc = [t \in Timestamps |-> [through |-> 1, valid |-> <<1, 1>>]]
    /\ journal = {[oplog |-> oplog, truncate |-> 0,
                   data |-> IF majority THEN <<>> ELSE data,
                   doc |-> IF majority THEN <<>> ELSE doc]}
    /\ checkpoint = [at |-> 1, data |-> data, doc |-> doc]
    /\ stable = 1 /\ role = "secondary" /\ pc = "idle" /\ recovering = "no"
    /\ batch = {} /\ last = 1
    /\ lastApplied = <<1, 1>> /\ lastDurable = <<1, 1>> /\ token = Null
    /\ commit = <<1, 1>> /\ candidates = {<<1, 1>>} /\ kept = FALSE
    /\ producer = "stopped" /\ crashes = 0 /\ failed = "none"

Fail(invariant) ==
    /\ failed' = invariant
    /\ UNCHANGED <<others, majority, tables, disk, applier, memory, crashes>>

-----------------------------------------------------------------------------
(* The other members. *)

\* The source has the first n entries of the member's oplog.
Matches(n) == n <= Len(source) /\ \A t \in 1..n : oplog[t] = source[t]
CommonPoint == Max({n \in 0..MaxTimestamp : n <= Top /\ Matches(n)})
SourceOpTime(t) == <<source[t], t>>

\* The leader of the others writes.
SourceWrites ==
    /\ leader = "other" /\ Len(source) < MaxTimestamp
    /\ source' = Append(source, term)
    /\ UNCHANGED <<committed, leader, term>>
    /\ UNCHANGED <<majority, tables, disk, applier, memory, crashes, failed>>

\* Another member is elected, which has all committed entries.
SourceElects ==
    /\ term < MaxTerm
    /\ \E n \in committed..Len(source) :
        /\ n < MaxTimestamp /\ (majority \/ (n = Len(source) /\ Matches(Top)))
        /\ source' = Append(SubSeq(source, 1, n), term + 1)
    /\ term' = term + 1 /\ leader' = "other"
    /\ UNCHANGED committed
    /\ UNCHANGED <<majority, tables, disk, applier, memory, crashes, failed>>

\* The others replicate an entry of the member that leads them.
SourceFollows ==
    /\ role = "primary" /\ leader = "member" /\ CommonPoint < Top
    /\ source' = Append(SubSeq(source, 1, CommonPoint), oplog[CommonPoint + 1])
    /\ UNCHANGED <<committed, leader, term>>
    /\ UNCHANGED <<majority, tables, disk, applier, memory, crashes, failed>>

\* An entry of the latest term is on a majority.
EntryCommits ==
    /\ leader = "other" \/ role = "primary"
    /\ \E n \in committed + 1..Len(source) : source[n] = term /\ committed' = n
    /\ UNCHANGED <<source, leader, term>>
    /\ UNCHANGED <<majority, tables, disk, applier, memory, crashes, failed>>

-----------------------------------------------------------------------------
(* The stable optime. *)

\* _calculateStableOpTime_inlock: the candidates up to the commit point.
Below(cands, point) == {c \in cands : Leq(c, point)}
Greatest(s) == CHOOSE c \in s : \A x \in s : Leq(x, c)

\* _setStableTimestampForStorage_inlock.
SetStable(cands, point) ==
    IF Below(cands, point) = {}
    THEN candidates' = cands /\ UNCHANGED stable
    ELSE LET c == Greatest(Below(cands, point))
         IN  /\ stable' = IF majority THEN Max({stable, c[2]}) ELSE stable
             /\ candidates' = {x \in cands : Leq(c, x)}

\* _setMyLastAppliedOpTime_inlock outside of rollback.
SetLastApplied(optime, consistent) ==
    /\ lastApplied' = optime
    /\ IF consistent
       THEN IF Leq(optime, commit) THEN SetStable(candidates \union {optime}, commit)
            ELSE candidates' = candidates \union {optime} /\ UNCHANGED stable
       ELSE UNCHANGED <<candidates, stable>>
    /\ UNCHANGED <<commit, kept>>

\* The source has all that the member has fetched: its oplog and its batch.
FetchedMatches ==
    /\ \A t \in Timestamps : oplog[t] > 0 => t <= Len(source) /\ oplog[t] = source[t]
    /\ \A e \in batch : e[2] <= Len(source) /\ source[e[2]] = e[1]

\* advanceCommitPoint: a secondary learns of it with entries that follow its own,
\* a primary commits entries of its own term.
LearnCommitPoint(n) ==
    /\ recovering = "no" /\ n <= committed /\ ~Leq(SourceOpTime(n), commit)
    /\ IF role = "primary" THEN leader = "member" /\ source[n] = term
       ELSE producer = "running" /\ FetchedMatches
    /\ commit' = SourceOpTime(n)
    /\ SetStable(candidates, SourceOpTime(n))
    /\ UNCHANGED <<others, majority, tables, disk, applier, role, progress, producer>>
    /\ UNCHANGED <<kept, crashes, failed>>

-----------------------------------------------------------------------------
(* The producer and the applier. *)

\* _produce has found a sync source and the state Running, before shutdown() joins it.
ProducerStarts ==
    /\ producer = "stopped" /\ role = "secondary" /\ recovering = "no" /\ pc # "closing"
    /\ producer' = "chosen"
    /\ UNCHANGED <<others, majority, tables, disk, applier, role, progress, stability>>
    /\ UNCHANGED <<crashes, failed>>

\* _produce sets the applied point if it is unset, and fetches.
MarkAppliedThrough ==
    /\ producer = "chosen" /\ recovering = "no"
    /\ (role = "secondary" /\ pc # "newPrimary") \/ "LateMark" \in Faults
    /\ doc' = IF Document.through = 0
              THEN SetAppliedThrough(lastApplied[2], lastApplied[2]) ELSE doc
    /\ producer' = IF role = "secondary" /\ pc # "newPrimary" THEN "running" ELSE "stopped"
    /\ UNCHANGED <<oplog, data, truncate>>
    /\ Log
    /\ UNCHANGED <<others, majority, applier, role, progress, stability, crashes, failed>>

\* multiApply begins with a batch of the source's next entries: the truncate point
\* is set to the first.
StartBatch ==
    /\ pc = "idle" /\ role = "secondary" /\ producer = "running"
    /\ Matches(Top) /\ lastApplied[2] = Top
    /\ \E n \in Top + 1..Top + MaxBatch :
        /\ n <= Len(source)
        /\ batch' = {SourceOpTime(t) : t \in Top + 1..n} /\ last' = n
    /\ truncate' = Top + 1
    /\ pc' = "writeOplog"
    /\ UNCHANGED <<oplog, data, doc>>
    /\ Log
    /\ UNCHANGED <<others, majority, recovering, memory, crashes, failed>>

\* A writer thread of scheduleWritesToOplog writes an entry.
WriteOplogEntry(e) ==
    /\ pc = "writeOplog" /\ e \in batch /\ oplog[e[2]] = 0
    /\ oplog' = [oplog EXCEPT ![e[2]] = e[1]]
    /\ UNCHANGED <<data, markers>>
    /\ Log
    /\ UNCHANGED <<others, majority, applier, memory, crashes, failed>>

\* Mutant: the truncate point is reset while writer threads are at work.
OplogIsWrittenInPart == \E e \in batch : oplog[e[2]] > 0

\* _writerPool->waitForIdle().
OplogIsWritten == \A e \in batch : oplog[e[2]] > 0

\* The truncate point is reset.
ClearTruncatePoint ==
    /\ pc = "writeOplog" /\ OplogIsWritten
    /\ truncate' = 0 /\ pc' = "setMinValid"
    /\ UNCHANGED <<oplog, data, doc>>
    /\ Log
    /\ UNCHANGED <<others, majority, recovering, batch, last, memory, crashes, failed>>

SetMinValid ==
    /\ pc = "setMinValid"
    /\ doc' = SetMinValidToAtLeast(last, <<oplog[last], last>>)
    /\ pc' = "apply"
    /\ UNCHANGED <<oplog, data, truncate>>
    /\ Log
    /\ UNCHANGED <<others, majority, recovering, batch, last, memory, crashes, failed>>

\* A writer thread of applyOps applies an entry, in a batch or in recovery.
ApplyEntry(e) ==
    /\ pc = "apply" /\ e \in batch
    /\ data' = [data EXCEPT ![e[2]] = e[1]]
    /\ batch' = batch \ {e}
    /\ UNCHANGED <<oplog, markers>>
    /\ Log
    /\ UNCHANGED <<others, majority, pc, recovering, last, memory, crashes, failed>>

\* The applier's loop persists the applied point of the batch.
PersistAppliedThrough ==
    /\ pc = "apply" /\ batch = {} /\ recovering = "no"
    /\ doc' = SetAppliedThrough(last, last)
    /\ pc' = "record"
    /\ UNCHANGED <<oplog, data, truncate>>
    /\ Log
    /\ UNCHANGED <<others, majority, recovering, batch, last, memory, crashes, failed>>

\* The finalizer records the last applied optime.
RecordApplied ==
    /\ pc = "record"
    /\ SetLastApplied(OpTime(last), Leq(Document.valid, OpTime(last)))
    /\ pc' = "idle"
    /\ UNCHANGED <<others, majority, tables, disk, recovering, batch, last, role>>
    /\ UNCHANGED <<lastDurable, token, producer, crashes, failed>>

-----------------------------------------------------------------------------
(* The member as a primary. *)

\* Mutant: a primary keeps the applied point.
ClearedAppliedThroughNever == doc

\* clearAppliedThrough at the last applied optime.
ClearedAppliedThrough == SetAppliedThrough(lastApplied[2], 0)

\* onTransitionToPrimary, after an election that needs all committed entries:
\* the applied point is cleared.
ClearAppliedThrough ==
    /\ pc = "idle" /\ role = "secondary" /\ recovering = "no" /\ term < MaxTerm
    /\ Top < MaxTimestamp /\ Matches(committed) /\ lastApplied[2] = Top
    /\ majority \/ (Matches(Top) /\ Len(source) = Top)
    /\ producer # "chosen" \/ "LateMark" \in Faults
    /\ IF truncate # 0 THEN Fail("truncateOnTransition")
       ELSE /\ term' = term + 1 /\ leader' = "member"
            /\ doc' = ClearedAppliedThrough
            /\ pc' = "newPrimary"
            /\ producer' = IF producer = "running" THEN "stopped" ELSE producer
            /\ UNCHANGED <<oplog, data, truncate>>
            /\ Log
            /\ UNCHANGED <<source, committed, majority, recovering, batch, last, role>>
            /\ UNCHANGED <<progress, stability, crashes, failed>>

\* An entry and its data are written in one unit of work.
PrimaryWrites ==
    /\ Top < MaxTimestamp
    /\ oplog' = [oplog EXCEPT ![Top + 1] = IF pc = "newPrimary" THEN term ELSE oplog[Top]]
    /\ data' = [data EXCEPT ![Top + 1] = oplog'[Top + 1]]
    /\ UNCHANGED markers
    /\ Log
    /\ SetLastApplied(<<oplog'[Top + 1], Top + 1>>, TRUE)
    /\ UNCHANGED <<lastDurable, token, majority, recovering, batch, last, producer>>
    /\ UNCHANGED <<others, crashes, failed>>

\* The entry of the new term, or the role is lost to another member before it.
WriteNewPrimary ==
    /\ pc = "newPrimary" /\ leader = "member"
    /\ PrimaryWrites
    /\ pc' = "idle" /\ role' = "primary"

WriteAsPrimary ==
    /\ pc = "idle" /\ role = "primary"
    /\ PrimaryWrites
    /\ UNCHANGED <<pc, role>>

StepDown ==
    /\ \/ pc = "idle" /\ role = "primary"
       \/ pc = "newPrimary" /\ leader = "other"
    /\ role' = "secondary" /\ pc' = "idle"
    /\ UNCHANGED <<others, majority, tables, disk, recovering, batch, last, progress>>
    /\ UNCHANGED <<stability, producer, crashes, failed>>

-----------------------------------------------------------------------------
(* Journal, checkpoints and crashes. *)

\* A flush reads the last applied optime before it begins.
TakeToken ==
    /\ token = Null /\ recovering = "no" /\ lastApplied # lastDurable
    /\ token' = lastApplied
    /\ UNCHANGED <<others, majority, tables, disk, applier, role, lastApplied>>
    /\ UNCHANGED <<lastDurable, stability, producer, crashes, failed>>

\* Mutant: the flush is not waited for.
FlushedNothing == journal

\* waitUntilDurable: the journal holds all writes.
Flushed ==
    {[oplog |-> oplog, truncate |-> truncate, data |-> IF majority THEN <<>> ELSE data,
      doc |-> IF majority THEN <<>> ELSE doc]}

\* The end of the flush: setMyLastDurableOpTimeForward, which is ignored beyond the
\* last applied optime.
FlushJournal ==
    /\ token # Null
    /\ journal' = Flushed
    /\ lastDurable' = IF Leq(token, lastApplied) THEN Later(lastDurable, token)
                      ELSE lastDurable
    /\ token' = Null
    /\ UNCHANGED <<others, majority, tables, checkpoint, applier, role, lastApplied>>
    /\ UNCHANGED <<stability, producer, crashes, failed>>

\* A checkpoint as of the stable timestamp.
StableCheckpoint ==
    [at |-> stable, data |-> UpTo(data, stable), doc |-> DocUpTo(stable)]

\* WiredTigerCheckpointThread.
TakeCheckpoint ==
    /\ majority
    /\ checkpoint' = StableCheckpoint
    /\ journal' = Flushed
    /\ UNCHANGED <<others, majority, tables, applier, memory, crashes, failed>>

\* The process starts with what the disk has: recoverFromOplog comes first.
StartUp ==
    /\ crashes < MaxCrashes /\ crashes' = crashes + 1
    /\ \E j \in journal' :
        /\ oplog' = j.oplog /\ truncate' = j.truncate
        /\ data' = IF majority THEN checkpoint'.data ELSE j.data
        /\ doc' = IF majority THEN checkpoint'.doc ELSE j.doc
    /\ role' = "secondary" /\ pc' = "truncate" /\ recovering' = "startup"
    /\ batch' = {} /\ last' = 0
    /\ lastApplied' = Null /\ lastDurable' = Null /\ token' = Null
    /\ commit' = Null /\ candidates' = {}
    /\ stable' = IF majority THEN checkpoint'.at ELSE 1
    /\ producer' = "stopped"
    /\ UNCHANGED <<others, majority, kept, failed>>

\* The process ends at any moment.
Crash ==
    /\ \E j \in journal : journal' = {j}
    /\ UNCHANGED checkpoint
    /\ StartUp

\* shutdown() of a member that is not primary clears the applied point if it is at
\* the top of the oplog.
StopReplication ==
    /\ pc = "idle" /\ role = "secondary" /\ crashes < MaxCrashes
    /\ doc' = IF truncate = 0 /\ Document.through = Top THEN ClearedAppliedThrough ELSE doc
    /\ pc' = "closing" /\ producer' = "stopped"
    /\ UNCHANGED <<oplog, data, truncate>>
    /\ Log
    /\ UNCHANGED <<others, majority, recovering, batch, last, role, progress, stability>>
    /\ UNCHANGED <<crashes, failed>>

\* The storage engine is shut down cleanly, and the process starts again.
CleanShutdown ==
    /\ pc = "closing"
    /\ journal' = Flushed
    /\ checkpoint' = IF majority THEN StableCheckpoint ELSE checkpoint
    /\ StartUp

-----------------------------------------------------------------------------
(* Rollback and recovery. *)

\* Rollback returns to the stable timestamp once it has found the common point.
StartRollback ==
    /\ majority /\ pc = "idle" /\ role = "secondary" /\ recovering = "no"
    /\ producer = "running" /\ CommonPoint < Top
    /\ ~Leq(SourceOpTime(Len(source)), lastApplied)
    /\ token = Null \/ "LateFlush" \in Faults
    /\ IF ~Leq(commit, OpTime(CommonPoint)) THEN Fail("commonPoint")
       ELSE /\ data' = UpTo(data, stable) /\ doc' = DocUpTo(stable)
            /\ recovering' = "rollback" /\ pc' = "setTruncate" /\ last' = CommonPoint
            /\ producer' = "stopped"
            /\ kept' = (kept \/ \E c \in candidates : stable < c[2] /\ c[2] < CommonPoint)
            /\ UNCHANGED <<others, majority, oplog, truncate, disk, batch, role>>
            /\ UNCHANGED <<progress, commit, candidates, stable, crashes, failed>>

\* The truncate point is the first entry after the common point.
SetTruncatePoint ==
    /\ pc = "setTruncate"
    /\ truncate' = last + 1 /\ pc' = "truncate"
    /\ UNCHANGED <<oplog, data, doc>>
    /\ Log
    /\ UNCHANGED <<others, majority, recovering, batch, last, memory, crashes, failed>>

\* _truncateOplogTo.
TruncateOplog ==
    /\ pc = "truncate"
    /\ IF truncate # 0 /\ ~\E t \in Timestamps : t < truncate /\ oplog[t] > 0
       THEN Fail("endOfOplog")
       ELSE /\ oplog' = IF truncate = 0 THEN oplog ELSE UpTo(oplog, truncate - 1)
            /\ pc' = "clear"
            /\ UNCHANGED <<data, markers>>
            /\ Log
            /\ UNCHANGED <<others, majority, recovering, batch, last, memory, crashes>>
            /\ UNCHANGED failed

\* The truncate point is reset, durably.
ClearAfterTruncation ==
    /\ pc = "clear"
    /\ pc' = "start"
    /\ IF truncate = 0 THEN UNCHANGED <<tables, disk>>
       ELSE truncate' = 0 /\ UNCHANGED <<oplog, data, doc>> /\ LogAndFlush
    /\ UNCHANGED <<others, majority, recovering, batch, last, memory, crashes, failed>>

\* Mutant: recovery starts from the applied point alone.
StartPointAppliedThrough == IF Document.through = 0 THEN Top ELSE Document.through

\* The stable timestamp, or else the applied point; if there is none the data is
\* at the top of the oplog.
StartPoint ==
    CASE majority -> stable
      [] ~majority /\ Document.through # 0 -> Document.through
      [] OTHER -> Top

\* recoverFromOplog decides where it applies from.
StartRecovery ==
    /\ pc = "start"
    /\ CASE majority /\ Document.through \notin {0, stable} -> Fail("appliedThrough")
         [] StartPoint > Top -> Fail("startBeyondTop")
         [] StartPoint < Top /\ oplog[StartPoint] = 0 -> Fail("startMissing")
         [] OTHER ->
            /\ batch' = {OpTime(t) : t \in {t \in StartPoint + 1..Top : oplog[t] > 0}}
            /\ last' = Top
            /\ pc' = "apply"
            /\ UNCHANGED <<others, majority, tables, disk, recovering, memory>>
            /\ UNCHANGED <<crashes, failed>>

\* _applyToEndOfOplog and _recoverFromUnstableCheckpoint have set the applied point.
FinishApplying ==
    /\ pc = "apply" /\ batch = {} /\ recovering # "no"
    /\ doc' = IF majority /\ StartPoint = Top THEN doc ELSE SetAppliedThrough(Top, Top)
    /\ pc' = "finish"
    /\ UNCHANGED <<oplog, data, truncate>>
    /\ IF majority THEN Log ELSE LogAndFlush
    /\ UNCHANGED <<others, majority, recovering, batch, last, memory, crashes, failed>>

\* Mutant: the candidates are kept when the member leaves ROLLBACK.
RemainingCandidatesAll == candidates \union {OpTime(Top)}

\* The candidates when the member has left ROLLBACK.
RemainingCandidates ==
    {c \in candidates \union {OpTime(Top)} : Leq(c, OpTime(Top))}

\* The end of start-up, and of rollback, where resetLastOpTimesFromOplog does not
\* set the stable timestamp.
FinishRecovery ==
    /\ pc = "finish"
    /\ lastDurable' = OpTime(Top) /\ UNCHANGED token
    /\ IF recovering = "startup"
       THEN SetLastApplied(OpTime(Top), Leq(Document.valid, OpTime(Top)))
       ELSE /\ lastApplied' = OpTime(Top)
            /\ candidates' = RemainingCandidates
            /\ UNCHANGED <<stable, commit, kept>>
    /\ pc' = "idle" /\ recovering' = "no"
    /\ UNCHANGED <<others, majority, tables, disk, batch, last, role, producer>>
    /\ UNCHANGED <<crashes, failed>>

-----------------------------------------------------------------------------
Others == SourceWrites \/ SourceElects \/ SourceFollows \/ EntryCommits
Batch ==
    \/ StartBatch
    \/ \E e \in batch : WriteOplogEntry(e) \/ ApplyEntry(e)
    \/ ClearTruncatePoint
    \/ SetMinValid
    \/ PersistAppliedThrough
    \/ RecordApplied
Primary == ClearAppliedThrough \/ WriteNewPrimary \/ WriteAsPrimary \/ StepDown
Storage ==
    \/ TakeToken \/ FlushJournal \/ TakeCheckpoint
    \/ Crash \/ StopReplication \/ CleanShutdown
Recovery ==
    \/ StartRollback \/ SetTruncatePoint
    \/ TruncateOplog \/ ClearAfterTruncation \/ StartRecovery
    \/ FinishApplying \/ FinishRecovery

Next ==
    /\ failed = "none"
    /\ \/ Others
       \/ \E n \in 1..committed : LearnCommitPoint(n)
       \/ ProducerStarts \/ MarkAppliedThrough
       \/ Batch
       \/ Primary
       \/ Storage
       \/ Recovery

Spec == Init /\ [][Next]_vars

-----------------------------------------------------------------------------
(* Properties. *)

\* The variables have their types: optimes, positions in the oplog and the steps of
\* multiApply, recoverFromOplog and the transition to primary.
TypeOK ==
    /\ source \in Seq(Terms) /\ Len(source) <= MaxTimestamp
    /\ committed \in 0..Len(source) /\ leader \in {"member", "other"} /\ term \in Terms
    /\ majority \in BOOLEAN
    /\ oplog \in [Timestamps -> 0..MaxTerm] /\ data \in [Timestamps -> 0..MaxTerm]
    /\ truncate \in 0..MaxTimestamp
    /\ doc \in [Timestamps -> [through : 0..MaxTimestamp, valid : OpTimes]]
    /\ stable \in Timestamps /\ checkpoint.at \in Timestamps
    /\ role \in {"primary", "secondary"}
    /\ pc \in {"idle", "writeOplog", "setMinValid", "apply", "record", "newPrimary",
               "closing", "setTruncate", "truncate", "clear", "start", "finish"}
    /\ recovering \in {"no", "startup", "rollback"}
    /\ batch \subseteq OpTimes /\ last \in 0..MaxTimestamp
    /\ lastApplied \in OpTimes /\ lastDurable \in OpTimes /\ token \in OpTimes
    /\ commit \in OpTimes /\ candidates \subseteq OpTimes /\ kept \in BOOLEAN
    /\ producer \in {"stopped", "chosen", "running"}

\* Whenever the member is between batches, its oplog has no gap, its data is what the
\* oplog says and is at or after minValid, after a crash between any two writes as
\* well: it need not fetch entries before it can be a secondary.
DataMatchesOplog ==
    pc \in {"idle", "newPrimary", "record", "closing"} =>
        /\ data = oplog /\ \A t \in 1..Top : oplog[t] > 0
        /\ pc = "idle" => Leq(Document.valid, OpTime(Top))

\* What has been reported as durable is in the oplog after a crash at any moment.
DurableSurvives ==
    recovering = "no" =>
        /\ lastDurable # Null => oplog[lastDurable[2]] = lastDurable[1]
        /\ \A j \in journal : \A t \in 1..lastDurable[2] :
            /\ j.oplog[t] = oplog[t]
            /\ j.truncate = 0 \/ t < j.truncate

\* Only what a majority has is in the data of a stable checkpoint.
StableIsCommitted ==
    /\ stable <= committed /\ checkpoint.at <= stable
    /\ \A t \in 1..checkpoint.at : checkpoint.data[t] = source[t]

\* No invariant() and no fassert() of recovery, rollback and the transition to
\* primary fails, but for one, in recoverFromOplog: the applied point may differ from
\* the stable timestamp once a rollback has kept a stable optime candidate between
\* the stable timestamp and its common point.
FailsOnlyAfterKeptCandidate ==
    failed # "none" => failed = "appliedThrough" /\ kept

\* recoverFromOplog's invariant on the stable timestamp and the applied point never
\* fails.
AppliedThroughIsStable == failed # "appliedThrough"

-----------------------------------------------------------------------------
(* The inductive invariant of the types, with any of the faults. *)

Table == [Timestamps -> 0..MaxTerm]
Documents == [Timestamps -> [through : 0..MaxTimestamp, valid : OpTimes]]

\* What a truncation at k leaves of the oplog o.
Kept(o, k) == IF k = 0 THEN o ELSE UpTo(o, k - 1)

\* An oplog without a gap whose terms go up.
Whole(o) ==
    /\ o[1] = 1
    /\ \A t, u \in Timestamps : t <= u /\ o[u] > 0 => 0 < o[t] /\ o[t] <= o[u]

DiskOK ==
    /\ checkpoint \in [at : Timestamps, data : Table, doc : Documents]
    /\ \A j \in journal :
        /\ j.oplog \in Table /\ j.truncate \in 0..MaxTimestamp
        /\ ~majority => j.data \in Table /\ j.doc \in Documents

\* The oplog of the others only grows beyond what is committed, and its terms go up.
SourceInv ==
    /\ 1 <= committed /\ source[1] = 1
    /\ \A t, u \in 1..Len(source) : t <= u => source[t] <= source[u]
    /\ \A t \in 1..Len(source) : source[t] <= term

\* The oplog, and what a crash leaves of it, is whole once it is truncated.
LogInv ==
    /\ truncate # 1 /\ Whole(Kept(oplog, truncate))
    /\ \A t \in Timestamps : oplog[t] <= term
    /\ \A j \in journal :
        /\ j.truncate # 1 /\ Whole(Kept(j.oplog, j.truncate))
        /\ \A t \in Timestamps : j.oplog[t] <= term

\* Which steps follow each other, and when the truncate point is set.
StepInv ==
    /\ pc \in {"idle", "writeOplog", "setMinValid", "record", "newPrimary", "closing"} =>
        recovering = "no"
    /\ pc \in {"setTruncate", "truncate", "clear", "start", "finish"} => recovering # "no"
    /\ pc # "idle" => role = "secondary"
    /\ truncate # 0 => pc \in {"writeOplog", "truncate", "clear"}
    /\ pc = "clear" => oplog = Kept(oplog, truncate)
    /\ pc = "setTruncate" => recovering = "rollback" /\ 1 <= last /\ last < MaxTimestamp
    /\ pc \in {"setMinValid", "apply", "record"} => last = Top

\* The entries of a batch that are not all written follow the truncated oplog.
BatchInv ==
    pc = "writeOplog" =>
        /\ truncate # 0 /\ truncate <= last /\ 0 < oplog[truncate - 1]
        /\ \A e \in batch : /\ e # Null /\ truncate <= e[2] /\ e[2] <= last
                            /\ oplog[truncate - 1] <= e[1] /\ e[1] <= term
        /\ \A e, f \in batch : e[2] <= f[2] => e[1] <= f[1]
        /\ \A t \in truncate..last : \E e \in batch : e[2] = t
        /\ \A t \in Timestamps : truncate <= t /\ oplog[t] > 0 => <<oplog[t], t>> \in batch

\* A member that leads has all committed entries, and those of its term are its own.
LeaderInv ==
    leader = "member" /\ (role = "primary" \/ pc = "newPrimary") =>
        /\ \A t \in 1..committed : oplog[t] = source[t]
        /\ \A n \in 1..Len(source) : source[n] = term =>
            role = "primary" /\ \A t \in 1..n : oplog[t] = source[t]

TypeInv == TypeOK /\ DiskOK /\ SourceInv /\ LogInv /\ StepInv /\ BatchInv /\ LeaderInv

-----------------------------------------------------------------------------
(* The inductive invariant of recovery, without faults. *)

\* The applied and the durable optimes are in the oplog, and a crash keeps the durable one.
ProgressInv ==
    /\ recovering = "no" =>
        /\ lastApplied[2] \in Timestamps /\ Kept(oplog, truncate)[lastApplied[2]] = lastApplied[1]
        /\ pc \in {"idle", "newPrimary", "closing"} => lastApplied[2] = Top
        /\ truncate # 0 => truncate = lastApplied[2] + 1
        /\ \A e \in batch : lastApplied[2] < e[2]
        /\ lastDurable[2] \in 1..lastApplied[2] /\ oplog[lastDurable[2]] = lastDurable[1]
        /\ token # Null => token[2] \in 1..lastApplied[2] /\ oplog[token[2]] = token[1]
        /\ \A j \in journal : \A t \in 1..lastDurable[2] :
            j.oplog[t] = oplog[t] /\ (j.truncate = 0 \/ t < j.truncate)
    /\ recovering # "no" =>
        /\ token = Null
        /\ pc # "setTruncate" /\ truncate = 0 =>
            \A j \in journal : j.oplog = oplog /\ j.truncate = 0

\* The data differs from the oplog where there is an entry left to apply.
DataInv ==
    /\ recovering = "no" \/ pc \in {"apply", "finish"} =>
        \A t \in Timestamps : data[t] # oplog[t] => oplog[t] > 0 /\ <<oplog[t], t>> \in batch
    /\ pc \in {"idle", "newPrimary", "record", "closing", "finish"} => batch = {}
    /\ pc \in {"setMinValid", "apply"} =>
        \A e \in batch : e[2] \in Timestamps /\ oplog[e[2]] = e[1]

\* The minValid documents m agree with the oplog o that is truncated at k: minValid is not
\* beyond an entry in the document as of that entry, and the last entry has the last one.
Documented(o, k, m) ==
    \A t \in Timestamps :
        /\ Kept(o, k)[t] > 0 => Leq(m[t].valid, <<o[t], t>>)
        /\ t = MaxTimestamp \/ Kept(o, k)[t + 1] = 0 => m[t] = m[MaxTimestamp]

\* The applied point is set while batches are applied, and unset on a primary.
DocumentInv ==
    /\ Documented(oplog, truncate, doc)
    /\ role = "primary" \/ pc = "newPrimary" => Document.through = 0
    /\ producer = "running" =>
        /\ role = "secondary" /\ pc # "newPrimary" /\ recovering = "no"
        /\ Document.through # 0
    /\ pc \in {"writeOplog", "setMinValid", "record"} \/ (pc = "apply" /\ recovering = "no") =>
        producer = "running"
    /\ recovering = "no" /\ pc # "record" => Document.through \in {0, lastApplied[2]}
    /\ pc = "record" => Document.through = last
    /\ pc = "finish" => Document.through \in {0, Top}

\* What the member has at or below its commit point is what a majority has.
CommitInv ==
    commit # Null =>
        /\ recovering # "startup"
        /\ commit[2] \in 1..committed /\ source[commit[2]] = commit[1]
        /\ \A t \in 1..commit[2] : oplog[t] > 0 => oplog[t] = source[t]
        /\ \A e \in batch : e[2] \in 1..commit[2] => source[e[2]] = e[1]
        /\ role = "primary" \/ pc = "newPrimary" => commit[2] <= lastApplied[2]

\* Up to the stable timestamp everything is committed, in memory and on disk.
StableInv ==
    /\ stable <= committed /\ checkpoint.at <= stable
    /\ \A t \in 1..stable : Kept(oplog, truncate)[t] = source[t] /\ data[t] = source[t]
    /\ recovering = "no" => stable <= lastApplied[2]
    /\ kept \/ doc[stable].through \in {0, stable}
    /\ pc = "apply" /\ recovering # "no" => Document.through \in {0, stable}
    /\ pc \in {"setTruncate", "truncate", "clear", "start"} =>
        \A t \in Timestamps : stable < t => data[t] = 0
    /\ recovering # "no" /\ pc # "finish" =>
        \A t \in Timestamps : stable <= t => doc[t] = doc[stable]

CheckpointInv ==
    LET at == checkpoint.at IN
    /\ \A t \in 1..at : /\ checkpoint.data[t] = source[t]
                        /\ Leq(checkpoint.doc[t].valid, <<source[t], t>>)
    /\ \A t \in Timestamps : /\ at < t => checkpoint.data[t] = 0
                             /\ at <= t => checkpoint.doc[t] = checkpoint.doc[at]
    /\ kept \/ checkpoint.doc[at].through \in {0, at}
    /\ \A j \in journal : \A t \in 1..at : Kept(j.oplog, j.truncate)[t] = source[t]

\* The candidates are entries of the oplog that the document as of them knows as applied,
\* as long as a rollback leaves only those at or below the stable timestamp and its common
\* point.
CandidateInv ==
    /\ recovering = "no" => \A c \in candidates :
        /\ c[2] \in 1..lastApplied[2] /\ oplog[c[2]] = c[1]
        /\ kept \/ doc[c[2]].through \in {0, c[2]}
    /\ recovering = "rollback" =>
        /\ last \in stable..MaxTimestamp /\ 0 < oplog[last]
        /\ pc = "truncate" => truncate = last + 1
        /\ pc \in {"clear", "start", "apply", "finish"} =>
             \A t \in Timestamps : oplog[t] > 0 <=> t <= last
        /\ \A c \in candidates : Leq(c, <<oplog[last], last>>) =>
            /\ c[2] \in 1..last /\ oplog[c[2]] = c[1]
            /\ \/ kept \/ c[2] = last
               \/ c[2] <= stable /\ doc[c[2]].through \in {0, c[2]}
    /\ recovering = "startup" => candidates = {}

\* Without majority read concern the journal has data and documents, too: what is not in
\* the data comes after the applied point.
Consistent(o, k, d, m) ==
    LET through == m[MaxTimestamp].through IN
    /\ \A t \in Timestamps : d[t] # Kept(o, k)[t] =>
        through # 0 /\ through < t /\ Kept(o, k)[t] > 0
    /\ through # 0 => Kept(o, k)[through] > 0

JournalInv ==
    /\ stable = 1 /\ checkpoint.at = 1 /\ checkpoint.data[1] = 1 /\ recovering # "rollback"
    /\ Consistent(oplog, truncate, data, doc)
    /\ \A j \in journal : /\ Documented(j.oplog, j.truncate, j.doc)
                          /\ Consistent(j.oplog, j.truncate, j.data, j.doc)

RecoveryInv ==
    /\ TypeInv /\ ProgressInv /\ DataInv /\ DocumentInv /\ CommitInv
    /\ FailsOnlyAfterKeptCandidate
    /\ majority => StableInv /\ CheckpointInv /\ CandidateInv
    /\ ~majority => JournalInv
=============================================================================
