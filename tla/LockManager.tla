------------------------------ MODULE LockManager ------------------------------
(***************************************************************************)
(* The lock manager, for one resource: the LockHead with its granted list, *)
(* its conflict queue and its counters, the partitioned lock heads that    *)
(* take intent locks off it, and the Lockers' threads that lock, convert,  *)
(* downgrade, wait, time out and unlock.                                   *)
(*                                                                         *)
(* What is done under the bucket's mutex is a sequence of steps of the     *)
(* thread in "bucket"; what is done under a partition's mutex is one step. *)
(* A locker has one request at most, whose fields are functions of the     *)
(* locker.  A failed invariant() is recorded in "failed".                  *)
(***************************************************************************)
EXTENDS Integers, Sequences, SequencesExt

CONSTANTS
    Lockers,        \* the lockers, each with its thread
    Partitions,     \* the partitions
    PartitionOf,    \* _getPartition: the partition of a locker
    Globals,        \* whether the resource may be the global lock, or another
    RequestModes,   \* the modes that lockers ask for
    Upgrades,       \* the pairs of modes that a locker may convert between
    MaxRecursion,   \* bound on recursiveCount
    Cleaner,        \* the thread of UnusedLockCleaner
    Faults          \* which of FaultKinds may happen

\* LateGrant: a conversion is granted between unlock()'s first look at the status
\* and its second look under the mutex.
\* GlobalUpgrade: a locker converts its intent lock on the global resource to S or X.
FaultKinds == {"LateGrant", "GlobalUpgrade"}

Modes == {"IS", "IX", "S", "X"}
IntentModes == {"IS", "IX"}
NoMode == "NONE"

ASSUME LockerAssumption ==
    IsFiniteSet(Lockers) /\ Cleaner \notin Lockers /\ "free" \notin Lockers \union {Cleaner}
ASSUME PartitionAssumption == PartitionOf \in [Lockers -> Partitions]
ASSUME GlobalAssumption == Globals \subseteq BOOLEAN
ASSUME ModeAssumption == RequestModes \subseteq Modes
ASSUME UpgradeAssumption == Upgrades \subseteq Modes \X Modes
ASSUME RecursionAssumption == MaxRecursion \in Nat \ {0}
ASSUME FaultAssumption == Faults \subseteq FaultKinds

VARIABLES
    global,         \* whether the resource is the global lock
    status,         \* per locker: the status of its request, or "none"
    mode,           \* per locker: the mode of its request
    convertMode,    \* per locker: the mode of a pending conversion
    target,         \* per locker: the mode that it asks convert() for
    count,          \* per locker: recursiveCount
    partitioned,    \* per locker: whether its request was made on a partition
    first,          \* per locker: compatibleFirst and enqueueAtFront
    notified,       \* per locker: whether it has been told that its request is granted
    pc,             \* per locker: where its thread is
    heads,          \* per partition: the granted list of its lock head
    existing,       \* the partitions that have a lock head for the resource
    partitions,     \* LockHead::partitions
    grantedList,    \* LockHead::grantedList
    conflictList,   \* LockHead::conflictList
    grantedCounts,  \* per mode: LockHead::grantedCounts
    conflictCounts, \* per mode: LockHead::conflictCounts
    conversions,    \* LockHead::conversionsCount
    firsts,         \* LockHead::compatibleFirstCount
    bucket,         \* the thread that holds the bucket's mutex, or "free"
    scan,           \* _onLockModeChanged: cursor, checkConflictQueue, newlyCompatibleFirst
    failed          \* the invariant() that has failed, or "none"

request == <<status, mode, convertMode, target, count, partitioned, first>>
fastPath == <<heads, existing>>
queues == <<grantedList, conflictList, conversions, firsts>>
counters == <<grantedCounts, conflictCounts>>
lockHead == <<partitions, queues, counters>>
vars == <<global, request, notified, pc, fastPath, lockHead, bucket, scan, failed>>

-----------------------------------------------------------------------------
\* LockConflictsTable.
Conflicting ==
    [m \in Modes \union {NoMode} |->
        CASE m = NoMode -> {}
          [] m = "IS" -> {"X"}
          [] m = "IX" -> {"S", "X"}
          [] m = "S" -> {"IX", "X"}
          [] m = "X" -> {"S", "X", "IS", "IX"}]

Conflicts(m, mask) == Conflicting[m] \intersect mask # {}

\* isModeCovered.
Covers(held, m) == Conflicting[m] \subseteq Conflicting[held]

\* grantedModes and conflictModes.
GrantedModes == {m \in Modes : grantedCounts[m] > 0}
ConflictModes == {m \in Modes : conflictCounts[m] > 0}

Inc(counts, m) == [counts EXCEPT ![m] = @ + 1]
Dec(counts, m) == [counts EXCEPT ![m] = @ - 1]

\* Mutant: requests are migrated without their counts.
HoldingUncounted(s, m) == 0

\* The number of requests of a list in a mode, by which migration increments its count.
Holding(s, m) == Cardinality({i \in DOMAIN s : mode[s[i]] = m})

\* LockRequestList::remove.  A request that is on no list has no neighbours, and then both
\* ends of this one are set to NULL.
Without(s, l) ==
    IF l \in Range(s) THEN RemoveAt(s, CHOOSE i \in DOMAIN s : s[i] = l) ELSE <<>>

NoScan == [cursor |-> 0, check |-> FALSE, newly |-> FALSE]

Init ==
    /\ global \in Globals
    /\ status = [l \in Lockers |-> "none"]
    /\ mode = [l \in Lockers |-> NoMode]
    /\ convertMode = [l \in Lockers |-> NoMode]
    /\ target = [l \in Lockers |-> NoMode]
    /\ count = [l \in Lockers |-> 0]
    /\ partitioned = [l \in Lockers |-> FALSE]
    /\ first = [l \in Lockers |-> FALSE]
    /\ notified = [l \in Lockers |-> FALSE]
    /\ pc = [l \in Lockers |-> "idle"]
    /\ heads = [p \in Partitions |-> <<>>] /\ existing = {}
    /\ partitions = <<>> /\ grantedList = <<>> /\ conflictList = <<>>
    /\ grantedCounts = [m \in Modes |-> 0] /\ conflictCounts = [m \in Modes |-> 0]
    /\ conversions = 0 /\ firsts = 0
    /\ bucket = "free" /\ scan = NoScan /\ failed = "none"

Fail(invariant) ==
    /\ failed' = invariant
    /\ UNCHANGED <<global, request, notified, pc, fastPath, lockHead, bucket, scan>>

Go(l, step) == pc' = [pc EXCEPT ![l] = step]
Acquires(l) == bucket \in {"free", l}

\* The Locker removes the request from _requests.  Its notification, which may have come
\* late, is not looked at again before lockBegin clears it.
Forget(l) ==
    /\ status' = [status EXCEPT ![l] = "none"]
    /\ mode' = [mode EXCEPT ![l] = NoMode]
    /\ target' = [target EXCEPT ![l] = NoMode]
    /\ partitioned' = [partitioned EXCEPT ![l] = FALSE]
    /\ first' = [first EXCEPT ![l] = FALSE]
    /\ notified' = [notified EXCEPT ![l] = FALSE]
    /\ UNCHANGED convertMode

-----------------------------------------------------------------------------
(* lock() *)

\* lockBegin with a new request, and lock() as far as the fast path for intent modes.
Lock(l, m) ==
    /\ pc[l] = "idle" /\ status[l] = "none"
    /\ mode' = [mode EXCEPT ![l] = m]
    /\ count' = [count EXCEPT ![l] = 1]
    /\ partitioned' = [partitioned EXCEPT ![l] = m \in IntentModes]
    /\ first' = [first EXCEPT ![l] = global /\ m \in {"S", "X"}]
    /\ notified' = [notified EXCEPT ![l] = FALSE]
    /\ IF m \in IntentModes /\ PartitionOf[l] \in existing
       THEN /\ heads' = [heads EXCEPT ![PartitionOf[l]] = Append(@, l)]
            /\ status' = [status EXCEPT ![l] = "granted"]
            /\ UNCHANGED pc
       ELSE /\ status' = [status EXCEPT ![l] = "new"]
            /\ Go(l, "lock")
            /\ UNCHANGED heads
    /\ UNCHANGED <<global, convertMode, target, existing, lockHead, bucket, scan, failed>>

\* Mutant: a waiting request does not keep the resource from being partitioned.
MayPartitionPastWaiters(l) == partitioned[l] /\ GrantedModes \subseteq IntentModes

\* Mutant: a granted S or X does not keep the resource from being partitioned.
MayPartitionAlways(l) == partitioned[l] /\ ConflictModes = {}

\* "Start a partitioned lock if possible".
MayPartition(l) ==
    partitioned[l] /\ GrantedModes \subseteq IntentModes /\ ConflictModes = {}

StartPartition(l) ==
    /\ pc[l] = "lock" /\ bucket = "free" /\ MayPartition(l)
    /\ existing' = existing \union {PartitionOf[l]}
    /\ partitions' = Append(partitions, PartitionOf[l])
    /\ heads' = [heads EXCEPT ![PartitionOf[l]] = Append(@, l)]
    /\ status' = [status EXCEPT ![l] = "granted"]
    /\ Go(l, "idle")
    /\ UNCHANGED <<global, mode, convertMode, target, count, partitioned, first, notified>>
    /\ UNCHANGED <<queues, counters, bucket, scan, failed>>

\* Mutant: a request passes those that wait.
MustWaitForGranted(l) == Conflicts(mode[l], GrantedModes)

\* LockHead::newRequest must queue: behind all granted modes, and behind waiting ones
\* unless the policy is compatibleFirst.
MustWait(l) ==
    \/ Conflicts(mode[l], GrantedModes)
    \/ firsts = 0 /\ Conflicts(mode[l], ConflictModes)

\* migratePartitionedLockHeads takes the requests of one partition.
Migrate ==
    LET p == Last(partitions)
    IN  IF \/ ~(GrantedModes \subseteq IntentModes) \/ ConflictModes # {}
           \/ \E i \in DOMAIN heads[p] : MustWait(heads[p][i])
        THEN failed' = "migrate" /\ UNCHANGED <<fastPath, lockHead, bucket>>
        ELSE /\ grantedList' = grantedList \o heads[p]
             /\ grantedCounts' =
                    [m \in Modes |-> grantedCounts[m] + Holding(heads[p], m)]
             /\ firsts' = firsts + Cardinality({i \in DOMAIN heads[p] : first[heads[p][i]]})
             /\ heads' = [heads EXCEPT ![p] = <<>>]
             /\ existing' = existing \ {p}
             /\ partitions' = Front(partitions)
             /\ UNCHANGED <<conflictList, conflictCounts, conversions, failed>>

\* A request that cannot be partitioned, and a conversion, migrate all requests first.
MigrateForRequest(l) ==
    /\ Acquires(l) /\ partitions # <<>>
    /\ pc[l] = "convert" \/ (pc[l] = "lock" /\ ~MayPartition(l))
    /\ Migrate
    /\ bucket' = IF failed' = "none" THEN l ELSE bucket
    /\ UNCHANGED <<global, request, notified, pc, scan>>

\* LockHead::newRequest.
NewRequest(l) ==
    /\ pc[l] = "lock" /\ Acquires(l) /\ partitions = <<>> /\ ~MayPartition(l)
    /\ partitioned' = [partitioned EXCEPT ![l] = FALSE]
    /\ IF MustWait(l)
       THEN /\ status' = [status EXCEPT ![l] = "waiting"]
            /\ conflictList' = IF first[l] THEN <<l>> \o conflictList
                               ELSE Append(conflictList, l)
            /\ conflictCounts' = Inc(conflictCounts, mode[l])
            /\ Go(l, "wait")
            /\ UNCHANGED <<grantedList, grantedCounts, firsts>>
       ELSE /\ status' = [status EXCEPT ![l] = "granted"]
            /\ grantedList' = Append(grantedList, l)
            /\ grantedCounts' = Inc(grantedCounts, mode[l])
            /\ firsts' = IF first[l] THEN firsts + 1 ELSE firsts
            /\ Go(l, "idle")
            /\ UNCHANGED <<conflictList, conflictCounts>>
    /\ bucket' = "free"
    /\ UNCHANGED <<global, mode, convertMode, target, count, first, notified>>
    /\ UNCHANGED <<fastPath, partitions, conversions, scan, failed>>

-----------------------------------------------------------------------------
(* convert() *)

\* lockBegin with a request that is granted, and convert() before the mutex.
Convert(l, m) ==
    /\ pc[l] = "idle" /\ status[l] = "granted" /\ count[l] < MaxRecursion
    /\ Covers(mode[l], m) \/ (Covers(m, mode[l]) /\ <<mode[l], m>> \in Upgrades)
    /\ ~global \/ m \in IntentModes \/ first[l] \/ "GlobalUpgrade" \in Faults
    /\ count' = [count EXCEPT ![l] = @ + 1]
    /\ first' = [first EXCEPT ![l] = @ \/ (global /\ m \in {"S", "X"})]
    /\ notified' = [notified EXCEPT ![l] = FALSE]
    /\ IF Covers(mode[l], m) THEN UNCHANGED <<target, pc>>
       ELSE target' = [target EXCEPT ![l] = m] /\ Go(l, "convert")
    /\ UNCHANGED <<global, status, mode, convertMode, partitioned, fastPath, lockHead>>
    /\ UNCHANGED <<bucket, scan, failed>>

\* The granted modes without the ones that the request holds or waits for.
Is(a, b) == IF a = b THEN 1 ELSE 0
GrantedWithout(l) ==
    {m \in Modes : grantedCounts[m] > Is(mode[l], m) + Is(convertMode[l], m)}

ConvertInBucket(l) ==
    /\ pc[l] = "convert" /\ Acquires(l) /\ partitions = <<>>
    /\ IF Conflicts(target[l], GrantedWithout(l))
       THEN /\ status' = [status EXCEPT ![l] = "converting"]
            /\ convertMode' = [convertMode EXCEPT ![l] = target[l]]
            /\ conversions' = conversions + 1
            /\ grantedCounts' = Inc(grantedCounts, target[l])
            /\ Go(l, "wait")
            /\ UNCHANGED mode
       ELSE /\ grantedCounts' = Dec(Inc(grantedCounts, target[l]), mode[l])
            /\ mode' = [mode EXCEPT ![l] = target[l]]
            /\ Go(l, "idle")
            /\ UNCHANGED <<status, convertMode, conversions>>
    /\ bucket' = "free"
    /\ target' = [target EXCEPT ![l] = NoMode]
    /\ UNCHANGED <<global, count, partitioned, first, notified, fastPath, partitions>>
    /\ UNCHANGED <<grantedList, conflictList, conflictCounts, firsts, scan, failed>>

-----------------------------------------------------------------------------
(* lockComplete() *)

\* The wait ends with the notification.
Granted(l) ==
    /\ pc[l] = "wait" /\ notified[l]
    /\ notified' = [notified EXCEPT ![l] = FALSE]
    /\ Go(l, "idle")
    /\ UNCHANGED <<global, request, fastPath, lockHead, bucket, scan, failed>>

\* The wait ends with a timeout, an interruption or a deadlock.
TimeOut(l) ==
    /\ pc[l] = "wait" /\ ~notified[l]
    /\ Go(l, "cancel")
    /\ UNCHANGED <<global, request, notified, fastPath, lockHead, bucket, scan, failed>>

-----------------------------------------------------------------------------
(* unlock() and downgrade() *)

\* unlock() before the bucket's mutex: the references but the last, and requests that
\* are on a partition.
Unlock(l) ==
    /\ (pc[l] = "idle" /\ status[l] = "granted") \/ pc[l] = "cancel"
    /\ count' = [count EXCEPT ![l] = @ - 1]
    /\ LET atomically == status[l] = "converting" /\ "LateGrant" \notin Faults
           p == PartitionOf[l]
       IN  CASE status[l] = "granted" /\ count[l] > 1 ->
                   /\ Go(l, "idle")
                   /\ UNCHANGED <<heads, bucket, status, mode, convertMode, target>>
                   /\ UNCHANGED <<partitioned, first, notified>>
             [] ~(status[l] = "granted" /\ count[l] > 1) /\ partitioned[l]
                    /\ Contains(heads[p], l) ->
                   /\ heads' = [heads EXCEPT ![p] = Without(@, l)]
                   /\ Forget(l)
                   /\ Go(l, "idle")
                   /\ UNCHANGED bucket
             [] OTHER ->
                   /\ ~atomically \/ bucket = "free"
                   /\ bucket' = IF atomically THEN l ELSE bucket
                   /\ Go(l, "unlock")
                   /\ UNCHANGED <<heads, status, mode, convertMode, target>>
                   /\ UNCHANGED <<partitioned, first, notified>>
    /\ UNCHANGED <<global, existing, lockHead, scan, failed>>

StartScan(l, check) ==
    /\ bucket' = l /\ Go(l, "conversions")
    /\ scan' = [cursor |-> 1, check |-> check, newly |-> FALSE]

\* Mutant: the queue is only looked at when other requests hold the mode.
FreedModeTooLate(m) == grantedCounts[m] = 2

\* The released mode has become zero: the conflict queue is looked at.
FreedMode(m) == grantedCounts[m] = 1

ReleaseGranted(l) ==
    /\ pc[l] = "unlock" /\ Acquires(l) /\ status[l] = "granted"
    /\ IF first[l] /\ (firsts = 0 \/ (firsts > 1 /\ Len(grantedList) = 1))
       THEN Fail("compatibleFirst")
       ELSE /\ grantedList' = Without(grantedList, l)
            /\ grantedCounts' = Dec(grantedCounts, mode[l])
            /\ firsts' = IF first[l] THEN firsts - 1 ELSE firsts
            /\ StartScan(l, FreedMode(mode[l]))
            /\ UNCHANGED <<global, request, notified, fastPath, partitions>>
            /\ UNCHANGED <<conflictList, conflictCounts, conversions, failed>>

CancelWaiting(l) ==
    /\ pc[l] = "unlock" /\ Acquires(l) /\ status[l] = "waiting"
    /\ conflictList' = Without(conflictList, l)
    /\ conflictCounts' = Dec(conflictCounts, mode[l])
    /\ StartScan(l, TRUE)
    /\ UNCHANGED <<global, request, notified, fastPath, partitions, grantedList>>
    /\ UNCHANGED <<grantedCounts, conversions, firsts, failed>>

CancelConversion(l) ==
    /\ pc[l] = "unlock" /\ Acquires(l) /\ status[l] = "converting"
    /\ status' = [status EXCEPT ![l] = "granted"]
    /\ conversions' = conversions - 1
    /\ grantedCounts' = Dec(grantedCounts, convertMode[l])
    /\ convertMode' = [convertMode EXCEPT ![l] = NoMode]
    /\ StartScan(l, TRUE)
    /\ UNCHANGED <<global, mode, target, count, partitioned, first, notified, fastPath>>
    /\ UNCHANGED <<partitions, grantedList, conflictList, conflictCounts, firsts, failed>>

\* A request that was made in X on the lock head goes down to a mode that X covers.
Downgrade(l, m) ==
    /\ pc[l] = "idle" /\ status[l] = "granted" /\ bucket = "free"
    /\ mode[l] = "X" /\ m # "X"
    /\ grantedCounts' = Dec(Inc(grantedCounts, m), mode[l])
    /\ mode' = [mode EXCEPT ![l] = m]
    /\ StartScan(l, TRUE)
    /\ UNCHANGED <<global, status, convertMode, target, count, partitioned, first>>
    /\ UNCHANGED <<notified, fastPath, partitions, queues, conflictCounts, failed>>

-----------------------------------------------------------------------------
(* _onLockModeChanged() *)

Notify(r) == notified' = [notified EXCEPT ![r] = TRUE]

\* One request of the granted list: a conversion that has become possible is granted.
TryConversion(l) ==
    /\ pc[l] = "conversions" /\ scan.cursor <= Len(grantedList) /\ conversions > 0
    /\ scan' = [scan EXCEPT !.cursor = @ + 1]
    /\ LET r == grantedList[scan.cursor]
       IN  IF status[r] = "converting" /\ ~Conflicts(convertMode[r], GrantedWithout(r))
           THEN /\ conversions' = conversions - 1
                /\ grantedCounts' = Dec(grantedCounts, mode[r])
                /\ status' = [status EXCEPT ![r] = "granted"]
                /\ mode' = [mode EXCEPT ![r] = convertMode[r]]
                /\ convertMode' = [convertMode EXCEPT ![r] = NoMode]
                /\ Notify(r)
           ELSE /\ UNCHANGED <<conversions, grantedCounts, status, mode, convertMode>>
                /\ UNCHANGED notified
    /\ UNCHANGED <<global, target, count, partitioned, first, pc, fastPath, partitions>>
    /\ UNCHANGED <<grantedList, conflictList, conflictCounts, firsts, bucket, failed>>

ConversionsDone(l) ==
    /\ pc[l] = "conversions" /\ (scan.cursor > Len(grantedList) \/ conversions = 0)
    /\ scan' = [scan EXCEPT !.cursor = 1]
    /\ Go(l, "grants")
    /\ UNCHANGED <<global, request, notified, fastPath, lockHead, bucket, failed>>

\* The request at the front still conflicts, and nothing may overtake it.
StopsAt == scan.cursor = 1 /\ ~scan.newly

\* One request of the conflict queue: it is granted, or passed over, or the front at
\* which the scan ends.
TryGrant(l) ==
    /\ pc[l] = "grants" /\ scan.check /\ scan.cursor <= Len(conflictList)
    /\ LET r == conflictList[scan.cursor]
       IN  IF Conflicts(mode[r], GrantedModes)
           THEN /\ scan' = IF StopsAt THEN [scan EXCEPT !.check = FALSE]
                           ELSE [scan EXCEPT !.cursor = @ + 1]
                /\ UNCHANGED <<status, conflictList, conflictCounts, grantedList>>
                /\ UNCHANGED <<grantedCounts, firsts, notified>>
           ELSE /\ status' = [status EXCEPT ![r] = "granted"]
                /\ conflictList' = Without(conflictList, r)
                /\ conflictCounts' = Dec(conflictCounts, mode[r])
                /\ grantedList' = Append(grantedList, r)
                /\ grantedCounts' = Inc(grantedCounts, mode[r])
                /\ firsts' = IF first[r] THEN firsts + 1 ELSE firsts
                /\ scan' = [scan EXCEPT !.check = mode[r] # "X",
                                        !.newly = @ \/ (first[r] /\ firsts = 0)]
                /\ Notify(r)
    /\ UNCHANGED <<global, mode, convertMode, target, count, partitioned, first, pc>>
    /\ UNCHANGED <<fastPath, partitions, conversions, bucket, failed>>

\* The bucket's mutex is released; the Locker removes a request with no references.
EndScan(l) ==
    /\ pc[l] = "grants" /\ (~scan.check \/ scan.cursor > Len(conflictList))
    /\ IF (GrantedModes = {}) # (grantedList = <<>>)
            \/ (ConflictModes = {}) # (conflictList = <<>>)
       THEN Fail("queues")
       ELSE /\ bucket' = "free" /\ scan' = NoScan
            /\ Go(l, "idle")
            /\ IF count[l] = 0 THEN Forget(l)
               ELSE UNCHANGED <<status, mode, convertMode, target, partitioned, first,
                                notified>>
            /\ UNCHANGED <<global, count, fastPath, lockHead, failed>>

-----------------------------------------------------------------------------
(* The periodic cleaner. *)

CleanUp ==
    /\ Acquires(Cleaner) /\ partitions # <<>>
    /\ Migrate
    /\ bucket' = IF failed' = "none" THEN Cleaner ELSE bucket
    /\ UNCHANGED <<global, request, notified, pc, scan>>

\* A lock head without granted modes is deleted, which must be empty.
EndCleanUp ==
    /\ bucket = Cleaner /\ partitions = <<>>
    /\ IF GrantedModes = {} /\ (grantedList # <<>> \/ conflictList # <<>> \/ conversions > 0
                                    \/ firsts > 0)
       THEN Fail("cleanup")
       ELSE /\ bucket' = "free"
            /\ UNCHANGED <<global, request, notified, pc, fastPath, lockHead, scan, failed>>

-----------------------------------------------------------------------------
InBucket(l) ==
    \/ StartPartition(l) \/ MigrateForRequest(l) \/ NewRequest(l) \/ ConvertInBucket(l)
    \/ ReleaseGranted(l) \/ CancelWaiting(l) \/ CancelConversion(l)
Scan(l) == TryConversion(l) \/ ConversionsDone(l) \/ TryGrant(l) \/ EndScan(l)

Next ==
    /\ failed = "none"
    /\ \/ \E l \in Lockers :
            \/ \E m \in RequestModes : Lock(l, m) \/ Convert(l, m) \/ Downgrade(l, m)
            \/ InBucket(l) \/ Scan(l)
            \/ Granted(l) \/ TimeOut(l) \/ Unlock(l)
       \/ CleanUp \/ EndCleanUp

Spec == Init /\ [][Next]_vars

\* Threads run, mutexes are not denied forever to one that waits, and operations end
\* and release what they hold.
FairSpec ==
    /\ Spec
    /\ WF_vars(failed = "none" /\ (CleanUp \/ EndCleanUp))
    /\ \A l \in Lockers :
        /\ WF_vars(failed = "none" /\ (Scan(l) \/ Granted(l)))
        /\ SF_vars(failed = "none" /\ InBucket(l))
        /\ SF_vars(failed = "none" /\ Unlock(l))

-----------------------------------------------------------------------------
(* Properties. *)

\* The variables have their types: modes, statuses, counters of requests and the two
\* lists without repetition.
TypeOK ==
    /\ global \in BOOLEAN
    /\ status \in [Lockers -> {"none", "new", "granted", "waiting", "converting"}]
    /\ mode \in [Lockers -> Modes \union {NoMode}]
    /\ convertMode \in [Lockers -> Modes \union {NoMode}]
    /\ target \in [Lockers -> Modes \union {NoMode}]
    /\ count \in [Lockers -> 0..MaxRecursion]
    /\ partitioned \in [Lockers -> BOOLEAN] /\ first \in [Lockers -> BOOLEAN]
    /\ notified \in [Lockers -> BOOLEAN]
    /\ heads \in [Partitions -> Seq(Lockers)] /\ existing \subseteq Partitions
    /\ partitions \in Seq(Partitions)
    /\ grantedList \in Seq(Lockers) /\ IsInjective(grantedList)
    /\ conflictList \in Seq(Lockers) /\ IsInjective(conflictList)
    /\ grantedCounts \in [Modes -> Nat] /\ conflictCounts \in [Modes -> Nat]
    /\ conversions \in Nat /\ firsts \in Nat
    /\ bucket \in Lockers \union {Cleaner, "free"}
    /\ pc \in [Lockers -> {"idle", "lock", "convert", "wait", "cancel", "unlock",
                           "conversions", "grants"}]

\* A locker holds the resource from lock() to the last unlock(), whatever the manager
\* has in its lists.
Holds(l) == status[l] \in {"granted", "converting"} /\ count[l] > 0

\* Two lockers hold the resource in compatible modes only: one may be on a partition,
\* another on the lock head, a third in a conversion.
MutualExclusion ==
    \A l, k \in Lockers :
        l # k /\ Holds(l) /\ Holds(k) => ~Conflicts(mode[l], {mode[k]})

\* No invariant() of the lock manager fails.
NeverFails == failed = "none"

\* The request was put, as enqueueAtFront says, before another one that waits and that it
\* conflicts with, while somebody holds the resource.
PutBefore(l) ==
    /\ first[l] /\ GrantedModes # {}
    /\ \E k \in Range(conflictList) \ {l} : Conflicts(mode[l], {mode[k]})

\* What may wait: a request at the front of the queue, and a conversion.
FrontWaits ==
    conflictList # <<>> =>
        Conflicts(mode[conflictList[1]], GrantedModes) \/ PutBefore(conflictList[1])
ConversionWaits(l) == status[l] = "converting" => Conflicts(convertMode[l], GrantedWithout(l))

\* No wakeup is lost: when the mutex is free, the request at the front of the queue
\* conflicts with a granted mode, or was put there before a waiting one it conflicts
\* with, and a pending conversion conflicts with a mode of others.
NoLostWakeup ==
    bucket = "free" => FrontWaits /\ \A l \in Lockers : ConversionWaits(l)

\* A request that waits is granted, or given up, unless the resource is the global
\* lock, whose S and X requests switch fairness off, or a conversion is pending.
WaiterIsServed ==
    \A l \in Lockers :
        (status[l] = "waiting" /\ ~global)
            ~> (status[l] # "waiting" \/ \E k \in Lockers : status[k] = "converting")
-----------------------------------------------------------------------------
(* The inductive invariant, for Faults = {}. *)

OnPartition(l) == l \in Range(heads[PartitionOf[l]])
OnLockHead(l) == l \in Range(grantedList)
Queued(l) == l \in Range(conflictList)
Scanning(l) == pc[l] \in {"conversions", "grants"}

\* The request is off the lists, and the Locker has not removed it yet.
Released(l) == Scanning(l) /\ count[l] = 0

\* What a thread is about to do goes with the status of its request and the number of
\* references to it.
ThreadOK(l) ==
    /\ pc[l] = "idle" => status[l] = IF count[l] = 0 THEN "none" ELSE "granted"
    /\ pc[l] = "lock" => status[l] = "new" /\ count[l] = 1
    /\ pc[l] = "convert" => status[l] = "granted" /\ count[l] > 1
    /\ pc[l] \in {"wait", "cancel"} =>
        /\ count[l] > 0
        /\ status[l] \in IF count[l] = 1 THEN {"waiting", "granted"}
                         ELSE {"converting", "granted"}
    /\ pc[l] = "unlock" =>
        status[l] \in IF count[l] = 0 THEN {"waiting", "granted"} ELSE {"converting"}
    /\ Scanning(l) =>
        status[l] \in IF count[l] = 0 THEN {"waiting", "granted"} ELSE {"granted"}

ThreadInv == \A l \in Lockers : ThreadOK(l)

\* The modes of a request go with its status, a conversion is to a stronger mode, and
\* only granted requests are notified.
ModeOK(l) ==
    /\ mode[l] = NoMode <=> status[l] = "none"
    /\ convertMode[l] # NoMode <=> status[l] = "converting"
    /\ status[l] = "converting" => Covers(convertMode[l], mode[l])
    /\ pc[l] = "convert" => target[l] # NoMode /\ Covers(target[l], mode[l])
    /\ pc[l] = "lock" /\ partitioned[l] => mode[l] \in IntentModes
    /\ notified[l] => status[l] = "granted" /\ pc[l] # "convert"
    /\ partitioned[l] => ~first[l]
    /\ first[l] => global

ModeInv == \A l \in Lockers : ModeOK(l)

\* Each request is on the list of its status, on one only, and once.
PlaceOK(l) ==
    /\ Queued(l) <=> status[l] = "waiting" /\ ~Released(l)
    /\ OnPartition(l) \/ OnLockHead(l)
            <=> status[l] \in {"granted", "converting"} /\ ~Released(l)
    /\ OnPartition(l) => /\ ~OnLockHead(l) /\ partitioned[l] /\ mode[l] \in IntentModes
                         /\ status[l] = "granted" /\ pc[l] \in {"idle", "convert"}

ListInv ==
    /\ \A p \in Partitions :
        IsInjective(heads[p]) /\ \A l \in Range(heads[p]) : PartitionOf[l] = p
    /\ \A l \in Lockers : PlaceOK(l)

HoldersIn(m) == {l \in Lockers : OnLockHead(l) /\ mode[l] = m}
ConvertersTo(m) == {l \in Lockers : convertMode[l] = m}
QueuedIn(m) == {l \in Lockers : Queued(l) /\ mode[l] = m}

\* The counters say what is on the lists.
CountInv ==
    /\ \A m \in Modes :
        /\ grantedCounts[m] = Cardinality(HoldersIn(m)) + Cardinality(ConvertersTo(m))
        /\ conflictCounts[m] = Cardinality(QueuedIn(m))
    /\ conversions = Cardinality({l \in Lockers : status[l] = "converting"})
    /\ firsts = Cardinality({l \in Lockers : OnLockHead(l) /\ first[l]})

\* While there are partitions, only intent modes are granted and nobody waits.
PartitionInv ==
    /\ existing \subseteq Range(partitions)
    /\ \A p \in Partitions : heads[p] # <<>> => p \in existing
    /\ partitions # <<>> => GrantedModes \subseteq IntentModes
    /\ partitions # <<>> \/ bucket = Cleaner => ConflictModes = {}

\* A scan, and the cancellation of a conversion, hold the bucket's mutex.
BucketInv ==
    /\ \A l \in Lockers :
        Scanning(l) \/ (pc[l] = "unlock" /\ status[l] = "converting") => bucket = l
    /\ scan \in [cursor : Nat, check : BOOLEAN, newly : BOOLEAN]
    /\ \A l \in Lockers : Scanning(l) => scan.cursor > 0

\* Requests on the lists of granted ones are compatible.
Held(l) == OnPartition(l) \/ OnLockHead(l)
HeldInv ==
    \A l, k \in Lockers : l # k /\ Held(l) /\ Held(k) => mode[k] \notin Conflicting[mode[l]]

FrontConflicts == conflictList # <<>> => Conflicts(mode[conflictList[1]], GrantedModes)

\* Who may go on has been told, or is still ahead of the scan.
WakeupInv ==
    /\ (\A l \in Lockers : ~Scanning(l)) =>
        FrontWaits /\ \A k \in Lockers : ConversionWaits(k)
    /\ \A l \in Lockers :
        /\ pc[l] = "conversions" =>
            /\ scan.check \/ FrontWaits
            /\ \A i \in DOMAIN grantedList :
                i < scan.cursor => ConversionWaits(grantedList[i])
        /\ pc[l] = "grants" =>
            /\ \A k \in Lockers : ConversionWaits(k)
            /\ IF ~scan.check THEN FrontWaits ELSE scan.cursor > 1 => FrontConflicts

LockInv ==
    /\ TypeOK /\ NeverFails
    /\ ThreadInv /\ ModeInv /\ ListInv /\ CountInv
    /\ PartitionInv /\ BucketInv /\ HeldInv /\ WakeupInv
=============================================================================
