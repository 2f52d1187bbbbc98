----------------------------- MODULE MemberRole -----------------------------
(***************************************************************************)
(* The role of one replica set member: election callbacks, the transition  *)
(* to primary with its catch-up and drain, unconditional step-down, the    *)
(* replSetStepDown command, reconfiguration and follower modes.            *)
(*                                                                         *)
(* An action is what one thread does under one hold of                     *)
(* ReplicationCoordinatorImpl::_mutex.  A thread that needs the global     *)
(* lock in mode X waits for it without _mutex, so the lock matters only    *)
(* where it is held over a release of _mutex, which is in the last part of *)
(* signalDrainComplete.  Votes, timeouts and what other members do are     *)
(* nondeterministic.  A failed invariant() of the code ends the process:   *)
(* what was wrong is then the value of the variable "failed".              *)
(***************************************************************************)
EXTENDS Integers, FiniteSets

CONSTANTS
    Command,        \* threads that run the replSetStepDown command
    ReconfigKind,   \* which reconfigurations happen
    Overlap,        \* may an election start before the callback of an earlier,
                    \* won one has come to its end?
    MaxTerm         \* bound on terms

ASSUME KindAssumption == ReconfigKind \subseteq {"safe", "force", "heartbeat"}
ASSUME OverlapAssumption == Overlap \in BOOLEAN
ASSUME MaxTermAssumption == MaxTerm \in Nat

VARIABLES
    term,           \* TopologyCoordinator::_term
    role,           \* _role
    leaderMode,     \* _leaderMode
    followerMode,   \* _followerMode
    electable,      \* the own member of _rsConfig exists and is electable
    canWrite,       \* _canAcceptNonLocalWrites
    applier,        \* _applierState
    catchup,        \* _catchupState is set
    configState,    \* _rsConfigState
    reconfig,       \* the reconfiguration under way, or NoReconfig
    pendingTerm,    \* _pendingTermUpdateDuringStepDown, 0 when it is none
    stepDowns,      \* how many _stepDownFinish callbacks are scheduled
    phase,          \* which callback of the own election is due
    electTerm,      \* the term that this callback has captured
    voteRequester,  \* _voteRequester is set
    announcing,     \* terms of elections won, their callback not at its end
    command,        \* the replSetStepDown commands
    drain,          \* the applier thread in signalDrainComplete
    failed          \* the invariant() that has failed, or "none"

topology == <<term, role, leaderMode, followerMode, electable>>
member == <<canWrite, applier, catchup>>
config == <<configState, reconfig>>
election == <<phase, electTerm, voteRequester, announcing>>
vars == <<topology, member, config, pendingTerm, stepDowns, election, command,
          drain, failed>>

-----------------------------------------------------------------------------
Term == 0..MaxTerm
Role == {"Follower", "Candidate", "Leader"}
LeaderMode == {"kNotLeader", "kLeaderElect", "kMaster", "kSteppingDown",
               "kAttemptingStepDown"}

NoReconfig == [kind |-> "none", electable |-> FALSE, stage |-> "none"]
Reconfiguration == [kind : {"none", "safe", "force", "heartbeat"},
                    electable : BOOLEAN,
                    stage : {"none", "queued", "storing", "waiting", "finishing"}]

NoCommand == [stage |-> "idle", term |-> 0, mode |-> "kNotLeader"]
StepDownAttempt == [stage : {"idle", "waiting"}, term : Term, mode : LeaderMode]

NoDrain == [stage |-> "idle", term |-> 0]
Drain == [stage : {"idle", "empty", "signalled", "transition"}, term : Term]

Init ==
    /\ term = 0 /\ role = "Follower" /\ leaderMode = "kNotLeader"
    /\ followerMode = "SECONDARY" /\ electable = TRUE
    /\ canWrite = FALSE /\ applier = "Running" /\ catchup = FALSE
    /\ configState = "Steady" /\ reconfig = NoReconfig
    /\ pendingTerm = 0 /\ stepDowns = 0
    /\ phase = "none" /\ electTerm = 0 /\ voteRequester = FALSE
    /\ announcing = {}
    /\ command = [c \in Command |-> NoCommand]
    /\ drain = NoDrain
    /\ failed = "none"

\* How an invariant() of the code can fail.
Failure == {"none", "VoteRequesterLeftOver", "WinnerNotCandidate", "AlreadyInCatchup",
            "CatchupNotPrimary", "DrainNotPrimary", "NoVoteRequester",
            "NotSteppingDown", "NotAttempting", "GlobalLockNotHeld"}

\* The process aborts.
Fail(invariant) ==
    /\ failed' = invariant
    /\ UNCHANGED <<topology, member, config, pendingTerm, stepDowns, election,
                   command, drain>>

\* Nobody holds the global lock over a release of _mutex.
GlobalLockFree == drain.stage # "transition"

\* _updateMemberStateFromTopologyCoordinator_inlock, once role and leader mode
\* have their new values: a member that stops being primary leaves catch-up
\* and drain mode.
UpdateMemberState ==
    /\ canWrite' = (leaderMode' = "kMaster")
    /\ IF role = "Leader" /\ role' # "Leader"
       THEN applier' = "Running" /\ catchup' = FALSE
       ELSE UNCHANGED <<applier, catchup>>

\* _stepDownSelfAndReplaceWith and what follows it in every caller.
BecomeFollower ==
    /\ role' = "Follower" /\ leaderMode' = "kNotLeader"
    /\ UpdateMemberState

\* Mutant: only the election that _heartbeatReconfigStore waits for is signalled.
SignalElectionFinishedToStore ==
    reconfig' = IF reconfig.stage = "queued"
                THEN [reconfig EXCEPT !.stage = "storing"] ELSE reconfig

\* signalEvent(_electionFinishedEvent): a reconfiguration that has cancelled
\* the election goes on, from where it has cancelled it.
SignalElectionFinished ==
    reconfig' = [reconfig EXCEPT !.stage = CASE @ = "queued"  -> "storing"
                                             [] @ = "waiting" -> "finishing"
                                             [] OTHER -> @]

-----------------------------------------------------------------------------
(* Elections: Election.tla has the votes, this module the role. *)

\* Mutant: the VoteRequester of a lost election is kept.
LoseElectionKeepingVoteRequester ==
    /\ role' = "Follower"
    /\ phase' = "none" /\ electTerm' = 0
    /\ SignalElectionFinished
    /\ UNCHANGED <<term, leaderMode, followerMode, electable, member, configState,
                   pendingTerm, stepDowns, voteRequester, announcing, command, drain,
                   failed>>

\* LoseElectionGuardV1.
LoseElection ==
    /\ role' = "Follower"
    /\ voteRequester' = FALSE
    /\ phase' = "none" /\ electTerm' = 0
    /\ SignalElectionFinished
    /\ UNCHANGED <<term, leaderMode, followerMode, electable, member, configState,
                   pendingTerm, stepDowns, announcing, command, drain, failed>>

\* _startElectSelfIfEligibleV1.  During a configuration change the member
\* gives up at once.  With a dry run a VoteRequester exists from here on,
\* without one only when the own vote has been written.
StartElection(dryRun) ==
    /\ role = "Follower" /\ electable /\ followerMode = "SECONDARY"
    /\ configState = "Steady"
    /\ term < MaxTerm
    /\ Overlap \/ announcing = {}
    /\ \/ /\ ~voteRequester
          /\ role' = "Candidate"
          /\ \/ /\ dryRun
                /\ phase' = "dryRun" /\ electTerm' = term
                /\ voteRequester' = TRUE
                /\ UNCHANGED term
             \/ /\ ~dryRun
                /\ phase' = "lastVote" /\ electTerm' = term + 1
                /\ term' = term + 1
                /\ UNCHANGED voteRequester
          /\ UNCHANGED <<leaderMode, followerMode, electable, member, config,
                         pendingTerm, stepDowns, announcing, command, drain, failed>>
       \/ voteRequester /\ Fail("VoteRequesterLeftOver")

\* Mutant: the term is not compared with that of the dry run.
ProcessDryRunResultOfAnyTerm ==
    /\ phase = "dryRun"
    /\ \/ /\ term' = term + 1
          /\ phase' = "lastVote" /\ electTerm' = term + 1
          /\ UNCHANGED <<role, leaderMode, followerMode, electable, member, config,
                         pendingTerm, stepDowns, voteRequester, announcing, command,
                         drain, failed>>
       \/ LoseElection

\* _processDryRunResult and _startRealElection_inlock.
ProcessDryRunResult ==
    /\ phase = "dryRun"
    /\ \/ /\ term = electTerm
          /\ term' = term + 1
          /\ phase' = "lastVote" /\ electTerm' = term + 1
          /\ UNCHANGED <<role, leaderMode, followerMode, electable, member, config,
                         pendingTerm, stepDowns, voteRequester, announcing, command,
                         drain, failed>>
       \/ LoseElection

\* _writeLastVoteForMyElection: the write may fail, the term may have changed.
WriteLastVoteForMyElection ==
    /\ phase = "lastVote"
    /\ \/ /\ term = electTerm
          /\ phase' = "voting" /\ voteRequester' = TRUE
          /\ UNCHANGED <<topology, member, config, pendingTerm, stepDowns, electTerm,
                         announcing, command, drain, failed>>
       \/ LoseElection

\* _onVoteRequestComplete up to its lk.unlock().
OnVoteRequestComplete ==
    /\ phase = "voting"
    /\ \/ /\ term = electTerm
          /\ phase' = "won" /\ voteRequester' = FALSE
          /\ UNCHANGED <<topology, member, config, pendingTerm, stepDowns, electTerm,
                         announcing, command, drain, failed>>
       \/ LoseElection

\* kActionWinElection: processWinElection, then _mutex is released again.
WinElection ==
    /\ phase = "won"
    /\ \/ /\ role = "Candidate" /\ leaderMode = "kNotLeader" /\ ~canWrite
          /\ role' = "Leader" /\ leaderMode' = "kLeaderElect"
          /\ UpdateMemberState
          /\ phase' = "none" /\ electTerm' = 0
          /\ announcing' = announcing \cup {electTerm}
          /\ UNCHANGED <<term, followerMode, electable, config, pendingTerm,
                         stepDowns, voteRequester, command, drain, failed>>
       \/ /\ ~(role = "Candidate" /\ leaderMode = "kNotLeader" /\ ~canWrite)
          /\ Fail("WinnerNotCandidate")

\* The rest of kActionWinElection: enter catch-up mode, or drain mode at once
\* where there is no catch-up, unless the member is no longer primary.  Then
\* the event of this election is signalled.
StartCatchup(t) ==
    /\ t \in announcing
    /\ \/ /\ role # "Leader"
          /\ announcing' = announcing \ {t}
          /\ UNCHANGED <<applier, catchup, failed>>
       \/ /\ role = "Leader" /\ ~catchup
          /\ announcing' = announcing \ {t}
          /\ \/ catchup' = TRUE /\ UNCHANGED applier
             \/ applier' = "Draining" /\ UNCHANGED catchup
          /\ UNCHANGED failed
       \/ /\ role = "Leader" /\ catchup
          /\ failed' = "AlreadyInCatchup"
          /\ UNCHANGED <<applier, catchup, announcing>>
    /\ IF phase = "none" /\ \A u \in announcing : u <= t
       THEN SignalElectionFinished ELSE UNCHANGED reconfig
    /\ UNCHANGED <<topology, canWrite, configState, pendingTerm, stepDowns, phase,
                   electTerm, voteRequester, command, drain>>

-----------------------------------------------------------------------------
(* From leader-elect to master. *)

\* CatchupState::abort_inlock: caught up, timed out or aborted by a command.
AbortCatchup ==
    /\ catchup
    /\ \/ /\ role = "Leader"
          /\ applier' = "Draining" /\ catchup' = FALSE
          /\ UNCHANGED <<topology, canWrite, config, pendingTerm, stepDowns, election,
                         command, drain, failed>>
       \/ role # "Leader" /\ Fail("CatchupNotPrimary")

\* The applier reads the term, then finds its buffer empty ...
BufferIsEmpty ==
    /\ drain.stage = "idle"
    /\ drain' = [stage |-> "empty", term |-> term]
    /\ UNCHANGED <<topology, member, config, pendingTerm, stepDowns, election,
                   command, failed>>

\* ... and calls signalDrainComplete, which first looks whether anybody waits.
SignalDrainComplete ==
    /\ drain.stage = "empty"
    /\ drain' = IF applier = "Draining" THEN [drain EXCEPT !.stage = "signalled"]
                                        ELSE NoDrain
    /\ UNCHANGED <<topology, member, config, pendingTerm, stepDowns, election,
                   command, failed>>

\* TopologyCoordinator::canCompleteTransitionToPrimary.
CanCompleteTransitionToPrimary(t) ==
    t = term /\ leaderMode \in {"kLeaderElect", "kAttemptingStepDown"}

\* It takes the global lock, checks again and leaves drain mode.
StartTransitionToPrimary ==
    /\ drain.stage = "signalled"
    /\ LET transition == applier = "Draining"
                         /\ CanCompleteTransitionToPrimary(drain.term)
       IN  \/ /\ transition /\ role = "Leader" /\ ~canWrite
              /\ applier' = "Stopped"
              /\ drain' = [drain EXCEPT !.stage = "transition"]
              /\ UNCHANGED <<topology, canWrite, catchup, config, pendingTerm,
                             stepDowns, election, command, failed>>
           \/ /\ ~transition
              /\ drain' = NoDrain
              /\ UNCHANGED <<topology, member, config, pendingTerm, stepDowns,
                             election, command, failed>>
           \/ /\ transition /\ ~(role = "Leader" /\ ~canWrite)
              /\ Fail("DrainNotPrimary")

\* onTransitionToPrimary has written the first entry of the term:
\* completeTransitionToPrimary, unless the member steps down by now.
CompleteTransitionToPrimary ==
    /\ drain.stage = "transition"
    /\ drain' = NoDrain
    /\ IF CanCompleteTransitionToPrimary(term)
       THEN /\ leaderMode' = IF leaderMode = "kLeaderElect" THEN "kMaster"
                                                            ELSE leaderMode
            /\ UNCHANGED role
            /\ UpdateMemberState
       ELSE UNCHANGED <<role, leaderMode, member>>
    /\ UNCHANGED <<term, followerMode, electable, config, pendingTerm, stepDowns,
                   election, command, failed>>

-----------------------------------------------------------------------------
(* Unconditional step-down. *)

\* Mutant: the step-down is prepared but not scheduled.
StepDownStartUnscheduled ==
    leaderMode' = "kSteppingDown" /\ UNCHANGED stepDowns

\* prepareForUnconditionalStepDown and _stepDownStart.
StepDownStart ==
    IF leaderMode = "kSteppingDown"
    THEN UNCHANGED <<leaderMode, stepDowns>>
    ELSE leaderMode' = "kSteppingDown" /\ stepDowns' = stepDowns + 1

\* Mutant: a primary adopts the newer term before it has stepped down.
UpdateTermAtOnce(t) ==
    /\ t > term
    /\ term' = t
    /\ IF role = "Leader" THEN StepDownStart ELSE UNCHANGED <<leaderMode, stepDowns>>
    /\ UNCHANGED <<role, followerMode, electable, member, config, pendingTerm,
                   election, command, drain, failed>>

\* _updateTerm_inlock for a newer term from a message.
UpdateTerm(t) ==
    /\ t > term
    /\ \/ /\ role # "Leader"
          /\ term' = t
          /\ UNCHANGED <<leaderMode, pendingTerm, stepDowns>>
       \/ /\ role = "Leader"
          /\ t > pendingTerm \/ leaderMode # "kSteppingDown"
          /\ pendingTerm' = IF t > pendingTerm THEN t ELSE pendingTerm
          /\ StepDownStart
          /\ UNCHANGED term
    /\ UNCHANGED <<role, followerMode, electable, member, config, election, command,
                   drain, failed>>

\* HeartbeatResponseAction::StepDownSelf: no majority is up.
StepDownSelf ==
    /\ role = "Leader" /\ leaderMode # "kSteppingDown"
    /\ StepDownStart
    /\ UNCHANGED <<term, role, followerMode, electable, member, config, pendingTerm,
                   election, command, drain, failed>>

\* _stepDownFinish.
StepDownFinish ==
    /\ stepDowns > 0 /\ GlobalLockFree
    /\ \/ /\ leaderMode = "kSteppingDown"      \* finishUnconditionalStepDown
          /\ BecomeFollower
          /\ term' = IF pendingTerm > term THEN pendingTerm ELSE term
          /\ pendingTerm' = 0
          /\ stepDowns' = stepDowns - 1
          /\ UNCHANGED <<followerMode, electable, config, election, command, drain,
                         failed>>
       \/ /\ leaderMode # "kSteppingDown"
          /\ Fail("NotSteppingDown")

-----------------------------------------------------------------------------
(* The replSetStepDown command. *)

\* prepareForStepDownAttempt and a first attemptStepDown that succeeds.  (One
\* that throws undoes all of it at once.)
StepDownAtOnce(c) ==
    /\ command[c].stage = "idle" /\ GlobalLockFree
    /\ leaderMode \in {"kMaster", "kLeaderElect"}
    /\ BecomeFollower
    /\ UNCHANGED <<term, followerMode, electable, config, pendingTerm, stepDowns,
                   election, command, drain, failed>>

\* ... a first attempt that has to wait for the secondaries.
StartStepDownAttempt(c) ==
    /\ command[c].stage = "idle" /\ GlobalLockFree
    /\ leaderMode \in {"kMaster", "kLeaderElect"}
    /\ command' = [command EXCEPT ![c] =
                     [stage |-> "waiting", term |-> term, mode |-> leaderMode]]
    /\ leaderMode' = "kAttemptingStepDown"
    /\ UNCHANGED role
    /\ UpdateMemberState
    /\ UNCHANGED <<term, followerMode, electable, config, pendingTerm, stepDowns,
                   election, drain, failed>>

\* Mutant: a failed attempt gives every member its writes back.
AbortStepDownAttemptToMaster(c) ==
    /\ leaderMode' = IF leaderMode = "kAttemptingStepDown" THEN "kMaster"
                                                           ELSE leaderMode
    /\ UNCHANGED role
    /\ UpdateMemberState
    /\ command' = [command EXCEPT ![c] = NoCommand]
    /\ UNCHANGED <<term, followerMode, electable, config, pendingTerm, stepDowns,
                   election, drain, failed>>

\* Mutant: the attempt is not aborted when it fails.
LeaveStepDownAttempt(c) ==
    /\ command' = [command EXCEPT ![c] = NoCommand]
    /\ UNCHANGED <<topology, member, config, pendingTerm, stepDowns, election, drain,
                   failed>>

\* onExitGuard: abortFn and updateMemberState.
AbortStepDownAttempt(c) ==
    /\ leaderMode' = IF leaderMode = "kAttemptingStepDown" THEN command[c].mode
                                                           ELSE leaderMode
    /\ UNCHANGED role
    /\ UpdateMemberState
    /\ command' = [command EXCEPT ![c] = NoCommand]
    /\ UNCHANGED <<term, followerMode, electable, config, pendingTerm, stepDowns,
                   election, drain, failed>>

\* The waiting thread has the global lock again.  It was interrupted, or
\* attemptStepDown throws: the member has stepped down otherwise, or time is up.
StepDownAttemptThrows(c) ==
    /\ command[c].stage = "waiting" /\ GlobalLockFree
    /\ AbortStepDownAttempt(c)

\* ... or attemptStepDown succeeds, which expects its own attempt under way.
AttemptStepDown(c) ==
    /\ command[c].stage = "waiting" /\ GlobalLockFree
    /\ role = "Leader" /\ leaderMode # "kSteppingDown" /\ term = command[c].term
    /\ \/ /\ leaderMode = "kAttemptingStepDown"
          /\ BecomeFollower
          /\ command' = [command EXCEPT ![c] = NoCommand]
          /\ UNCHANGED <<term, followerMode, electable, config, pendingTerm,
                         stepDowns, election, drain, failed>>
       \/ /\ leaderMode # "kAttemptingStepDown"
          /\ Fail("NotAttempting")

-----------------------------------------------------------------------------
(* Reconfiguration and follower mode. *)

\* _cancelElectionIfNeeded_inlock finds no VoteRequester to cancel.
NothingToCancel ==
    role = "Candidate" /\ ~voteRequester
      /\ Fail("NoVoteRequester")

\* processReplSetReconfig, up to the release of _mutex.
StartReconfig(kind, e) ==
    /\ kind \in {"safe", "force"} /\ configState = "Steady"
    /\ kind = "safe" => role = "Leader" /\ e
    /\ configState' = "Reconfiguring"
    /\ reconfig' = [kind |-> kind, electable |-> e, stage |-> "storing"]
    /\ UNCHANGED <<topology, member, pendingTerm, stepDowns, election, command, drain,
                   failed>>

\* _scheduleHeartbeatReconfig_inlock.  A running election is cancelled and the
\* configuration stored when it has finished.
ScheduleHeartbeatReconfig(e) ==
    /\ configState = "Steady"
    /\ \/ /\ role = "Candidate" => voteRequester
          /\ configState' = "HBReconfiguring"
          /\ reconfig' = [kind |-> "heartbeat", electable |-> e,
                          stage |-> IF role = "Candidate" THEN "queued" ELSE "storing"]
          /\ UNCHANGED <<topology, member, pendingTerm, stepDowns, election, command,
                         drain, failed>>
       \/ NothingToCancel

\* The new configuration is invalid, finds no quorum or cannot be stored.
ReconfigFails ==
    /\ reconfig.stage = "storing"
    /\ configState' = "Steady" /\ reconfig' = NoReconfig
    /\ UNCHANGED <<topology, member, pendingTerm, stepDowns, election, command,
                   drain, failed>>

\* _cancelElectionIfNeeded_inlock: go on when the cancelled election has finished.
WaitForElection ==
    /\ role = "Candidate" /\ voteRequester
    /\ reconfig' = [reconfig EXCEPT !.stage = "waiting"]
    /\ UNCHANGED <<topology, member, configState, pendingTerm, stepDowns, election,
                   command, drain, failed>>

\* TopologyCoordinator::updateConfig.
UpdateConfig ==
    /\ electable' = reconfig.electable
    /\ IF role = "Leader" /\ ~reconfig.electable
       THEN role' = "Follower" /\ leaderMode' = "kNotLeader"
       ELSE UNCHANGED <<role, leaderMode>>

\* _setCurrentRSConfig_inlock.  Changing canWrite without the global lock fails.
SetCurrentRSConfig(locked) ==
    /\ role # "Candidate"
    /\ configState' = "Steady" /\ reconfig' = NoReconfig
    /\ UpdateConfig
    /\ UpdateMemberState
    /\ failed' = IF canWrite' # canWrite /\ ~locked
                 THEN "GlobalLockNotHeld" ELSE failed
    /\ UNCHANGED <<term, followerMode, pendingTerm, stepDowns, election, command,
                   drain>>

\* _finishReplSetReconfig: only a forced one takes the global lock.
FinishReplSetReconfig ==
    /\ reconfig.kind \in {"safe", "force"}
    /\ reconfig.stage \in {"storing", "finishing"}
    /\ reconfig.kind = "force" => GlobalLockFree
    /\ \/ WaitForElection
       \/ NothingToCancel
       \/ SetCurrentRSConfig(reconfig.kind = "force")

\* _heartbeatReconfigFinish: a primary takes the global lock.
HeartbeatReconfigFinish ==
    /\ reconfig.kind = "heartbeat"
    /\ reconfig.stage \in {"storing", "finishing"}
    /\ role = "Leader" => GlobalLockFree
    /\ \/ WaitForElection
       \/ NothingToCancel
       \/ SetCurrentRSConfig(role = "Leader")

\* setFollowerMode.  A running election is cancelled and the caller retries.
SetFollowerMode(mode) ==
    /\ mode # followerMode
    /\ \/ /\ role = "Follower"
          /\ followerMode' = mode
          /\ UNCHANGED <<term, role, leaderMode, electable, member, config,
                         pendingTerm, stepDowns, election, command, drain, failed>>
       \/ NothingToCancel

-----------------------------------------------------------------------------
ElectionStep ==
    \/ \E dryRun \in BOOLEAN : StartElection(dryRun)
    \/ ProcessDryRunResult \/ WriteLastVoteForMyElection \/ OnVoteRequestComplete
    \/ WinElection
    \/ \E t \in announcing : StartCatchup(t)

TransitionStep ==
    \/ AbortCatchup \/ BufferIsEmpty \/ SignalDrainComplete
    \/ StartTransitionToPrimary \/ CompleteTransitionToPrimary

StepDownStep ==
    \/ \E t \in Term : UpdateTerm(t)
    \/ StepDownSelf \/ StepDownFinish
    \/ \E c \in Command : \/ StepDownAtOnce(c) \/ StartStepDownAttempt(c)
                          \/ StepDownAttemptThrows(c) \/ AttemptStepDown(c)

ConfigStep ==
    \/ \E kind \in ReconfigKind, e \in BOOLEAN : StartReconfig(kind, e)
    \/ "heartbeat" \in ReconfigKind /\ \E e \in BOOLEAN : ScheduleHeartbeatReconfig(e)
    \/ ReconfigFails \/ FinishReplSetReconfig \/ HeartbeatReconfigFinish
    \/ \E mode \in {"SECONDARY", "ROLLBACK"} : SetFollowerMode(mode)

Next ==
    /\ failed = "none"
    /\ ElectionStep \/ TransitionStep \/ StepDownStep \/ ConfigStep

Spec == Init /\ [][Next]_vars

\* The process has not aborted.
Alive == failed = "none"

\* The executor runs what is scheduled, a waiting command times out at the
\* latest, and the global lock is granted in the order of the requests.
FairSpec ==
    /\ Spec
    /\ WF_vars(Alive /\ ProcessDryRunResult)
    /\ WF_vars(Alive /\ WriteLastVoteForMyElection)
    /\ WF_vars(Alive /\ OnVoteRequestComplete)
    /\ WF_vars(Alive /\ WinElection)
    /\ WF_vars(Alive /\ \E t \in announcing : StartCatchup(t))
    /\ WF_vars(Alive /\ CompleteTransitionToPrimary)
    /\ WF_vars(Alive /\ StepDownFinish)
    /\ WF_vars(Alive /\ FinishReplSetReconfig)
    /\ WF_vars(Alive /\ HeartbeatReconfigFinish)
    /\ \A c \in Command : WF_vars(Alive /\ StepDownAttemptThrows(c))

-----------------------------------------------------------------------------
(* Properties. *)

\* Every variable has its type.
TypeOK ==
    /\ term \in Term /\ role \in Role /\ leaderMode \in LeaderMode
    /\ followerMode \in {"SECONDARY", "ROLLBACK"} /\ electable \in BOOLEAN
    /\ canWrite \in BOOLEAN
    /\ applier \in {"Running", "Draining", "Stopped"} /\ catchup \in BOOLEAN
    /\ configState \in {"Steady", "Reconfiguring", "HBReconfiguring"}
    /\ reconfig \in Reconfiguration
    /\ pendingTerm \in Term /\ stepDowns \in Nat
    /\ phase \in {"none", "dryRun", "lastVote", "voting", "won"}
    /\ electTerm \in Term /\ voteRequester \in BOOLEAN
    /\ announcing \subseteq Term
    /\ command \in [Command -> StepDownAttempt]
    /\ drain \in Drain
    /\ failed \in Failure

\* Client writes are accepted only by a primary whose applier has drained, and
\* never in the middle of a step-down attempt (canAcceptWrites, abortFn,
\* signalDrainComplete).
WritesOnlyAfterDrain ==
    canWrite => /\ role = "Leader" /\ leaderMode \in {"kMaster", "kSteppingDown"}
                /\ applier = "Stopped" /\ ~catchup

\* A primary that has finished its drain becomes master, also if a step-down
\* attempt in between fails (canCompleteTransitionToPrimary).
DrainedLeaderIsMaster ==
    leaderMode = "kLeaderElect" /\ applier = "Stopped" => drain.stage = "transition"

\* The term does not change while the member is primary (updateTerm).
TermFixedWhileLeader ==
    [][role = "Leader" /\ role' = "Leader" => term' = term]_vars

\* A step-down that was started finds the member still stepping down when it
\* finishes (finishUnconditionalStepDown).
StepDownFinishesOnce == failed # "NotSteppingDown"

\* Whoever cancels an election finds its VoteRequester
\* (_cancelElectionIfNeeded_inlock).
CancelFindsVoteRequester == failed # "NoVoteRequester"

\* Whether the member accepts writes changes under the global lock only
\* (_updateMemberStateFromTopologyCoordinator_inlock).
WritesSwitchUnderGlobalLock == failed # "GlobalLockNotHeld"

\* Catch-up is not under way when the callback of a won election starts it
\* (kActionWinElection).
CatchupStartsOnce == failed # "AlreadyInCatchup"

\* The other invariants of the handlers: those of _startElectSelfV1_inlock,
\* processWinElection, CatchupState::abort_inlock, signalDrainComplete and
\* attemptStepDown.
OtherInvariantsHold ==
    failed \notin {"VoteRequesterLeftOver", "WinnerNotCandidate", "CatchupNotPrimary",
                   "DrainNotPrimary", "NotAttempting"}

\* A member that is stepping down leaves the leader role (_stepDownStart
\* schedules _stepDownFinish).
StepDownEnds ==
    leaderMode = "kSteppingDown" ~> leaderMode # "kSteppingDown" \/ failed # "none"

\* A reconfiguration ends, also when it has to wait for an election that it has
\* cancelled (_finishReplSetReconfig, _heartbeatReconfigFinish).
ReconfigEnds == configState # "Steady" ~> configState = "Steady" \/ failed # "none"

\* A step-down attempt, which forbids writes, does not last: the command steps
\* the member down or gives it its mode back (stepDown and its onExitGuard).
AttemptEnds ==
    leaderMode = "kAttemptingStepDown"
      ~> leaderMode # "kAttemptingStepDown" \/ failed # "none"
=============================================================================
