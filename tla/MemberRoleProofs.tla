-------------------------- MODULE MemberRoleProofs --------------------------
(***************************************************************************)
(* Theorems about module MemberRole, for every bound on the terms.         *)
(***************************************************************************)
EXTENDS MemberRole, TLAPS

-----------------------------------------------------------------------------
(* The inductive invariants. *)

\* At most one replSetStepDown command at a time.
SingleCommand == \A c, d \in Command : c = d

\* What the handlers know of each other's state without looking at it: leader
\* mode and role agree, an election is under way exactly for a candidate, a
\* VoteRequester exists only for an election, catch-up and drain only for a
\* leader, and writes are never left on by a step-down attempt.
RoleInv ==
    /\ role = "Leader" <=> leaderMode # "kNotLeader"
    /\ role = "Candidate" <=> phase # "none"
    /\ phase \in {"none", "won"} => ~voteRequester
    /\ phase = "dryRun" => electTerm < MaxTerm
    /\ catchup \/ applier # "Running" => role = "Leader"
    /\ canWrite => leaderMode \in {"kMaster", "kSteppingDown"}
    /\ \A c \in Command : command[c].stage = "waiting" =>
         command[c].mode \in {"kMaster", "kLeaderElect"}

\* A waiting step-down command knows a term that the member has left unless it
\* is still the primary that the command has found.
CommandInv ==
    /\ \A c \in Command : command[c].stage = "waiting" =>
         /\ command[c].term <= term
         /\ phase \in {"lastVote", "voting", "won"} => command[c].term < electTerm
         /\ role = "Leader" /\ term = command[c].term
              => leaderMode \in {"kAttemptingStepDown", "kSteppingDown"}
    /\ phase \in {"lastVote", "voting", "won"} => electTerm <= term
    /\ leaderMode = "kAttemptingStepDown" =>
         \A c \in Command : command[c].stage = "waiting"

\* Where the applier is: it is stopped under a master, also under one that
\* attempts to step down, and the callback that starts catch-up or drain is
\* the last one of its election.
DrainInv ==
    /\ leaderMode = "kMaster" \/ canWrite => applier = "Stopped"
    /\ leaderMode = "kAttemptingStepDown" =>
         \A c \in Command : command[c].mode = "kMaster" => applier = "Stopped"
    /\ drain.stage = "transition" => role = "Leader" /\ applier = "Stopped"
    /\ catchup => applier = "Running"
    /\ announcing # {} => applier = "Running" /\ ~catchup /\ phase = "none"
    /\ \A t, u \in announcing : t = u
    /\ reconfig.kind = "safe" => reconfig.electable

-----------------------------------------------------------------------------
(* Types and roles, for any number of commands. *)

\* A member that starts as a follower satisfies the invariants.
LEMMA RoleInit == Init => TypeOK /\ RoleInv
<1> SUFFICES ASSUME Init PROVE TypeOK /\ RoleInv
  OBVIOUS
<1>1. 0 \in Term
  BY MaxTermAssumption DEF Term
<1>2. TypeOK
  BY <1>1 DEF Init, TypeOK, Role, LeaderMode, Reconfiguration, NoReconfig,
     StepDownAttempt, NoCommand, Drain, NoDrain, Failure
<1>3. RoleInv
  BY DEF Init, RoleInv, NoCommand
<1> QED BY <1>2, <1>3

\* A failing assertion changes nothing but the outcome.
LEMMA FailKeeps ==
    ASSUME TypeOK, RoleInv, NEW f \in Failure, Fail(f)
    PROVE  TypeOK' /\ RoleInv'
<1>1. TypeOK'
  BY DEF TypeOK, Fail, topology, member, config, election
<1>2. RoleInv'
  BY DEF RoleInv, Fail, topology, member, config, election
<1> QED BY <1>1, <1>2

\* The end of an election may let a reconfiguration go on, which stays the same.
LEMMA SignalFacts ==
    ASSUME reconfig \in Reconfiguration, SignalElectionFinished
    PROVE  /\ reconfig' \in Reconfiguration
           /\ reconfig'.kind = reconfig.kind
           /\ reconfig'.electable = reconfig.electable
<1>1. CASE reconfig.stage = "queued"
  BY <1>1 DEF SignalElectionFinished, Reconfiguration
<1>2. CASE reconfig.stage = "waiting"
  BY <1>2 DEF SignalElectionFinished, Reconfiguration
<1>3. CASE reconfig.stage \notin {"queued", "waiting"}
  BY <1>3 DEF SignalElectionFinished, Reconfiguration
<1> QED BY <1>1, <1>2, <1>3

\* A lost election leaves a follower without a VoteRequester.
LEMMA LoseKeeps ==
    ASSUME TypeOK, RoleInv, role = "Candidate", LoseElection
    PROVE  TypeOK' /\ RoleInv'
<1>1. reconfig' \in Reconfiguration
  BY SignalFacts DEF TypeOK, LoseElection
<1>2. 0 \in Term /\ role' \in Role
  BY MaxTermAssumption DEF LoseElection, Term, Role
<1>3. TypeOK'
  BY <1>1, <1>2 DEF TypeOK, LoseElection, member
<1>4. leaderMode = "kNotLeader" /\ ~catchup /\ applier = "Running"
  BY DEF RoleInv, TypeOK
<1>5. RoleInv'
  BY <1>4 DEF RoleInv, LoseElection, member
<1> QED BY <1>3, <1>5

\* _updateMemberStateFromTopologyCoordinator_inlock keeps the types, and ends
\* catch-up and drain where the leader role ends.
LEMMA MemberStateFacts ==
    ASSUME TypeOK, UpdateMemberState
    PROVE  /\ canWrite' \in BOOLEAN
           /\ applier' \in {"Running", "Draining", "Stopped"}
           /\ catchup' \in BOOLEAN
           /\ canWrite' => leaderMode' = "kMaster"
           /\ role = "Leader" /\ role' # "Leader" => applier' = "Running" /\ ~catchup'
           /\ role # "Leader" \/ role' = "Leader" => UNCHANGED <<applier, catchup>>
<1>1. canWrite' \in BOOLEAN /\ (canWrite' => leaderMode' = "kMaster")
  BY DEF UpdateMemberState
<1>2. CASE role = "Leader" /\ role' # "Leader"
  BY <1>1, <1>2 DEF UpdateMemberState
<1>3. CASE ~(role = "Leader" /\ role' # "Leader")
  <2>1. UNCHANGED <<applier, catchup>>
    BY <1>3 DEF UpdateMemberState
  <2> QED BY <1>1, <1>3, <2>1 DEF TypeOK
<1> QED BY <1>2, <1>3

\* Leaving the leader role keeps the invariants.
LEMMA BecomeFollowerKeeps ==
    ASSUME TypeOK, RoleInv, role = "Leader", BecomeFollower, UNCHANGED election,
           \A c \in Command : command'[c] \in {command[c], NoCommand}
    PROVE  RoleInv'
<1>1. /\ role' = "Follower" /\ leaderMode' = "kNotLeader" /\ role' # "Leader"
      /\ UpdateMemberState
  BY DEF BecomeFollower
<1>2. ~canWrite' /\ ~catchup' /\ applier' = "Running"
  BY <1>1, MemberStateFacts
<1>3. phase' = "none" /\ ~voteRequester'
  BY DEF RoleInv, election
<1>4. \A c \in Command : command'[c].stage = "waiting" =>
                           command'[c].mode \in {"kMaster", "kLeaderElect"}
  BY DEF RoleInv, NoCommand
<1> QED BY <1>1, <1>2, <1>3, <1>4 DEF RoleInv

\* Every step keeps the types.
LEMMA TypeStep ==
    ASSUME TypeOK, RoleInv, Next \/ UNCHANGED vars
    PROVE  TypeOK'
<1> USE MaxTermAssumption DEF TypeOK, Term, topology, member, config, election
<1>1. ASSUME NEW dryRun \in BOOLEAN, StartElection(dryRun) PROVE TypeOK'
  <2>1. CASE ~voteRequester
    <3>1. phase' \in {"dryRun", "lastVote"} /\ role' = "Candidate"
      BY <1>1, <2>1 DEF StartElection
    <3>2. term' \in Term /\ electTerm' \in Term
      <4>1. term + 1 \in Term
        BY <1>1 DEF StartElection
      <4>2. term' \in {term, term + 1} /\ electTerm' \in {term, term + 1}
        BY <1>1, <2>1 DEF StartElection
      <4> QED BY <4>1, <4>2
    <3>4. voteRequester' \in BOOLEAN
      BY <1>1, <2>1 DEF StartElection
    <3>3. UNCHANGED <<leaderMode, followerMode, electable, member, config, pendingTerm,
                      stepDowns, announcing, command, drain, failed>>
      BY <1>1, <2>1 DEF StartElection
    <3> QED BY <3>1, <3>2, <3>3, <3>4 DEF Role
  <2>2. CASE voteRequester
    BY <1>1, <2>2, FailKeeps DEF StartElection, Failure
  <2> QED BY <2>1, <2>2
<1>2. ASSUME ProcessDryRunResult PROVE TypeOK'
  <2>1. role = "Candidate"
    BY <1>2 DEF ProcessDryRunResult, RoleInv
  <2>2. CASE LoseElection
    BY <2>1, <2>2, LoseKeeps
  <2>3. CASE ~LoseElection
    <3>1. term' \in Term /\ electTerm' \in Term
      BY <1>2, <2>3 DEF ProcessDryRunResult, RoleInv
    <3> QED BY <1>2, <2>3, <3>1 DEF ProcessDryRunResult
  <2> QED BY <2>2, <2>3
<1>3. ASSUME WriteLastVoteForMyElection PROVE TypeOK'
  <2>1. CASE LoseElection
    BY <1>3, <2>1, LoseKeeps DEF WriteLastVoteForMyElection, RoleInv
  <2>2. CASE ~LoseElection
    BY <1>3, <2>2 DEF WriteLastVoteForMyElection
  <2> QED BY <2>1, <2>2
<1>4. ASSUME OnVoteRequestComplete PROVE TypeOK'
  <2>1. CASE LoseElection
    BY <1>4, <2>1, LoseKeeps DEF OnVoteRequestComplete, RoleInv
  <2>2. CASE ~LoseElection
    BY <1>4, <2>2 DEF OnVoteRequestComplete
  <2> QED BY <2>1, <2>2
<1>5. ASSUME WinElection PROVE TypeOK'
  <2>1. CASE Fail("WinnerNotCandidate")
    BY <2>1, FailKeeps DEF Failure
  <2>2. CASE ~Fail("WinnerNotCandidate")
    <3>1. UpdateMemberState /\ role' \in Role /\ leaderMode' \in LeaderMode
      BY <1>5, <2>2 DEF WinElection, Role, LeaderMode
    <3>2. phase' = "none" /\ electTerm' = 0 /\ announcing' = announcing \cup {electTerm}
      BY <1>5, <2>2 DEF WinElection
    <3>3. UNCHANGED <<term, followerMode, electable, config, pendingTerm, stepDowns,
                      voteRequester, command, drain, failed>>
      BY <1>5, <2>2 DEF WinElection
    <3> QED BY <3>1, <3>2, <3>3, MemberStateFacts
  <2> QED BY <2>1, <2>2
<1>6. ASSUME NEW t \in announcing, StartCatchup(t) PROVE TypeOK'
  <2>1. reconfig' \in Reconfiguration
    BY <1>6, SignalFacts DEF StartCatchup
  <2>2. announcing' \subseteq Term /\ failed' \in Failure
    BY <1>6 DEF StartCatchup, Failure
  <2>3. /\ applier' \in {"Running", "Draining", "Stopped"}
        /\ catchup' \in BOOLEAN
    BY <1>6 DEF StartCatchup
  <2> QED BY <1>6, <2>1, <2>2, <2>3 DEF StartCatchup
<1>7. ASSUME AbortCatchup PROVE TypeOK'
  <2>1. CASE role = "Leader"
    BY <1>7, <2>1 DEF AbortCatchup
  <2>2. CASE role # "Leader"
    BY <1>7, <2>2, FailKeeps DEF AbortCatchup, Failure
  <2> QED BY <2>1, <2>2
<1>8. ASSUME BufferIsEmpty PROVE TypeOK'
  BY <1>8 DEF Role, LeaderMode, Reconfiguration, StepDownAttempt, Drain,
     BufferIsEmpty
<1>9. ASSUME SignalDrainComplete PROVE TypeOK'
  BY <1>9 DEF Role, LeaderMode, Reconfiguration, StepDownAttempt, Drain,
     SignalDrainComplete, NoDrain
<1>10. ASSUME StartTransitionToPrimary PROVE TypeOK'
  <2>1. CASE Fail("DrainNotPrimary")
    BY <2>1, FailKeeps DEF Failure
  <2>2. CASE ~Fail("DrainNotPrimary")
    BY <1>10, <2>2 DEF StartTransitionToPrimary, Drain, NoDrain
  <2> QED BY <2>1, <2>2
<1>11. ASSUME CompleteTransitionToPrimary PROVE TypeOK'
  <2>1. drain' \in Drain
    BY <1>11 DEF CompleteTransitionToPrimary, Drain, NoDrain
  <2>2. CASE CanCompleteTransitionToPrimary(term)
    BY <1>11, <2>1, <2>2, MemberStateFacts DEF CompleteTransitionToPrimary, LeaderMode
  <2>3. CASE ~CanCompleteTransitionToPrimary(term)
    BY <1>11, <2>1, <2>3 DEF CompleteTransitionToPrimary
  <2> QED BY <2>2, <2>3
<1>12. ASSUME NEW t \in Term, UpdateTerm(t) PROVE TypeOK'
  BY <1>12 DEF Role, LeaderMode, Reconfiguration, StepDownAttempt, Drain,
     UpdateTerm, StepDownStart
<1>13. ASSUME StepDownSelf PROVE TypeOK'
  BY <1>13 DEF Role, LeaderMode, Reconfiguration, StepDownAttempt, Drain,
     StepDownSelf, StepDownStart
<1>14. ASSUME StepDownFinish PROVE TypeOK'
  <2>1. CASE leaderMode = "kSteppingDown"
    <3>1. /\ role' \in Role /\ leaderMode' \in LeaderMode /\ UpdateMemberState
          /\ term' \in Term /\ pendingTerm' \in Term /\ stepDowns' \in Nat
      BY <1>14, <2>1 DEF StepDownFinish, BecomeFollower, Role, LeaderMode
    <3> QED BY <1>14, <2>1, <3>1, MemberStateFacts DEF StepDownFinish
  <2>2. CASE leaderMode # "kSteppingDown"
    BY <1>14, <2>2, FailKeeps DEF StepDownFinish, Failure
  <2> QED BY <2>1, <2>2
<1>15. ASSUME NEW c \in Command, StepDownAtOnce(c) PROVE TypeOK'
  <2>1. role' \in Role /\ leaderMode' \in LeaderMode /\ UpdateMemberState
    BY <1>15 DEF StepDownAtOnce, BecomeFollower, Role, LeaderMode
  <2> QED BY <1>15, <2>1, MemberStateFacts DEF StepDownAtOnce
<1>16. ASSUME NEW c \in Command, StartStepDownAttempt(c) PROVE TypeOK'
  <2>1. leaderMode' \in LeaderMode /\ command' \in [Command -> StepDownAttempt]
    BY <1>16 DEF StartStepDownAttempt, LeaderMode, StepDownAttempt
  <2> QED BY <1>16, <2>1, MemberStateFacts DEF StartStepDownAttempt
<1>17. ASSUME NEW c \in Command, StepDownAttemptThrows(c) PROVE TypeOK'
  <2>1. leaderMode' \in LeaderMode /\ command' \in [Command -> StepDownAttempt]
    BY <1>17 DEF StepDownAttemptThrows, AbortStepDownAttempt, LeaderMode,
       StepDownAttempt, NoCommand
  <2> QED BY <1>17, <2>1, MemberStateFacts
       DEF StepDownAttemptThrows, AbortStepDownAttempt
<1>18. ASSUME NEW c \in Command, AttemptStepDown(c) PROVE TypeOK'
  <2>1. CASE leaderMode = "kAttemptingStepDown"
    <3>1. /\ role' \in Role /\ leaderMode' \in LeaderMode /\ UpdateMemberState
          /\ command' \in [Command -> StepDownAttempt]
      BY <1>18, <2>1 DEF AttemptStepDown, BecomeFollower, Role, LeaderMode,
         StepDownAttempt, NoCommand
    <3> QED BY <1>18, <2>1, <3>1, MemberStateFacts DEF AttemptStepDown
  <2>2. CASE leaderMode # "kAttemptingStepDown"
    BY <1>18, <2>2, FailKeeps DEF AttemptStepDown, Failure
  <2> QED BY <2>1, <2>2
<1>19. ASSUME NEW kind \in ReconfigKind, NEW e \in BOOLEAN, StartReconfig(kind, e) PROVE TypeOK'
  <2>1. reconfig' \in Reconfiguration
    BY <1>19 DEF StartReconfig, Reconfiguration
  <2> QED BY <1>19, <2>1 DEF StartReconfig
<1>20. ASSUME NEW e \in BOOLEAN, ScheduleHeartbeatReconfig(e) PROVE TypeOK'
  <2>1. CASE NothingToCancel
    BY <2>1, FailKeeps DEF NothingToCancel, Failure
  <2>2. CASE ~NothingToCancel
    <3>1. reconfig' \in Reconfiguration
      BY <1>20, <2>2 DEF ScheduleHeartbeatReconfig, Reconfiguration
    <3> QED BY <1>20, <2>2, <3>1 DEF ScheduleHeartbeatReconfig
  <2> QED BY <2>1, <2>2
<1>21. ASSUME ReconfigFails PROVE TypeOK'
  BY <1>21 DEF Role, LeaderMode, Reconfiguration, StepDownAttempt, Drain,
     ReconfigFails, NoReconfig
<1>22. ASSUME FinishReplSetReconfig PROVE TypeOK'
  <2>1. CASE NothingToCancel
    BY <2>1, FailKeeps DEF NothingToCancel, Failure
  <2>2. CASE WaitForElection
    <3>1. reconfig' \in Reconfiguration
      BY <2>2 DEF WaitForElection, Reconfiguration
    <3> QED BY <2>2, <3>1 DEF WaitForElection
  <2>3. CASE SetCurrentRSConfig(reconfig.kind = "force")
    <3>1. reconfig' \in Reconfiguration /\ electable' \in BOOLEAN
      BY <2>3 DEF SetCurrentRSConfig, UpdateConfig, Reconfiguration, NoReconfig
    <3>2. role' \in Role /\ leaderMode' \in LeaderMode /\ failed' \in Failure
      BY <2>3 DEF SetCurrentRSConfig, UpdateConfig, Role, LeaderMode, Failure
    <3> QED BY <2>3, <3>1, <3>2, MemberStateFacts DEF SetCurrentRSConfig
  <2> QED BY <1>22, <2>1, <2>2, <2>3 DEF FinishReplSetReconfig
<1>23. ASSUME HeartbeatReconfigFinish PROVE TypeOK'
  <2>1. CASE NothingToCancel
    BY <2>1, FailKeeps DEF NothingToCancel, Failure
  <2>2. CASE WaitForElection
    <3>1. reconfig' \in Reconfiguration
      BY <2>2 DEF WaitForElection, Reconfiguration
    <3> QED BY <2>2, <3>1 DEF WaitForElection
  <2>3. CASE SetCurrentRSConfig(role = "Leader")
    <3>1. reconfig' \in Reconfiguration /\ electable' \in BOOLEAN
      BY <2>3 DEF SetCurrentRSConfig, UpdateConfig, Reconfiguration, NoReconfig
    <3>2. role' \in Role /\ leaderMode' \in LeaderMode /\ failed' \in Failure
      BY <2>3 DEF SetCurrentRSConfig, UpdateConfig, Role, LeaderMode, Failure
    <3> QED BY <2>3, <3>1, <3>2, MemberStateFacts DEF SetCurrentRSConfig
  <2> QED BY <1>23, <2>1, <2>2, <2>3 DEF HeartbeatReconfigFinish
<1>24. ASSUME NEW mode \in {"SECONDARY", "ROLLBACK"}, SetFollowerMode(mode) PROVE TypeOK'
  <2>1. CASE NothingToCancel
    BY <2>1, FailKeeps DEF NothingToCancel, Failure
  <2>2. CASE ~NothingToCancel
    BY <1>24, <2>2 DEF SetFollowerMode
  <2> QED BY <2>1, <2>2
<1>25. CASE UNCHANGED vars
  BY <1>25 DEF Role, LeaderMode, Reconfiguration, StepDownAttempt, Drain, vars
<1>26. QED
  BY <1>1, <1>2, <1>3, <1>4, <1>5, <1>6, <1>7, <1>8, <1>9, <1>10, <1>11, <1>12,
     <1>13, <1>14, <1>15, <1>16, <1>17, <1>18, <1>19, <1>20, <1>21, <1>22, <1>23,
     <1>24, <1>25 DEF Next, ElectionStep, TransitionStep, StepDownStep,
     ConfigStep

\* Every step keeps roles, leader modes and callbacks in agreement.
LEMMA RoleStep ==
    ASSUME TypeOK, RoleInv, Next \/ UNCHANGED vars
    PROVE  RoleInv'
<1> USE MaxTermAssumption DEF TypeOK, RoleInv, topology, member, config, election
<1>1. ASSUME NEW dryRun \in BOOLEAN, StartElection(dryRun) PROVE RoleInv'
  <2>1. CASE ~voteRequester
    <3>1. /\ phase' \in {"dryRun", "lastVote"} /\ role' = "Candidate"
          /\ phase' = "dryRun" => electTerm' < MaxTerm
      BY <1>1, <2>1 DEF StartElection
    <3>2. leaderMode = "kNotLeader" /\ ~catchup /\ applier = "Running" /\ ~canWrite
      BY <1>1 DEF StartElection
    <3>3. UNCHANGED <<leaderMode, canWrite, applier, catchup, command>>
      BY <1>1, <2>1 DEF StartElection
    <3> QED BY <3>1, <3>2, <3>3
  <2>2. CASE voteRequester
    BY <1>1, <2>2, FailKeeps DEF StartElection, Failure
  <2> QED BY <2>1, <2>2
<1>2. ASSUME ProcessDryRunResult PROVE RoleInv'
  <2>1. CASE LoseElection
    BY <1>2, <2>1, LoseKeeps DEF ProcessDryRunResult
  <2>2. CASE ~LoseElection
    BY <1>2, <2>2 DEF ProcessDryRunResult, Term
  <2> QED BY <2>1, <2>2
<1>3. ASSUME WriteLastVoteForMyElection PROVE RoleInv'
  <2>1. CASE LoseElection
    BY <1>3, <2>1, LoseKeeps DEF WriteLastVoteForMyElection
  <2>2. CASE ~LoseElection
    BY <1>3, <2>2 DEF WriteLastVoteForMyElection, Term
  <2> QED BY <2>1, <2>2
<1>4. ASSUME OnVoteRequestComplete PROVE RoleInv'
  <2>1. CASE LoseElection
    BY <1>4, <2>1, LoseKeeps DEF OnVoteRequestComplete
  <2>2. CASE ~LoseElection
    BY <1>4, <2>2 DEF OnVoteRequestComplete, Term
  <2> QED BY <2>1, <2>2
<1>5. ASSUME WinElection PROVE RoleInv'
  <2>1. CASE Fail("WinnerNotCandidate")
    BY <2>1, FailKeeps DEF Failure
  <2>2. CASE ~Fail("WinnerNotCandidate")
    <3>1. /\ role' = "Leader" /\ leaderMode' = "kLeaderElect" /\ phase' = "none"
          /\ UpdateMemberState /\ UNCHANGED <<voteRequester, command>>
      BY <1>5, <2>2 DEF WinElection
    <3>2. ~voteRequester
      BY <1>5 DEF WinElection
    <3> QED BY <3>1, <3>2, MemberStateFacts
  <2> QED BY <2>1, <2>2
<1>6. ASSUME NEW t \in announcing, StartCatchup(t) PROVE RoleInv'
  BY <1>6 DEF Role, LeaderMode, Term, StartCatchup, SignalElectionFinished
<1>7. ASSUME AbortCatchup PROVE RoleInv'
  BY <1>7 DEF Role, LeaderMode, Term, AbortCatchup, Fail
<1>8. ASSUME BufferIsEmpty PROVE RoleInv'
  BY <1>8 DEF Role, LeaderMode, Term, BufferIsEmpty
<1>9. ASSUME SignalDrainComplete PROVE RoleInv'
  BY <1>9 DEF Role, LeaderMode, Term, SignalDrainComplete, NoDrain
<1>10. ASSUME StartTransitionToPrimary PROVE RoleInv'
  BY <1>10 DEF Role, LeaderMode, Term, StartTransitionToPrimary,
     CanCompleteTransitionToPrimary, NoDrain, Fail
<1>11. ASSUME CompleteTransitionToPrimary PROVE RoleInv'
  BY <1>11 DEF Role, LeaderMode, Term, CompleteTransitionToPrimary,
     CanCompleteTransitionToPrimary, NoDrain, UpdateMemberState
<1>12. ASSUME NEW t \in Term, UpdateTerm(t) PROVE RoleInv'
  BY <1>12 DEF Role, LeaderMode, Term, UpdateTerm, StepDownStart
<1>13. ASSUME StepDownSelf PROVE RoleInv'
  BY <1>13 DEF Role, LeaderMode, Term, StepDownSelf, StepDownStart
<1>14. ASSUME StepDownFinish PROVE RoleInv'
  BY <1>14 DEF Role, LeaderMode, Term, StepDownFinish, BecomeFollower,
     UpdateMemberState, GlobalLockFree, Fail
<1>15. ASSUME NEW c \in Command, StepDownAtOnce(c) PROVE RoleInv'
  BY <1>15 DEF Role, LeaderMode, Term, StepDownAtOnce, BecomeFollower,
     UpdateMemberState, GlobalLockFree
<1>16. ASSUME NEW c \in Command, StartStepDownAttempt(c) PROVE RoleInv'
  BY <1>16 DEF Role, LeaderMode, Term, StartStepDownAttempt, UpdateMemberState,
     GlobalLockFree
<1>17. ASSUME NEW c \in Command, StepDownAttemptThrows(c) PROVE RoleInv'
  BY <1>17 DEF Role, LeaderMode, Term, StepDownAttemptThrows,
     AbortStepDownAttempt, UpdateMemberState, NoCommand, GlobalLockFree
<1>18. ASSUME NEW c \in Command, AttemptStepDown(c) PROVE RoleInv'
  BY <1>18 DEF Role, LeaderMode, Term, AttemptStepDown, BecomeFollower,
     UpdateMemberState, NoCommand, GlobalLockFree, Fail
<1>19. ASSUME NEW kind \in ReconfigKind, NEW e \in BOOLEAN, StartReconfig(kind, e) PROVE RoleInv'
  BY <1>19 DEF Role, LeaderMode, Term, StartReconfig
<1>20. ASSUME NEW e \in BOOLEAN, ScheduleHeartbeatReconfig(e) PROVE RoleInv'
  BY <1>20 DEF Role, LeaderMode, Term, ScheduleHeartbeatReconfig,
     NothingToCancel, Fail
<1>21. ASSUME ReconfigFails PROVE RoleInv'
  BY <1>21 DEF Role, LeaderMode, Term, ReconfigFails, NoReconfig
<1>22. ASSUME FinishReplSetReconfig PROVE RoleInv'
  BY <1>22 DEF Role, LeaderMode, Term, FinishReplSetReconfig, WaitForElection,
     NothingToCancel, Fail, SetCurrentRSConfig, UpdateConfig, UpdateMemberState,
     NoReconfig, GlobalLockFree
<1>23. ASSUME HeartbeatReconfigFinish PROVE RoleInv'
  BY <1>23 DEF Role, LeaderMode, Term, HeartbeatReconfigFinish, WaitForElection,
     NothingToCancel, Fail, SetCurrentRSConfig, UpdateConfig, UpdateMemberState,
     NoReconfig, GlobalLockFree
<1>24. ASSUME NEW mode \in {"SECONDARY", "ROLLBACK"}, SetFollowerMode(mode) PROVE RoleInv'
  BY <1>24 DEF Role, LeaderMode, Term, SetFollowerMode, NothingToCancel, Fail
<1>25. CASE UNCHANGED vars
  BY <1>25 DEF Role, LeaderMode, Term, vars
<1>26. QED
  BY <1>1, <1>2, <1>3, <1>4, <1>5, <1>6, <1>7, <1>8, <1>9, <1>10, <1>11, <1>12,
     <1>13, <1>14, <1>15, <1>16, <1>17, <1>18, <1>19, <1>20, <1>21, <1>22, <1>23,
     <1>24, <1>25 DEF Next, ElectionStep, TransitionStep, StepDownStep,
     ConfigStep

-----------------------------------------------------------------------------
(* Step-down commands, at most one at a time. *)

\* Every step keeps what a waiting command relies on.
LEMMA CommandStep ==
    ASSUME SingleCommand, TypeOK, RoleInv, CommandInv, Next \/ UNCHANGED vars
    PROVE  CommandInv'
<1> USE MaxTermAssumption DEF TypeOK, CommandInv, Term, topology, member, config, election
<1>1. ASSUME NEW dryRun \in BOOLEAN, StartElection(dryRun) PROVE CommandInv'
  <2>1. CASE ~voteRequester
    <3>1. /\ leaderMode = "kNotLeader" /\ role' = "Candidate"
          /\ UNCHANGED <<leaderMode, command>>
      BY <1>1, <2>1 DEF StartElection, RoleInv
    <3>2. \/ phase' = "dryRun" /\ term' = term
          \/ phase' = "lastVote" /\ term' = term + 1 /\ electTerm' = term + 1
      BY <1>1, <2>1 DEF StartElection
    <3> QED BY <3>1, <3>2 DEF StepDownAttempt
  <2>2. CASE voteRequester
    BY <1>1, <2>2 DEF StartElection, Fail
  <2> QED BY <2>1, <2>2
<1>2. ASSUME ProcessDryRunResult PROVE CommandInv'
  BY <1>2 DEF StepDownAttempt, RoleInv, ProcessDryRunResult, LoseElection,
     SignalElectionFinished
<1>3. ASSUME WriteLastVoteForMyElection PROVE CommandInv'
  BY <1>3 DEF StepDownAttempt, RoleInv, WriteLastVoteForMyElection, LoseElection,
     SignalElectionFinished
<1>4. ASSUME OnVoteRequestComplete PROVE CommandInv'
  BY <1>4 DEF StepDownAttempt, RoleInv, OnVoteRequestComplete, LoseElection,
     SignalElectionFinished
<1>5. ASSUME WinElection PROVE CommandInv'
  BY <1>5 DEF StepDownAttempt, RoleInv, WinElection, UpdateMemberState, Fail
<1>6. ASSUME NEW t \in announcing, StartCatchup(t) PROVE CommandInv'
  BY <1>6 DEF StepDownAttempt, RoleInv, StartCatchup, SignalElectionFinished
<1>7. ASSUME AbortCatchup PROVE CommandInv'
  BY <1>7 DEF StepDownAttempt, RoleInv, AbortCatchup, Fail
<1>8. ASSUME BufferIsEmpty PROVE CommandInv'
  BY <1>8 DEF StepDownAttempt, RoleInv, BufferIsEmpty
<1>9. ASSUME SignalDrainComplete PROVE CommandInv'
  BY <1>9 DEF StepDownAttempt, RoleInv, SignalDrainComplete, NoDrain
<1>10. ASSUME StartTransitionToPrimary PROVE CommandInv'
  BY <1>10 DEF StepDownAttempt, RoleInv, StartTransitionToPrimary,
     CanCompleteTransitionToPrimary, NoDrain, Fail
<1>11. ASSUME CompleteTransitionToPrimary PROVE CommandInv'
  BY <1>11 DEF StepDownAttempt, RoleInv, CompleteTransitionToPrimary,
     CanCompleteTransitionToPrimary, NoDrain, UpdateMemberState
<1>12. ASSUME NEW t \in Term, UpdateTerm(t) PROVE CommandInv'
  BY <1>12 DEF StepDownAttempt, RoleInv, UpdateTerm, StepDownStart
<1>13. ASSUME StepDownSelf PROVE CommandInv'
  BY <1>13 DEF StepDownAttempt, RoleInv, StepDownSelf, StepDownStart
<1>14. ASSUME StepDownFinish PROVE CommandInv'
  BY <1>14 DEF StepDownAttempt, RoleInv, StepDownFinish, BecomeFollower,
     UpdateMemberState, GlobalLockFree, Fail
<1>15. ASSUME NEW c \in Command, StepDownAtOnce(c) PROVE CommandInv'
  BY <1>15 DEF StepDownAttempt, RoleInv, StepDownAtOnce, BecomeFollower,
     UpdateMemberState, GlobalLockFree
<1>16. ASSUME NEW c \in Command, StartStepDownAttempt(c) PROVE CommandInv'
  <2>1. Command = {c} /\ phase = "none"
    BY <1>16 DEF StartStepDownAttempt, SingleCommand, RoleInv
  <2>2. /\ command'[c] = [stage |-> "waiting", term |-> term, mode |-> leaderMode]
        /\ leaderMode' = "kAttemptingStepDown"
        /\ UNCHANGED <<phase, electTerm, term, role>>
    BY <1>16 DEF StartStepDownAttempt
  <2> QED BY <2>1, <2>2
<1>17. ASSUME NEW c \in Command, StepDownAttemptThrows(c) PROVE CommandInv'
  <2>1. Command = {c}
    BY <1>17 DEF SingleCommand
  <2>2. /\ command'[c].stage = "idle" /\ leaderMode' # "kAttemptingStepDown"
        /\ UNCHANGED <<phase, electTerm, term, role>>
    BY <1>17 DEF StepDownAttemptThrows, AbortStepDownAttempt, NoCommand, RoleInv
  <2> QED BY <2>1, <2>2
<1>18. ASSUME NEW c \in Command, AttemptStepDown(c) PROVE CommandInv'
  BY <1>18 DEF StepDownAttempt, RoleInv, AttemptStepDown, BecomeFollower,
     UpdateMemberState, NoCommand, GlobalLockFree, Fail
<1>19. ASSUME NEW kind \in ReconfigKind, NEW e \in BOOLEAN, StartReconfig(kind, e) PROVE CommandInv'
  BY <1>19 DEF StepDownAttempt, RoleInv, StartReconfig
<1>20. ASSUME NEW e \in BOOLEAN, ScheduleHeartbeatReconfig(e) PROVE CommandInv'
  BY <1>20 DEF StepDownAttempt, RoleInv, ScheduleHeartbeatReconfig,
     NothingToCancel, Fail
<1>21. ASSUME ReconfigFails PROVE CommandInv'
  BY <1>21 DEF StepDownAttempt, RoleInv, ReconfigFails, NoReconfig
<1>22. ASSUME FinishReplSetReconfig PROVE CommandInv'
  BY <1>22 DEF StepDownAttempt, RoleInv, FinishReplSetReconfig, WaitForElection,
     NothingToCancel, Fail, SetCurrentRSConfig, UpdateConfig, UpdateMemberState,
     NoReconfig, GlobalLockFree
<1>23. ASSUME HeartbeatReconfigFinish PROVE CommandInv'
  BY <1>23 DEF StepDownAttempt, RoleInv, HeartbeatReconfigFinish,
     WaitForElection, NothingToCancel, Fail, SetCurrentRSConfig, UpdateConfig,
     UpdateMemberState, NoReconfig, GlobalLockFree
<1>24. ASSUME NEW mode \in {"SECONDARY", "ROLLBACK"}, SetFollowerMode(mode) PROVE CommandInv'
  BY <1>24 DEF StepDownAttempt, RoleInv, SetFollowerMode, NothingToCancel, Fail
<1>25. CASE UNCHANGED vars
  BY <1>25 DEF StepDownAttempt, RoleInv, vars
<1>26. QED
  BY <1>1, <1>2, <1>3, <1>4, <1>5, <1>6, <1>7, <1>8, <1>9, <1>10, <1>11, <1>12,
     <1>13, <1>14, <1>15, <1>16, <1>17, <1>18, <1>19, <1>20, <1>21, <1>22, <1>23,
     <1>24, <1>25 DEF Next, ElectionStep, TransitionStep, StepDownStep,
     ConfigStep

\* No step fails the invariants that the runs do not single out.
LEMMA OtherInvariantsStep ==
    ASSUME TypeOK, RoleInv, CommandInv, OtherInvariantsHold, Next \/ UNCHANGED vars
    PROVE  OtherInvariantsHold'
<1> USE DEF OtherInvariantsHold
<1>1. ASSUME NEW dryRun \in BOOLEAN, StartElection(dryRun) PROVE OtherInvariantsHold'
  BY <1>1 DEF RoleInv, StartElection, Fail
<1>2. ASSUME ProcessDryRunResult PROVE OtherInvariantsHold'
  BY <1>2 DEF RoleInv, ProcessDryRunResult, LoseElection, SignalElectionFinished
<1>3. ASSUME WriteLastVoteForMyElection PROVE OtherInvariantsHold'
  BY <1>3 DEF RoleInv, WriteLastVoteForMyElection, LoseElection,
     SignalElectionFinished
<1>4. ASSUME OnVoteRequestComplete PROVE OtherInvariantsHold'
  BY <1>4 DEF RoleInv, OnVoteRequestComplete, LoseElection,
     SignalElectionFinished
<1>5. ASSUME WinElection PROVE OtherInvariantsHold'
  BY <1>5 DEF RoleInv, WinElection, UpdateMemberState, Fail
<1>6. ASSUME NEW t \in announcing, StartCatchup(t) PROVE OtherInvariantsHold'
  BY <1>6 DEF RoleInv, StartCatchup, SignalElectionFinished
<1>7. ASSUME AbortCatchup PROVE OtherInvariantsHold'
  BY <1>7 DEF RoleInv, AbortCatchup, Fail
<1>8. ASSUME BufferIsEmpty PROVE OtherInvariantsHold'
  BY <1>8 DEF RoleInv, BufferIsEmpty
<1>9. ASSUME SignalDrainComplete PROVE OtherInvariantsHold'
  BY <1>9 DEF RoleInv, SignalDrainComplete, NoDrain
<1>10. ASSUME StartTransitionToPrimary PROVE OtherInvariantsHold'
  BY <1>10 DEF RoleInv, StartTransitionToPrimary, CanCompleteTransitionToPrimary,
     NoDrain, Fail
<1>11. ASSUME CompleteTransitionToPrimary PROVE OtherInvariantsHold'
  BY <1>11 DEF RoleInv, CompleteTransitionToPrimary,
     CanCompleteTransitionToPrimary, NoDrain, UpdateMemberState
<1>12. ASSUME NEW t \in Term, UpdateTerm(t) PROVE OtherInvariantsHold'
  BY <1>12 DEF RoleInv, UpdateTerm, StepDownStart
<1>13. ASSUME StepDownSelf PROVE OtherInvariantsHold'
  BY <1>13 DEF RoleInv, StepDownSelf, StepDownStart
<1>14. ASSUME StepDownFinish PROVE OtherInvariantsHold'
  BY <1>14 DEF RoleInv, StepDownFinish, BecomeFollower, UpdateMemberState,
     GlobalLockFree, Fail
<1>15. ASSUME NEW c \in Command, StepDownAtOnce(c) PROVE OtherInvariantsHold'
  BY <1>15 DEF RoleInv, StepDownAtOnce, BecomeFollower, UpdateMemberState,
     GlobalLockFree
<1>16. ASSUME NEW c \in Command, StartStepDownAttempt(c) PROVE OtherInvariantsHold'
  BY <1>16 DEF RoleInv, StartStepDownAttempt, UpdateMemberState, GlobalLockFree
<1>17. ASSUME NEW c \in Command, StepDownAttemptThrows(c) PROVE OtherInvariantsHold'
  BY <1>17 DEF RoleInv, StepDownAttemptThrows, AbortStepDownAttempt,
     UpdateMemberState, NoCommand, GlobalLockFree
<1>18. ASSUME NEW c \in Command, AttemptStepDown(c) PROVE OtherInvariantsHold'
  BY <1>18 DEF RoleInv, CommandInv, AttemptStepDown
<1>19. ASSUME NEW kind \in ReconfigKind, NEW e \in BOOLEAN, StartReconfig(kind, e) PROVE OtherInvariantsHold'
  BY <1>19 DEF RoleInv, StartReconfig
<1>20. ASSUME NEW e \in BOOLEAN, ScheduleHeartbeatReconfig(e) PROVE OtherInvariantsHold'
  BY <1>20 DEF RoleInv, ScheduleHeartbeatReconfig, NothingToCancel, Fail
<1>21. ASSUME ReconfigFails PROVE OtherInvariantsHold'
  BY <1>21 DEF RoleInv, ReconfigFails, NoReconfig
<1>22. ASSUME FinishReplSetReconfig PROVE OtherInvariantsHold'
  BY <1>22 DEF RoleInv, FinishReplSetReconfig, WaitForElection, NothingToCancel,
     Fail, SetCurrentRSConfig, UpdateConfig, UpdateMemberState, NoReconfig,
     GlobalLockFree
<1>23. ASSUME HeartbeatReconfigFinish PROVE OtherInvariantsHold'
  BY <1>23 DEF RoleInv, HeartbeatReconfigFinish, WaitForElection,
     NothingToCancel, Fail, SetCurrentRSConfig, UpdateConfig, UpdateMemberState,
     NoReconfig, GlobalLockFree
<1>24. ASSUME NEW mode \in {"SECONDARY", "ROLLBACK"}, SetFollowerMode(mode) PROVE OtherInvariantsHold'
  BY <1>24 DEF RoleInv, SetFollowerMode, NothingToCancel, Fail
<1>25. CASE UNCHANGED vars
  BY <1>25 DEF RoleInv, vars
<1>26. QED
  BY <1>1, <1>2, <1>3, <1>4, <1>5, <1>6, <1>7, <1>8, <1>9, <1>10, <1>11, <1>12,
     <1>13, <1>14, <1>15, <1>16, <1>17, <1>18, <1>19, <1>20, <1>21, <1>22, <1>23,
     <1>24, <1>25 DEF Next, ElectionStep, TransitionStep, StepDownStep,
     ConfigStep

-----------------------------------------------------------------------------
(* Catch-up and drain, where no election starts before the last one's callback *)
(* has come to its end. *)

\* Every step keeps the applier stopped under a master.
LEMMA DrainStep ==
    ASSUME SingleCommand, ~Overlap, TypeOK, RoleInv, CommandInv, DrainInv,
           Next \/ UNCHANGED vars
    PROVE  DrainInv'
<1> USE DEF TypeOK, DrainInv, topology, member, config, election
<1>1. ASSUME NEW dryRun \in BOOLEAN, StartElection(dryRun) PROVE DrainInv'
  <2>1. CASE ~voteRequester
    <3>1. announcing = {} /\ role = "Follower" /\ role' = "Candidate"
      BY <1>1, <2>1 DEF StartElection
    <3>2. UNCHANGED <<leaderMode, canWrite, applier, catchup, announcing, command,
                      drain, reconfig>>
      BY <1>1, <2>1 DEF StartElection
    <3> QED BY <3>1, <3>2 DEF RoleInv
  <2>2. CASE voteRequester
    BY <1>1, <2>2 DEF StartElection, Fail
  <2> QED BY <2>1, <2>2
<1>2. ASSUME ProcessDryRunResult PROVE DrainInv'
  <2>1. CASE LoseElection
    <3>1. reconfig'.kind = "safe" => reconfig'.electable
      BY <2>1, SignalFacts DEF LoseElection
    <3>2. role # "Leader" /\ announcing = {}
      BY <1>2 DEF ProcessDryRunResult, RoleInv
    <3> QED BY <2>1, <3>1, <3>2 DEF LoseElection
  <2>2. CASE ~LoseElection
    BY <1>2, <2>2 DEF ProcessDryRunResult, RoleInv
  <2> QED BY <2>1, <2>2
<1>3. ASSUME WriteLastVoteForMyElection PROVE DrainInv'
  <2>1. CASE LoseElection
    <3>1. reconfig'.kind = "safe" => reconfig'.electable
      BY <2>1, SignalFacts DEF LoseElection
    <3>2. role # "Leader" /\ announcing = {}
      BY <1>3 DEF WriteLastVoteForMyElection, RoleInv
    <3> QED BY <2>1, <3>1, <3>2 DEF LoseElection
  <2>2. CASE ~LoseElection
    BY <1>3, <2>2 DEF WriteLastVoteForMyElection, RoleInv
  <2> QED BY <2>1, <2>2
<1>4. ASSUME OnVoteRequestComplete PROVE DrainInv'
  <2>1. CASE LoseElection
    <3>1. reconfig'.kind = "safe" => reconfig'.electable
      BY <2>1, SignalFacts DEF LoseElection
    <3>2. role # "Leader" /\ announcing = {}
      BY <1>4 DEF OnVoteRequestComplete, RoleInv
    <3> QED BY <2>1, <3>1, <3>2 DEF LoseElection
  <2>2. CASE ~LoseElection
    BY <1>4, <2>2 DEF OnVoteRequestComplete, RoleInv
  <2> QED BY <2>1, <2>2
<1>5. ASSUME WinElection PROVE DrainInv'
  BY <1>5 DEF RoleInv, WinElection, UpdateMemberState, Fail
<1>6. ASSUME NEW t \in announcing, StartCatchup(t) PROVE DrainInv'
  <2>1. /\ UNCHANGED <<leaderMode, canWrite, role, phase, command, drain>>
        /\ SignalElectionFinished \/ UNCHANGED reconfig
    BY <1>6 DEF StartCatchup
  <2>2. reconfig'.kind = "safe" => reconfig'.electable
    BY <2>1, SignalFacts
  <2>3. applier = "Running" /\ ~catchup /\ leaderMode # "kMaster" /\ ~canWrite
        /\ drain.stage # "transition"
    BY <1>6
  <2>4. /\ announcing' = {}
        /\ catchup' => applier' = "Running"
        /\ applier' # applier => role = "Leader"
    BY <1>6, <2>3 DEF StartCatchup
  <2>5. leaderMode = "kAttemptingStepDown" =>
          \A c \in Command : command[c].mode # "kMaster"
    BY <2>3
  <2> QED BY <2>1, <2>2, <2>3, <2>4, <2>5
<1>7. ASSUME AbortCatchup PROVE DrainInv'
  BY <1>7 DEF RoleInv, AbortCatchup, Fail
<1>8. ASSUME BufferIsEmpty PROVE DrainInv'
  BY <1>8 DEF RoleInv, BufferIsEmpty
<1>9. ASSUME SignalDrainComplete PROVE DrainInv'
  BY <1>9 DEF RoleInv, SignalDrainComplete, NoDrain
<1>10. ASSUME StartTransitionToPrimary PROVE DrainInv'
  BY <1>10 DEF RoleInv, StartTransitionToPrimary, CanCompleteTransitionToPrimary,
     NoDrain, Fail
<1>11. ASSUME CompleteTransitionToPrimary PROVE DrainInv'
  BY <1>11 DEF RoleInv, CompleteTransitionToPrimary,
     CanCompleteTransitionToPrimary, NoDrain, UpdateMemberState
<1>12. ASSUME NEW t \in Term, UpdateTerm(t) PROVE DrainInv'
  BY <1>12 DEF RoleInv, UpdateTerm, StepDownStart
<1>13. ASSUME StepDownSelf PROVE DrainInv'
  BY <1>13 DEF RoleInv, StepDownSelf, StepDownStart
<1>14. ASSUME StepDownFinish PROVE DrainInv'
  BY <1>14 DEF RoleInv, StepDownFinish, BecomeFollower, UpdateMemberState,
     GlobalLockFree, Fail
<1>15. ASSUME NEW c \in Command, StepDownAtOnce(c) PROVE DrainInv'
  BY <1>15 DEF RoleInv, StepDownAtOnce, BecomeFollower, UpdateMemberState,
     GlobalLockFree
<1>16. ASSUME NEW c \in Command, StartStepDownAttempt(c) PROVE DrainInv'
  <2>1. Command = {c} /\ role = "Leader" /\ role' = "Leader"
    BY <1>16 DEF StartStepDownAttempt, SingleCommand, RoleInv
  <2>2. /\ command'[c] = [stage |-> "waiting", term |-> term, mode |-> leaderMode]
        /\ leaderMode' = "kAttemptingStepDown" /\ UpdateMemberState
        /\ UNCHANGED <<phase, announcing, drain, reconfig>>
    BY <1>16 DEF StartStepDownAttempt
  <2>3. ~canWrite' /\ UNCHANGED <<applier, catchup>>
    BY <2>1, <2>2, MemberStateFacts
  <2> QED BY <2>1, <2>2, <2>3
<1>17. ASSUME NEW c \in Command, StepDownAttemptThrows(c) PROVE DrainInv'
  BY <1>17 DEF RoleInv, StepDownAttemptThrows, AbortStepDownAttempt,
     UpdateMemberState, NoCommand, GlobalLockFree
<1>18. ASSUME NEW c \in Command, AttemptStepDown(c) PROVE DrainInv'
  BY <1>18 DEF RoleInv, AttemptStepDown, BecomeFollower, UpdateMemberState,
     NoCommand, GlobalLockFree, Fail
<1>19. ASSUME NEW kind \in ReconfigKind, NEW e \in BOOLEAN, StartReconfig(kind, e) PROVE DrainInv'
  BY <1>19 DEF RoleInv, StartReconfig
<1>20. ASSUME NEW e \in BOOLEAN, ScheduleHeartbeatReconfig(e) PROVE DrainInv'
  BY <1>20 DEF RoleInv, ScheduleHeartbeatReconfig, NothingToCancel, Fail
<1>21. ASSUME ReconfigFails PROVE DrainInv'
  BY <1>21 DEF RoleInv, ReconfigFails, NoReconfig
<1>22. ASSUME FinishReplSetReconfig PROVE DrainInv'
  <2>1. CASE NothingToCancel
    BY <2>1 DEF NothingToCancel, Fail
  <2>2. CASE WaitForElection
    BY <2>2 DEF WaitForElection, Reconfiguration
  <2>3. CASE SetCurrentRSConfig(reconfig.kind = "force")
    <3>1. /\ UNCHANGED <<phase, announcing, command, drain>>
          /\ UpdateMemberState /\ reconfig'.kind # "safe"
      BY <2>3 DEF SetCurrentRSConfig, NoReconfig
    <3>2. CASE role = "Leader" /\ ~reconfig.electable
      <4>1. drain.stage # "transition"
        BY <1>22, <3>2 DEF FinishReplSetReconfig, GlobalLockFree
      <4>2. role' = "Follower" /\ leaderMode' = "kNotLeader"
        BY <2>3, <3>2 DEF SetCurrentRSConfig, UpdateConfig
      <4>3. ~canWrite' /\ ~catchup' /\ applier' = "Running"
        BY <3>1, <3>2, <4>2, MemberStateFacts
      <4> QED BY <3>1, <4>1, <4>2, <4>3
    <3>3. CASE ~(role = "Leader" /\ ~reconfig.electable)
      <4>1. UNCHANGED <<role, leaderMode>>
        BY <2>3, <3>3 DEF SetCurrentRSConfig, UpdateConfig
      <4>2. UNCHANGED <<applier, catchup>> /\ (canWrite' => leaderMode' = "kMaster")
        BY <3>1, <4>1, MemberStateFacts
      <4> QED BY <3>1, <4>1, <4>2
    <3> QED BY <3>2, <3>3
  <2> QED BY <1>22, <2>1, <2>2, <2>3 DEF FinishReplSetReconfig
<1>23. ASSUME HeartbeatReconfigFinish PROVE DrainInv'
  <2>1. CASE NothingToCancel
    BY <2>1 DEF NothingToCancel, Fail
  <2>2. CASE WaitForElection
    BY <2>2 DEF WaitForElection, Reconfiguration
  <2>3. CASE SetCurrentRSConfig(role = "Leader")
    <3>1. /\ UNCHANGED <<phase, announcing, command, drain>>
          /\ UpdateMemberState /\ reconfig'.kind # "safe"
      BY <2>3 DEF SetCurrentRSConfig, NoReconfig
    <3>2. CASE role = "Leader" /\ ~reconfig.electable
      <4>1. drain.stage # "transition"
        BY <1>23, <3>2 DEF HeartbeatReconfigFinish, GlobalLockFree
      <4>2. role' = "Follower" /\ leaderMode' = "kNotLeader"
        BY <2>3, <3>2 DEF SetCurrentRSConfig, UpdateConfig
      <4>3. ~canWrite' /\ ~catchup' /\ applier' = "Running"
        BY <3>1, <3>2, <4>2, MemberStateFacts
      <4> QED BY <3>1, <4>1, <4>2, <4>3
    <3>3. CASE ~(role = "Leader" /\ ~reconfig.electable)
      <4>1. UNCHANGED <<role, leaderMode>>
        BY <2>3, <3>3 DEF SetCurrentRSConfig, UpdateConfig
      <4>2. UNCHANGED <<applier, catchup>> /\ (canWrite' => leaderMode' = "kMaster")
        BY <3>1, <4>1, MemberStateFacts
      <4> QED BY <3>1, <4>1, <4>2
    <3> QED BY <3>2, <3>3
  <2> QED BY <1>23, <2>1, <2>2, <2>3 DEF HeartbeatReconfigFinish
<1>24. ASSUME NEW mode \in {"SECONDARY", "ROLLBACK"}, SetFollowerMode(mode) PROVE DrainInv'
  BY <1>24 DEF RoleInv, SetFollowerMode, NothingToCancel, Fail
<1>25. CASE UNCHANGED vars
  BY <1>25 DEF RoleInv, vars
<1>26. QED
  BY <1>1, <1>2, <1>3, <1>4, <1>5, <1>6, <1>7, <1>8, <1>9, <1>10, <1>11, <1>12,
     <1>13, <1>14, <1>15, <1>16, <1>17, <1>18, <1>19, <1>20, <1>21, <1>22, <1>23,
     <1>24, <1>25 DEF Next, ElectionStep, TransitionStep, StepDownStep,
     ConfigStep

-----------------------------------------------------------------------------
(* Theorems. *)

\* Types and roles stay consistent in every behaviour.
LEMMA RoleInvariance == Spec => [](TypeOK /\ RoleInv)
<1>1. Init => TypeOK /\ RoleInv
  BY RoleInit
<1>2. TypeOK /\ RoleInv /\ [Next]_vars => (TypeOK /\ RoleInv)'
  BY TypeStep, RoleStep
<1> QED BY <1>1, <1>2, PTL DEF Spec

\* Every variable of a member keeps its type, for any number of step-down
\* commands, kinds of reconfiguration and overlapping elections.
THEOREM MemberTypes == Spec => []TypeOK
BY RoleInvariance, PTL

\* A member's term does not change while it is primary (updateTerm keeps a newer
\* term aside until _stepDownFinish).
THEOREM TermFixed == Spec => TermFixedWhileLeader
<1>1. ASSUME TypeOK, RoleInv, [Next]_vars
      PROVE  [role = "Leader" /\ role' = "Leader" => term' = term]_vars
  <2> DEFINE Goal == role = "Leader" /\ role' = "Leader" => term' = term
  <2> SUFFICES ASSUME Next PROVE Goal
    BY <1>1
  <2> USE DEF topology
  <2>1. ASSUME NEW dryRun \in BOOLEAN, StartElection(dryRun) PROVE Goal
    BY <2>1 DEF StartElection, Fail
  <2>2. ASSUME ProcessDryRunResult PROVE Goal
    BY <1>1, <2>2 DEF ProcessDryRunResult, RoleInv, LoseElection
  <2>3. ASSUME WriteLastVoteForMyElection PROVE Goal
    BY <2>3 DEF WriteLastVoteForMyElection, LoseElection
  <2>4. ASSUME OnVoteRequestComplete PROVE Goal
    BY <2>4 DEF OnVoteRequestComplete, LoseElection
  <2>5. ASSUME WinElection PROVE Goal
    BY <2>5 DEF WinElection, Fail
  <2>6. ASSUME NEW t \in announcing, StartCatchup(t) PROVE Goal
    BY <2>6 DEF StartCatchup
  <2>7. ASSUME AbortCatchup PROVE Goal
    BY <2>7 DEF AbortCatchup, Fail
  <2>8. ASSUME BufferIsEmpty PROVE Goal
    BY <2>8 DEF BufferIsEmpty
  <2>9. ASSUME SignalDrainComplete PROVE Goal
    BY <2>9 DEF SignalDrainComplete
  <2>10. ASSUME StartTransitionToPrimary PROVE Goal
    BY <2>10 DEF StartTransitionToPrimary, Fail
  <2>11. ASSUME CompleteTransitionToPrimary PROVE Goal
    BY <2>11 DEF CompleteTransitionToPrimary
  <2>12. ASSUME NEW t \in Term, UpdateTerm(t) PROVE Goal
    BY <2>12 DEF UpdateTerm
  <2>13. ASSUME StepDownSelf PROVE Goal
    BY <2>13 DEF StepDownSelf
  <2>14. ASSUME StepDownFinish PROVE Goal
    BY <2>14 DEF StepDownFinish, BecomeFollower, Fail
  <2>15. ASSUME NEW c \in Command, StepDownAtOnce(c) PROVE Goal
    BY <2>15 DEF StepDownAtOnce
  <2>16. ASSUME NEW c \in Command, StartStepDownAttempt(c) PROVE Goal
    BY <2>16 DEF StartStepDownAttempt
  <2>17. ASSUME NEW c \in Command, StepDownAttemptThrows(c) PROVE Goal
    BY <2>17 DEF StepDownAttemptThrows, AbortStepDownAttempt
  <2>18. ASSUME NEW c \in Command, AttemptStepDown(c) PROVE Goal
    BY <2>18 DEF AttemptStepDown, Fail
  <2>19. ASSUME NEW kind \in ReconfigKind, NEW e \in BOOLEAN, StartReconfig(kind, e) PROVE Goal
    BY <2>19 DEF StartReconfig
  <2>20. ASSUME NEW e \in BOOLEAN, ScheduleHeartbeatReconfig(e) PROVE Goal
    BY <2>20 DEF ScheduleHeartbeatReconfig, NothingToCancel, Fail
  <2>21. ASSUME ReconfigFails PROVE Goal
    BY <2>21 DEF ReconfigFails
  <2>22. ASSUME FinishReplSetReconfig PROVE Goal
    BY <2>22 DEF FinishReplSetReconfig, WaitForElection, NothingToCancel, Fail,
       SetCurrentRSConfig
  <2>23. ASSUME HeartbeatReconfigFinish PROVE Goal
    BY <2>23 DEF HeartbeatReconfigFinish, WaitForElection, NothingToCancel, Fail,
       SetCurrentRSConfig
  <2>24. ASSUME NEW mode \in {"SECONDARY", "ROLLBACK"}, SetFollowerMode(mode) PROVE Goal
    BY <2>24 DEF SetFollowerMode, NothingToCancel, Fail
  <2> QED
    BY <2>1, <2>2, <2>3, <2>4, <2>5, <2>6, <2>7, <2>8, <2>9, <2>10, <2>11, <2>12,
       <2>13, <2>14, <2>15, <2>16, <2>17, <2>18, <2>19, <2>20, <2>21, <2>22,
       <2>23, <2>24 DEF Next, ElectionStep, TransitionStep, StepDownStep,
       ConfigStep
<1> QED BY <1>1, RoleInvariance, PTL DEF Spec, TermFixedWhileLeader

\* With at most one replSetStepDown command the assertions of
\* _startElectSelfV1_inlock, processWinElection, CatchupState::abort_inlock,
\* signalDrainComplete and attemptStepDown never fail.
THEOREM HandlerInvariants ==
    ASSUME SingleCommand PROVE Spec => []OtherInvariantsHold
<1>1. Init => CommandInv /\ OtherInvariantsHold
  BY DEF Init, CommandInv, OtherInvariantsHold, NoCommand
<1>2. /\ TypeOK /\ RoleInv /\ CommandInv /\ OtherInvariantsHold /\ [Next]_vars
      => CommandInv' /\ OtherInvariantsHold'
  BY CommandStep, OtherInvariantsStep
<1> QED BY <1>1, <1>2, RoleInvariance, PTL DEF Spec

\* With at most one replSetStepDown command, and no election started before the
\* last one's callback has come to its end, client writes are accepted only by a
\* primary that has drained and is not in a step-down attempt.
THEOREM WritesAfterDrain ==
    ASSUME SingleCommand, ~Overlap PROVE Spec => []WritesOnlyAfterDrain
<1>1. Init => CommandInv /\ DrainInv
  BY DEF Init, CommandInv, DrainInv, NoCommand, NoDrain, NoReconfig
<1>2. /\ TypeOK /\ RoleInv /\ CommandInv /\ DrainInv /\ [Next]_vars
      => CommandInv' /\ DrainInv'
  BY CommandStep, DrainStep
<1>3. TypeOK /\ RoleInv /\ DrainInv => WritesOnlyAfterDrain
  BY DEF TypeOK, RoleInv, DrainInv, WritesOnlyAfterDrain
<1> QED BY <1>1, <1>2, <1>3, RoleInvariance, PTL DEF Spec
=============================================================================
