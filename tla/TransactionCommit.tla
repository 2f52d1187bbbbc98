-------------------------- MODULE TransactionCommit --------------------------
(***************************************************************************)
(* The commit of the multi-document transactions of one session over       *)
(* several shards: the TransactionRouter of a mongos, the                  *)
(* TransactionCoordinatorService of the shard that the transaction first   *)
(* touched, and the TransactionParticipant of the session on every shard.  *)
(*                                                                         *)
(* A message is sent once and received at most once, in any order; one     *)
(* that is never received is lost.  An action is what a thread does under  *)
(* one hold of the coordinator's mutex, or with the session checked out;   *)
(* what the coordinator's thread does after releasing the mutex waits in   *)
(* "doing".  A failed invariant() ends the process and is recorded in      *)
(* "failed".                                                               *)
(***************************************************************************)
EXTENDS Integers, FiniteSetsExt

CONSTANTS
    Shards,         \* the shards, all of which each transaction writes to
    Coordinator,    \* the shard that each transaction touches first
    MaxTxn,         \* bound on the transactions of the session
    MaxTime,        \* bound on cluster times
    Expiring,       \* the shards on which a transaction may outlive its limit
    Faults          \* which of FaultKinds may happen

\* Overtake: the client starts a transaction before the previous one is answered.
\* GiveUp: a router reports an error before the coordinator has answered.
\* Retry: a router sends coordinateCommit again, its first answer being lost.
\* StrayAbort: the aborts that createCoordinator sends on behalf of the previous
\* coordinator, which name the new transaction, are delivered.
FaultKinds == {"Overtake", "GiveUp", "Retry", "StrayAbort"}

ASSUME ShardAssumption ==
    Coordinator \in Shards /\ Expiring \subseteq Shards /\ IsFiniteSet(Shards)
ASSUME FaultAssumption == Faults \subseteq FaultKinds
ASSUME BoundAssumption == MaxTxn \in Nat \ {0} /\ MaxTime \in Nat \ {0, 1}

VARIABLES
    router,         \* per transaction: what its router is doing
    active,         \* per shard: TransactionParticipant::_activeTxnNumber
    txnState,       \* per shard: TransactionParticipant::_txnState
    clock,          \* per shard: its cluster time, of which optimes are taken
    preparedAt,     \* per transaction and shard: the prepare timestamp, or 0
    committedAt,    \* per transaction and shard: its commit timestamp, or 0
    aborted,        \* per transaction: the shards that have aborted it
    coord,          \* per transaction: TransactionCoordinator::StateMachine::_state
    listed,         \* per transaction: ParticipantList::_fullListReceived
    votes,          \* per transaction and shard: Participant::prepareTimestamp, or 0
    acks,           \* per transaction: the participants with Ack::kCommit
    catalog,        \* the coordinators in TransactionCoordinatorCatalog
    doing,          \* what coordinator threads still have to do
    handler,        \* per transaction: where coordinateCommitTransaction is
    msgs,           \* the messages in flight
    failed          \* the invariant() that has failed, or "none"

participant == <<active, txnState, preparedAt, committedAt, aborted>>
coordinator == <<coord, listed, votes, acks, catalog, doing>>
vars == <<router, participant, clock, coordinator, handler, msgs, failed>>

-----------------------------------------------------------------------------
Txns == 1..MaxTxn
Times == 0..MaxTime
Messages == [type : {"prepare", "coordinateCommit", "voteCommit", "commit", "abort",
                     "ack", "answer"},
             txn : Txns, shard : Shards, ts : Times, time : Times]

\* A message between shard s, whose cluster time is time, and the coordinator or
\* the router.
Message(type, t, s, ts, time) ==
    [type |-> type, txn |-> t, shard |-> s, ts |-> ts, time |-> time]

ToAll(type, t, shards, ts, time) ==
    {Message(type, t, s, ts, time) : s \in shards}

\* The answer to coordinateCommitTransaction, with ts = 1 for OK.
Answer(t, ok) == Message("answer", t, Coordinator, IF ok THEN 1 ELSE 0, 0)

Init ==
    /\ router = [t \in Txns |-> "idle"]
    /\ active = [s \in Shards |-> 0] /\ txnState = [s \in Shards |-> "none"]
    /\ clock \in [Shards -> {1, 2}]
    /\ preparedAt = [t \in Txns |-> [s \in Shards |-> 0]]
    /\ committedAt = [t \in Txns |-> [s \in Shards |-> 0]]
    /\ aborted = [t \in Txns |-> {}]
    /\ coord = [t \in Txns |-> "none"] /\ listed = [t \in Txns |-> FALSE]
    /\ votes = [t \in Txns |-> [s \in Shards |-> 0]]
    /\ acks = [t \in Txns |-> {}]
    /\ catalog = {} /\ doing = {}
    /\ handler = [t \in Txns |-> "none"]
    /\ msgs = {} /\ failed = "none"

Fail(invariant) ==
    /\ failed' = invariant
    /\ UNCHANGED <<router, participant, clock, coordinator, handler, msgs>>

-----------------------------------------------------------------------------
(* The coordinator's state machine. *)

Terminal == {"committed", "aborted"}

\* transitionTable: state, event, action and next state.  What is not in it is
\* illegal.  (A vote to abort has a row in the code and no sender.)
TransitionTable ==
    {<<"waitingForParticipantList", "voteCommit", "none", "waitingForParticipantList">>,
     <<"waitingForParticipantList", "participantList", "none", "waitingForVotes">>,
     <<"waitingForParticipantList", "tryAbort", "sendAbort", "aborted">>,
     <<"waitingForVotes", "voteCommit", "none", "waitingForVotes">>,
     <<"waitingForVotes", "participantList", "none", "waitingForVotes">>,
     <<"waitingForVotes", "finalVoteCommit", "sendCommit", "waitingForCommitAcks">>,
     <<"waitingForVotes", "tryAbort", "sendAbort", "aborted">>,
     <<"aborted", "voteCommit", "sendAbort", "aborted">>,
     <<"aborted", "participantList", "none", "aborted">>,
     <<"aborted", "tryAbort", "none", "aborted">>,
     <<"waitingForCommitAcks", "voteCommit", "none", "waitingForCommitAcks">>,
     <<"waitingForCommitAcks", "participantList", "none", "waitingForCommitAcks">>,
     <<"waitingForCommitAcks", "finalVoteCommit", "sendCommit", "waitingForCommitAcks">>,
     <<"waitingForCommitAcks", "finalCommitAck", "none", "committed">>,
     <<"waitingForCommitAcks", "tryAbort", "none", "waitingForCommitAcks">>,
     <<"committed", "voteCommit", "none", "committed">>,
     <<"committed", "participantList", "none", "committed">>,
     <<"committed", "finalVoteCommit", "none", "committed">>,
     <<"committed", "finalCommitAck", "none", "committed">>,
     <<"committed", "tryAbort", "none", "committed">>}

Rows(t, event) == {r \in TransitionTable : r[1] = coord[t] /\ r[2] = event}

\* StateMachine::onEvent: the next state.
StateAfter(t, event) ==
    IF Rows(t, event) = {} THEN "broken" ELSE (CHOOSE r \in Rows(t, event) : TRUE)[4]

\* What the thread does once it has released the mutex: a transition to a terminal
\* state triggers the promises, one of which removes the coordinator from the
\* catalog, and the action is taken for the transaction of the thread's opCtx.
Todo(t, event, opTxn) ==
    {[txn |-> t, opTxn |-> opTxn, action |-> r[3],
      signal |-> r[4] \in Terminal \ {coord[t]}] : r \in
        {r \in Rows(t, event) : r[3] # "none" \/ r[4] \in Terminal \ {coord[t]}}}

\* ParticipantList::_participants.
Recorded(t) == IF listed[t] THEN Shards ELSE {s \in Shards : votes[t][s] > 0}

\* allParticipantsVotedCommit, with the vote of s.
AllVotedCommit(t, s) == listed[t] /\ \A x \in Shards \ {s} : votes[t][x] > 0

\* recvVoteCommit: the vote of shard s with timestamp ts.
RecvVoteCommit(t, s, ts) ==
    LET event == IF AllVotedCommit(t, s) THEN "finalVoteCommit" ELSE "voteCommit"
    IN  /\ votes' = [votes EXCEPT ![t][s] = ts]
        /\ coord' = [coord EXCEPT ![t] = StateAfter(t, event)]
        /\ doing' = doing \union Todo(t, event, t)
        /\ UNCHANGED <<listed, acks, catalog>>

\* Mutant: a margin is added to the commit timestamp.
LaterThanPrepare(t) == Max({votes[t][s] : s \in Shards}) + MaxTime

\* getHighestPrepareTimestamp.
GetCommitTimestamp(t) == Max({votes[t][s] : s \in Shards})

\* Mutant: the decision is sent to the participants that have acknowledged it.
SendActionToAcked(d) ==
    IF d.action = "sendCommit"
    THEN ToAll("commit", d.opTxn, acks[d.txn], GetCommitTimestamp(d.txn),
               clock[Coordinator])
    ELSE {}

\* sendCommit and sendAbort name the transaction of the thread's opCtx.
SendAction(d) ==
    CASE d.action = "sendCommit" ->
            ToAll("commit", d.opTxn, Shards \ acks[d.txn], GetCommitTimestamp(d.txn),
                  clock[Coordinator])
      [] d.action = "sendAbort" /\ (d.opTxn = d.txn \/ "StrayAbort" \in Faults) ->
            ToAll("abort", d.opTxn, Recorded(d.txn), 0, 0)
      [] OTHER -> {}

\* _signalAllPromisesWaitingForState and doCoordinatorAction, outside the mutex.
DoCoordinatorAction(d) ==
    /\ doing' = doing \ {d}
    /\ catalog' = IF d.signal THEN catalog \ {d.txn} ELSE catalog
    /\ msgs' = msgs \union SendAction(d)
    /\ UNCHANGED <<router, participant, clock, coord, listed, votes, acks, handler,
                   failed>>

-----------------------------------------------------------------------------
(* The participants. *)

Later(s, time) == IF time > clock[s] THEN time ELSE clock[s]

\* The shard has begun the transaction.
Begun(t, s) == active[s] = t \/ s \in aborted[t] \/ committedAt[t][s] > 0

\* _abortTransactionOnSession.
AbortOnSession(s) ==
    /\ txnState' = [txnState EXCEPT ![s] = "aborted"]
    /\ aborted' = [aborted EXCEPT ![active[s]] = @ \union {s}]
    /\ UNCHANGED <<active, preparedAt, committedAt>>

\* createCoordinator for transaction t: the latest one on the session is told to
\* abort, by a thread whose opCtx has the number t.
CreateCoordinator(t) ==
    LET latest == IF catalog = {} THEN 0 ELSE Max(catalog)
    IN  /\ coord' = [x \in Txns |-> IF x = t THEN "waitingForParticipantList"
                                    ELSE IF x = latest THEN StateAfter(x, "tryAbort")
                                    ELSE coord[x]]
        /\ doing' = IF latest = 0 THEN doing
                    ELSE doing \union Todo(latest, "tryAbort", t)
        /\ catalog' = catalog \union {t}
        /\ UNCHANGED <<listed, votes, acks>>

\* Mutant: a prepared transaction gives way to a new one.
NumberMayChangeAlways(s) == TRUE

\* _setNewTxnNumber: not while the session has a prepared transaction.
NumberMayChange(s) == txnState[s] # "prepared"

\* The first statement of transaction t on shard s: beginOrContinue, which aborts
\* what is in progress, and on the first shard createCoordinator.
BeginTransaction(s, t) ==
    /\ router[t] = IF s = Coordinator THEN "idle" ELSE "active"
    /\ active[s] < t /\ NumberMayChange(s)
    /\ t > 1 => \/ router[t - 1] \in {"committed", "aborted"}
                \/ "Overtake" \in Faults /\ router[t - 1] # "idle"
    /\ router' = [router EXCEPT ![t] = "active"]
    /\ active' = [active EXCEPT ![s] = t]
    /\ txnState' = [txnState EXCEPT ![s] = "inProgress"]
    /\ aborted' = [x \in Txns |-> IF x = active[s] /\ txnState[s] = "inProgress"
                                  THEN aborted[x] \union {s} ELSE aborted[x]]
    /\ IF s = Coordinator THEN CreateCoordinator(t) ELSE UNCHANGED coordinator
    /\ UNCHANGED <<preparedAt, committedAt, clock, handler, msgs, failed>>

\* prepareTransaction: an optime is reserved for the prepare timestamp.
Prepare(s, t) ==
    /\ clock[s] < MaxTime
    /\ txnState' = [txnState EXCEPT ![s] = "prepared"]
    /\ clock' = [clock EXCEPT ![s] = @ + 1]
    /\ preparedAt' = [preparedAt EXCEPT ![t][s] = clock[s] + 1]
    /\ UNCHANGED <<active, committedAt, aborted>>

\* prepareTransaction, the command: it prepares and votes, or votes again, or fails
\* and tells nobody but a router that does not listen.
ReceivePrepare(m) ==
    LET s == m.shard  t == m.txn
    IN  /\ m.type = "prepare"
        /\ \/ /\ active[s] = t /\ txnState[s] \in {"inProgress", "prepared"}
              /\ IF txnState[s] = "inProgress" THEN Prepare(s, t)
                 ELSE UNCHANGED <<participant, clock>>
              /\ msgs' = (msgs \ {m}) \union
                    {Message("voteCommit", t, s, preparedAt'[t][s], clock'[s])}
           \/ /\ active[s] # t \/ txnState[s] \in Terminal
              /\ msgs' = msgs \ {m}
              /\ UNCHANGED <<participant, clock>>
        /\ UNCHANGED <<router, coordinator, handler, failed>>

\* commitTransaction, the command with a commit timestamp.  It advances the clock
\* to the cluster time of the message before it takes an optime for its entry.
ReceiveCommit(m) ==
    LET s == m.shard  t == m.txn
    IN  /\ m.type = "commit"
        /\ IF active[s] = t /\ txnState[s] = "prepared" /\ m.ts >= preparedAt[t][s]
           THEN IF Later(s, m.time) + 1 < m.ts
                THEN Fail("commitOplogSlot")
                ELSE /\ Later(s, m.time) < MaxTime
                     /\ clock' = [clock EXCEPT ![s] = Later(s, m.time) + 1]
                     /\ txnState' = [txnState EXCEPT ![s] = "committed"]
                     /\ committedAt' = [committedAt EXCEPT ![t][s] = m.ts]
                     /\ msgs' = (msgs \ {m}) \union {Message("ack", t, s, 0, 0)}
                     /\ UNCHANGED <<active, preparedAt, aborted, failed>>
                     /\ UNCHANGED <<router, coordinator, handler>>
           ELSE /\ msgs' = (msgs \ {m}) \union
                     (IF active[s] = t /\ txnState[s] = "committed"
                      THEN {Message("ack", t, s, 0, 0)} ELSE {})
                /\ UNCHANGED <<router, participant, clock, coordinator, handler, failed>>

\* abortTransaction, the command: also of a prepared transaction.
ReceiveAbort(m) ==
    LET s == m.shard
    IN  /\ m.type = "abort"
        /\ IF active[s] = m.txn /\ txnState[s] \in {"inProgress", "prepared"}
           THEN AbortOnSession(s)
           ELSE UNCHANGED participant
        /\ msgs' = msgs \ {m}
        /\ UNCHANGED <<router, clock, coordinator, handler, failed>>

\* Mutant: a prepared transaction may outlive its limit as well.
ExpirableAlways == {"inProgress", "prepared"}

\* abortArbitraryTransaction(IfExpired): not a prepared transaction.
Expirable == {"inProgress"}

\* The transaction outlives transactionLifetimeLimitSeconds or its session is
\* killed.
Expire(s) ==
    /\ s \in Expiring /\ txnState[s] \in Expirable
    /\ AbortOnSession(s)
    /\ UNCHANGED <<router, clock, coordinator, handler, msgs, failed>>

-----------------------------------------------------------------------------
(* The coordinator. *)

\* voteCommitTransaction, the command; without a coordinator the vote is answered
\* with an abort, and a vote at another timestamp than the first is refused.
ReceiveVoteCommit(m) ==
    LET s == m.shard  t == m.txn
    IN  /\ m.type = "voteCommit"
        /\ clock' = [clock EXCEPT ![Coordinator] = Later(Coordinator, m.time)]
        /\ \/ /\ t \notin catalog
              /\ msgs' = (msgs \ {m}) \union {Message("abort", t, s, 0, 0)}
              /\ UNCHANGED coordinator
           \/ /\ t \in catalog
              /\ msgs' = msgs \ {m}
              /\ IF votes[t][s] \in {0, m.ts}
                 THEN RecvVoteCommit(t, s, m.ts)
                 ELSE UNCHANGED coordinator
        /\ UNCHANGED <<router, participant, handler, failed>>

\* coordinateCommitTransaction, the command, up to the look at the future.
ReceiveCoordinateCommit(m) ==
    LET t == m.txn
    IN  /\ m.type = "coordinateCommit"
        /\ \/ /\ t \notin catalog
              /\ msgs' = (msgs \ {m}) \union {Answer(t, FALSE)}
              /\ handler' = [handler EXCEPT ![t] = "done"]
              /\ UNCHANGED coordinator
           \/ /\ t \in catalog
              /\ listed' = [listed EXCEPT ![t] = TRUE]
              /\ coord' = [coord EXCEPT ![t] = StateAfter(t, "participantList")]
              /\ handler' = [handler EXCEPT ![t] =
                                IF coord[t] \in Terminal THEN "wait" ELSE "prepare"]
              /\ msgs' = msgs \ {m}
              /\ UNCHANGED <<votes, acks, catalog, doing>>
        /\ UNCHANGED <<router, participant, clock, failed>>

\* _callPrepareOnLocalParticipant, with the session checked out.
PrepareLocally(t) ==
    LET s == Coordinator
    IN  /\ handler[t] = "prepare"
        /\ \/ /\ active[s] = t /\ txnState[s] \notin Terminal
              /\ IF txnState[s] = "prepared" THEN Fail("transitionTo")
                 ELSE /\ Prepare(s, t)
                      /\ handler' = [handler EXCEPT ![t] = "vote"]
                      /\ UNCHANGED <<router, coordinator, msgs, failed>>
           \/ /\ active[s] # t \/ txnState[s] \in Terminal
              /\ handler' = [handler EXCEPT ![t] = "done"]
              /\ msgs' = msgs \union {Answer(t, FALSE)}
              /\ UNCHANGED <<router, participant, clock, coordinator, failed>>

\* The local participant's vote is delivered to the coordinator service.
VoteLocally(t) ==
    /\ handler[t] = "vote"
    /\ handler' = [handler EXCEPT ![t] = "wait"]
    /\ \/ /\ t \notin catalog
          /\ msgs' = msgs \union {Message("abort", t, Coordinator, 0, 0)}
          /\ UNCHANGED coordinator
       \/ /\ t \in catalog
          /\ RecvVoteCommit(t, Coordinator, preparedAt[t][Coordinator])
          /\ UNCHANGED msgs
    /\ UNCHANGED <<router, participant, clock, failed>>

\* The future of waitForCompletion is ready.
AnswerDecision(t) ==
    /\ handler[t] = "wait" /\ coord[t] \in Terminal
    /\ handler' = [handler EXCEPT ![t] = "done"]
    /\ msgs' = msgs \union {Answer(t, coord[t] = "committed")}
    /\ UNCHANGED <<router, participant, clock, coordinator, failed>>

\* Mutant: the acknowledgement is counted before it is recorded.
AckedCommitBefore(t, s) == Shards \subseteq acks[t]

\* allParticipantsAckedCommit, with the acknowledgement of s.
AllAckedCommit(t, s) == Shards \subseteq acks[t] \union {s}

\* The response to commitTransaction: recvCommitAck.
ReceiveAck(m) ==
    LET t == m.txn
    IN  /\ m.type = "ack"
        /\ acks' = [acks EXCEPT ![t] = @ \union {m.shard}]
        /\ IF AllAckedCommit(t, m.shard)
           THEN /\ coord' = [coord EXCEPT ![t] = StateAfter(t, "finalCommitAck")]
                /\ doing' = doing \union Todo(t, "finalCommitAck", t)
           ELSE UNCHANGED <<coord, doing>>
        /\ msgs' = msgs \ {m}
        /\ UNCHANGED <<router, participant, clock, listed, votes, catalog, handler,
                       failed>>

-----------------------------------------------------------------------------
(* The router. *)

MayCommit(t) ==
    \/ router[t] = "active" /\ \A s \in Shards : Begun(t, s)
    \/ router[t] = "committing" /\ "Retry" \in Faults /\ handler[t] \in {"wait", "done"}

\* _commitMultiShardTransaction.  RetryPolicy::kIdempotent sends coordinateCommit
\* again.
RouterCommits(t) ==
    /\ MayCommit(t)
    /\ router' = [router EXCEPT ![t] = "committing"]
    /\ msgs' = msgs \union {Message("coordinateCommit", t, Coordinator, 0, 0)} \union
            ToAll("prepare", t, IF router[t] = "active" THEN Shards \ {Coordinator}
                                ELSE {}, 0, 0)
    /\ UNCHANGED <<participant, clock, coordinator, handler, failed>>

\* Mutant: an answer that the router waits for may also be given up.
MayAbortCommitting(t) == router[t] \in {"active", "committing"}

\* The client aborts, a statement fails, or the commit has failed.
MayAbort(t) ==
    \/ router[t] = "active"
    \/ router[t] = "committing" /\ (Answer(t, FALSE) \in msgs \/ "GiveUp" \in Faults)

\* abortTransaction and implicitlyAbortTransaction.
RouterAborts(t) ==
    /\ MayAbort(t)
    /\ router' = [router EXCEPT ![t] = "aborted"]
    /\ msgs' = (msgs \ {Answer(t, FALSE)}) \union
            ToAll("abort", t, {s \in Shards : Begun(t, s)}, 0, 0)
    /\ UNCHANGED <<participant, clock, coordinator, handler, failed>>

\* The client is told that the transaction has committed.
RouterAnswers(t) ==
    /\ router[t] = "committing" /\ Answer(t, TRUE) \in msgs
    /\ router' = [router EXCEPT ![t] = "committed"]
    /\ msgs' = msgs \ {Answer(t, TRUE)}
    /\ UNCHANGED <<participant, clock, coordinator, handler, failed>>

-----------------------------------------------------------------------------
Receive ==
    \E m \in msgs :
        \/ ReceivePrepare(m)
        \/ ReceiveCommit(m)
        \/ ReceiveAbort(m)
        \/ ReceiveVoteCommit(m)
        \/ ReceiveCoordinateCommit(m)
        \/ ReceiveAck(m)

Coordinate ==
    \/ \E d \in doing : DoCoordinatorAction(d)
    \/ \E t \in Txns : PrepareLocally(t) \/ VoteLocally(t) \/ AnswerDecision(t)

Route == \E t \in Txns : RouterCommits(t) \/ RouterAborts(t) \/ RouterAnswers(t)

Next ==
    /\ failed = "none"
    /\ \/ Receive
       \/ Coordinate
       \/ Route
       \/ \E s \in Shards : Expire(s)
       \/ \E s \in Shards, t \in Txns : BeginTransaction(s, t)

Spec == Init /\ [][Next]_vars

\* The threads of the shards and of the router go on, and a message is received in
\* the end.  Nothing makes a client begin, commit or give up, or a limit pass.
FairSpec ==
    /\ Spec
    /\ WF_vars(failed = "none" /\ Receive) /\ WF_vars(failed = "none" /\ Coordinate)
    /\ \A t \in Txns :
        /\ WF_vars(failed = "none" /\ router[t] = "committing" /\ RouterAborts(t))
        /\ WF_vars(failed = "none" /\ RouterAnswers(t))

-----------------------------------------------------------------------------
(* Properties. *)

\* The types of the state of router, coordinator and participants.
TypeOK ==
    /\ router \in [Txns -> {"idle", "active", "committing", "committed", "aborted"}]
    /\ active \in [Shards -> 0..MaxTxn]
    /\ txnState \in [Shards -> {"none", "inProgress", "prepared", "committed",
                                "aborted"}]
    /\ clock \in [Shards -> Times]
    /\ preparedAt \in [Txns -> [Shards -> Times]]
    /\ committedAt \in [Txns -> [Shards -> Times]]
    /\ aborted \in [Txns -> SUBSET Shards]
    /\ coord \in [Txns -> {"none", "waitingForParticipantList", "waitingForVotes",
                           "waitingForCommitAcks", "committed", "aborted", "broken"}]
    /\ listed \in [Txns -> BOOLEAN]
    /\ votes \in [Txns -> [Shards -> Times]]
    /\ acks \in [Txns -> SUBSET Shards]
    /\ catalog \subseteq Txns
    /\ doing \subseteq [txn : Txns, opTxn : Txns, signal : BOOLEAN,
                        action : {"none", "sendCommit", "sendAbort"}]
    /\ handler \in [Txns -> {"none", "prepare", "vote", "wait", "done"}]
    /\ msgs \subseteq Messages
    /\ failed \in {"none", "commitOplogSlot", "transitionTo"}

\* A transaction is never committed on one shard and aborted on another, whatever
\* expires or is lost, and although the session's next transaction overtakes it;
\* the abort that createCoordinator then sends is left to the fault StrayAbort.
Atomicity ==
    \A t \in Txns, s1, s2 \in Shards : committedAt[t][s1] > 0 => s2 \notin aborted[t]

\* No message arrives in a state in which the transition table has no row for it,
\* and no invariant() of prepareTransaction and commitPreparedTransaction fails.
NeverBroken == failed = "none" /\ \A t \in Txns : coord[t] # "broken"

\* What is decided about a transaction, told from the state of the coordinator.
Decision(t) ==
    IF coord[t] \in {"waitingForCommitAcks", "committed"} THEN "commit"
    ELSE IF aborted[t] # {} \/ coord[t] = "aborted" \/ router[t] = "aborted" THEN "abort"
    ELSE "open"

\* How a shard has ended a transaction.
Ending(t, s) ==
    IF s \in aborted[t] THEN "aborted"
    ELSE IF committedAt[t][s] = 0 THEN "open"
    ELSE IF committedAt[t][s] = GetCommitTimestamp(t) THEN "committed"
    ELSE "committedAtAnotherTime"

\* The timestamp that a commit was decided with.
CommitTime(t) == IF Decision(t) = "commit" THEN GetCommitTimestamp(t) ELSE 0

\* What the client has been told.
Told(t) == IF router[t] \in {"committed", "aborted"} THEN router[t] ELSE "none"

Promise ==
    INSTANCE AtomicCommit WITH
        Timestamps <- Times,
        decision <- [t \in Txns |-> Decision(t)],
        consent <- preparedAt,
        ending <- [t \in Txns |-> [s \in Shards |-> Ending(t, s)]],
        commitTime <- [t \in Txns |-> CommitTime(t)],
        answer <- [t \in Txns |-> Told(t)]

\* The router, the coordinator and the participants together take one decision,
\* with the consent of all shards if it is to commit, and carry it out: every shard
\* commits at one timestamp, at or after each prepare timestamp, and the client is
\* told of a commit only when all shards have committed, and of an abort only when
\* none has or will.
ImplementsAtomicCommit == Promise!Spec

\* A shard that has prepared is not left prepared: it learns the decision.
PreparedIsResolved ==
    \A s \in Shards : txnState[s] = "prepared" ~> txnState[s] # "prepared"

\* A client that commits gets an answer.
CommitIsAnswered ==
    \A t \in Txns : router[t] = "committing" ~> router[t] \in {"committed", "aborted"}
-----------------------------------------------------------------------------
(* The inductive invariant behind the theorems of TransactionCommitProofs. *)

Decided == {"waitingForCommitAcks", "committed"}
Voting == {"waitingForParticipantList", "waitingForVotes"}

\* Commit cannot be decided any more: the coordinator's own shard has not prepared
\* and never will, because it has aborted or will not be asked.
CannotCommit(t) ==
    /\ preparedAt[t][Coordinator] = 0
    /\ \/ Coordinator \in aborted[t]
       \/ /\ router[t] = "aborted" /\ handler[t] = "none"
          /\ \A m \in msgs : ~(m.type = "coordinateCommit" /\ m.txn = t)

\* What a shard remembers of a transaction fits its session: nothing of later ones,
\* the state of the active one, the ends of those before.
ShardInv ==
    \A s \in Shards, t \in Txns :
        /\ t > active[s] =>
            preparedAt[t][s] = 0 /\ committedAt[t][s] = 0 /\ s \notin aborted[t]
        /\ t = active[s] =>
            /\ txnState[s] # "none"
            /\ txnState[s] = "inProgress" => preparedAt[t][s] = 0
            /\ txnState[s] \in {"prepared", "committed"} => preparedAt[t][s] > 0
            /\ txnState[s] = "committed" <=> committedAt[t][s] > 0
            /\ txnState[s] = "aborted" <=> s \in aborted[t]
        /\ t < active[s] /\ (preparedAt[t][s] > 0 \/ s = Coordinator) =>
            s \in aborted[t] \/ committedAt[t][s] > 0
        /\ committedAt[t][s] > 0 => preparedAt[t][s] > 0
        /\ preparedAt[t][s] <= clock[s]

\* The router asks for the commit once: a shard that has a prepare or the request to
\* coordinate before it has not acted on one yet.
RequestInv ==
    /\ \A t \in Txns :
        /\ router[t] = "idle" <=> t > active[Coordinator]
        /\ router[t] \in {"idle", "active"} =>
            handler[t] = "none" /\ \A s \in Shards : preparedAt[t][s] = 0
        /\ handler[t] = "none" => ~listed[t]
        /\ handler[t] \in {"none", "prepare"} => preparedAt[t][Coordinator] = 0
        /\ handler[t] = "vote" =>
            preparedAt[t][Coordinator] > 0 /\ votes[t][Coordinator] = 0
    /\ \A m \in msgs :
        /\ m.type = "coordinateCommit" =>
            /\ m = Message("coordinateCommit", m.txn, Coordinator, 0, 0)
            /\ handler[m.txn] = "none" /\ router[m.txn] \notin {"idle", "active"}
        /\ m.type = "prepare" =>
            /\ m = Message("prepare", m.txn, m.shard, 0, 0) /\ m.shard # Coordinator
            /\ preparedAt[m.txn][m.shard] = 0 /\ router[m.txn] \notin {"idle", "active"}

\* A vote is the prepare timestamp of its shard, is on its way once, and the
\* coordinator's cluster time has caught up with the votes it knows.
VoteInv ==
    /\ \A t \in Txns, s \in Shards :
        votes[t][s] > 0 => votes[t][s] = preparedAt[t][s] /\ votes[t][s] <= clock[Coordinator]
    /\ \A m \in msgs :
        m.type = "voteCommit" =>
            /\ m.ts = preparedAt[m.txn][m.shard] /\ m.ts > 0 /\ m.ts <= m.time
            /\ m.shard # Coordinator /\ votes[m.txn][m.shard] = 0
            /\ \A k \in msgs :
                k.type = "voteCommit" /\ k.txn = m.txn /\ k.shard = m.shard => k = m

\* The coordinator's state fits its session, its catalog and its votes.
CoordinatorInv ==
    \A t \in Txns :
        /\ coord[t] # "broken"
        /\ coord[t] = "none" <=> t > active[Coordinator]
        /\ t \in catalog => t <= active[Coordinator]
        /\ t <= active[Coordinator] /\ t \notin catalog => coord[t] \in Terminal
        /\ coord[t] \in Voting => t = active[Coordinator]
        /\ coord[t] = "waitingForParticipantList" => ~listed[t]
        /\ coord[t] \in Decided \union {"waitingForVotes"} => listed[t]
        /\ coord[t] \in Decided => \A s \in Shards : votes[t][s] > 0
        /\ coord[t] = "committed" => acks[t] = Shards

\* A shard commits, acknowledges and is told to commit as the coordinator has decided.
CommitInv ==
    /\ \A t \in Txns, s \in Shards :
        /\ committedAt[t][s] > 0 =>
            coord[t] \in Decided /\ committedAt[t][s] = GetCommitTimestamp(t)
        /\ s \in acks[t] => committedAt[t][s] > 0
    /\ \A m \in msgs :
        /\ m.type = "commit" =>
            coord[m.txn] \in Decided /\ m.ts = GetCommitTimestamp(m.txn) /\ m.ts <= m.time
        /\ m.type = "ack" => committedAt[m.txn][m.shard] > 0
        /\ m.type = "answer" /\ m.ts > 0 => coord[m.txn] = "committed"
    /\ \A d \in doing :
        /\ d.action = "sendCommit" => d.opTxn = d.txn /\ coord[d.txn] \in Decided
        /\ d.action = "sendAbort" => coord[d.txn] = "aborted"
        /\ d.signal => coord[d.txn] \in Terminal

\* Whoever aborts, or tells somebody to, knows that commit will not be decided; a shard
\* that aborts on its own has not prepared.
AbortInv ==
    /\ \A t \in Txns :
        /\ coord[t] = "aborted" => CannotCommit(t)
        /\ router[t] = "aborted" => CannotCommit(t)
        /\ \A s \in aborted[t] : CannotCommit(t) \/ preparedAt[t][s] = 0
    /\ \A m \in msgs :
        m.type = "abort" \/ (m.type = "answer" /\ m.ts = 0) => CannotCommit(m.txn)

CommitProtocolInv ==
    /\ TypeOK /\ failed = "none"
    /\ ShardInv /\ RequestInv /\ VoteInv /\ CoordinatorInv /\ CommitInv /\ AbortInv
=============================================================================
