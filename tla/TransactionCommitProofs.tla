----------------------- MODULE TransactionCommitProofs -----------------------
(***************************************************************************)
(* Theorems about module TransactionCommit, for any set of shards, any     *)
(* number of transactions and all bounds.                                  *)
(***************************************************************************)
EXTENDS TransactionCommit, WellFoundedInduction, TLAPS

-----------------------------------------------------------------------------
(* Lemmas about the operators the actions are built from. *)

\* A bounded set of numbers has a greatest one.
LEMMA MaxFacts ==
    ASSUME NEW N \in Nat, NEW S \in SUBSET (0..N), S # {}
    PROVE  Max(S) \in S /\ \A x \in S : x <= Max(S)
<1> DEFINE T == {N - x : x \in S}
           R == OpToRel(<, Nat)
<1>1. T \subseteq Nat /\ T # {}
  <2>1. PICK x \in S : TRUE
    OBVIOUS
  <2>2. N - x \in T
    OBVIOUS
  <2>3. T \subseteq Nat
    OBVIOUS
  <2> QED BY <2>2, <2>3
<1>2. IsWellFoundedOn(R, Nat)
  BY NatLessThanWellFounded
<1>3. \A x, y \in Nat : x < y => <<x, y>> \in R
  BY Zenon DEF OpToRel
<1> HIDE DEF T, R
<1>4. PICK m \in T : \A y \in T : ~ (<<y, m>> \in R)
  BY <1>1, <1>2, WFMin
<1>5. \A y \in T : m <= y
  <2> TAKE y \in T
  <2>1. m \in Nat /\ y \in Nat
    BY <1>1
  <2>2. ~(y < m)
    BY <1>3, <1>4, <2>1
  <2> QED BY <2>1, <2>2
<1>6. PICK z \in S : m = N - z
  BY DEF T
<1>7. \A x \in S : x <= z
  <2> TAKE x \in S
  <2>1. m <= N - x
    BY <1>5 DEF T
  <2>2. x \in Nat /\ z \in Nat
    OBVIOUS
  <2> QED BY <1>6, <2>1, <2>2
<1> QED BY <1>7 DEF Max

\* The commit timestamp is one of the votes, and not before any of them.
LEMMA CommitTimestampFacts ==
    ASSUME NEW t \in Txns, votes \in [Txns -> [Shards -> Times]]
    PROVE  /\ GetCommitTimestamp(t) \in Times
           /\ \E s \in Shards : GetCommitTimestamp(t) = votes[t][s]
           /\ \A s \in Shards : votes[t][s] <= GetCommitTimestamp(t)
<1> DEFINE S == {votes[t][s] : s \in Shards}
<1>1. S \in SUBSET (0..MaxTime) /\ S # {}
  BY ShardAssumption DEF Times
<1>2. MaxTime \in Nat
  BY BoundAssumption
<1>3. Max(S) \in S /\ \A x \in S : x <= Max(S)
  BY <1>1, <1>2, MaxFacts
<1> QED BY <1>1, <1>3 DEF GetCommitTimestamp, Times

\* With one row for an event, the state machine does what the row says.
LEMMA RowFacts ==
    ASSUME NEW t, NEW event, NEW o, NEW row, Rows(t, event) = {row}
    PROVE  /\ StateAfter(t, event) = row[4]
           /\ Todo(t, event, o) =
                IF row[3] # "none" \/ row[4] \in Terminal \ {coord[t]}
                THEN {[txn |-> t, opTxn |-> o, action |-> row[3],
                       signal |-> row[4] \in Terminal \ {coord[t]}]}
                ELSE {}
<1>1. (CHOOSE r \in {row} : TRUE) = row
  BY Zenon
<1>2. StateAfter(t, event) = row[4]
  <2>1. {row} # {}
    OBVIOUS
  <2> QED BY <1>1, <2>1, Zenon DEF StateAfter
<1> DEFINE Does(r) == r[3] # "none" \/ r[4] \in Terminal \ {coord[t]}
           Record(r) == [txn |-> t, opTxn |-> o, action |-> r[3],
                         signal |-> r[4] \in Terminal \ {coord[t]}]
<1>3. Todo(t, event, o) = {Record(r) : r \in {r \in {row} : Does(r)}}
  BY Zenon DEF Todo
<1>4. CASE Does(row)
  <2>1. {r \in {row} : Does(r)} = {row}
    BY <1>4
  <2> HIDE DEF Does, Record
  <2>2. Todo(t, event, o) = {Record(row)}
    BY <1>3, <2>1
  <2> QED BY <1>2, <1>4, <2>2 DEF Does, Record
<1>5. CASE ~Does(row)
  <2>1. {r \in {row} : Does(r)} = {}
    BY <1>5
  <2> HIDE DEF Does, Record
  <2>2. Todo(t, event, o) = {}
    BY <1>3, <2>1
  <2> QED BY <1>2, <1>5, <2>2 DEF Does
<1> QED BY <1>4, <1>5

\* What the state machine does with each event in the states that have a row for it.
LEMMA AfterVote ==
    ASSUME NEW t \in Txns, NEW o \in Txns,
           coord[t] \in Voting \union Decided \union {"aborted"}
    PROVE  /\ StateAfter(t, "voteCommit") = coord[t]
           /\ Todo(t, "voteCommit", o) =
                IF coord[t] = "aborted"
                THEN {[txn |-> t, opTxn |-> o, action |-> "sendAbort", signal |-> FALSE]}
                ELSE {}
<1> DEFINE row == <<coord[t], "voteCommit",
                    IF coord[t] = "aborted" THEN "sendAbort" ELSE "none", coord[t]>>
<1>1. Rows(t, "voteCommit") = {row}
  BY DEF Rows, TransitionTable, Voting, Decided
<1>2. row[3] = (IF coord[t] = "aborted" THEN "sendAbort" ELSE "none") /\ row[4] = coord[t]
  OBVIOUS
<1> HIDE DEF row
<1>3. /\ StateAfter(t, "voteCommit") = row[4]
      /\ Todo(t, "voteCommit", o) =
            IF row[3] # "none" \/ row[4] \in Terminal \ {coord[t]}
            THEN {[txn |-> t, opTxn |-> o, action |-> row[3],
                   signal |-> row[4] \in Terminal \ {coord[t]}]}
            ELSE {}
  BY <1>1, RowFacts, Zenon
<1>4. (row[4] \in Terminal \ {coord[t]}) = FALSE
  BY <1>2
<1>5. CASE coord[t] = "aborted"
  BY <1>2, <1>3, <1>4, <1>5, Zenon
<1>6. CASE coord[t] # "aborted"
  BY <1>2, <1>3, <1>4, <1>6
<1> QED BY <1>5, <1>6

\* The final vote decides the commit, which is then sent.
LEMMA AfterFinalVote ==
    ASSUME NEW t \in Txns, NEW o \in Txns, coord[t] = "waitingForVotes"
    PROVE  /\ StateAfter(t, "finalVoteCommit") = "waitingForCommitAcks"
           /\ Todo(t, "finalVoteCommit", o) =
                {[txn |-> t, opTxn |-> o, action |-> "sendCommit", signal |-> FALSE]}
<1> DEFINE row == <<"waitingForVotes", "finalVoteCommit", "sendCommit",
                    "waitingForCommitAcks">>
<1>1. Rows(t, "finalVoteCommit") = {row}
  BY DEF Rows, TransitionTable
<1>2. row[3] = "sendCommit" /\ row[4] = "waitingForCommitAcks"
  OBVIOUS
<1> HIDE DEF row
<1>3. /\ StateAfter(t, "finalVoteCommit") = row[4]
      /\ Todo(t, "finalVoteCommit", o) =
            IF row[3] # "none" \/ row[4] \in Terminal \ {coord[t]}
            THEN {[txn |-> t, opTxn |-> o, action |-> row[3],
                   signal |-> row[4] \in Terminal \ {coord[t]}]}
            ELSE {}
  BY <1>1, RowFacts, Zenon
<1>4. (row[4] \in Terminal \ {coord[t]}) = FALSE /\ row[3] # "none"
  BY <1>2 DEF Terminal
<1> QED BY <1>2, <1>3, <1>4, Zenon

\* The participant list moves a coordinator on only when it has not had it.
LEMMA AfterList ==
    ASSUME NEW t \in Txns, coord[t] \in Voting \union Decided \union {"aborted"}
    PROVE  StateAfter(t, "participantList") =
                IF coord[t] = "waitingForParticipantList" THEN "waitingForVotes"
                ELSE coord[t]
<1> DEFINE row == <<coord[t], "participantList", "none",
                    IF coord[t] = "waitingForParticipantList" THEN "waitingForVotes"
                    ELSE coord[t]>>
<1>1. Rows(t, "participantList") = {row}
  BY DEF Rows, TransitionTable, Voting, Decided
<1>2. row[4] = IF coord[t] = "waitingForParticipantList" THEN "waitingForVotes"
               ELSE coord[t]
  OBVIOUS
<1> HIDE DEF row
<1>3. /\ StateAfter(t, "participantList") = row[4]
      /\ Todo(t, "participantList", t) =
            IF row[3] # "none" \/ row[4] \in Terminal \ {coord[t]}
            THEN {[txn |-> t, opTxn |-> t, action |-> row[3],
                   signal |-> row[4] \in Terminal \ {coord[t]}]}
            ELSE {}
  BY <1>1, RowFacts, Zenon
<1> QED BY <1>2, <1>3

\* The final acknowledgement ends the coordinator.
LEMMA AfterFinalAck ==
    ASSUME NEW t \in Txns, NEW o \in Txns, coord[t] \in Decided
    PROVE  /\ StateAfter(t, "finalCommitAck") = "committed"
           /\ Todo(t, "finalCommitAck", o) =
                IF coord[t] = "committed" THEN {}
                ELSE {[txn |-> t, opTxn |-> o, action |-> "none", signal |-> TRUE]}
<1> DEFINE row == <<coord[t], "finalCommitAck", "none", "committed">>
<1>1. Rows(t, "finalCommitAck") = {row}
  BY DEF Rows, TransitionTable, Decided
<1>2. row[3] = "none" /\ row[4] = "committed"
  OBVIOUS
<1> HIDE DEF row
<1>3. /\ StateAfter(t, "finalCommitAck") = row[4]
      /\ Todo(t, "finalCommitAck", o) =
            IF row[3] # "none" \/ row[4] \in Terminal \ {coord[t]}
            THEN {[txn |-> t, opTxn |-> o, action |-> row[3],
                   signal |-> row[4] \in Terminal \ {coord[t]}]}
            ELSE {}
  BY <1>1, RowFacts, Zenon
<1> QED BY <1>2, <1>3 DEF Terminal, Decided

\* An abort is heard before the decision only.
LEMMA AfterTryAbort ==
    ASSUME NEW t \in Txns, NEW o \in Txns,
           coord[t] \in Voting \union Decided \union {"aborted"}
    PROVE  /\ StateAfter(t, "tryAbort") =
                IF coord[t] \in Voting THEN "aborted" ELSE coord[t]
           /\ Todo(t, "tryAbort", o) =
                IF coord[t] \in Voting
                THEN {[txn |-> t, opTxn |-> o, action |-> "sendAbort", signal |-> TRUE]}
                ELSE {}
<1> DEFINE row == <<coord[t], "tryAbort",
                    IF coord[t] \in Voting THEN "sendAbort" ELSE "none",
                    IF coord[t] \in Voting THEN "aborted" ELSE coord[t]>>
<1>1. Rows(t, "tryAbort") = {row}
  BY DEF Rows, TransitionTable, Voting, Decided
<1>2. /\ row[3] = IF coord[t] \in Voting THEN "sendAbort" ELSE "none"
      /\ row[4] = IF coord[t] \in Voting THEN "aborted" ELSE coord[t]
  OBVIOUS
<1> HIDE DEF row
<1>3. /\ StateAfter(t, "tryAbort") = row[4]
      /\ Todo(t, "tryAbort", o) =
            IF row[3] # "none" \/ row[4] \in Terminal \ {coord[t]}
            THEN {[txn |-> t, opTxn |-> o, action |-> row[3],
                   signal |-> row[4] \in Terminal \ {coord[t]}]}
            ELSE {}
  BY <1>1, RowFacts, Zenon
<1> QED BY <1>2, <1>3 DEF Terminal, Voting

\* The types of what the actions write.
States == {"none", "waitingForParticipantList", "waitingForVotes",
           "waitingForCommitAcks", "committed", "aborted", "broken"}
Tasks == [txn : Txns, opTxn : Txns, signal : BOOLEAN,
          action : {"none", "sendCommit", "sendAbort"}]

\* The state machine goes to a state of its table, or is broken.
LEMMA StateAfterType ==
    ASSUME NEW t \in Txns, NEW event
    PROVE  StateAfter(t, event) \in States
<1>1. CASE Rows(t, event) = {}
  BY <1>1 DEF StateAfter, States
<1>2. CASE Rows(t, event) # {}
  <2> DEFINE row == CHOOSE r \in Rows(t, event) : TRUE
  <2>1. row \in Rows(t, event)
    BY <1>2
  <2>2. row \in TransitionTable
    BY <2>1 DEF Rows
  <2> HIDE DEF row
  <2>3. row[4] \in States
    BY <2>2 DEF TransitionTable, States
  <2> QED BY <1>2, <2>3 DEF StateAfter, row
<1> QED BY <1>1, <1>2

\* What a transition leaves to do is a task of a coordinator thread.
LEMMA TodoType ==
    ASSUME NEW t \in Txns, NEW event, NEW o \in Txns
    PROVE  Todo(t, event, o) \subseteq Tasks
<1> SUFFICES ASSUME NEW d \in Todo(t, event, o)
             PROVE  d \in Tasks
  OBVIOUS
<1>1. PICK r \in Rows(t, event) :
        d = [txn |-> t, opTxn |-> o, action |-> r[3],
             signal |-> r[4] \in Terminal \ {coord[t]}]
  BY Zenon DEF Todo
<1>2. r \in TransitionTable
  BY DEF Rows
<1>3. r[3] \in {"none", "sendCommit", "sendAbort"}
  BY <1>2 DEF TransitionTable
<1> DEFINE b == r[4] \in Terminal \ {coord[t]}
<1>4. b \in BOOLEAN
  OBVIOUS
<1> HIDE DEF b
<1>5. d = [txn |-> t, opTxn |-> o, action |-> r[3], signal |-> b]
  BY <1>1 DEF b
<1> QED BY <1>3, <1>4, <1>5 DEF Tasks

\* A message whose fields have their types is one of the set of messages.
LEMMA MessageType ==
    ASSUME NEW type \in {"prepare", "coordinateCommit", "voteCommit", "commit", "abort",
                         "ack", "answer"},
           NEW t \in Txns, NEW s \in Shards, NEW ts \in Times, NEW time \in Times
    PROVE  Message(type, t, s, ts, time) \in Messages
BY DEF Message, Messages

\* What is sent to several shards is messages.
LEMMA ToAllType ==
    ASSUME NEW type \in {"prepare", "coordinateCommit", "voteCommit", "commit", "abort",
                         "ack", "answer"},
           NEW t \in Txns, NEW shards, NEW ts \in Times, NEW time \in Times,
           shards \subseteq Shards
    PROVE  ToAll(type, t, shards, ts, time) \subseteq Messages
BY MessageType DEF ToAll

\* Times and transaction numbers are numbers, and transactions begin at 1.
LEMMA ConstantTypes ==
    /\ 0 \in Times /\ 1 \in Times /\ Coordinator \in Shards
    /\ MaxTime \in Nat /\ MaxTxn \in Nat /\ Txns \subseteq Nat /\ Times \subseteq Nat
    /\ \A t \in Txns : t > 0
BY ShardAssumption, BoundAssumption DEF Times, Txns

\* An answer to the router is a message.
LEMMA AnswerType ==
    ASSUME NEW t \in Txns, NEW ok \in BOOLEAN
    PROVE  Answer(t, ok) \in Messages
BY ConstantTypes, MessageType DEF Answer

\* What a task sends is well-formed.
LEMMA SendActionType ==
    ASSUME TypeOK, NEW d \in doing
    PROVE  SendAction(d) \subseteq Messages
<1>1. d \in Tasks
  BY DEF TypeOK, Tasks
<1>2. /\ d.txn \in Txns /\ d.opTxn \in Txns
  BY <1>1 DEF Tasks
<1>3. GetCommitTimestamp(d.txn) \in Times
  BY <1>2, CommitTimestampFacts DEF TypeOK
<1>4. clock[Coordinator] \in Times
  BY ConstantTypes DEF TypeOK
<1>5. Shards \ acks[d.txn] \subseteq Shards /\ Recorded(d.txn) \subseteq Shards
  BY DEF Recorded
<1>6. ToAll("commit", d.opTxn, Shards \ acks[d.txn], GetCommitTimestamp(d.txn),
            clock[Coordinator]) \subseteq Messages
  BY <1>2, <1>3, <1>4, <1>5, ToAllType
<1>7. ToAll("abort", d.opTxn, Recorded(d.txn), 0, 0) \subseteq Messages
  BY <1>2, <1>5, ConstantTypes, ToAllType
<1> QED BY <1>6, <1>7 DEF SendAction

-----------------------------------------------------------------------------
(* The types, whatever faults happen. *)

\* The variables have their types at the start.
LEMMA InitTypes == Init => TypeOK
BY ConstantTypes, BoundAssumption DEF Init, TypeOK, Times

\* They keep them when a coordinator hears a vote.
LEMMA RecvVoteTypes ==
    ASSUME TypeOK, NEW t \in Txns, NEW s \in Shards, NEW ts \in Times,
           RecvVoteCommit(t, s, ts)
    PROVE  /\ votes' \in [Txns -> [Shards -> Times]]
           /\ coord' \in [Txns -> States]
           /\ doing' \subseteq Tasks
           /\ UNCHANGED <<listed, acks, catalog>>
<1> DEFINE event == IF AllVotedCommit(t, s) THEN "finalVoteCommit" ELSE "voteCommit"
<1>1. /\ votes' = [votes EXCEPT ![t][s] = ts]
      /\ coord' = [coord EXCEPT ![t] = StateAfter(t, event)]
      /\ doing' = doing \union Todo(t, event, t)
      /\ UNCHANGED <<listed, acks, catalog>>
  BY DEF RecvVoteCommit
<1> HIDE DEF event
<1>2. StateAfter(t, event) \in States /\ Todo(t, event, t) \subseteq Tasks
  BY StateAfterType, TodoType
<1> QED BY <1>1, <1>2 DEF TypeOK, States, Tasks

\* They keep them when a message is received.
LEMMA ReceiveTypes ==
    ASSUME TypeOK, NEW m \in msgs,
           \/ ReceivePrepare(m) \/ ReceiveCommit(m) \/ ReceiveAbort(m)
           \/ ReceiveVoteCommit(m) \/ ReceiveCoordinateCommit(m) \/ ReceiveAck(m)
    PROVE  TypeOK'
<1> DEFINE s == m.shard
           t == m.txn
<1>1. /\ m \in Messages /\ t \in Txns /\ s \in Shards
      /\ m.ts \in Times /\ m.time \in Times
  BY DEF TypeOK, Messages
<1>2. \A x \in Shards : clock[x] \in Times /\ Later(x, m.time) \in Times
  BY <1>1 DEF TypeOK, Later
<1>3. /\ Message("ack", t, s, 0, 0) \in Messages
      /\ Message("abort", t, s, 0, 0) \in Messages
      /\ Answer(t, FALSE) \in Messages
  BY <1>1, ConstantTypes, MessageType, AnswerType
<1> HIDE DEF s, t
<1>4. CASE ReceivePrepare(m)
  <2>1. CASE msgs' = msgs \ {m} /\ UNCHANGED <<participant, clock>>
    BY <1>4, <2>1 DEF ReceivePrepare, participant, coordinator, TypeOK
  <2>2. CASE txnState[s] = "inProgress" /\ Prepare(s, t)
          /\ msgs' = (msgs \ {m}) \union
                {Message("voteCommit", t, s, preparedAt'[t][s], clock'[s])}
    <3>1. clock[s] + 1 \in Times /\ clock[s] \in Times
      BY <1>1, <1>2, <2>2, ConstantTypes DEF Prepare, Times
    <3>2. preparedAt' \in [Txns -> [Shards -> Times]] /\ clock' \in [Shards -> Times]
      BY <1>1, <2>2, <3>1 DEF Prepare, TypeOK
    <3>3. Message("voteCommit", t, s, preparedAt'[t][s], clock'[s]) \in Messages
      BY <1>1, <3>2, MessageType
    <3> QED BY <1>1, <1>4, <2>2, <3>2, <3>3 DEF Prepare, ReceivePrepare, coordinator, TypeOK
  <2>3. CASE UNCHANGED <<participant, clock>>
          /\ msgs' = (msgs \ {m}) \union
                {Message("voteCommit", t, s, preparedAt'[t][s], clock'[s])}
    <3>1. Message("voteCommit", t, s, preparedAt'[t][s], clock'[s]) \in Messages
      BY <1>1, <2>3, MessageType DEF participant, TypeOK
    <3> QED BY <1>4, <2>3, <3>1 DEF ReceivePrepare, participant, coordinator, TypeOK
  <2> QED BY <1>4, <2>1, <2>2, <2>3 DEF ReceivePrepare, s, t
<1>5. CASE ReceiveCommit(m)
  <2>1. CASE Fail("commitOplogSlot")
    BY <2>1 DEF Fail, participant, coordinator, TypeOK
  <2>2. CASE /\ Later(s, m.time) < MaxTime
             /\ clock' = [clock EXCEPT ![s] = Later(s, m.time) + 1]
             /\ txnState' = [txnState EXCEPT ![s] = "committed"]
             /\ committedAt' = [committedAt EXCEPT ![t][s] = m.ts]
             /\ msgs' = (msgs \ {m}) \union {Message("ack", t, s, 0, 0)}
             /\ UNCHANGED <<active, preparedAt, aborted, failed>>
             /\ UNCHANGED <<router, coordinator, handler>>
    <3>1. Later(s, m.time) + 1 \in Times
      BY <1>1, <1>2, <2>2, ConstantTypes DEF Times
    <3> QED BY <1>1, <1>3, <2>2, <3>1 DEF coordinator, TypeOK
  <2>3. CASE UNCHANGED <<router, participant, clock, coordinator, handler, failed>>
    BY <1>1, <1>3, <1>5, <2>3 DEF ReceiveCommit, Fail, participant, coordinator, TypeOK, s, t
  <2> QED BY <1>5, <2>1, <2>2, <2>3 DEF ReceiveCommit, s, t
<1>6. CASE ReceiveAbort(m)
  <2>1. CASE AbortOnSession(s) /\ active[s] = t
    BY <1>1, <1>6, <2>1 DEF ReceiveAbort, AbortOnSession, coordinator, TypeOK
  <2>2. CASE UNCHANGED participant
    BY <1>6, <2>2 DEF ReceiveAbort, participant, coordinator, TypeOK
  <2> QED BY <1>6, <2>1, <2>2 DEF ReceiveAbort, s, t
<1>7. CASE ReceiveVoteCommit(m)
  <2>1. clock' \in [Shards -> Times]
    BY <1>2, <1>7, ConstantTypes DEF ReceiveVoteCommit, TypeOK
  <2>2. CASE UNCHANGED coordinator
             /\ msgs' = (msgs \ {m}) \union {Message("abort", t, s, 0, 0)}
    BY <1>3, <1>7, <2>1, <2>2 DEF ReceiveVoteCommit, participant, coordinator, TypeOK
  <2>3. CASE RecvVoteCommit(t, s, m.ts) /\ msgs' = msgs \ {m}
    BY <1>1, <1>7, <2>1, <2>3, RecvVoteTypes
       DEF ReceiveVoteCommit, participant, TypeOK, States, Tasks
  <2>4. CASE UNCHANGED coordinator /\ msgs' = msgs \ {m}
    BY <1>7, <2>1, <2>4 DEF ReceiveVoteCommit, participant, coordinator, TypeOK
  <2> QED BY <1>7, <2>2, <2>3, <2>4 DEF ReceiveVoteCommit, s, t
<1>8. CASE ReceiveCoordinateCommit(m)
  <2>1. StateAfter(t, "participantList") \in States
    BY <1>1, StateAfterType
  <2>2. CASE UNCHANGED coordinator
             /\ msgs' = (msgs \ {m}) \union {Answer(t, FALSE)}
             /\ handler' = [handler EXCEPT ![t] = "done"]
    BY <1>1, <1>3, <1>8, <2>2
       DEF ReceiveCoordinateCommit, participant, coordinator, TypeOK
  <2>3. CASE /\ listed' = [listed EXCEPT ![t] = TRUE]
             /\ coord' = [coord EXCEPT ![t] = StateAfter(t, "participantList")]
             /\ handler' = [handler EXCEPT ![t] =
                               IF coord[t] \in Terminal THEN "wait" ELSE "prepare"]
             /\ msgs' = msgs \ {m}
             /\ UNCHANGED <<votes, acks, catalog, doing>>
    <3>1. listed' \in [Txns -> BOOLEAN]
      BY <1>1, <2>3 DEF TypeOK
    <3> QED BY <1>1, <1>8, <2>1, <2>3, <3>1
            DEF ReceiveCoordinateCommit, participant, TypeOK, States
  <2> QED BY <1>8, <2>2, <2>3 DEF ReceiveCoordinateCommit, t
<1>9. CASE ReceiveAck(m)
  <2>1. /\ StateAfter(t, "finalCommitAck") \in States
        /\ Todo(t, "finalCommitAck", t) \subseteq Tasks
    BY <1>1, StateAfterType, TodoType
  <2> QED BY <1>1, <1>9, <2>1 DEF ReceiveAck, participant, TypeOK, States, Tasks, s, t
<1> QED BY <1>4, <1>5, <1>6, <1>7, <1>8, <1>9

\* They keep them in the coordinator's own steps.
LEMMA CoordinateTypes ==
    ASSUME TypeOK, Coordinate
    PROVE  TypeOK'
<1>1. ASSUME NEW d \in doing, DoCoordinatorAction(d)
      PROVE  TypeOK'
  BY <1>1, SendActionType DEF DoCoordinatorAction, participant, TypeOK
<1>2. ASSUME NEW t \in Txns, PrepareLocally(t)
      PROVE  TypeOK'
  <2>1. CASE Fail("transitionTo")
    BY <2>1 DEF Fail, participant, coordinator, TypeOK
  <2>2. CASE Prepare(Coordinator, t) /\ handler' = [handler EXCEPT ![t] = "vote"]
             /\ UNCHANGED <<router, coordinator, msgs, failed>>
    <3>1. clock[Coordinator] + 1 \in Times
      BY <2>2, ConstantTypes DEF Prepare, Times, TypeOK
    <3> QED BY <2>2, <3>1, ConstantTypes DEF Prepare, coordinator, TypeOK
  <2>3. CASE handler' = [handler EXCEPT ![t] = "done"]
             /\ msgs' = msgs \union {Answer(t, FALSE)}
             /\ UNCHANGED <<router, participant, clock, coordinator, failed>>
    BY <2>3, AnswerType DEF participant, coordinator, TypeOK
  <2> QED BY <1>2, <2>1, <2>2, <2>3 DEF PrepareLocally
<1>3. ASSUME NEW t \in Txns, VoteLocally(t)
      PROVE  TypeOK'
  <2>1. CASE msgs' = msgs \union {Message("abort", t, Coordinator, 0, 0)}
             /\ UNCHANGED coordinator
    <3>1. Message("abort", t, Coordinator, 0, 0) \in Messages
      BY ConstantTypes, MessageType
    <3> QED BY <1>3, <2>1, <3>1 DEF VoteLocally, participant, coordinator, TypeOK
  <2>2. CASE RecvVoteCommit(t, Coordinator, preparedAt[t][Coordinator]) /\ UNCHANGED msgs
    <3>1. preparedAt[t][Coordinator] \in Times
      BY ConstantTypes DEF TypeOK
    <3> QED BY <1>3, <2>2, <3>1, ConstantTypes, RecvVoteTypes
            DEF VoteLocally, participant, TypeOK, States, Tasks
  <2> QED BY <1>3, <2>1, <2>2 DEF VoteLocally
<1>4. ASSUME NEW t \in Txns, AnswerDecision(t)
      PROVE  TypeOK'
  <2>1. Answer(t, coord[t] = "committed") \in Messages
    BY AnswerType
  <2> QED BY <1>4, <2>1 DEF AnswerDecision, participant, coordinator, TypeOK
<1> QED BY <1>1, <1>2, <1>3, <1>4 DEF Coordinate

\* They keep them in the router's steps.
LEMMA RouteTypes ==
    ASSUME TypeOK, NEW t \in Txns,
           RouterCommits(t) \/ RouterAborts(t) \/ RouterAnswers(t)
    PROVE  TypeOK'
<1>1. CASE RouterCommits(t)
  <2>1. Message("coordinateCommit", t, Coordinator, 0, 0) \in Messages
    BY ConstantTypes, MessageType
  <2>2. ToAll("prepare", t, IF router[t] = "active" THEN Shards \ {Coordinator} ELSE {},
              0, 0) \subseteq Messages
    BY ConstantTypes, ToAllType
  <2> QED BY <1>1, <2>1, <2>2 DEF RouterCommits, participant, coordinator, TypeOK
<1>2. CASE RouterAborts(t)
  <2>1. ToAll("abort", t, {s \in Shards : Begun(t, s)}, 0, 0) \subseteq Messages
    BY ConstantTypes, ToAllType
  <2> QED BY <1>2, <2>1 DEF RouterAborts, participant, coordinator, TypeOK
<1>3. CASE RouterAnswers(t)
  BY <1>3 DEF RouterAnswers, participant, coordinator, TypeOK
<1> QED BY <1>1, <1>2, <1>3

\* They keep them when a shard begins, runs or gives up a transaction.
LEMMA SessionTypes ==
    ASSUME TypeOK, NEW s \in Shards, NEW t \in Txns,
           Expire(s) \/ BeginTransaction(s, t)
    PROVE  TypeOK'
<1>1. CASE Expire(s)
  <2>1. /\ txnState' \in [Shards -> {"none", "inProgress", "prepared", "committed", "aborted"}]
        /\ aborted' \in [Txns -> SUBSET Shards]
    BY <1>1 DEF Expire, AbortOnSession, TypeOK
  <2>2. UNCHANGED <<router, active, clock, preparedAt, committedAt, coord, listed, votes,
                    acks, catalog, doing, handler, msgs, failed>>
    BY <1>1 DEF Expire, AbortOnSession, coordinator
  <2> QED BY <2>1, <2>2 DEF TypeOK
<1>2. CASE BeginTransaction(s, t)
  <2>1. /\ router' \in [Txns -> {"idle", "active", "committing", "committed", "aborted"}]
        /\ active' \in [Shards -> 0..MaxTxn]
        /\ txnState' \in [Shards -> {"none", "inProgress", "prepared", "committed",
                                     "aborted"}]
        /\ aborted' \in [Txns -> SUBSET Shards]
    BY <1>2, BoundAssumption DEF BeginTransaction, TypeOK, Txns
  <2>2. CASE s # Coordinator
    BY <1>2, <2>1, <2>2 DEF BeginTransaction, coordinator, TypeOK
  <2>3. CASE s = Coordinator
    <3> DEFINE latest == IF catalog = {} THEN 0 ELSE Max(catalog)
    <3>1. latest \in Txns \/ latest = 0
      <4>1. catalog \in SUBSET (0..MaxTxn) /\ catalog \subseteq Txns
        BY DEF TypeOK, Txns
      <4> QED BY <4>1, ConstantTypes, MaxFacts
    <3>2. /\ coord' = [x \in Txns |-> IF x = t THEN "waitingForParticipantList"
                                      ELSE IF x = latest THEN StateAfter(x, "tryAbort")
                                      ELSE coord[x]]
          /\ doing' = IF latest = 0 THEN doing
                      ELSE doing \union Todo(latest, "tryAbort", t)
          /\ catalog' = catalog \union {t}
          /\ UNCHANGED <<listed, votes, acks>>
      BY <1>2, <2>3 DEF BeginTransaction, CreateCoordinator
    <3> HIDE DEF latest
    <3>3. coord' \in [Txns -> States]
      BY <3>2, StateAfterType DEF TypeOK, States
    <3>4. doing' \subseteq Tasks
      BY <3>1, <3>2, TodoType DEF TypeOK, Tasks
    <3> QED BY <1>2, <2>1, <3>2, <3>3, <3>4 DEF BeginTransaction, TypeOK, States, Tasks
  <2> QED BY <2>2, <2>3
<1> QED BY <1>1, <1>2

\* They keep them in every step.
LEMMA TypesStep == TypeOK /\ [Next]_vars => TypeOK'
<1> SUFFICES ASSUME TypeOK, [Next]_vars
             PROVE  TypeOK'
  OBVIOUS
<1>1. CASE UNCHANGED vars
  BY <1>1 DEF vars, participant, coordinator, TypeOK
<1>2. CASE Receive
  BY <1>2, ReceiveTypes DEF Receive
<1>3. CASE Coordinate
  BY <1>3, CoordinateTypes
<1>4. CASE Route
  BY <1>4, RouteTypes DEF Route
<1>5. CASE \E s \in Shards : Expire(s)
  BY <1>5, SessionTypes, BoundAssumption DEF Txns
<1>6. CASE \E s \in Shards, t \in Txns : BeginTransaction(s, t)
  BY <1>6, SessionTypes
<1> QED BY <1>1, <1>2, <1>3, <1>4, <1>5, <1>6 DEF Next

\* The state of router, coordinator and participants keeps its types, whichever of
\* the faults happen.
THEOREM TransactionTypes == Spec => []TypeOK
BY InitTypes, TypesStep, PTL DEF Spec

-----------------------------------------------------------------------------
(* The inductive invariant. *)

\* The faults under which a transaction is atomic: none but a client that goes on
\* before it is answered.  With each of the others TLC finds a violation.
NoOtherFault == Faults \subseteq {"Overtake"}

\* A message has the fields that it was made of.
LEMMA MessageFields ==
    ASSUME NEW type, NEW t, NEW s, NEW ts, NEW time
    PROVE  /\ Message(type, t, s, ts, time).type = type
           /\ Message(type, t, s, ts, time).txn = t
           /\ Message(type, t, s, ts, time).shard = s
           /\ Message(type, t, s, ts, time).ts = ts
           /\ Message(type, t, s, ts, time).time = time
BY DEF Message

\* The types of the values that the functions have.
ValueTypes ==
    /\ \A s \in Shards : active[s] \in Nat /\ clock[s] \in Nat
    /\ \A t \in Txns, s \in Shards :
        preparedAt[t][s] \in Nat /\ committedAt[t][s] \in Nat /\ votes[t][s] \in Nat
    /\ \A m \in msgs : /\ m.txn \in Txns /\ m.shard \in Shards
                       /\ m.ts \in Nat /\ m.time \in Nat
    /\ \A d \in doing : d.txn \in Txns /\ d.opTxn \in Txns
    /\ Txns \subseteq Nat /\ \A t \in Txns : t > 0
    /\ Coordinator \in Shards

\* The types of the variables give those of their values.
LEMMA ValuesTyped == TypeOK => ValueTypes
<1> SUFFICES ASSUME TypeOK
             PROVE  ValueTypes
  OBVIOUS
<1>0. Times \subseteq Nat /\ 0..MaxTxn \subseteq Nat
  BY ConstantTypes
<1>1. \A s \in Shards : active[s] \in Nat /\ clock[s] \in Nat
  <2>1. active \in [Shards -> 0..MaxTxn] /\ clock \in [Shards -> Times]
    BY DEF TypeOK
  <2> QED BY <1>0, <2>1
<1>2. \A t \in Txns, s \in Shards :
        preparedAt[t][s] \in Nat /\ committedAt[t][s] \in Nat /\ votes[t][s] \in Nat
  <2>1. \A t \in Txns :
            /\ preparedAt[t] \in [Shards -> Times] /\ committedAt[t] \in [Shards -> Times]
            /\ votes[t] \in [Shards -> Times]
    BY DEF TypeOK
  <2> QED BY <1>0, <2>1
<1>3. \A m \in msgs : /\ m.txn \in Txns /\ m.shard \in Shards
                      /\ m.ts \in Nat /\ m.time \in Nat
  BY ConstantTypes DEF TypeOK, Messages
<1>4. \A d \in doing : d.txn \in Txns /\ d.opTxn \in Txns
  BY DEF TypeOK
<1> QED BY <1>1, <1>2, <1>3, <1>4, ConstantTypes DEF ValueTypes

\* What the shards remember does not depend on how far their clocks have come.
LEMMA ShardInvKept ==
    ASSUME ValueTypes, ShardInv,
           UNCHANGED <<active, txnState, preparedAt, committedAt, aborted>>,
           \A x \in Shards : clock'[x] >= clock[x] /\ clock'[x] \in Nat
    PROVE  ShardInv'
<1> SUFFICES ASSUME NEW s \in Shards, NEW t \in Txns
             PROVE  preparedAt[t][s] <= clock'[s]
  BY Zenon DEF ShardInv
<1>1. preparedAt[t][s] <= clock[s] /\ preparedAt[t][s] \in Nat /\ clock[s] \in Nat
  BY DEF ShardInv, ValueTypes
<1>2. clock'[s] >= clock[s] /\ clock'[s] \in Nat
  OBVIOUS
<1> QED BY <1>1, <1>2

\* The commit timestamp is a function of the votes.
LEMMA CommitTimeStable ==
    ASSUME NEW t, votes'[t] = votes[t]
    PROVE  GetCommitTimestamp(t)' = GetCommitTimestamp(t)
BY DEF GetCommitTimestamp

\* A step that changes nothing but to take messages from the network keeps the
\* invariant: a message may be lost.
LEMMA FewerMessages ==
    ASSUME CommitProtocolInv, msgs' \subseteq msgs,
           UNCHANGED <<router, participant, clock, coordinator, handler, failed>>
    PROVE  CommitProtocolInv'
<1> USE DEF CommitProtocolInv, participant, coordinator
<1>1. TypeOK'
  BY DEF TypeOK
<1>2. ShardInv'
  BY DEF ShardInv
<1>3. RequestInv'
  BY DEF RequestInv
<1>4. VoteInv'
  BY DEF VoteInv
<1>5. CoordinatorInv'
  BY DEF CoordinatorInv
<1>6. CommitInv'
  BY CommitTimeStable DEF CommitInv
<1>7. AbortInv'
  BY DEF AbortInv, CannotCommit
<1> QED BY <1>1, <1>2, <1>3, <1>4, <1>5, <1>6, <1>7

\* A participant prepares on the router's request, or fails silently.
LEMMA ReceivePrepareInv ==
    ASSUME CommitProtocolInv, NEW m \in msgs, ReceivePrepare(m)
    PROVE  CommitProtocolInv'
<1> DEFINE s == m.shard
           t == m.txn
           vote == Message("voteCommit", t, s, clock[s] + 1, clock[s] + 1)
<1>0. /\ TypeOK /\ ShardInv /\ RequestInv /\ VoteInv /\ CoordinatorInv /\ CommitInv
      /\ AbortInv /\ m \in Messages /\ s \in Shards /\ t \in Txns /\ m.type = "prepare"
      /\ clock[s] \in Nat /\ ValueTypes
  BY ValuesTyped DEF CommitProtocolInv, TypeOK, Messages, ReceivePrepare, ValueTypes
<1>1. /\ s # Coordinator /\ preparedAt[t][s] = 0 /\ router[t] \notin {"idle", "active"}
      /\ \A k \in msgs \ {m} : ~(k.type = "prepare" /\ k.txn = t /\ k.shard = s)
  BY <1>0 DEF RequestInv
<1>2. CASE msgs' = msgs \ {m} /\ UNCHANGED <<participant, clock>>
  BY <1>2, FewerMessages DEF ReceivePrepare
<1>3. CASE active[s] = t /\ txnState[s] = "prepared"
  BY <1>0, <1>1, <1>3 DEF ValueTypes, ShardInv
<1>4. CASE /\ active[s] = t /\ txnState[s] = "inProgress" /\ Prepare(s, t)
           /\ msgs' = (msgs \ {m}) \union
                {Message("voteCommit", t, s, preparedAt'[t][s], clock'[s])}
  <2>1. /\ preparedAt' = [preparedAt EXCEPT ![t][s] = clock[s] + 1]
        /\ clock' = [clock EXCEPT ![s] = clock[s] + 1]
        /\ txnState' = [txnState EXCEPT ![s] = "prepared"]
        /\ UNCHANGED <<router, active, committedAt, aborted, coordinator, handler, failed>>
    BY <1>4 DEF Prepare, ReceivePrepare
  <2>2. msgs' = (msgs \ {m}) \union {vote}
    BY <1>0, <1>4, <2>1 DEF TypeOK
  <2>3. /\ vote.type = "voteCommit" /\ vote.txn = t /\ vote.shard = s
        /\ vote.ts = clock[s] + 1 /\ vote.time = clock[s] + 1
    BY MessageFields
  <2>4. /\ \A x \in Txns, y \in Shards : preparedAt'[x][y] =
            IF x = t /\ y = s THEN clock[s] + 1 ELSE preparedAt[x][y]
        /\ \A y \in Shards : clock'[y] = IF y = s THEN clock[s] + 1 ELSE clock[y]
        /\ \A y \in Shards : txnState'[y] = IF y = s THEN "prepared" ELSE txnState[y]
    BY <1>0, <2>1 DEF TypeOK
  <2> HIDE DEF vote
  <2>5. TypeOK'
    BY <1>0, ReceiveTypes
  <2>6. ShardInv'
    BY <1>0, <1>4, <2>1, <2>4 DEF ValueTypes, ShardInv
  <2>7. RequestInv'
    BY <1>0, <1>1, <2>1, <2>2, <2>3, <2>4 DEF ValueTypes, RequestInv, coordinator
  <2>8. VoteInv'
    BY <1>0, <1>1, <2>1, <2>2, <2>3, <2>4 DEF ValueTypes, VoteInv, coordinator
  <2>9. CoordinatorInv'
    BY <1>0, <2>1 DEF CoordinatorInv, coordinator
  <2>10. CommitInv'
    BY <1>0, <2>1, <2>2, <2>3, CommitTimeStable DEF CommitInv, coordinator
  <2>11. AbortInv'
    BY <1>0, <1>1, <1>4, <2>1, <2>2, <2>3, <2>4 DEF ValueTypes, AbortInv, CannotCommit, ShardInv, coordinator
  <2> QED BY <2>1, <2>5, <2>6, <2>7, <2>8, <2>9, <2>10, <2>11 DEF CommitProtocolInv
<1> QED BY <1>2, <1>3, <1>4 DEF ReceivePrepare

\* A shard commits at the coordinator's timestamp, which its clock has passed, or
\* acknowledges once more, or refuses.
LEMMA ReceiveCommitInv ==
    ASSUME CommitProtocolInv, NEW m \in msgs, ReceiveCommit(m)
    PROVE  CommitProtocolInv'
<1> DEFINE s == m.shard
           t == m.txn
           ack == Message("ack", t, s, 0, 0)
<1>0. /\ TypeOK /\ ShardInv /\ RequestInv /\ VoteInv /\ CoordinatorInv /\ CommitInv
      /\ AbortInv /\ s \in Shards /\ t \in Txns /\ m.type = "commit" /\ ValueTypes
      /\ clock[s] \in Nat /\ m.ts \in Nat /\ m.time \in Nat
  BY ValuesTyped DEF CommitProtocolInv, ReceiveCommit, ValueTypes
<1>1. /\ coord[t] \in Decided /\ m.ts = GetCommitTimestamp(t) /\ m.ts <= m.time
      /\ m.ts > 0
  <2>1. coord[t] \in Decided /\ m.ts = GetCommitTimestamp(t) /\ m.ts <= m.time
    BY <1>0 DEF CommitInv
  <2>2. votes[t][s] > 0
    BY <1>0, <2>1 DEF CoordinatorInv
  <2>3. votes[t][s] <= GetCommitTimestamp(t)
    BY <1>0, CommitTimestampFacts DEF TypeOK
  <2>4. votes[t][s] \in Nat
    BY <1>0 DEF ValueTypes
  <2> HIDE DEF s, t
  <2> QED BY <1>0, <2>1, <2>2, <2>3, <2>4
<1>2. /\ ack.type = "ack" /\ ack.txn = t /\ ack.shard = s
  BY MessageFields
<1>3. ~(Later(s, m.time) + 1 < m.ts)
  BY <1>0, <1>1 DEF Later
<1> HIDE DEF ack
<1>4. CASE active[s] = t /\ txnState[s] = "prepared" /\ m.ts >= preparedAt[t][s]
  <2>1. /\ clock' = [clock EXCEPT ![s] = Later(s, m.time) + 1]
        /\ txnState' = [txnState EXCEPT ![s] = "committed"]
        /\ committedAt' = [committedAt EXCEPT ![t][s] = m.ts]
        /\ msgs' = (msgs \ {m}) \union {ack}
        /\ UNCHANGED <<router, active, preparedAt, aborted, coord, listed, votes, acks,
                       catalog, doing, handler, failed>>
    BY <1>3, <1>4 DEF ReceiveCommit, coordinator, ack
  <2>2. Later(s, m.time) \in Nat /\ Later(s, m.time) >= clock[s]
    BY <1>0 DEF Later
  <2>3. /\ \A x \in Txns, y \in Shards : committedAt'[x][y] =
            IF x = t /\ y = s THEN m.ts ELSE committedAt[x][y]
        /\ \A y \in Shards : clock'[y] \in Nat /\ clock'[y] >= clock[y]
        /\ \A y \in Shards : txnState'[y] = IF y = s THEN "committed" ELSE txnState[y]
    BY <1>0, <2>1, <2>2 DEF TypeOK, ValueTypes
  <2>4. TypeOK'
    BY <1>0, ReceiveTypes
  <2>5. ShardInv'
    BY <1>0, <1>1, <1>4, <2>1, <2>3 DEF ValueTypes, ShardInv
  <2>6. RequestInv'
    BY <1>0, <1>2, <2>1 DEF RequestInv
  <2>7. VoteInv'
    BY <1>0, <1>2, <2>1, <2>3 DEF ValueTypes, VoteInv
  <2>8. CoordinatorInv'
    BY <1>0, <2>1 DEF CoordinatorInv
  <2>9. CommitInv'
    BY <1>0, <1>1, <1>2, <2>1, <2>3, CommitTimeStable DEF CommitInv
  <2>10. AbortInv'
    BY <1>0, <1>2, <2>1 DEF AbortInv, CannotCommit
  <2> QED BY <2>1, <2>4, <2>5, <2>6, <2>7, <2>8, <2>9, <2>10 DEF CommitProtocolInv
<1>5. CASE ~(active[s] = t /\ txnState[s] = "prepared" /\ m.ts >= preparedAt[t][s])
  <2>1. UNCHANGED <<router, participant, clock, coordinator, handler, failed>>
    BY <1>5 DEF ReceiveCommit
  <2>2. CASE active[s] = t /\ txnState[s] = "committed"
    <3>1. committedAt[t][s] > 0 /\ msgs' = (msgs \ {m}) \union {ack}
      BY <1>0, <1>5, <2>2 DEF ShardInv, ReceiveCommit, ack
    <3> USE DEF participant, coordinator
    <3>2. TypeOK'
      BY <1>0, ReceiveTypes
    <3>3. ShardInv'
      BY <1>0, <2>1 DEF ShardInv
    <3>4. RequestInv'
      BY <1>0, <1>2, <2>1, <3>1 DEF RequestInv
    <3>5. VoteInv'
      BY <1>0, <1>2, <2>1, <3>1 DEF VoteInv
    <3>6. CoordinatorInv'
      BY <1>0, <2>1 DEF CoordinatorInv
    <3>7. CommitInv'
      BY <1>0, <1>2, <2>1, <3>1, CommitTimeStable DEF CommitInv
    <3>8. AbortInv'
      BY <1>0, <1>2, <2>1, <3>1 DEF AbortInv, CannotCommit
    <3> QED BY <2>1, <3>2, <3>3, <3>4, <3>5, <3>6, <3>7, <3>8 DEF CommitProtocolInv
  <2>3. CASE ~(active[s] = t /\ txnState[s] = "committed")
    <3>1. msgs' = (msgs \ {m}) \union {}
      BY <1>5, <2>3 DEF ReceiveCommit
    <3> QED BY <2>1, <3>1, FewerMessages
  <2> QED BY <2>2, <2>3
<1> QED BY <1>4, <1>5

\* A shard aborts a transaction that cannot commit, or that it has not prepared.
LEMMA AbortOnSessionInv ==
    ASSUME CommitProtocolInv, NEW s \in Shards, AbortOnSession(s),
           txnState[s] \in {"inProgress", "prepared"},
           active[s] \in Txns => CannotCommit(active[s]) \/ preparedAt[active[s]][s] = 0,
           msgs' \subseteq msgs, TypeOK',
           UNCHANGED <<router, clock, coordinator, handler, failed>>
    PROVE  CommitProtocolInv'
<1>0. /\ TypeOK /\ ShardInv /\ RequestInv /\ VoteInv /\ CoordinatorInv /\ CommitInv
      /\ AbortInv /\ ValueTypes
  BY ValuesTyped DEF CommitProtocolInv
<1>1. /\ txnState' = [txnState EXCEPT ![s] = "aborted"]
      /\ aborted' = [aborted EXCEPT ![active[s]] = @ \union {s}]
      /\ UNCHANGED <<router, active, preparedAt, committedAt, clock, coord, listed, votes,
                     acks, catalog, doing, handler, failed>>
  BY DEF AbortOnSession, coordinator
<1>2. /\ \A x \in Txns, y \in Shards :
            y \in aborted'[x] <=> y \in aborted[x] \/ (x = active[s] /\ y = s)
      /\ \A x \in Txns : aborted'[x] \subseteq Shards
      /\ \A y \in Shards : txnState'[y] = IF y = s THEN "aborted" ELSE txnState[y]
  <2>1. aborted \in [Txns -> SUBSET Shards] /\ DOMAIN txnState = Shards
    BY <1>0 DEF TypeOK
  <2> QED BY <1>1, <2>1
<1>3. ShardInv'
  BY <1>0, <1>1, <1>2 DEF ValueTypes, ShardInv
<1>4. RequestInv'
  BY <1>0, <1>1 DEF RequestInv
<1>5. VoteInv'
  BY <1>0, <1>1 DEF VoteInv
<1>6. CoordinatorInv'
  BY <1>0, <1>1 DEF CoordinatorInv
<1>7. CommitInv'
  BY <1>0, <1>1, CommitTimeStable DEF CommitInv
<1>8. \A x \in Txns : CannotCommit(x) => CannotCommit(x)'
  BY <1>1, <1>2 DEF CannotCommit
<1>9. AbortInv'
  BY <1>0, <1>1, <1>2, <1>8 DEF AbortInv, ValueTypes
<1> QED BY <1>1, <1>3, <1>4, <1>5, <1>6, <1>7, <1>9 DEF CommitProtocolInv

\* A shard hears an abort.
LEMMA ReceiveAbortInv ==
    ASSUME CommitProtocolInv, NEW m \in msgs, ReceiveAbort(m)
    PROVE  CommitProtocolInv'
<1>1. TypeOK' /\ m.shard \in Shards /\ CannotCommit(m.txn)
  BY ReceiveTypes, ValuesTyped DEF CommitProtocolInv, ValueTypes, AbortInv, ReceiveAbort
<1>2. CASE active[m.shard] = m.txn /\ txnState[m.shard] \in {"inProgress", "prepared"}
  BY <1>1, <1>2, AbortOnSessionInv DEF ReceiveAbort
<1>3. CASE ~(active[m.shard] = m.txn /\ txnState[m.shard] \in {"inProgress", "prepared"})
  BY <1>3, FewerMessages DEF ReceiveAbort
<1> QED BY <1>2, <1>3

\* A transaction's time on a shard runs out.
LEMMA ExpireInv ==
    ASSUME CommitProtocolInv, NEW s \in Shards, Expire(s)
    PROVE  CommitProtocolInv'
<1>1. TypeOK'
  BY SessionTypes, BoundAssumption DEF CommitProtocolInv, Txns
<1>2. active[s] \in Txns => preparedAt[active[s]][s] = 0
  BY DEF CommitProtocolInv, ShardInv, Expire, Expirable
<1> QED BY <1>1, <1>2, AbortOnSessionInv DEF Expire, Expirable

\* A known transaction has a state that the table has rows for.
LEMMA KnownStates ==
    ASSUME CommitProtocolInv, NEW t \in Txns, t <= active[Coordinator]
    PROVE  coord[t] \in Voting \union Decided \union {"aborted"}
<1>1. /\ coord[t] \in States /\ coord[t] # "broken" /\ coord[t] # "none"
  BY ValuesTyped DEF CommitProtocolInv, CoordinatorInv, TypeOK, States, ValueTypes
<1> QED BY <1>1 DEF States, Voting, Decided

\* The coordinator records a vote; with the last one it decides to commit, and that
\* it can only do while it waits for votes.
LEMMA RecvVoteInv ==
    ASSUME CommitProtocolInv, NEW t \in Txns, NEW s \in Shards,
           RecvVoteCommit(t, s, preparedAt[t][s]),
           t \in catalog, preparedAt[t][s] > 0, votes[t][s] = 0,
           UNCHANGED <<router, participant, failed>>, TypeOK',
           \A x \in Shards : clock'[x] >= clock[x],
           preparedAt[t][s] <= clock'[Coordinator],
           msgs' \subseteq msgs,
           \A k \in msgs' : ~(k.type = "voteCommit" /\ k.txn = t /\ k.shard = s),
           \A x \in Txns : \/ handler'[x] = handler[x]
                           \/ x = t /\ handler[x] = "vote" /\ handler'[x] = "wait",
           s = Coordinator => handler'[t] = "wait"
    PROVE  CommitProtocolInv'
<1>0. /\ TypeOK /\ ShardInv /\ RequestInv /\ VoteInv /\ CoordinatorInv /\ CommitInv
      /\ AbortInv /\ ValueTypes /\ ValueTypes'
  BY ValuesTyped, PTL DEF CommitProtocolInv
<1>1. coord[t] \in Voting \union {"aborted"}
  <2>1. coord[t] \notin Decided
    BY DEF CommitProtocolInv, CoordinatorInv
  <2>2. t <= active[Coordinator]
    BY DEF CommitProtocolInv, CoordinatorInv
  <2> QED BY <2>1, <2>2, KnownStates
<1>2. /\ \A x \in Txns, y \in Shards :
            votes'[x][y] = IF x = t /\ y = s THEN preparedAt[t][s] ELSE votes[x][y]
      /\ \A x \in Txns \ {t} : votes'[x] = votes[x]
  BY <1>0 DEF RecvVoteCommit, TypeOK
<1>3. /\ UNCHANGED <<router, active, txnState, preparedAt, committedAt, aborted, listed,
                     acks, catalog, failed>>
  BY DEF RecvVoteCommit, participant
<1>4. \A x \in Txns : CannotCommit(x) => CannotCommit(x)'
  BY <1>3 DEF CannotCommit
<1>5. /\ \A k \in msgs : k.type = "commit" => k.txn # t
      /\ \A y \in Shards : committedAt[t][y] = 0 /\ y \notin acks[t]
      /\ \A d \in doing : d.action = "sendCommit" => d.txn # t
  BY <1>0, <1>1 DEF CommitInv, Voting, Decided, ValueTypes
<1>11. \A x \in Txns \ {t} : GetCommitTimestamp(x)' = GetCommitTimestamp(x)
  BY <1>2, CommitTimeStable
<1>6. ShardInv'
  BY <1>0, <1>3 DEF ValueTypes, ShardInv
<1>7. RequestInv'
  <2>1. ASSUME NEW x \in Txns
        PROVE  /\ router[x] = "idle" <=> x > active[Coordinator]
               /\ router[x] \in {"idle", "active"} =>
                    handler'[x] = "none" /\ \A y \in Shards : preparedAt[x][y] = 0
               /\ handler'[x] = "none" => ~listed[x]
               /\ handler'[x] \in {"none", "prepare"} => preparedAt[x][Coordinator] = 0
               /\ handler'[x] = "vote" =>
                    preparedAt[x][Coordinator] > 0 /\ votes'[x][Coordinator] = 0
    BY <1>0, <1>2 DEF ValueTypes, RequestInv
  <2>2. \A k \in msgs' : k.type = "coordinateCommit" => handler'[k.txn] = "none"
    <3> TAKE k \in msgs'
    <3>1. k \in msgs /\ k.txn \in Txns
      BY <1>0 DEF ValueTypes
    <3> QED BY <1>0, <3>1 DEF RequestInv
  <2> QED BY <1>0, <1>3, <2>1, <2>2 DEF RequestInv
<1>8. VoteInv'
  BY <1>0, <1>2, <1>3 DEF ValueTypes, VoteInv
<1>9. CASE ~AllVotedCommit(t, s)
  <2>1. /\ coord' = [coord EXCEPT ![t] = StateAfter(t, "voteCommit")]
        /\ doing' = doing \union Todo(t, "voteCommit", t)
    BY <1>9 DEF RecvVoteCommit
  <2>2. coord' = coord
    BY <1>0, <1>1, <2>1, AfterVote DEF TypeOK
  <2>3. \A d \in doing' \ doing : /\ d.txn = t /\ d.action = "sendAbort" /\ ~d.signal
                                  /\ coord[t] = "aborted"
    BY <1>1, <2>1, AfterVote
  <2>4. CoordinatorInv'
    BY <1>0, <1>1, <1>2, <1>3, <2>2 DEF ValueTypes, CoordinatorInv, Voting, Decided
  <2>5. CommitInv'
    <3>1. \A x \in Txns, y \in Shards :
            /\ committedAt[x][y] > 0 =>
                coord[x] \in Decided /\ committedAt[x][y] = GetCommitTimestamp(x)'
            /\ y \in acks[x] => committedAt[x][y] > 0
      BY <1>0, <1>5, <1>11 DEF CommitInv
    <3>2. ASSUME NEW k \in msgs
          PROVE
            /\ k.type = "commit" => /\ coord[k.txn] \in Decided /\ k.ts <= k.time
                                   /\ k.ts = GetCommitTimestamp(k.txn)'
            /\ k.type = "ack" => committedAt[k.txn][k.shard] > 0
            /\ k.type = "answer" /\ k.ts > 0 => coord[k.txn] = "committed"
      <4> DEFINE x == k.txn
      <4>1. x \in Txns
        BY <1>0 DEF ValueTypes
      <4>2. k.type = "commit" => GetCommitTimestamp(x)' = GetCommitTimestamp(x)
        <5> HIDE DEF x
        <5> QED BY <1>5, <1>11, <4>1 DEF x
      <4> QED BY <1>0, <4>2 DEF CommitInv
    <3>3. \A d \in doing' :
            /\ d.action = "sendCommit" => d.opTxn = d.txn /\ coord[d.txn] \in Decided
            /\ d.action = "sendAbort" => coord[d.txn] = "aborted"
            /\ d.signal => coord[d.txn] \in Terminal
      BY <1>0, <2>3 DEF CommitInv
    <3> QED BY <1>3, <2>2, <3>1, <3>2, <3>3 DEF CommitInv
  <2>6. AbortInv'
    BY <1>0, <1>3, <1>4, <2>2 DEF AbortInv, ValueTypes
  <2> QED BY <1>3, <1>6, <1>7, <1>8, <2>4, <2>5, <2>6 DEF CommitProtocolInv
<1>10. CASE AllVotedCommit(t, s)
  <2>1. /\ coord' = [coord EXCEPT ![t] = StateAfter(t, "finalVoteCommit")]
        /\ doing' = doing \union Todo(t, "finalVoteCommit", t)
    BY <1>10 DEF RecvVoteCommit
  <2>2. listed[t] /\ \A x \in Shards : preparedAt[t][x] > 0
    BY <1>0, <1>10 DEF AllVotedCommit, VoteInv, ValueTypes
  <2>3. coord[t] = "waitingForVotes"
    BY <1>0, <1>1, <2>2 DEF CoordinatorInv, AbortInv, CannotCommit, Voting, ValueTypes
  <2>4. \A x \in Txns : coord'[x] = IF x = t THEN "waitingForCommitAcks" ELSE coord[x]
    BY <1>0, <2>1, <2>3, AfterFinalVote DEF TypeOK
  <2>5. \A d \in doing' \ doing : /\ d.txn = t /\ d.opTxn = t /\ d.action = "sendCommit"
                                  /\ ~d.signal
    BY <2>1, <2>3, AfterFinalVote
  <2>6. CoordinatorInv'
    <3>1. \A y \in Shards : votes'[t][y] > 0
      BY <1>2, <1>10 DEF AllVotedCommit
    <3>2. \A x \in Txns \ {t}, y \in Shards : votes'[x][y] = votes[x][y]
      BY <1>2
    <3>3. t = active[Coordinator]
      BY <1>0, <2>3 DEF CoordinatorInv, Voting
    <3> QED BY <1>0, <1>3, <2>2, <2>3, <2>4, <3>1, <3>2, <3>3
            DEF ValueTypes, CoordinatorInv, Voting, Decided, Terminal
  <2>7. CommitInv'
    <3>1. \A x \in Txns, y \in Shards :
            /\ committedAt[x][y] > 0 =>
                coord'[x] \in Decided /\ committedAt[x][y] = GetCommitTimestamp(x)'
            /\ y \in acks[x] => committedAt[x][y] > 0
      BY <1>0, <1>5, <1>11, <2>4 DEF CommitInv
    <3>2. ASSUME NEW k \in msgs
          PROVE
            /\ k.type = "commit" => /\ coord'[k.txn] \in Decided /\ k.ts <= k.time
                                   /\ k.ts = GetCommitTimestamp(k.txn)'
            /\ k.type = "ack" => committedAt[k.txn][k.shard] > 0
            /\ k.type = "answer" /\ k.ts > 0 => coord'[k.txn] = "committed"
      <4> DEFINE x == k.txn
      <4>1. x \in Txns
        BY <1>0 DEF ValueTypes
      <4>2. k.type = "commit" => GetCommitTimestamp(x)' = GetCommitTimestamp(x)
        BY <1>5, <1>11, <4>1
      <4> QED BY <1>0, <2>3, <2>4, <4>1, <4>2 DEF CommitInv, Decided
    <3>3. \A d \in doing' :
            /\ d.action = "sendCommit" => d.opTxn = d.txn /\ coord'[d.txn] \in Decided
            /\ d.action = "sendAbort" => coord'[d.txn] = "aborted"
            /\ d.signal => coord'[d.txn] \in Terminal
      <4> TAKE d \in doing'
      <4>1. CASE d \in doing
        <5>1. d.txn \in Txns
          BY <1>0, <4>1 DEF ValueTypes
        <5> QED BY <1>0, <2>3, <2>4, <4>1, <5>1 DEF CommitInv, Decided, Terminal
      <4>2. CASE d \notin doing
        BY <2>4, <2>5, <4>2 DEF Decided
      <4> QED BY <4>1, <4>2
    <3> QED BY <1>3, <3>1, <3>2, <3>3 DEF CommitInv
  <2>8. AbortInv'
    BY <1>0, <1>3, <1>4, <2>3, <2>4 DEF AbortInv, ValueTypes
  <2> QED BY <1>3, <1>6, <1>7, <1>8, <2>6, <2>7, <2>8 DEF CommitProtocolInv
<1> QED BY <1>9, <1>10

\* A vote from another shard: without a coordinator the transaction cannot commit.
LEMMA ReceiveVoteCommitInv ==
    ASSUME CommitProtocolInv, NEW m \in msgs, ReceiveVoteCommit(m)
    PROVE  CommitProtocolInv'
<1> DEFINE s == m.shard
           t == m.txn
           abort == Message("abort", t, s, 0, 0)
<1>0. /\ TypeOK /\ ShardInv /\ RequestInv /\ VoteInv /\ CoordinatorInv /\ CommitInv
      /\ AbortInv /\ s \in Shards /\ t \in Txns /\ m.type = "voteCommit" /\ ValueTypes
      /\ clock[Coordinator] \in Nat /\ m.ts \in Nat /\ m.time \in Nat
  BY ValuesTyped DEF CommitProtocolInv, ReceiveVoteCommit, ValueTypes
<1>1. TypeOK'
  BY <1>0, ReceiveTypes
<1>2. /\ m.ts = preparedAt[t][s] /\ m.ts > 0 /\ m.ts <= m.time /\ votes[t][s] = 0
      /\ s # Coordinator
      /\ \A k \in msgs \ {m} : ~(k.type = "voteCommit" /\ k.txn = t /\ k.shard = s)
  BY <1>0 DEF VoteInv
<1>3. /\ clock' = [clock EXCEPT ![Coordinator] = Later(Coordinator, m.time)]
      /\ UNCHANGED <<router, participant, handler, failed>>
  BY DEF ReceiveVoteCommit
<1>4. /\ \A x \in Shards : clock'[x] >= clock[x] /\ clock'[x] \in Nat
      /\ clock'[Coordinator] >= m.ts
  BY <1>0, <1>2, <1>3 DEF Later, TypeOK, ValueTypes
<1>5. CASE t \notin catalog
  <2>1. /\ msgs' = (msgs \ {m}) \union {abort}
        /\ UNCHANGED <<router, active, txnState, preparedAt, committedAt, aborted, coord,
                       listed, votes, acks, catalog, doing, handler, failed>>
    BY <1>5 DEF ReceiveVoteCommit, participant, coordinator
  <2>2. abort.type = "abort" /\ abort.txn = t
    BY MessageFields
  <2> HIDE DEF abort
  <2>3. CannotCommit(t)
    <3>1. coord[t] \notin Decided
      BY <1>0, <1>2 DEF CoordinatorInv
    <3>2. t <= active[Coordinator]
      <4>1. router[t] # "idle" /\ t \in Nat /\ active[Coordinator] \in Nat
        <5>1. preparedAt[t][s] > 0 /\ t \in Txns /\ s \in Shards
          BY <1>0, <1>2
        <5> HIDE DEF s, t
        <5> QED BY <1>0, <5>1 DEF RequestInv, ValueTypes
      <4> HIDE DEF s, t
      <4> QED BY <1>0, <4>1 DEF RequestInv
    <3>3. coord[t] = "aborted"
      BY <1>0, <1>5, <3>1, <3>2 DEF CoordinatorInv, Terminal, Decided
    <3> QED BY <1>0, <3>3 DEF AbortInv
  <2>4. ShardInv'
    BY <1>0, <1>4, <2>1, ShardInvKept
  <2>5. RequestInv'
    BY <1>0, <2>1, <2>2 DEF RequestInv
  <2>6. VoteInv'
    BY <1>0, <1>4, <2>1, <2>2 DEF VoteInv, ValueTypes
  <2>7. CoordinatorInv'
    BY <1>0, <2>1 DEF CoordinatorInv
  <2>8. CommitInv'
    BY <1>0, <2>1, <2>2, CommitTimeStable DEF CommitInv
  <2>9. \A x \in Txns : CannotCommit(x) => CannotCommit(x)'
    BY <2>1, <2>2 DEF CannotCommit
  <2>10. AbortInv'
    BY <1>0, <2>1, <2>2, <2>3, <2>9 DEF AbortInv, ValueTypes
  <2> QED BY <1>1, <2>1, <2>4, <2>5, <2>6, <2>7, <2>8, <2>10 DEF CommitProtocolInv
<1>6. CASE t \in catalog
  <2>1. RecvVoteCommit(t, s, preparedAt[t][s]) /\ msgs' = msgs \ {m} /\ handler' = handler
    BY <1>2, <1>6 DEF ReceiveVoteCommit
  <2> HIDE DEF s, t
  <2> QED BY <1>0, <1>1, <1>2, <1>3, <1>4, <1>6, <2>1, RecvVoteInv
<1> QED BY <1>5, <1>6

\* The vote of the coordinator's own shard, which has prepared and so has kept the
\* coordinator in its catalog.
LEMMA VoteLocallyInv ==
    ASSUME CommitProtocolInv, NEW t \in Txns, VoteLocally(t)
    PROVE  CommitProtocolInv'
<1>0. /\ TypeOK /\ ShardInv /\ RequestInv /\ VoteInv /\ CoordinatorInv /\ CommitInv
      /\ AbortInv /\ ValueTypes /\ Coordinator \in Shards
  BY ValuesTyped DEF CommitProtocolInv, ValueTypes
<1>1. /\ handler[t] = "vote" /\ preparedAt[t][Coordinator] > 0
      /\ votes[t][Coordinator] = 0
  BY <1>0 DEF VoteLocally, RequestInv
<1>2. t <= active[Coordinator]
  BY <1>0, <1>1 DEF RequestInv, ValueTypes
<1>3. t \in catalog
  BY <1>0, <1>1, <1>2
     DEF CoordinatorInv, AbortInv, CannotCommit, Terminal, Decided, ValueTypes
<1>4. /\ RecvVoteCommit(t, Coordinator, preparedAt[t][Coordinator])
      /\ handler' = [handler EXCEPT ![t] = "wait"]
      /\ UNCHANGED <<router, participant, clock, msgs, failed>>
  BY <1>3 DEF VoteLocally
<1>5. TypeOK'
  BY <1>0, CoordinateTypes DEF Coordinate
<1>6. \A x \in Shards : clock'[x] >= clock[x]
  BY <1>0, <1>4 DEF ValueTypes
<1>7. preparedAt[t][Coordinator] <= clock'[Coordinator]
  BY <1>0, <1>4 DEF ShardInv
<1>8. \A k \in msgs' : ~(k.type = "voteCommit" /\ k.txn = t /\ k.shard = Coordinator)
  BY <1>0, <1>4 DEF VoteInv
<1>9. /\ \A x \in Txns : \/ handler'[x] = handler[x]
                         \/ x = t /\ handler[x] = "vote" /\ handler'[x] = "wait"
      /\ handler'[t] = "wait"
  BY <1>0, <1>1, <1>4 DEF TypeOK
<1> QED BY <1>0, <1>1, <1>3, <1>4, <1>5, <1>6, <1>7, <1>8, <1>9, RecvVoteInv

\* The request to commit comes once, so that nothing is listed before it; a
\* coordinator that has ended before it has aborted.
LEMMA ReceiveCoordinateCommitInv ==
    ASSUME CommitProtocolInv, NEW m \in msgs, ReceiveCoordinateCommit(m)
    PROVE  CommitProtocolInv'
<1> DEFINE t == m.txn
           no == Answer(t, FALSE)
<1>0. /\ TypeOK /\ ShardInv /\ RequestInv /\ VoteInv /\ CoordinatorInv /\ CommitInv
      /\ AbortInv /\ t \in Txns /\ m.type = "coordinateCommit" /\ ValueTypes
  BY ValuesTyped DEF CommitProtocolInv, ReceiveCoordinateCommit, ValueTypes
<1>1. TypeOK'
  BY <1>0, ReceiveTypes
<1>2. /\ handler[t] = "none" /\ router[t] \notin {"idle", "active"} /\ ~listed[t]
      /\ preparedAt[t][Coordinator] = 0
      /\ \A k \in msgs \ {m} : ~(k.type = "coordinateCommit" /\ k.txn = t)
  BY <1>0 DEF RequestInv
<1>3. t <= active[Coordinator]
  <2> HIDE DEF t
  <2> QED BY <1>0, <1>2 DEF RequestInv, ValueTypes
<1>4. coord[t] \in Voting \union {"aborted"}
  <2>1. coord[t] \notin Decided
    BY <1>0, <1>2 DEF CoordinatorInv
  <2> QED BY <1>0, <1>3, <2>1, KnownStates
<1>5. UNCHANGED <<router, active, txnState, preparedAt, committedAt, aborted, clock,
                  votes, acks, catalog, doing, failed>>
  BY DEF ReceiveCoordinateCommit, participant, coordinator
<1>6. ShardInv'
  BY <1>0, <1>5 DEF ShardInv
<1>7. ASSUME NEW x \in Txns
      PROVE  GetCommitTimestamp(x)' = GetCommitTimestamp(x)
  BY <1>5, CommitTimeStable
<1>8. CannotCommit(t) => Coordinator \in aborted[t]
  BY <1>0 DEF CannotCommit
<1>9. CASE t \notin catalog
  <2>1. /\ msgs' = (msgs \ {m}) \union {no}
        /\ handler' = [handler EXCEPT ![t] = "done"]
        /\ UNCHANGED <<coord, listed>>
    BY <1>9 DEF ReceiveCoordinateCommit, coordinator
  <2>2. no.type = "answer" /\ no.txn = t /\ no.ts = 0
    BY MessageFields DEF Answer
  <2>3. \A x \in Txns : handler'[x] = IF x = t THEN "done" ELSE handler[x]
    BY <1>0, <2>1 DEF TypeOK
  <2>4. CannotCommit(t)
    BY <1>0, <1>3, <1>4, <1>9 DEF CoordinatorInv, Terminal, Voting, AbortInv
  <2> HIDE DEF no, t
  <2>5. RequestInv'
    <3>1. \A k \in msgs' : k.type = "coordinateCommit" => handler'[k.txn] = "none"
      <4> TAKE k \in msgs'
      <4>1. k.type = "coordinateCommit" => k \in msgs \ {m} /\ k.txn \in Txns /\ k.txn # t
        BY <1>0, <1>2, <2>1, <2>2 DEF ValueTypes
      <4> QED BY <1>0, <2>3, <4>1 DEF RequestInv
    <3> QED BY <1>0, <1>2, <1>5, <2>1, <2>2, <2>3, <3>1 DEF RequestInv
  <2>6. VoteInv'
    BY <1>0, <1>5, <2>1, <2>2 DEF VoteInv
  <2>7. CoordinatorInv'
    BY <1>0, <1>5, <2>1 DEF CoordinatorInv
  <2>8. CommitInv'
    BY <1>0, <1>5, <2>1, <2>2, CommitTimeStable DEF CommitInv
  <2>9. \A x \in Txns : CannotCommit(x) => CannotCommit(x)'
    BY <1>5, <1>8, <2>1, <2>2, <2>3 DEF CannotCommit
  <2>10. AbortInv'
    BY <1>0, <1>5, <2>1, <2>2, <2>4, <2>9 DEF AbortInv, ValueTypes
  <2> QED BY <1>1, <1>5, <1>6, <2>5, <2>6, <2>7, <2>8, <2>10 DEF CommitProtocolInv
<1>10. CASE t \in catalog
  <2>1. /\ msgs' = msgs \ {m}
        /\ listed' = [listed EXCEPT ![t] = TRUE]
        /\ coord' = [coord EXCEPT ![t] = StateAfter(t, "participantList")]
        /\ handler' = [handler EXCEPT ![t] =
                            IF coord[t] \in Terminal THEN "wait" ELSE "prepare"]
    BY <1>10 DEF ReceiveCoordinateCommit
  <2>2. StateAfter(t, "participantList") =
            IF coord[t] = "waitingForParticipantList" THEN "waitingForVotes" ELSE coord[t]
    BY <1>0, <1>4, AfterList
  <2> HIDE DEF t
  <2>3. /\ \A x \in Txns : x # t => /\ handler'[x] = handler[x] /\ coord'[x] = coord[x]
                                    /\ listed'[x] = listed[x]
        /\ handler'[t] \in {"wait", "prepare"} /\ listed'[t]
        /\ coord'[t] \in {"waitingForVotes", "aborted"}
        /\ coord'[t] = "aborted" <=> coord[t] = "aborted"
    BY <1>0, <1>4, <2>1, <2>2 DEF TypeOK, Voting
  <2>4. RequestInv'
    <3>1. \A k \in msgs' : k.type = "coordinateCommit" => handler'[k.txn] = "none"
      <4> TAKE k \in msgs'
      <4>1. k.type = "coordinateCommit" => k \in msgs \ {m} /\ k.txn \in Txns /\ k.txn # t
        BY <1>0, <1>2, <2>1 DEF ValueTypes
      <4> QED BY <1>0, <2>3, <4>1 DEF RequestInv
    <3> QED BY <1>0, <1>2, <1>5, <2>1, <2>3, <3>1 DEF RequestInv
  <2>5. VoteInv'
    BY <1>0, <1>5, <2>1 DEF VoteInv
  <2>6. CoordinatorInv'
    BY <1>0, <1>3, <1>4, <1>5, <2>3
       DEF CoordinatorInv, Voting, Decided, Terminal, ValueTypes
  <2>7. CommitInv'
    <3>1. coord[t] \notin Decided /\ coord[t] # "committed"
      BY <1>4 DEF Voting, Decided
    <3>2. \A x \in Txns : coord[x] \in Decided => coord'[x] = coord[x]
      BY <2>3, <3>1
    <3>3. \A x \in Txns : coord[x] \in Terminal => coord'[x] = coord[x]
      BY <2>3, <3>1 DEF Terminal
    <3>4. \A x \in Txns, s \in Shards :
            /\ committedAt[x][s] > 0 =>
                coord'[x] \in Decided /\ committedAt[x][s] = GetCommitTimestamp(x)'
            /\ s \in acks[x] => committedAt[x][s] > 0
      BY <1>0, <1>7, <3>2 DEF CommitInv
    <3>5. \A k \in msgs :
            /\ k.type = "commit" => coord'[k.txn] \in Decided /\ k.ts <= k.time
            /\ k.type = "ack" => committedAt[k.txn][k.shard] > 0
            /\ k.type = "answer" /\ k.ts > 0 => coord'[k.txn] = "committed"
      BY <1>0, <3>2, <3>3 DEF CommitInv, ValueTypes, Terminal
    <3>6. \A k \in msgs : k.type = "commit" => k.ts = GetCommitTimestamp(k.txn)'
      BY <1>0, <1>5, CommitTimeStable DEF CommitInv
    <3>7. \A d \in doing :
            /\ d.action = "sendCommit" => d.opTxn = d.txn /\ coord'[d.txn] \in Decided
            /\ d.action = "sendAbort" => coord'[d.txn] = "aborted"
            /\ d.signal => coord'[d.txn] \in Terminal
      BY <1>0, <3>2, <3>3 DEF CommitInv, ValueTypes, Terminal
    <3> QED BY <1>5, <2>1, <3>4, <3>5, <3>6, <3>7 DEF CommitInv
  <2>8. \A x \in Txns : CannotCommit(x) => CannotCommit(x)'
    BY <1>5, <1>8, <2>1, <2>3 DEF CannotCommit
  <2>9. AbortInv'
    BY <1>0, <1>5, <2>1, <2>3, <2>8 DEF AbortInv, ValueTypes
  <2> QED BY <1>1, <1>5, <1>6, <2>4, <2>5, <2>6, <2>7, <2>9 DEF CommitProtocolInv
<1> QED BY <1>9, <1>10

\* An acknowledgement comes from a shard that has committed.
LEMMA ReceiveAckInv ==
    ASSUME CommitProtocolInv, NEW m \in msgs, ReceiveAck(m)
    PROVE  CommitProtocolInv'
<1> DEFINE s == m.shard
           t == m.txn
<1>0. /\ TypeOK /\ ShardInv /\ RequestInv /\ VoteInv /\ CoordinatorInv /\ CommitInv
      /\ AbortInv /\ t \in Txns /\ s \in Shards /\ m.type = "ack" /\ ValueTypes
  BY ValuesTyped DEF CommitProtocolInv, ReceiveAck, ValueTypes
<1>1. TypeOK'
  BY <1>0, ReceiveTypes
<1>2. committedAt[t][s] > 0 /\ coord[t] \in Decided
  BY <1>0 DEF CommitInv
<1>3. /\ UNCHANGED <<router, active, txnState, preparedAt, committedAt, aborted, clock,
                     listed, votes, catalog, handler, failed>>
      /\ msgs' = msgs \ {m}
      /\ acks' = [acks EXCEPT ![t] = @ \union {s}]
  BY DEF ReceiveAck, participant
<1>4. \A x \in Txns : /\ x # t => acks'[x] = acks[x]
                      /\ x = t => acks'[x] = acks[x] \union {s}
  BY <1>0, <1>3 DEF TypeOK
<1>5. /\ \A x \in Txns : x # t => coord'[x] = coord[x]
      /\ coord'[t] = "committed" => acks'[t] = Shards
      /\ coord'[t] \in Decided
      /\ coord[t] = "committed" => coord'[t] = "committed"
      /\ \A d \in doing' \ doing : d.txn = t /\ d.action = "none" /\ coord'[t] = "committed"
  <2>1. CASE AllAckedCommit(t, s)
    <3>1. /\ coord' = [coord EXCEPT ![t] = StateAfter(t, "finalCommitAck")]
          /\ doing' = doing \union Todo(t, "finalCommitAck", t)
      BY <2>1 DEF ReceiveAck
    <3>2. acks'[t] = Shards
      <4>1. acks[t] \subseteq Shards
        BY <1>0 DEF TypeOK
      <4> QED BY <1>0, <1>4, <2>1, <4>1 DEF AllAckedCommit
    <3>3. /\ StateAfter(t, "finalCommitAck") = "committed"
          /\ \A d \in Todo(t, "finalCommitAck", t) : d.txn = t /\ d.action = "none"
      BY <1>0, <1>2, AfterFinalAck
    <3> HIDE DEF s, t
    <3> QED BY <1>0, <3>1, <3>2, <3>3 DEF TypeOK, Decided
  <2>2. CASE ~AllAckedCommit(t, s)
    <3>1. coord' = coord /\ doing' = doing
      BY <2>2 DEF ReceiveAck
    <3>2. coord[t] # "committed"
      BY <1>0, <2>2 DEF CoordinatorInv, AllAckedCommit
    <3> QED BY <1>2, <3>1, <3>2
  <2> QED BY <2>1, <2>2
<1> HIDE DEF s, t
<1>6. ShardInv'
  BY <1>0, <1>3 DEF ShardInv
<1>7. RequestInv'
  BY <1>0, <1>3 DEF RequestInv
<1>8. VoteInv'
  BY <1>0, <1>3 DEF VoteInv
<1>9. CoordinatorInv'
  BY <1>0, <1>2, <1>3, <1>4, <1>5 DEF CoordinatorInv, Voting, Decided, Terminal, ValueTypes
<1>10. CommitInv'
  <2>1. \A x \in Txns, y \in Shards : y \in acks'[x] => committedAt[x][y] > 0
    BY <1>0, <1>2, <1>4 DEF CommitInv
  <2>2. \A x \in Txns : coord[x] \in Decided => coord'[x] \in Decided
    BY <1>5
  <2>3. \A x \in Txns : coord[x] \in Terminal => coord'[x] = coord[x]
    BY <1>2, <1>5 DEF Terminal, Decided
  <2>4. \A k \in msgs :
          /\ k.type = "commit" => coord'[k.txn] \in Decided
          /\ k.type = "answer" /\ k.ts > 0 => coord'[k.txn] = "committed"
    BY <1>0, <2>2, <2>3 DEF CommitInv, ValueTypes, Terminal
  <2>5. \A d \in doing' :
          /\ d.action = "sendCommit" => d.opTxn = d.txn /\ coord'[d.txn] \in Decided
          /\ d.action = "sendAbort" => coord'[d.txn] = "aborted"
          /\ d.signal => coord'[d.txn] \in Terminal
    BY <1>0, <1>5, <2>2, <2>3 DEF CommitInv, ValueTypes, Terminal
  <2> QED BY <1>0, <1>3, <2>1, <2>2, <2>4, <2>5, CommitTimeStable DEF CommitInv
<1>11. \A x \in Txns : CannotCommit(x) => CannotCommit(x)'
  BY <1>3 DEF CannotCommit
<1>12. AbortInv'
  BY <1>0, <1>3, <1>5, <1>11 DEF AbortInv, ValueTypes, Decided
<1> QED BY <1>1, <1>3, <1>6, <1>7, <1>8, <1>9, <1>10, <1>12 DEF CommitProtocolInv

\* What a coordinator's thread does after its transition: the decision it sends still
\* stands, and the coordinator that leaves the catalog has ended.
LEMMA DoCoordinatorActionInv ==
    ASSUME NoOtherFault, CommitProtocolInv, NEW d \in doing, DoCoordinatorAction(d)
    PROVE  CommitProtocolInv'
<1>0. /\ TypeOK /\ ShardInv /\ RequestInv /\ VoteInv /\ CoordinatorInv /\ CommitInv
      /\ AbortInv /\ ValueTypes /\ d.txn \in Txns /\ d.opTxn \in Txns
  BY ValuesTyped DEF CommitProtocolInv, ValueTypes
<1>1. TypeOK'
  BY <1>0, CoordinateTypes DEF Coordinate
<1>2. /\ UNCHANGED <<router, active, txnState, preparedAt, committedAt, aborted, clock,
                     coord, listed, votes, acks, handler, failed>>
      /\ doing' \subseteq doing /\ msgs' = msgs \union SendAction(d)
      /\ catalog' \subseteq catalog
      /\ \A x \in catalog \ catalog' : coord[x] \in Terminal
  <2>1. d.signal => coord[d.txn] \in Terminal
    BY <1>0 DEF CommitInv
  <2> QED BY <2>1 DEF DoCoordinatorAction, participant
<1>3. \A k \in SendAction(d) :
        \/ /\ k.type = "commit" /\ k.txn = d.txn /\ coord[d.txn] \in Decided
           /\ k.ts = GetCommitTimestamp(d.txn) /\ k.ts <= k.time
        \/ k.type = "abort" /\ k.txn = d.txn /\ coord[d.txn] = "aborted"
  <2> TAKE k \in SendAction(d)
  <2>1. CASE d.action = "sendCommit"
    <3>1. PICK s \in Shards : k = Message("commit", d.opTxn, s, GetCommitTimestamp(d.txn),
                                          clock[Coordinator])
      BY <2>1 DEF SendAction, ToAll
    <3>2. d.opTxn = d.txn /\ coord[d.txn] \in Decided
      BY <1>0, <2>1 DEF CommitInv
    <3>3. PICK y \in Shards : GetCommitTimestamp(d.txn) = votes[d.txn][y]
      BY <1>0, CommitTimestampFacts DEF TypeOK
    <3>4. GetCommitTimestamp(d.txn) <= clock[Coordinator]
      BY <1>0, <3>2, <3>3 DEF CoordinatorInv, VoteInv
    <3> QED BY <3>1, <3>2, <3>4, MessageFields
  <2>2. CASE d.action # "sendCommit"
    <3>1. "StrayAbort" \notin Faults
      BY DEF NoOtherFault
    <3>2. d.action = "sendAbort" /\ d.opTxn = d.txn
      BY <2>2, <3>1 DEF SendAction
    <3>3. PICK s \in Recorded(d.txn) : k = Message("abort", d.opTxn, s, 0, 0)
      BY <3>2 DEF SendAction, ToAll
    <3>4. coord[d.txn] = "aborted"
      BY <1>0, <3>2 DEF CommitInv
    <3> QED BY <3>2, <3>3, <3>4, MessageFields
  <2> QED BY <2>1, <2>2
<1>4. ShardInv'
  BY <1>0, <1>2 DEF ShardInv
<1>5. RequestInv'
  BY <1>0, <1>2, <1>3 DEF RequestInv
<1>6. VoteInv'
  BY <1>0, <1>2, <1>3 DEF VoteInv
<1>7. CoordinatorInv'
  BY <1>0, <1>2 DEF CoordinatorInv
<1>8. CommitInv'
  <2>1. \A x \in Txns : GetCommitTimestamp(x)' = GetCommitTimestamp(x)
    BY <1>2, CommitTimeStable
  <2>2. \A k \in msgs' :
          /\ k.type = "commit" => /\ coord[k.txn] \in Decided /\ k.ts <= k.time
                                  /\ k.txn \in Txns /\ k.ts = GetCommitTimestamp(k.txn)
          /\ k.type = "ack" => committedAt[k.txn][k.shard] > 0
          /\ k.type = "answer" /\ k.ts > 0 => coord[k.txn] = "committed"
    <3> TAKE k \in msgs'
    <3>1. CASE k \in msgs
      BY <1>0, <3>1 DEF CommitInv, ValueTypes
    <3>2. CASE k \in SendAction(d)
      BY <1>0, <1>3, <3>2
    <3> QED BY <1>2, <3>1, <3>2
  <2> QED BY <1>0, <1>2, <2>1, <2>2, CommitTimeStable DEF CommitInv
<1>9. \A x \in Txns : CannotCommit(x) => CannotCommit(x)'
  BY <1>2, <1>3 DEF CannotCommit
<1>10. AbortInv'
  <2>1. \A k \in msgs' : k.type = "abort" \/ (k.type = "answer" /\ k.ts = 0) =>
                            k.txn \in Txns /\ CannotCommit(k.txn)
    BY <1>0, <1>2, <1>3 DEF AbortInv, ValueTypes
  <2> QED BY <1>0, <1>2, <1>9, <2>1 DEF AbortInv
<1> QED BY <1>1, <1>2, <1>4, <1>5, <1>6, <1>7, <1>8, <1>10 DEF CommitProtocolInv

\* The coordinator's shard prepares once, or finds that it has aborted.
LEMMA PrepareLocallyInv ==
    ASSUME CommitProtocolInv, NEW t \in Txns, PrepareLocally(t)
    PROVE  CommitProtocolInv'
<1> DEFINE c == Coordinator
           no == Answer(t, FALSE)
<1>0. /\ TypeOK /\ ShardInv /\ RequestInv /\ VoteInv /\ CoordinatorInv /\ CommitInv
      /\ AbortInv /\ ValueTypes /\ c \in Shards /\ clock[c] \in Nat
      /\ preparedAt[t][c] \in Nat /\ committedAt[t][c] \in Nat /\ votes[t][c] \in Nat
  BY ValuesTyped DEF CommitProtocolInv, ValueTypes
<1>1. TypeOK'
  BY <1>0, CoordinateTypes DEF Coordinate
<1>2. /\ handler[t] = "prepare" /\ preparedAt[t][c] = 0
      /\ router[t] \notin {"idle", "active"} /\ votes[t][c] = 0 /\ committedAt[t][c] = 0
  <2>1. handler[t] = "prepare" /\ preparedAt[t][c] = 0 /\ router[t] \notin {"idle", "active"}
    BY <1>0 DEF PrepareLocally, RequestInv
  <2>2. ~(votes[t][c] > 0)
    BY <1>0, <2>1 DEF VoteInv
  <2>3. ~(committedAt[t][c] > 0)
    BY <1>0, <2>1 DEF ShardInv
  <2> QED BY <1>0, <2>1, <2>2, <2>3
<1>3. t <= active[c] /\ t \in Nat /\ active[c] \in Nat
  BY <1>0, <1>2 DEF RequestInv, ValueTypes
<1>4. UNCHANGED <<router, active, committedAt, aborted, coord, listed, votes, acks, catalog,
                  doing>>
  BY DEF PrepareLocally, Fail, Prepare, participant, coordinator
<1>5. CASE active[c] = t /\ txnState[c] \notin Terminal
  <2>1. txnState[c] = "inProgress" /\ c \notin aborted[t]
    BY <1>0, <1>2, <1>5 DEF ShardInv, TypeOK, Terminal
  <2>2. /\ clock' = [clock EXCEPT ![c] = clock[c] + 1]
        /\ txnState' = [txnState EXCEPT ![c] = "prepared"]
        /\ preparedAt' = [preparedAt EXCEPT ![t][c] = clock[c] + 1]
        /\ handler' = [handler EXCEPT ![t] = "vote"]
        /\ UNCHANGED <<msgs, failed>>
    BY <1>5, <2>1 DEF PrepareLocally, Prepare
  <2>3. /\ \A x \in Txns, y \in Shards : preparedAt'[x][y] =
            IF x = t /\ y = c THEN clock[c] + 1 ELSE preparedAt[x][y]
        /\ \A y \in Shards : clock'[y] = IF y = c THEN clock[c] + 1 ELSE clock[y]
        /\ \A y \in Shards : txnState'[y] = IF y = c THEN "prepared" ELSE txnState[y]
        /\ \A x \in Txns : handler'[x] = IF x = t THEN "vote" ELSE handler[x]
    BY <1>0, <2>2 DEF TypeOK
  <2> HIDE DEF c
  <2>4. ShardInv'
    BY <1>0, <1>2, <1>4, <1>5, <2>1, <2>2, <2>3 DEF ShardInv, ValueTypes
  <2>5. RequestInv'
    <3>1. \A k \in msgs : k.type = "coordinateCommit" => k.txn # t
      BY <1>0, <1>2 DEF RequestInv
    <3> QED BY <1>0, <1>2, <1>4, <2>2, <2>3, <3>1 DEF RequestInv, ValueTypes, c
  <2>6. VoteInv'
    <3>1. \A k \in msgs : k.type = "voteCommit" => k.shard # c
      BY <1>0 DEF VoteInv, c
    <3> QED BY <1>0, <1>2, <1>4, <2>2, <2>3, <3>1 DEF VoteInv, ValueTypes, c
  <2>7. CoordinatorInv'
    BY <1>0, <1>4 DEF CoordinatorInv
  <2>8. CommitInv'
    BY <1>0, <1>4, <2>2, CommitTimeStable DEF CommitInv
  <2>9. ~CannotCommit(t)
    BY <1>2, <2>1 DEF CannotCommit, c
  <2>10. \A x \in Txns : CannotCommit(x) => CannotCommit(x)'
    BY <1>4, <2>2, <2>3, <2>9, <1>0 DEF CannotCommit, c
  <2>11. AbortInv'
    BY <1>0, <1>4, <2>1, <2>2, <2>3, <2>10 DEF AbortInv, ValueTypes
  <2> QED BY <1>1, <2>2, <2>4, <2>5, <2>6, <2>7, <2>8, <2>11 DEF CommitProtocolInv
<1>6. CASE active[c] # t \/ txnState[c] \in Terminal
  <2>1. c \in aborted[t]
    <3>1. CASE active[c] # t
      BY <1>0, <1>2, <1>3, <3>1 DEF ShardInv
    <3>2. CASE active[c] = t
      BY <1>0, <1>2, <1>6, <3>2 DEF ShardInv, Terminal
    <3> QED BY <3>1, <3>2
  <2>2. /\ handler' = [handler EXCEPT ![t] = "done"]
        /\ msgs' = msgs \union {no}
        /\ UNCHANGED <<txnState, preparedAt, clock, failed>>
    BY <1>6 DEF PrepareLocally, participant
  <2>3. no.type = "answer" /\ no.txn = t /\ no.ts = 0
    BY MessageFields DEF Answer
  <2>4. \A x \in Txns : handler'[x] = IF x = t THEN "done" ELSE handler[x]
    BY <1>0, <2>2 DEF TypeOK
  <2>5. CannotCommit(t)
    BY <1>2, <2>1 DEF CannotCommit
  <2> HIDE DEF no
  <2>6. ShardInv'
    BY <1>0, <1>4, <2>2 DEF ShardInv
  <2>7. RequestInv'
    <3>1. \A k \in msgs : k.type = "coordinateCommit" => k.txn # t
      BY <1>0, <1>2 DEF RequestInv
    <3> QED BY <1>0, <1>2, <1>4, <2>2, <2>3, <2>4, <3>1 DEF RequestInv, ValueTypes
  <2>8. VoteInv'
    BY <1>0, <1>4, <2>2, <2>3 DEF VoteInv
  <2>9. CoordinatorInv'
    BY <1>0, <1>4 DEF CoordinatorInv
  <2>10. CommitInv'
    BY <1>0, <1>4, <2>2, <2>3, CommitTimeStable DEF CommitInv
  <2>11. \A x \in Txns : CannotCommit(x) => CannotCommit(x)'
    BY <1>4, <2>1, <2>2, <2>3, <2>4 DEF CannotCommit
  <2>12. AbortInv'
    BY <1>0, <1>4, <2>2, <2>3, <2>5, <2>11 DEF AbortInv, ValueTypes
  <2> QED BY <1>1, <2>2, <2>6, <2>7, <2>8, <2>9, <2>10, <2>12 DEF CommitProtocolInv
<1> QED BY <1>5, <1>6

\* The answer is what the coordinator has decided.
LEMMA AnswerDecisionInv ==
    ASSUME CommitProtocolInv, NEW t \in Txns, AnswerDecision(t)
    PROVE  CommitProtocolInv'
<1> DEFINE answer == Answer(t, coord[t] = "committed")
<1>0. /\ TypeOK /\ ShardInv /\ RequestInv /\ VoteInv /\ CoordinatorInv /\ CommitInv
      /\ AbortInv /\ ValueTypes
  BY ValuesTyped DEF CommitProtocolInv
<1>1. TypeOK'
  BY <1>0, CoordinateTypes DEF Coordinate
<1>2. /\ handler[t] = "wait" /\ coord[t] \in Terminal
      /\ handler' = [handler EXCEPT ![t] = "done"]
      /\ msgs' = msgs \union {answer}
      /\ UNCHANGED <<router, active, txnState, preparedAt, committedAt, aborted, clock,
                     coord, listed, votes, acks, catalog, doing, failed>>
  BY DEF AnswerDecision, participant, coordinator
<1>3. /\ answer.type = "answer" /\ answer.txn = t
      /\ answer.ts = IF coord[t] = "committed" THEN 1 ELSE 0
  BY MessageFields DEF Answer
<1>4. \A x \in Txns : handler'[x] = IF x = t THEN "done" ELSE handler[x]
  BY <1>0, <1>2 DEF TypeOK
<1>5. coord[t] = "aborted" => CannotCommit(t)
  BY <1>0 DEF AbortInv
<1> HIDE DEF answer
<1>6. ShardInv'
  BY <1>0, <1>2 DEF ShardInv
<1>7. RequestInv'
  <2>1. \A k \in msgs : k.type = "coordinateCommit" => k.txn # t
    BY <1>0, <1>2 DEF RequestInv
  <2> QED BY <1>0, <1>2, <1>3, <1>4, <2>1 DEF RequestInv, ValueTypes
<1>8. VoteInv'
  BY <1>0, <1>2, <1>3 DEF VoteInv
<1>9. CoordinatorInv'
  BY <1>0, <1>2 DEF CoordinatorInv
<1>10. CommitInv'
  BY <1>0, <1>2, <1>3, CommitTimeStable DEF CommitInv
<1>11. \A x \in Txns : CannotCommit(x) => CannotCommit(x)'
  BY <1>2, <1>3, <1>4 DEF CannotCommit
<1>12. AbortInv'
  <2>1. answer.ts = 0 => CannotCommit(t)
    BY <1>2, <1>3, <1>5 DEF Terminal
  <2>2. \A k \in msgs' : k.type = "abort" \/ (k.type = "answer" /\ k.ts = 0) =>
                            k.txn \in Txns /\ CannotCommit(k.txn)
    BY <1>0, <1>2, <1>3, <2>1 DEF AbortInv, ValueTypes
  <2> QED BY <1>0, <1>2, <1>11, <2>2 DEF AbortInv
<1> QED BY <1>1, <1>2, <1>6, <1>7, <1>8, <1>9, <1>10, <1>12 DEF CommitProtocolInv

\* The router asks every participant to prepare and the coordinator to commit.
LEMMA RouterCommitsInv ==
    ASSUME NoOtherFault, CommitProtocolInv, NEW t \in Txns, RouterCommits(t)
    PROVE  CommitProtocolInv'
<1> DEFINE request == Message("coordinateCommit", t, Coordinator, 0, 0)
           prepares == ToAll("prepare", t, Shards \ {Coordinator}, 0, 0)
<1>0. /\ TypeOK /\ ShardInv /\ RequestInv /\ VoteInv /\ CoordinatorInv /\ CommitInv
      /\ AbortInv /\ ValueTypes
  BY ValuesTyped DEF CommitProtocolInv
<1>1. TypeOK'
  BY <1>0, RouteTypes
<1>2. router[t] = "active"
  BY DEF RouterCommits, MayCommit, NoOtherFault
<1>3. /\ router' = [router EXCEPT ![t] = "committing"]
      /\ msgs' = msgs \union {request} \union prepares
      /\ UNCHANGED <<active, txnState, preparedAt, committedAt, aborted, clock, coord, listed,
                     votes, acks, catalog, doing, handler, failed>>
  BY <1>2 DEF RouterCommits, participant, coordinator
<1>4. /\ request.type = "coordinateCommit" /\ request.txn = t
      /\ request = Message("coordinateCommit", request.txn, Coordinator, 0, 0)
  BY MessageFields
<1>5. \A k \in prepares : /\ k.type = "prepare" /\ k.txn = t
                          /\ k.shard \in Shards \ {Coordinator}
                          /\ k = Message("prepare", k.txn, k.shard, 0, 0)
  BY MessageFields DEF ToAll
<1>6. \A x \in Txns : router'[x] = IF x = t THEN "committing" ELSE router[x]
  BY <1>0, <1>3 DEF TypeOK
<1>7. handler[t] = "none" /\ \A s \in Shards : preparedAt[t][s] = 0
  BY <1>0, <1>2 DEF RequestInv
<1> HIDE DEF request, prepares
<1>8. ShardInv'
  BY <1>0, <1>3 DEF ShardInv
<1>9. RequestInv'
  <2>1. \A x \in Txns :
        /\ router'[x] = "idle" <=> x > active[Coordinator]
        /\ router'[x] \in {"idle", "active"} =>
            handler[x] = "none" /\ \A s \in Shards : preparedAt[x][s] = 0
    BY <1>0, <1>2, <1>6 DEF RequestInv
  <2>2. ASSUME NEW k \in msgs'
        PROVE  /\ k.type = "coordinateCommit" =>
                    /\ k = Message("coordinateCommit", k.txn, Coordinator, 0, 0)
                    /\ handler[k.txn] = "none" /\ router'[k.txn] \notin {"idle", "active"}
               /\ k.type = "prepare" =>
                    /\ k = Message("prepare", k.txn, k.shard, 0, 0)
                    /\ k.shard # Coordinator
                    /\ preparedAt[k.txn][k.shard] = 0
                    /\ router'[k.txn] \notin {"idle", "active"}
    <3>1. CASE k \in msgs
      BY <1>0, <1>6, <3>1 DEF RequestInv, ValueTypes
    <3>2. CASE k = request
      BY <1>4, <1>6, <1>7, <3>2
    <3>3. CASE k \in prepares
      BY <1>5, <1>6, <1>7, <3>3
    <3> QED BY <1>3, <3>1, <3>2, <3>3
  <2> QED BY <1>0, <1>3, <2>1, <2>2 DEF RequestInv
<1>10. VoteInv'
  BY <1>0, <1>3, <1>4, <1>5 DEF VoteInv
<1>11. CoordinatorInv'
  BY <1>0, <1>3 DEF CoordinatorInv
<1>12. CommitInv'
  BY <1>0, <1>3, <1>4, <1>5, CommitTimeStable DEF CommitInv
<1>13. \A x \in Txns : CannotCommit(x) => CannotCommit(x)'
  BY <1>2, <1>3, <1>4, <1>5, <1>6 DEF CannotCommit
<1>14. AbortInv'
  <2>1. \A k \in msgs' : k.type = "abort" \/ (k.type = "answer" /\ k.ts = 0) =>
                            k.txn \in Txns /\ CannotCommit(k.txn)
    BY <1>0, <1>3, <1>4, <1>5 DEF AbortInv, ValueTypes
  <2>2. \A x \in Txns : router'[x] = "aborted" => CannotCommit(x)
    BY <1>0, <1>6 DEF AbortInv
  <2> QED BY <1>0, <1>3, <1>13, <2>1, <2>2 DEF AbortInv
<1> QED BY <1>1, <1>3, <1>8, <1>9, <1>10, <1>11, <1>12, <1>14 DEF CommitProtocolInv

\* The router aborts what it has not asked to commit, or was told cannot.
LEMMA RouterAbortsInv ==
    ASSUME NoOtherFault, CommitProtocolInv, NEW t \in Txns, RouterAborts(t)
    PROVE  CommitProtocolInv'
<1> DEFINE no == Answer(t, FALSE)
           aborts == ToAll("abort", t, {s \in Shards : Begun(t, s)}, 0, 0)
<1>0. /\ TypeOK /\ ShardInv /\ RequestInv /\ VoteInv /\ CoordinatorInv /\ CommitInv
      /\ AbortInv /\ ValueTypes
  BY ValuesTyped DEF CommitProtocolInv
<1>1. TypeOK'
  BY <1>0, RouteTypes
<1>2. /\ router' = [router EXCEPT ![t] = "aborted"]
      /\ msgs' = (msgs \ {no}) \union aborts
      /\ UNCHANGED <<active, txnState, preparedAt, committedAt, aborted, clock, coord, listed,
                     votes, acks, catalog, doing, handler, failed>>
  BY DEF RouterAborts, participant, coordinator
<1>3. \A k \in aborts : k.type = "abort" /\ k.txn = t
  BY MessageFields DEF ToAll
<1>4. \A x \in Txns : router'[x] = IF x = t THEN "aborted" ELSE router[x]
  BY <1>0, <1>2 DEF TypeOK
<1>5. /\ router[t] \in {"active", "committing"}
      /\ CannotCommit(t)'
  <2>1. CASE router[t] = "active"
    <3>1. /\ handler[t] = "none" /\ preparedAt[t][Coordinator] = 0
          /\ \A k \in msgs : ~(k.type = "coordinateCommit" /\ k.txn = t)
      BY <1>0, <2>1 DEF RequestInv, ValueTypes
    <3> HIDE DEF no, aborts
    <3> QED BY <1>2, <1>3, <1>4, <2>1, <3>1 DEF CannotCommit
  <2>2. CASE router[t] = "committing" /\ no \in msgs
    <3>1. no.type = "answer" /\ no.txn = t /\ no.ts = 0
      BY MessageFields DEF Answer
    <3>2. CannotCommit(t)
      BY <1>0, <2>2, <3>1 DEF AbortInv
    <3> HIDE DEF no
    <3> QED BY <1>2, <2>2, <3>2 DEF CannotCommit
  <2> QED BY <2>1, <2>2 DEF RouterAborts, MayAbort, NoOtherFault
<1> HIDE DEF no, aborts
<1>6. ShardInv'
  BY <1>0, <1>2 DEF ShardInv
<1>7. RequestInv'
  BY <1>0, <1>2, <1>3, <1>4, <1>5 DEF RequestInv, ValueTypes
<1>8. VoteInv'
  BY <1>0, <1>2, <1>3 DEF VoteInv
<1>9. CoordinatorInv'
  BY <1>0, <1>2 DEF CoordinatorInv
<1>10. CommitInv'
  BY <1>0, <1>2, <1>3, CommitTimeStable DEF CommitInv
<1>11. \A x \in Txns : CannotCommit(x) => CannotCommit(x)'
  BY <1>2, <1>3, <1>4 DEF CannotCommit
<1>12. AbortInv'
  <2>1. \A k \in msgs' : k.type = "abort" \/ (k.type = "answer" /\ k.ts = 0) =>
                            k.txn \in Txns /\ (k.txn = t \/ CannotCommit(k.txn))
    BY <1>0, <1>2, <1>3 DEF AbortInv, ValueTypes
  <2>2. \A x \in Txns : router'[x] = "aborted" => CannotCommit(x)'
    BY <1>0, <1>4, <1>5, <1>11 DEF AbortInv
  <2>3. /\ \A x \in Txns : coord'[x] = "aborted" => CannotCommit(x)'
        /\ \A x \in Txns : \A s \in aborted'[x] : CannotCommit(x)' \/ preparedAt'[x][s] = 0
    BY <1>0, <1>2, <1>11 DEF AbortInv
  <2>4. \A x \in Txns : x = t \/ CannotCommit(x) => CannotCommit(x)'
    BY <1>5, <1>11
  <2> QED BY <2>1, <2>2, <2>3, <2>4 DEF AbortInv
<1> QED BY <1>1, <1>2, <1>6, <1>7, <1>8, <1>9, <1>10, <1>12 DEF CommitProtocolInv

\* The router tells the client how its transaction ended.
LEMMA RouterAnswersInv ==
    ASSUME CommitProtocolInv, NEW t \in Txns, RouterAnswers(t)
    PROVE  CommitProtocolInv'
<1>0. /\ TypeOK /\ ShardInv /\ RequestInv /\ VoteInv /\ CoordinatorInv /\ CommitInv
      /\ AbortInv /\ ValueTypes
  BY ValuesTyped DEF CommitProtocolInv
<1>1. TypeOK'
  BY <1>0, RouteTypes
<1>2. /\ router[t] = "committing" /\ router' = [router EXCEPT ![t] = "committed"]
      /\ msgs' \subseteq msgs
      /\ UNCHANGED <<active, txnState, preparedAt, committedAt, aborted, clock, coord, listed,
                     votes, acks, catalog, doing, handler, failed>>
  BY DEF RouterAnswers, participant, coordinator
<1>3. \A x \in Txns : router'[x] = IF x = t THEN "committed" ELSE router[x]
  BY <1>0, <1>2 DEF TypeOK
<1>4. ShardInv'
  BY <1>0, <1>2 DEF ShardInv
<1>5. RequestInv'
  BY <1>0, <1>2, <1>3 DEF RequestInv, ValueTypes
<1>6. VoteInv'
  BY <1>0, <1>2 DEF VoteInv
<1>7. CoordinatorInv'
  BY <1>0, <1>2 DEF CoordinatorInv
<1>8. CommitInv'
  BY <1>0, <1>2, CommitTimeStable DEF CommitInv
<1>9. \A x \in Txns : CannotCommit(x) => CannotCommit(x)'
  BY <1>2, <1>3 DEF CannotCommit
<1>10. AbortInv'
  <2>1. \A k \in msgs' : k.type = "abort" \/ (k.type = "answer" /\ k.ts = 0) =>
                            k.txn \in Txns /\ CannotCommit(k.txn)
    BY <1>0, <1>2 DEF AbortInv, ValueTypes
  <2>2. \A x \in Txns : router'[x] = "aborted" => CannotCommit(x)
    BY <1>0, <1>3 DEF AbortInv
  <2> QED BY <1>0, <1>2, <1>9, <2>1, <2>2 DEF AbortInv
<1> QED BY <1>1, <1>2, <1>4, <1>5, <1>6, <1>7, <1>8, <1>10 DEF CommitProtocolInv

\* The transaction before the one that begins on the coordinator's shard: its
\* coordinator is told to abort, and then the shard has not prepared and has aborted.
LEMMA CreateCoordinatorFacts ==
    ASSUME CommitProtocolInv, NEW t \in Txns, BeginTransaction(Coordinator, t)
    PROVE  /\ t = active[Coordinator] + 1
           /\ \A x \in Txns : coord'[x] =
                IF x = t THEN "waitingForParticipantList"
                ELSE IF coord[x] \in Voting THEN "aborted" ELSE coord[x]
           /\ \A d \in doing' \ doing :
                d.action = "sendAbort" /\ d.txn \in Txns \ {t} /\ coord[d.txn] \in Voting
           /\ catalog' = catalog \union {t} /\ UNCHANGED <<listed, votes, acks>>
<1> DEFINE c == Coordinator
           latest == IF catalog = {} THEN 0 ELSE Max(catalog)
<1>0. /\ TypeOK /\ RequestInv /\ CoordinatorInv /\ ValueTypes
      /\ t \in Nat /\ t > 0 /\ active[c] \in Nat
  BY ValuesTyped DEF CommitProtocolInv, ValueTypes
<1>1. t = active[c] + 1
  <2>1. active[c] < t
    BY DEF BeginTransaction
  <2>2. CASE t = 1
    BY <1>0, <2>1, <2>2
  <2>3. CASE t > 1
    <3>1. t - 1 \in Txns
      BY <1>0, <2>3, ConstantTypes DEF Txns
    <3>2. router[t - 1] # "idle"
      BY <2>3 DEF BeginTransaction
    <3>3. ~(t - 1 > active[c])
      BY <1>0, <3>1, <3>2 DEF RequestInv
    <3> QED BY <1>0, <2>1, <3>3
  <2> QED BY <1>0, <2>2, <2>3
<1>2. /\ coord' = [x \in Txns |-> IF x = t THEN "waitingForParticipantList"
                                  ELSE IF x = latest THEN StateAfter(x, "tryAbort")
                                  ELSE coord[x]]
      /\ doing' = IF latest = 0 THEN doing
                  ELSE doing \union Todo(latest, "tryAbort", t)
      /\ catalog' = catalog \union {t}
      /\ UNCHANGED <<listed, votes, acks>>
  BY DEF BeginTransaction, CreateCoordinator
<1>3. latest # 0 => latest \in catalog /\ latest \in Txns /\ \A x \in catalog : x <= latest
  <2>1. catalog \in SUBSET (0..MaxTxn) /\ catalog \subseteq Txns
    BY <1>0 DEF TypeOK, Txns
  <2> QED BY <2>1, ConstantTypes, MaxFacts
<1>4. catalog # {} => latest # 0
  <2>1. catalog \in SUBSET (0..MaxTxn) /\ catalog \subseteq Txns
    BY <1>0 DEF TypeOK, Txns
  <2>2. catalog # {} => Max(catalog) \in Txns
    BY <2>1, ConstantTypes, MaxFacts
  <2> QED BY <2>2, ConstantTypes
<1> HIDE DEF latest
<1>5. latest # 0 => latest <= active[c] /\ latest # t
  <2> SUFFICES ASSUME latest # 0
               PROVE  latest <= active[c] /\ latest # t
    OBVIOUS
  <2>1. latest \in Txns /\ latest \in catalog /\ latest \in Nat
    BY <1>3, ConstantTypes
  <2>2. latest <= active[c]
    BY <1>0, <2>1 DEF CoordinatorInv
  <2> QED BY <1>0, <1>1, <2>1, <2>2
<1>6. ASSUME NEW x \in Txns, coord[x] \in Voting
      PROVE  x = latest
  <2>1. x = active[c] /\ x \in catalog
    BY <1>0, <1>6 DEF CoordinatorInv, Voting, Terminal, ValueTypes
  <2>2. latest # 0 /\ latest <= x /\ x <= latest /\ latest \in Nat /\ x \in Nat
    BY <1>0, <1>3, <1>4, <1>5, <2>1 DEF ValueTypes
  <2> QED BY <2>2
<1>7. ASSUME latest # 0
      PROVE  /\ StateAfter(latest, "tryAbort") =
                    IF coord[latest] \in Voting THEN "aborted" ELSE coord[latest]
             /\ \A d \in Todo(latest, "tryAbort", t) :
                    d.action = "sendAbort" /\ d.txn = latest /\ coord[latest] \in Voting
  BY <1>3, <1>5, <1>7, KnownStates, AfterTryAbort
<1>8. \A x \in Txns : coord'[x] =
        IF x = t THEN "waitingForParticipantList"
        ELSE IF coord[x] \in Voting THEN "aborted" ELSE coord[x]
  <2> TAKE x \in Txns
  <2>1. CASE x = t
    BY <1>2, <2>1
  <2>2. CASE x # t /\ x = latest
    BY <1>0, <1>2, <1>7, <2>2 DEF ValueTypes
  <2>3. CASE x # t /\ x # latest
    BY <1>2, <1>6, <2>3
  <2> QED BY <2>1, <2>2, <2>3
<1>9. \A d \in doing' \ doing :
        d.action = "sendAbort" /\ d.txn \in Txns \ {t} /\ coord[d.txn] \in Voting
  BY <1>2, <1>3, <1>5, <1>7
<1> QED BY <1>1, <1>2, <1>8, <1>9

\* The session of a shard moves on to its next transaction, and what was in progress
\* on the shard is aborted.
LEMMA BeginShardInv ==
    ASSUME CommitProtocolInv, NEW s \in Shards, NEW t \in Txns, BeginTransaction(s, t)
    PROVE  ShardInv'
<1>0. TypeOK /\ ShardInv /\ ValueTypes /\ t \in Nat /\ active[s] \in Nat
  BY ValuesTyped DEF CommitProtocolInv, ValueTypes
<1>1. /\ active[s] < t /\ txnState[s] # "prepared"
      /\ UNCHANGED <<preparedAt, committedAt, clock>>
  BY DEF BeginTransaction, NumberMayChange
<1>2. /\ \A y \in Shards : active'[y] = IF y = s THEN t ELSE active[y]
      /\ \A y \in Shards : txnState'[y] = IF y = s THEN "inProgress" ELSE txnState[y]
  BY <1>0 DEF BeginTransaction, TypeOK
<1>3. \A x \in Txns, y \in Shards :
        y \in aborted'[x] <=>
            y \in aborted[x] \/ (x = active[s] /\ txnState[s] = "inProgress" /\ y = s)
  BY DEF BeginTransaction
<1> SUFFICES ASSUME NEW y \in Shards, NEW x \in Txns
             PROVE  /\ x > active'[y] =>
                        /\ preparedAt[x][y] = 0 /\ committedAt[x][y] = 0
                        /\ y \notin aborted'[x]
                    /\ x = active'[y] =>
                        /\ txnState'[y] # "none"
                        /\ txnState'[y] = "inProgress" => preparedAt[x][y] = 0
                        /\ txnState'[y] \in {"prepared", "committed"} => preparedAt[x][y] > 0
                        /\ txnState'[y] = "committed" <=> committedAt[x][y] > 0
                        /\ txnState'[y] = "aborted" <=> y \in aborted'[x]
                    /\ x < active'[y] /\ (preparedAt[x][y] > 0 \/ y = Coordinator) =>
                        y \in aborted'[x] \/ committedAt[x][y] > 0
                    /\ committedAt[x][y] > 0 => preparedAt[x][y] > 0
                    /\ preparedAt[x][y] <= clock[y]
  BY <1>1 DEF ShardInv
<1>8. s = Coordinator => t = active[Coordinator] + 1
  BY CreateCoordinatorFacts
<1>4. x \in Nat /\ active[y] \in Nat /\ preparedAt[x][y] \in Nat /\ committedAt[x][y] \in Nat
  BY <1>0 DEF ValueTypes
<1>5. /\ committedAt[x][y] > 0 => preparedAt[x][y] > 0
      /\ preparedAt[x][y] <= clock[y]
  BY <1>0 DEF ShardInv
<1>6. CASE y # s
  <2>1. active'[y] = active[y] /\ txnState'[y] = txnState[y]
        /\ (y \in aborted'[x] <=> y \in aborted[x])
    BY <1>2, <1>3, <1>6
  <2> QED BY <1>0, <2>1 DEF ShardInv
<1>7. CASE y = s
  <2>1. active'[y] = t /\ txnState'[y] = "inProgress"
    BY <1>2, <1>7
  <2>2. CASE x > active[s]
    <3>1. preparedAt[x][s] = 0 /\ committedAt[x][s] = 0 /\ s \notin aborted'[x]
      BY <1>0, <1>3, <1>4, <2>2 DEF ShardInv
    <3> QED BY <1>0, <1>4, <1>5, <1>7, <1>8, <2>1, <2>2, <3>1
  <2>3. CASE x = active[s]
    <3>1. preparedAt[x][s] > 0 \/ s = Coordinator => s \in aborted'[x] \/ committedAt[x][s] > 0
      BY <1>0, <1>1, <1>3, <2>3 DEF ShardInv, TypeOK
    <3> QED BY <1>0, <1>1, <1>4, <1>5, <1>7, <2>1, <2>3, <3>1
  <2>4. CASE x < active[s]
    <3>1. preparedAt[x][s] > 0 \/ s = Coordinator => s \in aborted'[x] \/ committedAt[x][s] > 0
      BY <1>0, <1>3, <2>4 DEF ShardInv
    <3> QED BY <1>0, <1>1, <1>4, <1>5, <1>7, <2>1, <2>4, <3>1
  <2> QED BY <1>0, <1>4, <2>2, <2>3, <2>4
<1> QED BY <1>6, <1>7

\* A participant other than the coordinator's shard begins the next transaction of the
\* session, and aborts what it has not prepared.
LEMMA BeginElsewhereInv ==
    ASSUME CommitProtocolInv, NEW s \in Shards, NEW t \in Txns, BeginTransaction(s, t),
           s # Coordinator
    PROVE  CommitProtocolInv'
<1>0. /\ TypeOK /\ ShardInv /\ RequestInv /\ VoteInv /\ CoordinatorInv /\ CommitInv
      /\ AbortInv /\ ValueTypes
  BY ValuesTyped DEF CommitProtocolInv
<1>1. TypeOK'
  BY <1>0, SessionTypes
<1>2. /\ active[s] < t /\ txnState[s] # "prepared"
      /\ UNCHANGED <<router, preparedAt, committedAt, clock, coord, listed, votes, acks,
                     catalog, doing, handler, msgs, failed>>
  BY <1>0 DEF BeginTransaction, NumberMayChange, coordinator, TypeOK
<1>3. /\ \A y \in Shards : active'[y] = IF y = s THEN t ELSE active[y]
      /\ \A y \in Shards : txnState'[y] = IF y = s THEN "inProgress" ELSE txnState[y]
  BY <1>0 DEF BeginTransaction, TypeOK
<1>4. \A x \in Txns, y \in Shards :
        y \in aborted'[x] <=>
            y \in aborted[x] \/ (x = active[s] /\ txnState[s] = "inProgress" /\ y = s)
  BY DEF BeginTransaction
<1>5. ShardInv'
  BY BeginShardInv
<1>6. active'[Coordinator] = active[Coordinator]
  BY <1>0, <1>3 DEF ValueTypes
<1>7. RequestInv'
  BY <1>0, <1>2, <1>6 DEF RequestInv
<1>8. VoteInv'
  BY <1>0, <1>2 DEF VoteInv
<1>9. CoordinatorInv'
  BY <1>0, <1>2, <1>6 DEF CoordinatorInv
<1>10. CommitInv'
  BY <1>0, <1>2, CommitTimeStable DEF CommitInv
<1>11. \A x \in Txns : CannotCommit(x) => CannotCommit(x)'
  BY <1>0, <1>2, <1>4 DEF CannotCommit, ValueTypes
<1>12. AbortInv'
  <2>1. \A x \in Txns : aborted'[x] \subseteq Shards
    BY <1>1 DEF TypeOK
  <2>2. \A x \in Txns : \A y \in aborted'[x] : CannotCommit(x) \/ preparedAt[x][y] = 0
    BY <1>0, <1>4, <2>1 DEF AbortInv, ShardInv
  <2>3. \A k \in msgs : k.txn \in Txns
    BY <1>0 DEF ValueTypes
  <2> QED BY <1>0, <1>2, <1>11, <2>2, <2>3 DEF AbortInv
<1> QED BY <1>1, <1>2, <1>5, <1>7, <1>8, <1>9, <1>10, <1>12 DEF CommitProtocolInv

\* The session's next transaction begins on the coordinator's shard.
LEMMA BeginAtCoordinatorInv ==
    ASSUME CommitProtocolInv, NEW t \in Txns, BeginTransaction(Coordinator, t)
    PROVE  CommitProtocolInv'
<1> DEFINE c == Coordinator
<1>0. /\ TypeOK /\ ShardInv /\ RequestInv /\ VoteInv /\ CoordinatorInv /\ CommitInv
      /\ AbortInv /\ ValueTypes /\ c \in Shards /\ t \in Nat /\ active[c] \in Nat
  BY ValuesTyped DEF CommitProtocolInv, ValueTypes
<1>1. TypeOK'
  BY <1>0, SessionTypes
<1>2. /\ active[c] < t /\ txnState[c] # "prepared" /\ router[t] = "idle"
      /\ UNCHANGED <<preparedAt, committedAt, clock, handler, msgs, failed>>
  BY DEF BeginTransaction, NumberMayChange
<1>3. /\ \A y \in Shards : active'[y] = IF y = c THEN t ELSE active[y]
      /\ \A y \in Shards : txnState'[y] = IF y = c THEN "inProgress" ELSE txnState[y]
      /\ \A x \in Txns : router'[x] = IF x = t THEN "active" ELSE router[x]
  BY <1>0 DEF BeginTransaction, TypeOK
<1>4. \A x \in Txns, y \in Shards :
        y \in aborted'[x] <=>
            y \in aborted[x] \/ (x = active[c] /\ txnState[c] = "inProgress" /\ y = c)
  BY DEF BeginTransaction
<1>5. /\ t = active[c] + 1
      /\ \A x \in Txns : coord'[x] =
            IF x = t THEN "waitingForParticipantList"
            ELSE IF coord[x] \in Voting THEN "aborted" ELSE coord[x]
      /\ \A d \in doing' \ doing :
            d.action = "sendAbort" /\ d.txn \in Txns \ {t} /\ coord[d.txn] \in Voting
      /\ catalog' = catalog \union {t} /\ UNCHANGED <<listed, votes, acks>>
  BY CreateCoordinatorFacts
<1>6. /\ handler[t] = "none" /\ ~listed[t] /\ \A y \in Shards : preparedAt[t][y] = 0
      /\ coord[t] = "none"
  BY <1>0, <1>2 DEF RequestInv, CoordinatorInv
<1>7. ShardInv'
  BY <1>0, BeginShardInv
<1>8. RequestInv'
  <2>1. \A x \in Txns : router'[x] \in {"idle", "active"} =>
            handler[x] = "none" /\ \A s \in Shards : preparedAt[x][s] = 0
    BY <1>0, <1>3, <1>6 DEF RequestInv
  <2>3. ASSUME NEW x \in Txns
        PROVE  router'[x] = "idle" <=> x > active'[c]
    <3>1. active'[c] = t /\ x \in Nat
      BY <1>0, <1>3 DEF ValueTypes
    <3>2. router[x] = "idle" <=> x > active[c]
      BY <1>0 DEF RequestInv
    <3> QED BY <1>0, <1>3, <1>5, <3>1, <3>2
  <2>2. \A k \in msgs : k.type \in {"coordinateCommit", "prepare"} =>
                            router'[k.txn] \notin {"idle", "active"}
    BY <1>0, <1>2, <1>3 DEF RequestInv, ValueTypes
  <2> QED BY <1>0, <1>2, <1>5, <2>1, <2>2, <2>3 DEF RequestInv
<1>9. VoteInv'
  BY <1>0, <1>2, <1>5 DEF VoteInv
<1>10. CoordinatorInv'
  <2> SUFFICES ASSUME NEW x \in Txns
               PROVE
                 /\ coord'[x] # "broken"
                 /\ coord'[x] = "none" <=> x > t
                 /\ x \in catalog' => x <= t
                 /\ x <= t /\ x \notin catalog' => coord'[x] \in Terminal
                 /\ coord'[x] \in Voting => x = t
                 /\ coord'[x] = "waitingForParticipantList" => ~listed[x]
                 /\ coord'[x] \in Decided \union {"waitingForVotes"} => listed[x]
                 /\ coord'[x] \in Decided => \A s \in Shards : votes[x][s] > 0
                 /\ coord'[x] = "committed" => acks[x] = Shards
    <3>1. active'[c] = t
      BY <1>0, <1>3
    <3> QED BY <1>5, <3>1 DEF CoordinatorInv
  <2>1. x \in Nat
    BY <1>0 DEF ValueTypes
  <2>2. CASE x = t
    BY <1>5, <1>6, <2>1, <2>2 DEF Voting, Decided
  <2>3. CASE x # t
    <3>1. coord'[x] = IF coord[x] \in Voting THEN "aborted" ELSE coord[x]
      BY <1>5, <2>3
    <3>2. x > active[c] <=> x > t
      BY <1>0, <1>5, <2>1, <2>3
    <3>3. x <= active[c] <=> x <= t
      BY <1>0, <1>5, <2>1, <2>3
    <3>4. x \in catalog' <=> x \in catalog
      BY <1>5, <2>3
    <3> QED BY <1>0, <3>1, <3>2, <3>3, <3>4
            DEF CoordinatorInv, Voting, Decided, Terminal
  <2> QED BY <2>2, <2>3
<1>11. CommitInv'
  <2>1. \A x \in Txns : coord[x] \in Decided \union Terminal => coord'[x] = coord[x]
    BY <1>5, <1>6 DEF Decided, Voting, Terminal
  <2>2. \A k \in msgs :
          /\ k.type = "commit" => coord'[k.txn] \in Decided
          /\ k.type = "answer" /\ k.ts > 0 => coord'[k.txn] = "committed"
    BY <1>0, <2>1 DEF CommitInv, ValueTypes, Terminal
  <2>3. \A d \in doing' :
          /\ d.action = "sendCommit" => d.opTxn = d.txn /\ coord'[d.txn] \in Decided
          /\ d.action = "sendAbort" => coord'[d.txn] = "aborted"
          /\ d.signal => coord'[d.txn] \in Terminal
    <3> TAKE d \in doing'
    <3>1. CASE d \in doing
      BY <1>0, <2>1, <3>1 DEF CommitInv, ValueTypes, Terminal
    <3>2. CASE d \notin doing
      BY <1>5, <3>2 DEF Terminal
    <3> QED BY <3>1, <3>2
  <2>4. \A x \in Txns, y \in Shards : committedAt[x][y] > 0 => coord'[x] \in Decided
    BY <1>0, <2>1 DEF CommitInv
  <2> QED BY <1>0, <1>2, <1>5, <2>2, <2>3, <2>4, CommitTimeStable DEF CommitInv
<1>12. \A x \in Txns : CannotCommit(x) => CannotCommit(x)'
  BY <1>0, <1>2, <1>3, <1>4 DEF CannotCommit
<1>13. \A x \in Txns : coord[x] \in Voting => CannotCommit(x)'
  <2> SUFFICES ASSUME NEW x \in Txns, coord[x] \in Voting
               PROVE  CannotCommit(x)'
    OBVIOUS
  <2>1. x = active[c] /\ coord[x] \notin Decided
    BY <1>0 DEF CoordinatorInv, Voting, Decided
  <2>2. ~(committedAt[x][c] > 0)
    BY <1>0, <2>1 DEF CommitInv
  <2>3. txnState[c] \in {"inProgress", "aborted"}
    BY <1>0, <1>2, <2>1, <2>2 DEF ShardInv, TypeOK
  <2>4. c \in aborted'[x]
    BY <1>0, <1>4, <2>1, <2>3 DEF ShardInv
  <2>5. preparedAt[x][c] = 0
    BY <1>0, <2>1, <2>3 DEF ShardInv, AbortInv, CannotCommit
  <2> QED BY <1>2, <2>4, <2>5 DEF CannotCommit
<1>14. AbortInv'
  <2>1. \A x \in Txns : aborted'[x] \subseteq Shards
    BY <1>1 DEF TypeOK
  <2>2. \A x \in Txns : \A y \in aborted'[x] : CannotCommit(x) \/ preparedAt[x][y] = 0
    BY <1>0, <1>4, <2>1 DEF AbortInv, ShardInv
  <2>3. \A k \in msgs : k.txn \in Txns
    BY <1>0 DEF ValueTypes
  <2>4. \A x \in Txns : router'[x] = "aborted" => CannotCommit(x)
    BY <1>0, <1>3 DEF AbortInv
  <2>5. \A x \in Txns : coord'[x] = "aborted" => CannotCommit(x)'
    BY <1>0, <1>5, <1>12, <1>13 DEF AbortInv
  <2> QED BY <1>0, <1>2, <1>12, <2>2, <2>3, <2>4, <2>5 DEF AbortInv
<1> QED BY <1>1, <1>2, <1>7, <1>8, <1>9, <1>10, <1>11, <1>14 DEF CommitProtocolInv

\* The inductive invariant holds at the start.
LEMMA InitCommitProtocol == Init => CommitProtocolInv
<1> SUFFICES ASSUME Init
             PROVE  CommitProtocolInv
  OBVIOUS
<1>1. TypeOK /\ failed = "none" /\ ValueTypes
  BY InitTypes, ValuesTyped DEF Init
<1>2. /\ \A s \in Shards : active[s] = 0 /\ clock[s] \in Nat
      /\ \A t \in Txns : /\ router[t] = "idle" /\ aborted[t] = {} /\ coord[t] = "none"
                         /\ ~listed[t] /\ acks[t] = {} /\ handler[t] = "none"
      /\ \A t \in Txns, s \in Shards :
            preparedAt[t][s] = 0 /\ committedAt[t][s] = 0 /\ votes[t][s] = 0
      /\ catalog = {} /\ doing = {} /\ msgs = {}
  BY <1>1 DEF Init, ValueTypes
<1>3. ShardInv
  BY <1>1, <1>2 DEF ShardInv, ValueTypes
<1>4. RequestInv /\ VoteInv
  BY <1>1, <1>2 DEF RequestInv, VoteInv, ValueTypes
<1>5. CoordinatorInv
  <2> SUFFICES ASSUME NEW t \in Txns
               PROVE  t \in Nat /\ t > 0 /\ active[Coordinator] = 0
    BY <1>2 DEF CoordinatorInv, Voting, Decided
  <2> QED BY <1>1, <1>2 DEF ValueTypes
<1>6. CommitInv /\ AbortInv
  BY <1>1, <1>2 DEF CommitInv, AbortInv
<1> QED BY <1>1, <1>3, <1>4, <1>5, <1>6 DEF CommitProtocolInv

\* Every step keeps it.
LEMMA CommitProtocolStep ==
    ASSUME NoOtherFault, CommitProtocolInv, [Next]_vars
    PROVE  CommitProtocolInv'
<1>1. CASE UNCHANGED vars
  BY <1>1, FewerMessages DEF vars
<1>2. CASE Receive
  BY <1>2, ReceivePrepareInv, ReceiveCommitInv, ReceiveAbortInv, ReceiveVoteCommitInv,
     ReceiveCoordinateCommitInv, ReceiveAckInv DEF Receive
<1>3. CASE Coordinate
  BY <1>3, DoCoordinatorActionInv, PrepareLocallyInv, VoteLocallyInv, AnswerDecisionInv
     DEF Coordinate
<1>4. CASE Route
  BY <1>4, RouterCommitsInv, RouterAbortsInv, RouterAnswersInv DEF Route
<1>5. CASE \E s \in Shards : Expire(s)
  BY <1>5, ExpireInv
<1>6. CASE \E s \in Shards, t \in Txns : BeginTransaction(s, t)
  BY <1>6, BeginElsewhereInv, BeginAtCoordinatorInv
<1> QED BY <1>1, <1>2, <1>3, <1>4, <1>5, <1>6 DEF Next

\* It holds in every state.
LEMMA CommitProtocol ==
    ASSUME NoOtherFault
    PROVE  Spec => []CommitProtocolInv
<1>1. CommitProtocolInv /\ [Next]_vars => CommitProtocolInv'
  BY CommitProtocolStep
<1> QED BY <1>1, InitCommitProtocol, PTL DEF Spec

\* No transaction is committed on one shard and aborted on another, for any number of
\* shards and of transactions of the session, whatever is lost, expires or is overtaken
\* by the next transaction.
THEOREM TransactionsAtomic ==
    ASSUME NoOtherFault
    PROVE  Spec => []Atomicity
<1>1. CommitProtocolInv => Atomicity
  <2> SUFFICES ASSUME CommitProtocolInv, NEW t \in Txns, NEW s1 \in Shards, NEW s2 \in Shards,
                      committedAt[t][s1] > 0, s2 \in aborted[t]
               PROVE  FALSE
    BY DEF Atomicity
  <2>1. /\ CoordinatorInv /\ CommitInv /\ AbortInv /\ VoteInv /\ ValueTypes
    BY ValuesTyped DEF CommitProtocolInv
  <2>2. \A s \in Shards : votes[t][s] > 0 /\ votes[t][s] = preparedAt[t][s]
    BY <2>1 DEF CommitInv, CoordinatorInv, VoteInv
  <2>3. CannotCommit(t) \/ preparedAt[t][s2] = 0
    BY <2>1 DEF AbortInv
  <2> QED BY <2>1, <2>2, <2>3 DEF CannotCommit, ValueTypes
<1> QED BY <1>1, CommitProtocol, PTL

\* The coordinator never meets an event that its transition table has no row for, no
\* prepared transaction is prepared again, and no commit is written at an optime before
\* its commit timestamp.
THEOREM CoordinatorNeverBroken ==
    ASSUME NoOtherFault
    PROVE  Spec => []NeverBroken
<1>1. CommitProtocolInv => NeverBroken
  BY DEF CommitProtocolInv, CoordinatorInv, NeverBroken
<1> QED BY <1>1, CommitProtocol, PTL

-----------------------------------------------------------------------------
(* The refinement of AtomicCommit. *)

\* A step of which the promise sees nothing.
LEMMA MapsToStutter ==
    ASSUME preparedAt' = preparedAt,
           \A t \in Txns : /\ Decision(t)' = Decision(t) /\ CommitTime(t)' = CommitTime(t)
                           /\ Told(t)' = Told(t),
           \A t \in Txns, s \in Shards : Ending(t, s)' = Ending(t, s)
    PROVE  UNCHANGED Promise!vars
<1>1. [t \in Txns |-> Decision(t)]' = [t \in Txns |-> Decision(t)]
  OBVIOUS
<1>2. [t \in Txns |-> CommitTime(t)]' = [t \in Txns |-> CommitTime(t)]
  OBVIOUS
<1>3. [t \in Txns |-> Told(t)]' = [t \in Txns |-> Told(t)]
  OBVIOUS
<1>4. [t \in Txns |-> [s \in Shards |-> Ending(t, s)]]' =
        [t \in Txns |-> [s \in Shards |-> Ending(t, s)]]
  OBVIOUS
<1> QED BY <1>1, <1>2, <1>3, <1>4 DEF Promise!vars

\* A shard consents.
LEMMA MapsToConsent ==
    ASSUME TypeOK, NEW t \in Txns, NEW s \in Shards, NEW ts \in Times \ {0},
           preparedAt[t][s] = 0, Ending(t, s) = "open", Decision(t) # "commit",
           preparedAt' = [preparedAt EXCEPT ![t][s] = ts],
           \A x \in Txns : /\ Decision(x)' = Decision(x) /\ CommitTime(x)' = CommitTime(x)
                           /\ Told(x)' = Told(x),
           \A x \in Txns, y \in Shards : Ending(x, y)' = Ending(x, y)
    PROVE  Promise!Next
<1>1. [x \in Txns |-> Decision(x)]' = [x \in Txns |-> Decision(x)]
  OBVIOUS
<1>2. [x \in Txns |-> CommitTime(x)]' = [x \in Txns |-> CommitTime(x)]
  OBVIOUS
<1>3. [x \in Txns |-> Told(x)]' = [x \in Txns |-> Told(x)]
  OBVIOUS
<1>4. [x \in Txns |-> [y \in Shards |-> Ending(x, y)]]' =
        [x \in Txns |-> [y \in Shards |-> Ending(x, y)]]
  OBVIOUS
<1>5. Promise!Consent(t, s)
  BY <1>1, <1>2, <1>3, <1>4 DEF Promise!Consent
<1> QED BY <1>5 DEF Promise!Next

\* Commit is decided.
LEMMA MapsToDecideCommit ==
    ASSUME NEW t \in Txns, Decision(t) = "open", Decision(t)' = "commit",
           \A s \in Shards : preparedAt[t][s] > 0 /\ Ending(t, s) = "open",
           CommitTime(t)' = Max({preparedAt[t][s] : s \in Shards}),
           \A x \in Txns \ {t} : Decision(x)' = Decision(x) /\ CommitTime(x)' = CommitTime(x),
           \A x \in Txns : Told(x)' = Told(x),
           \A x \in Txns, y \in Shards : Ending(x, y)' = Ending(x, y),
           preparedAt' = preparedAt
    PROVE  Promise!Next
<1>1. [x \in Txns |-> Decision(x)]' = [[x \in Txns |-> Decision(x)] EXCEPT ![t] = "commit"]
  OBVIOUS
<1>2. [x \in Txns |-> CommitTime(x)]' =
        [[x \in Txns |-> CommitTime(x)] EXCEPT ![t] = Max({preparedAt[t][s] : s \in Shards})]
  OBVIOUS
<1>3. [x \in Txns |-> Told(x)]' = [x \in Txns |-> Told(x)]
  OBVIOUS
<1>4. [x \in Txns |-> [y \in Shards |-> Ending(x, y)]]' =
        [x \in Txns |-> [y \in Shards |-> Ending(x, y)]]
  OBVIOUS
<1>5. Promise!DecideCommit(t)
  BY <1>1, <1>2, <1>3, <1>4 DEF Promise!DecideCommit, Promise!Max, Max
<1> QED BY <1>5 DEF Promise!Next

\* Abort is decided or carried out.
LEMMA MapsToAbort ==
    ASSUME NEW t \in Txns, Decision(t) # "commit", Decision(t)' = "abort",
           \A x \in Txns \ {t} : Decision(x)' = Decision(x) /\ Told(x)' = Told(x),
           \A x \in Txns : CommitTime(x)' = CommitTime(x),
           Told(t)' \in {Told(t), "aborted"},
           NEW s \in Shards,
           Ending(t, s)' = Ending(t, s) \/ (Ending(t, s) = "open" /\ Ending(t, s)' = "aborted"),
           \A x \in Txns, y \in Shards : x # t \/ y # s => Ending(x, y)' = Ending(x, y),
           preparedAt' = preparedAt
    PROVE  Promise!Next
<1> DEFINE told == [x \in Txns |-> Told(x)]
           ending == [x \in Txns |-> [y \in Shards |-> Ending(x, y)]]
<1>1. [x \in Txns |-> Decision(x)]' = [[x \in Txns |-> Decision(x)] EXCEPT ![t] = "abort"]
  OBVIOUS
<1>2. [x \in Txns |-> CommitTime(x)]' = [x \in Txns |-> CommitTime(x)]
  OBVIOUS
<1>3. told' \in {told, [told EXCEPT ![t] = "aborted"]}
  <2>1. CASE Told(t)' = Told(t)
    BY <2>1
  <2>2. CASE Told(t)' = "aborted"
    BY <2>2
  <2> QED BY <2>1, <2>2
<1>4. \/ ending' = ending
      \/ Ending(t, s) = "open" /\ ending' = [ending EXCEPT ![t][s] = "aborted"]
  <2>1. CASE Ending(t, s)' = Ending(t, s)
    BY <2>1
  <2>2. CASE Ending(t, s) = "open" /\ Ending(t, s)' = "aborted"
    BY <2>2
  <2> QED BY <2>1, <2>2
<1>5. ending' \in {ending} \union
        {[ending EXCEPT ![t][y] = "aborted"] : y \in {y \in Shards : ending[t][y] = "open"}}
  BY <1>4
<1>6. Promise!Abort(t)
  BY <1>1, <1>2, <1>3, <1>5 DEF Promise!Abort
<1> QED BY <1>6 DEF Promise!Next

\* A shard commits.
LEMMA MapsToCommit ==
    ASSUME NEW t \in Txns, NEW s \in Shards, Decision(t) = "commit", Ending(t, s) = "open",
           Ending(t, s)' = "committed",
           \A x \in Txns, y \in Shards : x # t \/ y # s => Ending(x, y)' = Ending(x, y),
           \A x \in Txns : /\ Decision(x)' = Decision(x) /\ CommitTime(x)' = CommitTime(x)
                           /\ Told(x)' = Told(x),
           preparedAt' = preparedAt
    PROVE  Promise!Next
<1>1. [x \in Txns |-> Decision(x)]' = [x \in Txns |-> Decision(x)]
  OBVIOUS
<1>2. [x \in Txns |-> CommitTime(x)]' = [x \in Txns |-> CommitTime(x)]
  OBVIOUS
<1>3. [x \in Txns |-> Told(x)]' = [x \in Txns |-> Told(x)]
  OBVIOUS
<1>4. [x \in Txns |-> [y \in Shards |-> Ending(x, y)]]' =
        [[x \in Txns |-> [y \in Shards |-> Ending(x, y)]] EXCEPT ![t][s] = "committed"]
  OBVIOUS
<1>5. Promise!Commit(t, s)
  BY <1>1, <1>2, <1>3, <1>4 DEF Promise!Commit
<1> QED BY <1>5 DEF Promise!Next

\* The client is told of a commit.
LEMMA MapsToAnswer ==
    ASSUME NEW t \in Txns, Told(t) = "none", Told(t)' = "committed",
           \A s \in Shards : Ending(t, s) = "committed",
           \A x \in Txns, y \in Shards : Ending(x, y)' = Ending(x, y),
           \A x \in Txns : Decision(x)' = Decision(x) /\ CommitTime(x)' = CommitTime(x),
           \A x \in Txns \ {t} : Told(x)' = Told(x),
           preparedAt' = preparedAt
    PROVE  Promise!Next
<1>1. [x \in Txns |-> Decision(x)]' = [x \in Txns |-> Decision(x)]
  OBVIOUS
<1>2. [x \in Txns |-> CommitTime(x)]' = [x \in Txns |-> CommitTime(x)]
  OBVIOUS
<1>3. [x \in Txns |-> Told(x)]' = [[x \in Txns |-> Told(x)] EXCEPT ![t] = "committed"]
  OBVIOUS
<1>4. [x \in Txns |-> [y \in Shards |-> Ending(x, y)]]' =
        [x \in Txns |-> [y \in Shards |-> Ending(x, y)]]
  OBVIOUS
<1>5. Promise!AnswerCommitted(t)
  BY <1>1, <1>2, <1>3, <1>4 DEF Promise!AnswerCommitted
<1> QED BY <1>5 DEF Promise!Next

\* The initial states are those of the promise.
LEMMA MapsInit == Init => Promise!Init
<1> SUFFICES ASSUME Init
             PROVE  Promise!Init
  OBVIOUS
<1>1. \A t \in Txns : /\ Decision(t) = "open" /\ CommitTime(t) = 0 /\ Told(t) = "none"
                      /\ \A s \in Shards : Ending(t, s) = "open"
  <2> TAKE t \in Txns
  <2>1. coord[t] = "none" /\ aborted[t] = {} /\ router[t] = "idle"
        /\ \A s \in Shards : committedAt[t][s] = 0
    BY DEF Init
  <2>2. Decision(t) = "open"
    BY <2>1 DEF Decision
  <2>3. \A s \in Shards : Ending(t, s) = "open"
    BY <2>1 DEF Ending
  <2> QED BY <2>1, <2>2, <2>3 DEF CommitTime, Told
<1>2. [t \in Txns |-> Decision(t)] = [t \in Txns |-> "open"]
  BY <1>1
<1>3. [t \in Txns |-> CommitTime(t)] = [t \in Txns |-> 0]
  BY <1>1
<1>4. [t \in Txns |-> Told(t)] = [t \in Txns |-> "none"]
  BY <1>1
<1>5. [t \in Txns |-> [s \in Shards |-> Ending(t, s)]] =
        [t \in Txns |-> [s \in Shards |-> "open"]]
  BY <1>1
<1>6. preparedAt = [t \in Txns |-> [s \in Shards |-> 0]]
  BY DEF Init
<1> QED BY <1>2, <1>3, <1>4, <1>5, <1>6 DEF Promise!Init

\* What the view of a transaction depends on.
LEMMA SameDecision ==
    ASSUME NEW t,
           coord'[t] \in Decided <=> coord[t] \in Decided,
           coord'[t] = "aborted" <=> coord[t] = "aborted",
           router'[t] = "aborted" <=> router[t] = "aborted",
           aborted'[t] = {} <=> aborted[t] = {},
           coord[t] \in Decided => votes'[t] = votes[t]
    PROVE  Decision(t)' = Decision(t) /\ CommitTime(t)' = CommitTime(t)
<1>1. Decision(t)' = Decision(t)
  BY DEF Decision, Decided
<1>2. Decision(t) = "commit" <=> coord[t] \in Decided
  BY DEF Decision, Decided
<1>3. CASE coord[t] \in Decided
  BY <1>1, <1>2, <1>3, CommitTimeStable DEF CommitTime
<1>4. CASE coord[t] \notin Decided
  BY <1>1, <1>2, <1>4 DEF CommitTime
<1> QED BY <1>1, <1>3, <1>4

\* How a transaction ended on a shard stays when what it is read from stays.
LEMMA SameEnding ==
    ASSUME CommitProtocolInv, NEW t \in Txns, NEW s \in Shards,
           s \in aborted'[t] <=> s \in aborted[t],
           committedAt'[t][s] = committedAt[t][s],
           coord[t] \in Decided => votes'[t] = votes[t]
    PROVE  Ending(t, s)' = Ending(t, s)
<1>1. committedAt[t][s] = 0 \/ coord[t] \in Decided
  BY ValuesTyped DEF CommitProtocolInv, CommitInv, ValueTypes
<1>2. CASE coord[t] \in Decided
  BY <1>2, CommitTimeStable DEF Ending
<1>3. CASE committedAt[t][s] = 0
  BY <1>3 DEF Ending
<1> QED BY <1>1, <1>2, <1>3

\* What the client was told stays when the router has nothing new to tell.
LEMMA SameTold ==
    ASSUME NEW t,
           \/ router'[t] = router[t]
           \/ router[t] \notin {"committed", "aborted"} /\ router'[t] \notin {"committed", "aborted"}
    PROVE  Told(t)' = Told(t)
BY DEF Told

\* A step that decides nothing, ends nothing and tells the client nothing.
LEMMA QuietStep ==
    ASSUME CommitProtocolInv, UNCHANGED <<preparedAt, committedAt, aborted>>,
           \A t \in Txns :
            /\ coord'[t] \in Decided <=> coord[t] \in Decided
            /\ coord'[t] = "aborted" <=> coord[t] = "aborted"
            /\ coord[t] \in Decided => votes'[t] = votes[t]
            /\ \/ router'[t] = router[t]
               \/ /\ router[t] \notin {"committed", "aborted"}
                  /\ router'[t] \notin {"committed", "aborted"}
    PROVE  UNCHANGED Promise!vars
<1>1. \A t \in Txns : Decision(t)' = Decision(t) /\ CommitTime(t)' = CommitTime(t)
  <2> TAKE t \in Txns
  <2> QED BY SameDecision
<1>2. \A t \in Txns : Told(t)' = Told(t)
  <2> TAKE t \in Txns
  <2> QED BY SameTold
<1>3. \A t \in Txns, s \in Shards : Ending(t, s)' = Ending(t, s)
  <2> TAKE t \in Txns, s \in Shards
  <2> QED BY SameEnding
<1> QED BY <1>1, <1>2, <1>3, MapsToStutter

\* Once a shard of it has not prepared, commit has not been decided.
LEMMA Undecided ==
    ASSUME CommitProtocolInv, NEW t \in Txns, NEW s \in Shards, preparedAt[t][s] = 0
    PROVE  coord[t] \notin Decided
<1>1. CoordinatorInv /\ VoteInv
  BY DEF CommitProtocolInv
<1> QED BY <1>1 DEF CoordinatorInv, VoteInv

\* A shard prepares: it consents.
LEMMA PrepareMaps ==
    ASSUME CommitProtocolInv, NEW t \in Txns, NEW s \in Shards, Prepare(s, t),
           preparedAt[t][s] = 0, active[s] = t, txnState[s] = "inProgress",
           UNCHANGED <<router, coordinator>>
    PROVE  Promise!Next
<1>1. /\ UNCHANGED <<router, committedAt, aborted, coord, votes>>
      /\ preparedAt' = [preparedAt EXCEPT ![t][s] = clock[s] + 1]
  BY DEF Prepare, coordinator
<1>2. clock[s] + 1 \in Times \ {0}
  BY ConstantTypes DEF CommitProtocolInv, TypeOK, Prepare, Times
<1>3. coord[t] \notin Decided
  BY Undecided
<1>4. Decision(t) # "commit"
  BY <1>3 DEF Decision, Decided
<1>5. Ending(t, s) = "open"
  BY ValuesTyped DEF CommitProtocolInv, ShardInv, ValueTypes, Ending
<1>6. \A x \in Txns : Decision(x)' = Decision(x) /\ CommitTime(x)' = CommitTime(x)
  <2> TAKE x \in Txns
  <2> QED BY <1>1, SameDecision
<1>7. \A x \in Txns : Told(x)' = Told(x)
  <2> TAKE x \in Txns
  <2> QED BY <1>1, SameTold
<1>8. \A x \in Txns, y \in Shards : Ending(x, y)' = Ending(x, y)
  <2> TAKE x \in Txns, y \in Shards
  <2> QED BY <1>1, SameEnding
<1>9. TypeOK
  BY DEF CommitProtocolInv
<1> QED BY <1>1, <1>2, <1>4, <1>5, <1>6, <1>7, <1>8, <1>9, MapsToConsent

\* A shard aborts what has not been decided: abort is decided.
LEMMA ShardAbortMaps ==
    ASSUME CommitProtocolInv, NEW t \in Txns, NEW s \in Shards,
           active[s] = t, txnState[s] \in {"inProgress", "prepared"},
           coord[t] \notin Decided, coord'[t] \notin Decided,
           \A x \in Txns, y \in Shards :
                y \in aborted'[x] <=> y \in aborted[x] \/ (x = t /\ y = s),
           \A x \in Txns : aborted[x] \subseteq Shards /\ aborted'[x] \subseteq Shards,
           \A x \in Txns \ {t} : /\ coord'[x] \in Decided <=> coord[x] \in Decided
                                 /\ coord'[x] = "aborted" <=> coord[x] = "aborted",
           \A x \in Txns : \/ router'[x] = router[x]
                           \/ /\ router[x] \notin {"committed", "aborted"}
                              /\ router'[x] \notin {"committed", "aborted"},
           UNCHANGED <<preparedAt, committedAt, votes>>
    PROVE  Promise!Next
<1>1. Decision(t) # "commit"
  BY DEF Decision, Decided
<1>2. s \in aborted'[t]
  OBVIOUS
<1>3. Decision(t)' = "abort"
  BY <1>2 DEF Decision, Decided
<1>4. \A x \in Txns \ {t} : Decision(x)' = Decision(x) /\ CommitTime(x)' = CommitTime(x)
  <2> TAKE x \in Txns \ {t}
  <2>1. aborted'[x] = {} <=> aborted[x] = {}
    OBVIOUS
  <2> QED BY <2>1, SameDecision
<1>5. CommitTime(t)' = CommitTime(t)
  BY <1>1, <1>3 DEF CommitTime
<1>6. \A x \in Txns : Told(x)' = Told(x)
  <2> TAKE x \in Txns
  <2> QED BY SameTold
<1>7. Ending(t, s) = "open" /\ Ending(t, s)' = "aborted"
  <2>1. s \notin aborted[t] /\ committedAt[t][s] = 0
    BY ValuesTyped DEF CommitProtocolInv, ShardInv, ValueTypes
  <2> QED BY <1>2, <2>1 DEF Ending
<1>8. \A x \in Txns, y \in Shards : x # t \/ y # s => Ending(x, y)' = Ending(x, y)
  <2> SUFFICES ASSUME NEW x \in Txns, NEW y \in Shards, x # t \/ y # s
               PROVE  Ending(x, y)' = Ending(x, y)
    OBVIOUS
  <2>1. y \in aborted'[x] <=> y \in aborted[x]
    OBVIOUS
  <2> QED BY <2>1, SameEnding
<1> QED BY <1>1, <1>3, <1>4, <1>5, <1>6, <1>7, <1>8, MapsToAbort

\* A shard that gives up a transaction which is not decided aborts it, or stutters.
LEMMA AbortOnSessionMaps ==
    ASSUME CommitProtocolInv, TypeOK', NEW s \in Shards, AbortOnSession(s),
           txnState[s] \in {"inProgress", "prepared"},
           active[s] \in Txns => coord[active[s]] \notin Decided,
           UNCHANGED <<router, coordinator>>
    PROVE  Promise!Next \/ UNCHANGED Promise!vars
<1>1. /\ aborted' = [aborted EXCEPT ![active[s]] = @ \union {s}]
      /\ UNCHANGED <<router, preparedAt, committedAt, coord, votes>>
  BY DEF AbortOnSession, coordinator
<1>2. aborted \in [Txns -> SUBSET Shards] /\ aborted' \in [Txns -> SUBSET Shards]
  BY DEF CommitProtocolInv, TypeOK
<1>3. CASE active[s] \in Txns
  <2>1. \A x \in Txns, y \in Shards :
            y \in aborted'[x] <=> y \in aborted[x] \/ (x = active[s] /\ y = s)
    BY <1>1, <1>2
  <2>2. \A x \in Txns : aborted[x] \subseteq Shards /\ aborted'[x] \subseteq Shards
    BY <1>2
  <2> QED BY <1>1, <1>3, <2>1, <2>2, ShardAbortMaps
<1>4. CASE active[s] \notin Txns
  <2>1. aborted' = aborted
    BY <1>1, <1>2, <1>4
  <2> QED BY <1>1, <2>1, QuietStep
<1> QED BY <1>3, <1>4

\* What a vote does to the decision.
LEMMA RecvVoteMaps ==
    ASSUME CommitProtocolInv, CommitProtocolInv', NEW t \in Txns, NEW s \in Shards,
           RecvVoteCommit(t, s, preparedAt[t][s]), t \in catalog, votes[t][s] = 0,
           UNCHANGED <<router, participant>>
    PROVE  Promise!Next \/ UNCHANGED Promise!vars
<1>0. /\ TypeOK /\ CoordinatorInv /\ VoteInv /\ AbortInv /\ CommitInv /\ ValueTypes
      /\ TypeOK' /\ CoordinatorInv' /\ VoteInv' /\ AbortInv' /\ ValueTypes'
      /\ \A x \in Txns : aborted[x] \subseteq Shards
  <2>1. /\ TypeOK /\ CoordinatorInv /\ VoteInv /\ AbortInv /\ CommitInv
        /\ TypeOK' /\ CoordinatorInv' /\ VoteInv' /\ AbortInv'
    BY DEF CommitProtocolInv
  <2>2. ValueTypes /\ ValueTypes'
    BY <2>1, ValuesTyped, PTL
  <2>3. \A x \in Txns : aborted[x] \subseteq Shards
    BY <2>1 DEF TypeOK
  <2> QED BY <2>1, <2>2, <2>3
<1>1. coord[t] \in Voting \union {"aborted"}
  <2>1. coord[t] \notin Decided
    BY <1>0 DEF CoordinatorInv
  <2>2. t <= active[Coordinator]
    BY <1>0 DEF CoordinatorInv
  <2> QED BY <2>1, <2>2, KnownStates
<1>2. /\ \A x \in Txns \ {t} : votes'[x] = votes[x] /\ coord'[x] = coord[x]
      /\ UNCHANGED <<router, preparedAt, committedAt, aborted>>
  BY <1>0 DEF RecvVoteCommit, TypeOK, participant
<1>3. coord[t] \notin Decided
  BY <1>1 DEF Voting, Decided
<1>4. CASE coord'[t] \notin Decided
  <2>1. coord'[t] = "aborted" <=> coord[t] = "aborted"
    <3>1. CASE AllVotedCommit(t, s)
      <4>1. CASE coord[t] = "waitingForVotes"
        <5>1. coord' = [coord EXCEPT ![t] = StateAfter(t, "finalVoteCommit")]
          BY <3>1 DEF RecvVoteCommit
        <5>2. coord'[t] = "waitingForCommitAcks"
          BY <1>0, <4>1, <5>1, AfterFinalVote DEF TypeOK
        <5> QED BY <1>4, <5>2 DEF Decided
      <4>2. CASE coord[t] = "waitingForParticipantList"
        BY <1>0, <3>1, <4>2 DEF CoordinatorInv, AllVotedCommit
      <4>3. CASE coord[t] = "aborted"
        <5>1. Rows(t, "finalVoteCommit") = {}
          BY <4>3 DEF Rows, TransitionTable
        <5>2. coord' = [coord EXCEPT ![t] = StateAfter(t, "finalVoteCommit")]
          BY <3>1 DEF RecvVoteCommit
        <5>3. coord'[t] = "broken"
          BY <1>0, <5>1, <5>2 DEF StateAfter, TypeOK
        <5> QED BY <1>0, <5>3 DEF CoordinatorInv
      <4> QED BY <1>1, <4>1, <4>2, <4>3 DEF Voting
    <3>2. CASE ~AllVotedCommit(t, s)
      <4>1. coord' = [coord EXCEPT ![t] = StateAfter(t, "voteCommit")]
        BY <3>2 DEF RecvVoteCommit
      <4> QED BY <1>0, <1>1, <4>1, AfterVote DEF TypeOK
    <3> QED BY <3>1, <3>2
  <2> QED BY <1>2, <1>3, <1>4, <2>1, QuietStep
<1>5. CASE coord'[t] \in Decided
  <2>1. \A y \in Shards : preparedAt[t][y] > 0 /\ votes'[t][y] = preparedAt[t][y]
    BY <1>0, <1>2, <1>5 DEF CoordinatorInv, VoteInv
  <2>2. ~CannotCommit(t)
    BY <1>0, <2>1 DEF CannotCommit, ValueTypes
  <2>3. aborted[t] = {} /\ coord[t] # "aborted" /\ router[t] # "aborted"
    <3>1. \A y \in Shards : y \notin aborted[t]
      BY <1>0, <2>1, <2>2 DEF AbortInv, ValueTypes
    <3> QED BY <1>0, <2>2, <3>1 DEF AbortInv
  <2>4. Decision(t) = "open"
    BY <1>3, <2>3 DEF Decision, Decided
  <2>5. Decision(t)' = "commit"
    BY <1>5 DEF Decision, Decided
  <2>6. \A y \in Shards : committedAt[t][y] = 0
    BY <1>0, <1>3 DEF CommitInv, ValueTypes
  <2>7. \A y \in Shards : Ending(t, y) = "open"
    BY <2>3, <2>6 DEF Ending
  <2>8. CommitTime(t)' = Max({preparedAt[t][y] : y \in Shards})
    <3>1. {votes'[t][y] : y \in Shards} = {preparedAt[t][y] : y \in Shards}
      BY <2>1
    <3>2. GetCommitTimestamp(t)' = Max({votes'[t][y] : y \in Shards})
      BY DEF GetCommitTimestamp, Max
    <3>3. CommitTime(t)' = GetCommitTimestamp(t)'
      BY <2>5 DEF CommitTime
    <3> QED BY <3>1, <3>2, <3>3
  <2>9. \A x \in Txns \ {t} : Decision(x)' = Decision(x) /\ CommitTime(x)' = CommitTime(x)
    <3> TAKE x \in Txns \ {t}
    <3> QED BY <1>2, SameDecision
  <2>10. \A x \in Txns : Told(x)' = Told(x)
    <3> TAKE x \in Txns
    <3> QED BY <1>2, SameTold
  <2>11. \A x \in Txns, y \in Shards : Ending(x, y)' = Ending(x, y)
    <3> TAKE x \in Txns, y \in Shards
    <3> QED BY <1>2, <1>3, SameEnding
  <2> QED BY <1>2, <2>1, <2>4, <2>5, <2>7, <2>8, <2>9, <2>10, <2>11, MapsToDecideCommit
<1> QED BY <1>4, <1>5

\* Every message that is received is a step of the promise, or none.
LEMMA ReceiveMaps ==
    ASSUME CommitProtocolInv, CommitProtocolInv', NEW m \in msgs,
           \/ ReceivePrepare(m) \/ ReceiveCommit(m) \/ ReceiveAbort(m)
           \/ ReceiveVoteCommit(m) \/ ReceiveCoordinateCommit(m) \/ ReceiveAck(m)
    PROVE  Promise!Next \/ UNCHANGED Promise!vars
<1> DEFINE s == m.shard
           t == m.txn
<1>0. /\ TypeOK /\ ShardInv /\ RequestInv /\ VoteInv /\ CoordinatorInv /\ CommitInv /\ AbortInv
      /\ TypeOK' /\ CoordinatorInv' /\ CommitInv'
      /\ ValueTypes /\ t \in Txns /\ s \in Shards
      /\ preparedAt[t][s] \in Nat /\ committedAt[t][s] \in Nat
  BY ValuesTyped DEF CommitProtocolInv, ValueTypes
<1>1. CASE ReceivePrepare(m)
  <2>1. CASE UNCHANGED participant
    <3>1. UNCHANGED <<preparedAt, committedAt, aborted, coord, votes, router>>
      BY <1>1, <2>1 DEF ReceivePrepare, participant, coordinator
    <3> QED BY <3>1, QuietStep
  <2>2. CASE active[s] = t /\ txnState[s] = "inProgress" /\ Prepare(s, t)
    <3>1. preparedAt[t][s] = 0 /\ UNCHANGED <<router, coordinator>>
      BY <1>0, <1>1, <2>2 DEF ShardInv, ReceivePrepare
    <3> HIDE DEF s, t
    <3> QED BY <1>0, <2>2, <3>1, PrepareMaps
  <2> QED BY <1>1, <2>1, <2>2 DEF ReceivePrepare, participant
<1>2. CASE ReceiveCommit(m)
  <2>0. UNCHANGED <<router, preparedAt, aborted, coord, votes>>
    BY <1>2 DEF ReceiveCommit, Fail, participant, coordinator
  <2>1. CASE UNCHANGED committedAt
    BY <2>0, <2>1, QuietStep
  <2>2. CASE /\ active[s] = t /\ txnState[s] = "prepared"
             /\ committedAt' = [committedAt EXCEPT ![t][s] = m.ts]
    <3>1. /\ m.type = "commit" /\ coord[t] \in Decided /\ m.ts = GetCommitTimestamp(t)
      BY <1>0, <1>2 DEF CommitInv, ReceiveCommit
    <3>2. GetCommitTimestamp(t)' = GetCommitTimestamp(t) /\ m.ts > 0
      <4>1. votes[t][s] > 0
        BY <1>0, <3>1 DEF CoordinatorInv
      <4>2. votes[t][s] <= GetCommitTimestamp(t) /\ votes[t][s] \in Nat /\ m.ts \in Nat
        BY <1>0, CommitTimestampFacts DEF TypeOK, ValueTypes
      <4>3. GetCommitTimestamp(t)' = GetCommitTimestamp(t)
        BY <2>0, CommitTimeStable
      <4> HIDE DEF s, t
      <4> QED BY <3>1, <4>1, <4>2, <4>3
    <3>3. s \notin aborted[t] /\ committedAt[t][s] = 0
      BY <1>0, <2>2 DEF ShardInv
    <3> HIDE DEF s, t
    <3>4. \A x \in Txns, y \in Shards : committedAt'[x][y] =
                IF x = t /\ y = s THEN m.ts ELSE committedAt[x][y]
      BY <1>0, <2>2 DEF TypeOK
    <3>5. Decision(t) = "commit"
      BY <3>1 DEF Decision, Decided
    <3>6. Ending(t, s) = "open"
      BY <3>3 DEF Ending
    <3>7. Ending(t, s)' = "committed"
      <4>1. committedAt'[t][s] = m.ts /\ s \notin aborted'[t] /\ m.ts # 0
        BY <1>0, <2>0, <3>2, <3>3, <3>4
      <4> QED BY <3>1, <3>2, <4>1 DEF Ending
    <3>8. \A x \in Txns, y \in Shards : x # t \/ y # s => Ending(x, y)' = Ending(x, y)
      <4> SUFFICES ASSUME NEW x \in Txns, NEW y \in Shards, x # t \/ y # s
                   PROVE  Ending(x, y)' = Ending(x, y)
        OBVIOUS
      <4>1. committedAt'[x][y] = committedAt[x][y]
        BY <3>4
      <4> QED BY <2>0, <4>1, SameEnding
    <3>9. \A x \in Txns : Decision(x)' = Decision(x) /\ CommitTime(x)' = CommitTime(x)
      <4> TAKE x \in Txns
      <4> QED BY <2>0, SameDecision
    <3>10. \A x \in Txns : Told(x)' = Told(x)
      <4> TAKE x \in Txns
      <4> QED BY <2>0, SameTold
    <3> QED BY <1>0, <2>0, <3>5, <3>6, <3>7, <3>8, <3>9, <3>10, MapsToCommit
  <2> QED BY <1>2, <2>1, <2>2 DEF ReceiveCommit, Fail, participant
<1>3. CASE ReceiveAbort(m)
  <2>1. CASE active[s] = t /\ txnState[s] \in {"inProgress", "prepared"}
    <3>1. AbortOnSession(s) /\ UNCHANGED <<router, coordinator>>
      BY <1>3, <2>1 DEF ReceiveAbort
    <3>2. preparedAt[t][Coordinator] = 0 /\ Coordinator \in Shards
      BY <1>0, <1>3 DEF AbortInv, CannotCommit, ReceiveAbort, ValueTypes
    <3> HIDE DEF s, t
    <3>3. coord[t] \notin Decided
      BY <1>0, <3>2, Undecided
    <3> QED BY <1>0, <2>1, <3>1, <3>3, AbortOnSessionMaps
  <2>2. CASE ~(active[s] = t /\ txnState[s] \in {"inProgress", "prepared"})
    <3>1. UNCHANGED <<preparedAt, committedAt, aborted, coord, votes, router>>
      BY <1>3, <2>2 DEF ReceiveAbort, participant, coordinator
    <3> QED BY <3>1, QuietStep
  <2> QED BY <2>1, <2>2
<1>4. CASE ReceiveVoteCommit(m)
  <2>1. CASE t \notin catalog
    <3>1. UNCHANGED <<preparedAt, committedAt, aborted, coord, votes, router>>
      BY <1>4, <2>1 DEF ReceiveVoteCommit, participant, coordinator
    <3> QED BY <3>1, QuietStep
  <2>2. CASE t \in catalog
    <3>1. m.ts = preparedAt[t][s] /\ votes[t][s] = 0
      BY <1>0, <1>4 DEF VoteInv, ReceiveVoteCommit
    <3>2. RecvVoteCommit(t, s, preparedAt[t][s]) /\ UNCHANGED <<router, participant>>
      BY <1>4, <2>2, <3>1 DEF ReceiveVoteCommit
    <3> HIDE DEF s, t
    <3> QED BY <1>0, <2>2, <3>1, <3>2, RecvVoteMaps
  <2> QED BY <2>1, <2>2
<1>5. CASE ReceiveCoordinateCommit(m)
  <2>1. UNCHANGED <<preparedAt, committedAt, aborted, votes, router>>
    BY <1>5 DEF ReceiveCoordinateCommit, participant, coordinator
  <2>2. CASE UNCHANGED coord
    BY <2>1, <2>2, QuietStep
  <2>3. CASE t \in catalog /\ coord' = [coord EXCEPT ![t] = StateAfter(t, "participantList")]
    <3>1. coord[t] \in Voting \union Decided \union {"aborted"}
      <4>1. t <= active[Coordinator]
        BY <1>0, <2>3 DEF CoordinatorInv
      <4> HIDE DEF t
      <4> QED BY <1>0, <4>1, KnownStates
    <3> HIDE DEF t
    <3>2. /\ \A x \in Txns \ {t} : coord'[x] = coord[x]
          /\ coord'[t] = IF coord[t] = "waitingForParticipantList" THEN "waitingForVotes"
                         ELSE coord[t]
      BY <1>0, <2>3, <3>1, AfterList DEF TypeOK
    <3>3. \A x \in Txns : /\ coord'[x] \in Decided <=> coord[x] \in Decided
                          /\ coord'[x] = "aborted" <=> coord[x] = "aborted"
      BY <3>2 DEF Decided
    <3> QED BY <2>1, <3>3, QuietStep
  <2> QED BY <1>5, <2>2, <2>3 DEF ReceiveCoordinateCommit, coordinator
<1>6. CASE ReceiveAck(m)
  <2>1. UNCHANGED <<preparedAt, committedAt, aborted, votes, router>>
    BY <1>6 DEF ReceiveAck, participant
  <2>2. committedAt[t][s] > 0
    BY <1>0, <1>6 DEF CommitInv, ReceiveAck
  <2>3. \A x \in Txns \ {t} : coord'[x] = coord[x]
    BY <1>0, <1>6 DEF ReceiveAck, TypeOK
  <2> HIDE DEF s, t
  <2>4. coord[t] \in Decided /\ coord'[t] \in Decided
    BY <1>0, <2>1, <2>2 DEF CommitInv
  <2>5. \A x \in Txns : /\ coord'[x] \in Decided <=> coord[x] \in Decided
                        /\ coord'[x] = "aborted" <=> coord[x] = "aborted"
    BY <2>3, <2>4 DEF Decided
  <2> QED BY <2>1, <2>5, QuietStep
<1> QED BY <1>1, <1>2, <1>3, <1>4, <1>5, <1>6

\* So is every step of the coordinator's threads.
LEMMA CoordinateMaps ==
    ASSUME CommitProtocolInv, CommitProtocolInv', Coordinate
    PROVE  Promise!Next \/ UNCHANGED Promise!vars
<1>0. /\ TypeOK /\ ShardInv /\ RequestInv /\ CoordinatorInv /\ AbortInv /\ VoteInv
      /\ ValueTypes /\ Coordinator \in Shards /\ failed' = "none"
  BY ValuesTyped DEF CommitProtocolInv, ValueTypes
<1>1. ASSUME NEW d \in doing, DoCoordinatorAction(d)
      PROVE  UNCHANGED Promise!vars
  <2>1. UNCHANGED <<preparedAt, committedAt, aborted, coord, votes, router>>
    BY <1>1 DEF DoCoordinatorAction, participant
  <2> QED BY <2>1, QuietStep
<1>2. ASSUME NEW t \in Txns, PrepareLocally(t)
      PROVE  Promise!Next \/ UNCHANGED Promise!vars
  <2>1. CASE active[Coordinator] = t /\ txnState[Coordinator] \notin Terminal
    <3>1. txnState[Coordinator] # "prepared"
      BY <1>0, <1>2, <2>1 DEF PrepareLocally, Fail, Terminal
    <3>2. txnState[Coordinator] = "inProgress" /\ preparedAt[t][Coordinator] = 0
      BY <1>0, <2>1, <3>1 DEF ShardInv, TypeOK, Terminal
    <3>3. Prepare(Coordinator, t) /\ UNCHANGED <<router, coordinator>>
      BY <1>2, <2>1, <3>1 DEF PrepareLocally
    <3> QED BY <1>0, <2>1, <3>2, <3>3, PrepareMaps
  <2>2. CASE active[Coordinator] # t \/ txnState[Coordinator] \in Terminal
    <3>1. UNCHANGED <<preparedAt, committedAt, aborted, coord, votes, router>>
      BY <1>2, <2>2 DEF PrepareLocally, participant, coordinator
    <3> QED BY <3>1, QuietStep
  <2> QED BY <2>1, <2>2
<1>3. ASSUME NEW t \in Txns, VoteLocally(t)
      PROVE  Promise!Next \/ UNCHANGED Promise!vars
  <2>1. CASE t \notin catalog
    <3>1. UNCHANGED <<preparedAt, committedAt, aborted, coord, votes, router>>
      BY <1>3, <2>1 DEF VoteLocally, participant, coordinator
    <3> QED BY <3>1, QuietStep
  <2>2. CASE t \in catalog
    <3>1. /\ votes[t][Coordinator] = 0 /\ UNCHANGED <<router, participant>>
          /\ RecvVoteCommit(t, Coordinator, preparedAt[t][Coordinator])
      BY <1>0, <1>3, <2>2 DEF RequestInv, VoteLocally
    <3> QED BY <1>0, <2>2, <3>1, RecvVoteMaps
  <2> QED BY <2>1, <2>2
<1>4. ASSUME NEW t \in Txns, AnswerDecision(t)
      PROVE  UNCHANGED Promise!vars
  <2>1. UNCHANGED <<preparedAt, committedAt, aborted, coord, votes, router>>
    BY <1>4 DEF AnswerDecision, participant, coordinator
  <2> QED BY <2>1, QuietStep
<1> QED BY <1>1, <1>2, <1>3, <1>4 DEF Coordinate

\* The router tells the client of an abort that is decided, and of a commit that every
\* shard has carried out.
LEMMA RouteMaps ==
    ASSUME NoOtherFault, CommitProtocolInv, CommitProtocolInv', NEW t \in Txns,
           RouterCommits(t) \/ RouterAborts(t) \/ RouterAnswers(t)
    PROVE  Promise!Next \/ UNCHANGED Promise!vars
<1>0. /\ TypeOK /\ RequestInv /\ CoordinatorInv /\ CommitInv /\ AbortInv /\ VoteInv
      /\ AbortInv' /\ ValueTypes /\ Coordinator \in Shards
  BY ValuesTyped DEF CommitProtocolInv, ValueTypes
<1>1. UNCHANGED <<preparedAt, committedAt, aborted, coord, votes, acks>>
  BY DEF RouterCommits, RouterAborts, RouterAnswers, participant, coordinator
<1>2. CASE RouterCommits(t)
  <2>1. router[t] \in {"active", "committing"}
    BY <1>2 DEF RouterCommits, MayCommit
  <2>2. \A x \in Txns : router'[x] = IF x = t THEN "committing" ELSE router[x]
    BY <1>0, <1>2 DEF RouterCommits, TypeOK
  <2> QED BY <1>1, <2>1, <2>2, QuietStep
<1>3. CASE RouterAborts(t)
  <2>1. router[t] \in {"active", "committing"}
    BY <1>3 DEF RouterAborts, MayAbort
  <2>2. \A x \in Txns : router'[x] = IF x = t THEN "aborted" ELSE router[x]
    BY <1>0, <1>3 DEF RouterAborts, TypeOK
  <2>3. preparedAt[t][Coordinator] = 0
    BY <1>0, <1>1, <2>2 DEF AbortInv, CannotCommit
  <2>4. coord[t] \notin Decided
    BY <1>0, <2>3, Undecided
  <2>5. Decision(t) # "commit" /\ Decision(t)' = "abort"
    BY <1>1, <2>2, <2>4 DEF Decision, Decided
  <2>6. CommitTime(t)' = CommitTime(t)
    BY <2>5 DEF CommitTime
  <2>7. \A x \in Txns \ {t} : Decision(x)' = Decision(x) /\ CommitTime(x)' = CommitTime(x)
    <3> TAKE x \in Txns \ {t}
    <3> QED BY <1>1, <2>2, SameDecision
  <2>8. \A x \in Txns \ {t} : Told(x)' = Told(x)
    <3> TAKE x \in Txns \ {t}
    <3> QED BY <2>2, SameTold
  <2>9. Told(t)' = "aborted"
    BY <2>2 DEF Told
  <2>10. \A x \in Txns, y \in Shards : Ending(x, y)' = Ending(x, y)
    <3> TAKE x \in Txns, y \in Shards
    <3> QED BY <1>1, SameEnding
  <2> QED BY <1>0, <1>1, <2>5, <2>6, <2>7, <2>8, <2>9, <2>10, MapsToAbort
<1>4. CASE RouterAnswers(t)
  <2>1. \A x \in Txns : router'[x] = IF x = t THEN "committed" ELSE router[x]
    BY <1>0, <1>4 DEF RouterAnswers, TypeOK
  <2>2. Told(t) = "none" /\ Told(t)' = "committed"
    BY <1>4, <2>1 DEF RouterAnswers, Told
  <2>3. coord[t] = "committed"
    <3> DEFINE yes == Answer(t, TRUE)
    <3>1. yes.type = "answer" /\ yes.txn = t /\ yes.ts = 1
      BY MessageFields DEF Answer
    <3>2. yes \in msgs
      BY <1>4 DEF RouterAnswers
    <3> HIDE DEF yes
    <3>3. yes.ts > 0
      BY <3>1
    <3> QED BY <1>0, <3>1, <3>2, <3>3 DEF CommitInv
  <2>4. \A y \in Shards : committedAt[t][y] > 0 /\ committedAt[t][y] = GetCommitTimestamp(t)
    BY <1>0, <2>3 DEF CoordinatorInv, CommitInv
  <2>5. \A y \in Shards : preparedAt[t][y] > 0 /\ y \notin aborted[t]
    <3>1. \A y \in Shards : preparedAt[t][y] > 0
      BY <1>0, <2>3 DEF CoordinatorInv, VoteInv, Decided
    <3> QED BY <1>0, <3>1 DEF AbortInv, CannotCommit, ValueTypes
  <2>6. \A y \in Shards : Ending(t, y) = "committed"
    BY <1>0, <2>4, <2>5 DEF Ending, ValueTypes
  <2>7. \A x \in Txns : Decision(x)' = Decision(x) /\ CommitTime(x)' = CommitTime(x)
    <3> TAKE x \in Txns
    <3>1. router'[x] = "aborted" <=> router[x] = "aborted"
      BY <1>4, <2>1 DEF RouterAnswers
    <3> QED BY <1>1, <3>1, SameDecision
  <2>8. \A x \in Txns \ {t} : Told(x)' = Told(x)
    <3> TAKE x \in Txns \ {t}
    <3> QED BY <2>1, SameTold
  <2>9. \A x \in Txns, y \in Shards : Ending(x, y)' = Ending(x, y)
    <3> TAKE x \in Txns, y \in Shards
    <3> QED BY <1>1, SameEnding
  <2> QED BY <1>1, <2>2, <2>6, <2>7, <2>8, <2>9, MapsToAnswer
<1> QED BY <1>2, <1>3, <1>4

\* The session's next transaction aborts the one before it, unless that is prepared.
LEMMA BeginMaps ==
    ASSUME CommitProtocolInv, CommitProtocolInv', NEW s \in Shards, NEW t \in Txns,
           BeginTransaction(s, t)
    PROVE  Promise!Next \/ UNCHANGED Promise!vars
<1>0. /\ TypeOK /\ ShardInv /\ RequestInv /\ CoordinatorInv /\ CommitInv /\ AbortInv
      /\ TypeOK' /\ ValueTypes
  BY ValuesTyped DEF CommitProtocolInv
<1>1. /\ txnState[s] # "prepared" /\ router[t] \in {"idle", "active"} /\ active[s] < t
      /\ UNCHANGED <<preparedAt, committedAt>>
  BY DEF BeginTransaction, NumberMayChange
<1>2. \A x \in Txns : router'[x] = IF x = t THEN "active" ELSE router[x]
  BY <1>0 DEF BeginTransaction, TypeOK
<1>3. /\ \A x \in Txns, y \in Shards :
            y \in aborted'[x] <=>
                y \in aborted[x] \/ (x = active[s] /\ txnState[s] = "inProgress" /\ y = s)
      /\ txnState[s] # "inProgress" \/ active[s] \notin Txns => aborted' = aborted
  <2>1. aborted' = [x \in Txns |-> IF x = active[s] /\ txnState[s] = "inProgress"
                                   THEN aborted[x] \union {s} ELSE aborted[x]]
    BY DEF BeginTransaction
  <2>2. aborted \in [Txns -> SUBSET Shards]
    BY <1>0 DEF TypeOK
  <2>3. ASSUME txnState[s] # "inProgress" \/ active[s] \notin Txns
        PROVE  aborted' = aborted
    <3>1. \A x \in Txns : aborted'[x] = aborted[x]
      BY <2>1, <2>3
    <3>2. aborted' = [x \in Txns |-> aborted'[x]] /\ aborted = [x \in Txns |-> aborted[x]]
      BY <2>1, <2>2
    <3> QED BY <3>1, <3>2
  <2> QED BY <2>1, <2>3
<1>4. \A x \in Txns : aborted[x] \subseteq Shards /\ aborted'[x] \subseteq Shards
  BY <1>0 DEF TypeOK
<1>5. /\ votes' = votes
      /\ \A x \in Txns :
            \/ coord'[x] = coord[x]
            \/ x = t /\ coord[x] = "none" /\ coord'[x] = "waitingForParticipantList"
            \/ x = active[s] /\ s = Coordinator /\ coord[x] \in Voting /\ coord'[x] = "aborted"
  <2>1. CASE s # Coordinator
    BY <2>1 DEF BeginTransaction, coordinator
  <2>2. CASE s = Coordinator
    <3>1. router[t] = "idle"
      BY <2>2 DEF BeginTransaction
    <3>2. coord[t] = "none"
      BY <1>0, <1>1, <2>2 DEF CoordinatorInv, ValueTypes
    <3>3. /\ \A x \in Txns : coord'[x] =
                IF x = t THEN "waitingForParticipantList"
                ELSE IF coord[x] \in Voting THEN "aborted" ELSE coord[x]
          /\ votes' = votes
      BY <2>2, CreateCoordinatorFacts
    <3>4. \A x \in Txns : coord[x] \in Voting => x = active[s]
      BY <1>0, <2>2 DEF CoordinatorInv
    <3> QED BY <2>2, <3>2, <3>3, <3>4
  <2> QED BY <2>1, <2>2
<1>6. CASE txnState[s] = "inProgress" /\ active[s] \in Txns
  <2> DEFINE x == active[s]
  <2>1. preparedAt[x][s] = 0
    BY <1>0, <1>6 DEF ShardInv
  <2>2. coord[x] \notin Decided
    BY <1>6, <2>1, Undecided
  <2>3. coord'[x] \notin Decided
    BY <1>5, <1>6, <2>2 DEF Decided
  <2>4. \A y \in Txns \ {x} : /\ coord'[y] \in Decided <=> coord[y] \in Decided
                              /\ coord'[y] = "aborted" <=> coord[y] = "aborted"
    BY <1>5 DEF Decided
  <2>5. \A y \in Txns, z \in Shards :
            z \in aborted'[y] <=> z \in aborted[y] \/ (y = x /\ z = s)
    BY <1>3, <1>6
  <2> QED BY <1>1, <1>2, <1>4, <1>5, <1>6, <2>2, <2>3, <2>4, <2>5, ShardAbortMaps
<1>7. CASE ~(txnState[s] = "inProgress" /\ active[s] \in Txns)
  <2>1. aborted' = aborted
    BY <1>3, <1>7
  <2>2. \A x \in Txns : Told(x)' = Told(x)
    <3> TAKE x \in Txns
    <3> QED BY <1>1, <1>2, SameTold
  <2>3. \A x \in Txns, y \in Shards : Ending(x, y)' = Ending(x, y)
    <3> TAKE x \in Txns, y \in Shards
    <3> QED BY <1>1, <1>5, <2>1, SameEnding
  <2>4. ASSUME NEW x \in Txns
        PROVE  Decision(x)' = Decision(x) /\ CommitTime(x)' = CommitTime(x)
    <3>1. router'[x] = "aborted" <=> router[x] = "aborted"
      BY <1>1, <1>2
    <3>2. CASE \/ coord'[x] = coord[x]
               \/ coord[x] = "none" /\ coord'[x] = "waitingForParticipantList"
      <4>1. /\ coord'[x] \in Decided <=> coord[x] \in Decided
            /\ coord'[x] = "aborted" <=> coord[x] = "aborted"
        BY <3>2 DEF Decided
      <4> QED BY <1>5, <2>1, <3>1, <4>1, SameDecision
    <3>3. CASE x = active[s] /\ s = Coordinator /\ coord[x] \in Voting /\ coord'[x] = "aborted"
      <4>1. coord[x] \notin Decided /\ coord'[x] \notin Decided
        BY <3>3 DEF Voting, Decided
      <4>2. ~(committedAt[x][s] > 0)
        BY <1>0, <4>1 DEF CommitInv
      <4>3. s \in aborted[x]
        BY <1>0, <1>1, <1>7, <3>3, <4>2 DEF ShardInv, TypeOK
      <4>4. Decision(x) = "abort" /\ Decision(x)' = "abort"
        BY <2>1, <4>1, <4>3 DEF Decision, Decided
      <4> QED BY <4>4 DEF CommitTime
    <3> QED BY <1>5, <3>2, <3>3
  <2> QED BY <1>1, <2>2, <2>3, <2>4, MapsToStutter
<1> QED BY <1>6, <1>7

\* A transaction whose time on a shard runs out is aborted there, or was none.
LEMMA ExpireMaps ==
    ASSUME CommitProtocolInv, CommitProtocolInv', NEW s \in Shards, Expire(s)
    PROVE  Promise!Next \/ UNCHANGED Promise!vars
<1>1. active[s] \in Txns => preparedAt[active[s]][s] = 0
  BY DEF CommitProtocolInv, ShardInv, Expire, Expirable
<1>2. active[s] \in Txns => coord[active[s]] \notin Decided
  BY <1>1, Undecided
<1>3. TypeOK' /\ AbortOnSession(s) /\ txnState[s] = "inProgress"
      /\ UNCHANGED <<router, coordinator>>
  BY DEF CommitProtocolInv, Expire, Expirable
<1> QED BY <1>2, <1>3, AbortOnSessionMaps

\* Router, coordinator and participants together keep the promise of AtomicCommit: one
\* decision, with the consent of every shard if it is to commit, carried out at one
\* timestamp, and the client told the truth.
THEOREM TransactionsKeepPromise ==
    ASSUME NoOtherFault
    PROVE  Spec => ImplementsAtomicCommit
<1>1. CommitProtocolInv /\ CommitProtocolInv' /\ [Next]_vars => [Promise!Next]_(Promise!vars)
  <2> SUFFICES ASSUME CommitProtocolInv, CommitProtocolInv', [Next]_vars
               PROVE  Promise!Next \/ UNCHANGED Promise!vars
    OBVIOUS
  <2>1. CASE UNCHANGED vars
    <3>1. UNCHANGED <<preparedAt, committedAt, aborted, coord, votes, router>>
      BY <2>1 DEF vars, participant, coordinator
    <3> QED BY <3>1, QuietStep
  <2>2. CASE Receive
    BY <2>2, ReceiveMaps DEF Receive
  <2>3. CASE Coordinate
    BY <2>3, CoordinateMaps
  <2>4. CASE Route
    BY <2>4, RouteMaps DEF Route
  <2>5. CASE \E s \in Shards : Expire(s)
    BY <2>5, ExpireMaps
  <2>6. CASE \E s \in Shards, t \in Txns : BeginTransaction(s, t)
    BY <2>6, BeginMaps
  <2> QED BY <2>1, <2>2, <2>3, <2>4, <2>5, <2>6 DEF Next
<1> QED BY <1>1, MapsInit, CommitProtocol, PTL DEF Spec, ImplementsAtomicCommit, Promise!Spec
=============================================================================
