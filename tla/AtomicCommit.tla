---------------------------- MODULE AtomicCommit ----------------------------
(***************************************************************************)
(* What the commit of a transaction over several shards promises, without  *)
(* the coordinator, the messages and the sessions of TransactionCommit.tla.*)
(* One decision is taken for a transaction.  To commit takes the consent   *)
(* of every shard, to abort takes one shard, the client or the             *)
(* coordinator.  A shard ends the transaction as decided, at the one       *)
(* commit timestamp, and the client is told what was decided.              *)
(***************************************************************************)
EXTENDS Integers, FiniteSetsExt

CONSTANTS Txns, Shards, Timestamps

VARIABLES
    decision,   \* per transaction: "open", "commit" or "abort"
    consent,    \* per transaction and shard: the prepare timestamp, or 0
    ending,     \* per transaction and shard: "open", "aborted" or "committed"
    commitTime, \* per transaction: the commit timestamp, 0 before the decision
    answer      \* per transaction: what the client is told, "none" before that

vars == <<decision, consent, ending, commitTime, answer>>

Init ==
    /\ decision = [t \in Txns |-> "open"]
    /\ consent = [t \in Txns |-> [s \in Shards |-> 0]]
    /\ ending = [t \in Txns |-> [s \in Shards |-> "open"]]
    /\ commitTime = [t \in Txns |-> 0]
    /\ answer = [t \in Txns |-> "none"]

\* A shard consents to commit as long as it has not ended the transaction.
Consent(t, s) ==
    /\ consent[t][s] = 0 /\ ending[t][s] = "open" /\ decision[t] # "commit"
    /\ \E ts \in Timestamps \ {0} : consent' = [consent EXCEPT ![t][s] = ts]
    /\ UNCHANGED <<decision, ending, commitTime, answer>>

\* Every shard has consented: the commit timestamp is the latest consent.
DecideCommit(t) ==
    /\ decision[t] = "open"
    /\ \A s \in Shards : consent[t][s] > 0 /\ ending[t][s] = "open"
    /\ decision' = [decision EXCEPT ![t] = "commit"]
    /\ commitTime' = [commitTime EXCEPT ![t] = Max({consent[t][s] : s \in Shards})]
    /\ UNCHANGED <<consent, ending, answer>>

\* Abort is decided; a shard or the answer to the client may come with it.
Abort(t) ==
    /\ decision[t] # "commit"
    /\ decision' = [decision EXCEPT ![t] = "abort"]
    /\ ending' \in {ending} \union
            {[ending EXCEPT ![t][s] = "aborted"] : s \in {x \in Shards :
                                                     ending[t][x] = "open"}}
    /\ answer' \in {answer, [answer EXCEPT ![t] = "aborted"]}
    /\ UNCHANGED <<consent, commitTime>>

\* A shard commits as decided.
Commit(t, s) ==
    /\ decision[t] = "commit" /\ ending[t][s] = "open"
    /\ ending' = [ending EXCEPT ![t][s] = "committed"]
    /\ UNCHANGED <<decision, consent, commitTime, answer>>

\* The client is told of a commit when every shard has committed.
AnswerCommitted(t) ==
    /\ answer[t] = "none" /\ \A s \in Shards : ending[t][s] = "committed"
    /\ answer' = [answer EXCEPT ![t] = "committed"]
    /\ UNCHANGED <<decision, consent, ending, commitTime>>

Next ==
    \E t \in Txns :
        \/ DecideCommit(t)
        \/ Abort(t)
        \/ AnswerCommitted(t)
        \/ \E s \in Shards : Consent(t, s) \/ Commit(t, s)

Spec == Init /\ [][Next]_vars
=============================================================================
