------------------------------ MODULE Election ------------------------------
(***************************************************************************)
(* Elections of a replica set (protocol version 1): terms, dry runs, real  *)
(* elections, votes and their durable record, unconditional step-down and  *)
(* process restarts, for a fixed configuration of data-bearing voters.     *)
(*                                                                         *)
(* Each action is what one thread does while it holds                      *)
(* ReplicationCoordinatorImpl::_mutex (or, for the last-vote document, the *)
(* database lock).  Everything between two actions of a handler is a       *)
(* window in which every other thread may run.                             *)
(*                                                                         *)
(* An optime is abstracted to its term.  Two optimes of one term may still *)
(* differ in their timestamps, so a voter may find a candidate's optime of *)
(* the same term either fresh enough or staler than its own.               *)
(***************************************************************************)
EXTENDS Integers, FiniteSets

CONSTANTS
    Node,               \* the voting, data-bearing, electable members
    StartElectionReason,\* the reasons for which nodes stand for election here
    MaxTerm,            \* bound on terms: no election is started beyond it
    MaxElections,       \* bound on the number of candidacies
    MaxRestarts         \* bound on the number of process restarts

ASSUME NodeAssumption == IsFiniteSet(Node) /\ Node # {}
ASSUME ReasonAssumption ==
    StartElectionReason \subseteq {"kElectionTimeout", "kStepUpRequestSkipDryRun"}
ASSUME BoundAssumption == {MaxTerm, MaxElections, MaxRestarts} \subseteq Nat

Nobody == "nobody"      \* LastVote's candidateIndex -1
ASSUME NobodyAssumption == Nobody \notin Node

VARIABLES
    term,           \* TopologyCoordinator::_term
    role,           \* TopologyCoordinator::_role
    steppingDown,   \* _leaderMode = kSteppingDown
    pendingTerm,    \* _pendingTermUpdateDuringStepDown, 0 when it is none
    lastVote,       \* TopologyCoordinator::_lastVote
    durableVote,    \* the document in local.replset.election
    lastApplied,    \* the term of the newest entry of the node's oplog
    loading,        \* config installed at startup, term not restored yet
    phase,          \* which callback of its own election the node waits for
    electTerm,      \* the term that this callback has captured
    tally,          \* VoteRequester::Algorithm: yes votes, _staleTerm
    reqs,           \* replSetRequestVotes calls, from sending to response
    clusterTerm,    \* the highest term any message may carry
    elections,      \* how many candidacies there were
    restarts,       \* how many restarts there were
    \* History, read by no action of the system.
    grants,         \* votes a voter recorded durably for a candidate
    elected,        \* successful vote counts
    leaders,        \* transitions to Role::kLeader, with their election id
    voteRegressed   \* some vote was granted below the voter's last vote

coord == <<term, role, steppingDown, pendingTerm, lastVote, loading>>
disk == <<durableVote, lastApplied>>
candidacy == <<phase, electTerm, tally>>
history == <<grants, elected, leaders, voteRegressed>>
bounds == <<elections, restarts>>
vars == <<coord, disk, candidacy, reqs, clusterTerm, bounds, history>>

-----------------------------------------------------------------------------
Term == 0..MaxTerm
LastVote == [term : Term, cand : Node \cup {Nobody}]
Vote == [voter : Node, cand : Node, term : Term]
Tally == [yes : SUBSET Node, stale : BOOLEAN]
Request == [from : Node, to : Node, term : Term, dry : BOOLEAN, op : Term,
            stage : {"sent", "waiting", "termed", "storing"},
            live : BOOLEAN]     \* the sender still waits for the response

Max2(a, b) == IF a >= b THEN a ELSE b

\* ReplSetConfig::getMajorityVoteCount, all members voting.
IsMajority(S) == 2 * Cardinality(S) > Cardinality(Node)

NoTally == [yes |-> {}, stale |-> FALSE]

\* Mutant: the arguments carry a default-constructed optime, whose term is -1.
VoteRequestsDefaultOpTime(n, t, dryRun) ==
    {[from |-> n, to |-> m, term |-> t, dry |-> dryRun, op |-> -1,
      stage |-> "sent", live |-> TRUE]
        : m \in Node \ {n}}

\* The requests a VoteRequester of n sends.
VoteRequests(n, t, dryRun) ==
    {[from |-> n, to |-> m, term |-> t, dry |-> dryRun, op |-> lastApplied[n],
      stage |-> "sent", live |-> TRUE]
        : m \in Node \ {n}}

\* Mutant: the calls of a finished round keep their callbacks.
AbandonNothing(n, R) == R

\* What is left of the calls of n once nobody waits for their responses: a
\* real vote request may still reach its voter.  A dry run has no effect but
\* the term it carries, and that LearnTerm can deliver at any time.
Abandon(n, R) ==
    {r \in R : r.from # n}
      \cup {[r EXCEPT !.live = FALSE] : r \in {q \in R : q.from = n /\ ~q.dry}}

\* The calls that die with the process of n: those it is serving, and the
\* responses it waits for.
CrashRequests(n, R) ==
    {r \in Abandon(n, R) : r.to # n \/ r.stage = "sent"}

Init ==
    /\ term = [n \in Node |-> 0]
    /\ role = [n \in Node |-> "Follower"]
    /\ steppingDown = [n \in Node |-> FALSE]
    /\ pendingTerm = [n \in Node |-> 0]
    /\ lastVote = [n \in Node |-> [term |-> 0, cand |-> Nobody]]
    /\ durableVote = [n \in Node |-> [term |-> 0, cand |-> Nobody]]
    /\ lastApplied = [n \in Node |-> 0]
    /\ loading = [n \in Node |-> FALSE]
    /\ phase = [n \in Node |-> "none"]
    /\ electTerm = [n \in Node |-> 0]
    /\ tally = [n \in Node |-> NoTally]
    /\ reqs = {}
    /\ clusterTerm = 0
    /\ elections = 0 /\ restarts = 0
    /\ grants = {} /\ elected = {} /\ leaders = {}
    /\ voteRegressed = FALSE

-----------------------------------------------------------------------------
(* Terms. *)

\* Mutant: the pending term is remembered, the step-down is not started.
UpdateTermWithoutStepDown(n, t) ==
    \/ /\ t <= term[n]
       /\ UNCHANGED <<term, pendingTerm, steppingDown>>
    \/ /\ t > term[n]
       /\ role[n] # "Leader"
       /\ term' = [term EXCEPT ![n] = t]
       /\ UNCHANGED <<pendingTerm, steppingDown>>
    \/ /\ t > term[n]
       /\ role[n] = "Leader"
       /\ pendingTerm' = [pendingTerm EXCEPT ![n] = Max2(@, t)]
       /\ UNCHANGED <<term, steppingDown>>

\* TopologyCoordinator::updateTerm and _updateTerm_inlock.  A primary does not
\* adopt the term: it remembers it and starts stepping down.
UpdateTerm(n, t) ==
    \/ /\ t <= term[n]
       /\ UNCHANGED <<term, pendingTerm, steppingDown>>
    \/ /\ t > term[n]
       /\ role[n] # "Leader"
       /\ term' = [term EXCEPT ![n] = t]
       /\ UNCHANGED <<pendingTerm, steppingDown>>
    \/ /\ t > term[n]
       /\ role[n] = "Leader"
       /\ pendingTerm' = [pendingTerm EXCEPT ![n] = Max2(@, t)]
       /\ steppingDown' = [steppingDown EXCEPT ![n] = TRUE]
       /\ UNCHANGED term

\* updateTerm waits for the step-down only if this call has started it.
StartsStepDown(n, t) == t > term[n] /\ role[n] = "Leader" /\ ~steppingDown[n]

\* A heartbeat, or the metadata of any command or response, carries a term.
LearnTerm(n, t) ==
    /\ t \in (term[n] + 1)..clusterTerm
    /\ UpdateTerm(n, t)
    /\ UNCHANGED <<role, lastVote, loading, disk, candidacy, reqs, clusterTerm,
                   bounds, history>>

\* _stepDownFinish: give up the leader role, then adopt the pending term.  The
\* callers of updateTerm that waited for this go on.
StepDownFinish(n) ==
    /\ steppingDown[n]
    /\ role' = [role EXCEPT ![n] = "Follower"]
    /\ steppingDown' = [steppingDown EXCEPT ![n] = FALSE]
    /\ term' = [term EXCEPT ![n] = Max2(@, pendingTerm[n])]
    /\ pendingTerm' = [pendingTerm EXCEPT ![n] = 0]
    /\ reqs' = {IF r.to = n /\ r.stage = "waiting"
                THEN [r EXCEPT !.stage = "termed"] ELSE r : r \in reqs}
    /\ UNCHANGED <<lastVote, loading, disk, candidacy, clusterTerm, bounds,
                   history>>

\* attemptStepDown on behalf of a replSetStepDown command.
StepDownCommand(n) ==
    /\ role[n] = "Leader"
    /\ ~steppingDown[n]
    /\ role' = [role EXCEPT ![n] = "Follower"]
    /\ UNCHANGED <<term, steppingDown, pendingTerm, lastVote, loading, disk,
                   candidacy, reqs, clusterTerm, bounds, history>>

-----------------------------------------------------------------------------
(* A node's own election. *)

\* Mutant: the guard is dismissed, the candidate's role stays.
LoseElectionDismissed(n) ==
    /\ phase' = [phase EXCEPT ![n] = "none"]
    /\ electTerm' = [electTerm EXCEPT ![n] = 0]
    /\ tally' = [tally EXCEPT ![n] = NoTally]
    /\ reqs' = Abandon(n, reqs)
    /\ UNCHANGED role

\* LoseElectionGuardV1: the candidate becomes a follower again.
LoseElection(n) ==
    /\ role' = [role EXCEPT ![n] = "Follower"]
    /\ phase' = [phase EXCEPT ![n] = "none"]
    /\ electTerm' = [electTerm EXCEPT ![n] = 0]
    /\ tally' = [tally EXCEPT ![n] = NoTally]
    /\ reqs' = Abandon(n, reqs)

\* _startRealElection_inlock: adopt the new term, vote for oneself in memory
\* and schedule the write of that vote.
StartRealElection(n, newTerm) ==
    /\ newTerm <= MaxTerm
    /\ role' = [role EXCEPT ![n] = "Candidate"]
    /\ term' = [term EXCEPT ![n] = newTerm]
    /\ clusterTerm' = Max2(clusterTerm, newTerm)
    /\ lastVote' = [lastVote EXCEPT ![n] = [term |-> newTerm, cand |-> n]]
    /\ phase' = [phase EXCEPT ![n] = "lastVote"]
    /\ electTerm' = [electTerm EXCEPT ![n] = newTerm]
    /\ tally' = [tally EXCEPT ![n] = NoTally]
    /\ reqs' = Abandon(n, reqs)
    /\ UNCHANGED <<steppingDown, pendingTerm, loading>>

\* _startElectSelfIfEligibleV1 with a reason that asks for a dry run.
StartDryRun(n) ==
    /\ "kElectionTimeout" \in StartElectionReason
    /\ role[n] = "Follower" /\ ~loading[n]
    /\ term[n] < MaxTerm /\ elections < MaxElections
    /\ elections' = elections + 1
    /\ role' = [role EXCEPT ![n] = "Candidate"]
    /\ phase' = [phase EXCEPT ![n] = "dryRun"]
    /\ electTerm' = [electTerm EXCEPT ![n] = term[n]]
    /\ reqs' = reqs \cup VoteRequests(n, term[n], TRUE)
    /\ UNCHANGED <<term, steppingDown, pendingTerm, lastVote, loading, disk,
                   tally, clusterTerm, restarts, history>>

\* _startElectSelfIfEligibleV1 for an election handoff.
StartSkippingDryRun(n) ==
    /\ "kStepUpRequestSkipDryRun" \in StartElectionReason
    /\ role[n] = "Follower" /\ ~loading[n]
    /\ elections < MaxElections
    /\ elections' = elections + 1
    /\ StartRealElection(n, term[n] + 1)
    /\ UNCHANGED <<disk, restarts, history>>

\* VoteRequester::Algorithm::getResult = kSuccessfullyElected.
SuccessfullyElected(n) == ~tally[n].stale /\ IsMajority(tally[n].yes \cup {n})

\* _processDryRunResult.
ProcessDryRunResult(n) ==
    /\ phase[n] = "dryRun"
    /\ \/ /\ term[n] = electTerm[n]
          /\ SuccessfullyElected(n)
          /\ StartRealElection(n, electTerm[n] + 1)
       \/ /\ ~(term[n] = electTerm[n] /\ SuccessfullyElected(n))
          /\ LoseElection(n)
          /\ UNCHANGED <<term, steppingDown, pendingTerm, lastVote, loading,
                         clusterTerm>>
    /\ UNCHANGED <<disk, bounds, history>>

\* Mutant: the document is overwritten whatever it holds.
StoreLastVoteAlways(n, t, c) ==
    durableVote' = [durableVote EXCEPT ![n] = [term |-> t, cand |-> c]]

\* storeLocalLastVoteDocument: replace the document only by a later vote.
StoreLastVote(n, t, c) ==
    durableVote' = IF t > durableVote[n].term
                   THEN [durableVote EXCEPT ![n] = [term |-> t, cand |-> c]]
                   ELSE durableVote

\* _writeLastVoteForMyElection: store the own vote without _mutex, then, with
\* it, ask for votes unless superseded.  (Nothing reads the document between
\* the two but a restart, and a restart right after sending is the same.)
WriteLastVoteForMyElection(n) ==
    /\ phase[n] = "lastVote"
    /\ StoreLastVote(n, electTerm[n], n)
    /\ grants' = grants \cup {[voter |-> n, cand |-> n, term |-> electTerm[n]]}
    /\ \/ /\ term[n] = electTerm[n]
          /\ phase' = [phase EXCEPT ![n] = "voting"]
          /\ reqs' = reqs \cup VoteRequests(n, electTerm[n], FALSE)
          /\ UNCHANGED <<role, electTerm, tally>>
       \/ /\ term[n] # electTerm[n]
          /\ LoseElection(n)
    /\ UNCHANGED <<term, steppingDown, pendingTerm, lastVote, loading, lastApplied,
                   clusterTerm, bounds, elected, leaders, voteRegressed>>

\* The write of the own vote fails: the election is lost, the vote in memory stays.
LastVoteWriteFails(n) ==
    /\ phase[n] = "lastVote"
    /\ LoseElection(n)
    /\ UNCHANGED <<term, steppingDown, pendingTerm, lastVote, loading, disk,
                   clusterTerm, bounds, history>>

\* _onVoteRequestComplete up to its lk.unlock().
OnVoteRequestComplete(n) ==
    /\ phase[n] = "voting"
    /\ \/ /\ term[n] = electTerm[n]
          /\ SuccessfullyElected(n)
          /\ phase' = [phase EXCEPT ![n] = "won"]
          /\ reqs' = Abandon(n, reqs)
          /\ tally' = [tally EXCEPT ![n] = NoTally]
          /\ elected' = elected \cup {[node |-> n, term |-> electTerm[n]]}
          /\ UNCHANGED <<role, electTerm>>
       \/ /\ ~(term[n] = electTerm[n] /\ SuccessfullyElected(n))
          /\ LoseElection(n)
          /\ UNCHANGED elected
    /\ UNCHANGED <<term, steppingDown, pendingTerm, lastVote, loading, disk,
                   clusterTerm, bounds, grants, leaders, voteRegressed>>

\* kActionWinElection, under a new acquisition of _mutex: the election id is
\* made from the term the node has now.
WinElection(n) ==
    /\ phase[n] = "won"
    /\ role' = [role EXCEPT ![n] = "Leader"]
    /\ leaders' = leaders \cup {[node |-> n, electionId |-> term[n]]}
    /\ phase' = [phase EXCEPT ![n] = "none"]
    /\ electTerm' = [electTerm EXCEPT ![n] = 0]
    /\ UNCHANGED <<term, steppingDown, pendingTerm, lastVote, loading, disk,
                   tally, reqs, clusterTerm, bounds, grants, elected,
                   voteRegressed>>

-----------------------------------------------------------------------------
(* processReplSetRequestVotes at the voter. *)

\* updateTerm(args.getTerm()), which may start a step-down and wait for it.
ReceiveVoteRequest(r) ==
    /\ r.stage = "sent"
    /\ UpdateTerm(r.to, r.term)
    /\ reqs' = (reqs \ {r}) \cup
               {[r EXCEPT !.stage = IF StartsStepDown(r.to, r.term)
                                    THEN "waiting" ELSE "termed"]}
    /\ UNCHANGED <<role, lastVote, loading, disk, candidacy, clusterTerm,
                   bounds, history>>

\* Mutant: the last vote is not looked at.
MustDenyIgnoringLastVote(r) ==
    \/ r.term < term[r.to]
    \/ r.op < lastApplied[r.to]

\* The conditions under which TopologyCoordinator refuses for certain.
MustDeny(r) ==
    \/ r.term < term[r.to]
    \/ r.op < lastApplied[r.to]
    \/ ~r.dry /\ lastVote[r.to].term = r.term

\* The response of r: ScatterGatherRunner hands it to processResponse, or it
\* is lost, or nobody waits for it.  Only the tally, which is read when the
\* candidate's callback runs, depends on when it arrives.  (The response holds
\* the term at the decision, so one that grants is never of a newer term.)
Respond(r, granted) ==
    \/ /\ r.live
       /\ tally' = [tally EXCEPT ![r.from] =
                      [yes |-> IF granted THEN @.yes \cup {r.to} ELSE @.yes,
                       stale |-> @.stale \/ (~granted /\ term[r.to] > r.term)]]
    \/ UNCHANGED tally

\* ... the vote is denied: by one of the conditions, or because the candidate
\* is staler within the term of the voter's newest entry.
DenyVote(r) ==
    /\ r.stage = "termed"
    /\ MustDeny(r) \/ r.op = lastApplied[r.to]
    /\ Respond(r, FALSE)
    /\ reqs' = reqs \ {r}
    /\ UNCHANGED <<coord, disk, phase, electTerm, clusterTerm, bounds, history>>

\* ... a dry run's vote is granted.
GrantDryRunVote(r) ==
    /\ r.stage = "termed" /\ r.dry
    /\ ~MustDeny(r)
    /\ Respond(r, TRUE)
    /\ reqs' = reqs \ {r}
    /\ UNCHANGED <<coord, disk, phase, electTerm, clusterTerm, bounds, history>>

\* ... a real vote is granted in memory; it has yet to be stored.
GrantVote(r) ==
    /\ r.stage = "termed" /\ ~r.dry
    /\ ~MustDeny(r)
    /\ lastVote' = [lastVote EXCEPT ![r.to] = [term |-> r.term, cand |-> r.from]]
    /\ voteRegressed' = (voteRegressed \/ r.term < lastVote[r.to].term)
    /\ reqs' = (reqs \ {r}) \cup {[r EXCEPT !.stage = "storing"]}
    /\ UNCHANGED <<term, role, steppingDown, pendingTerm, loading, disk, candidacy,
                   clusterTerm, bounds, grants, elected, leaders>>

\* ... the vote is stored, then the response is sent.
StoreVote(r) ==
    /\ r.stage = "storing"
    /\ StoreLastVote(r.to, r.term, r.from)
    /\ grants' = grants \cup {[voter |-> r.to, cand |-> r.from, term |-> r.term]}
    /\ Respond(r, TRUE)
    /\ reqs' = reqs \ {r}
    /\ UNCHANGED <<coord, lastApplied, phase, electTerm, clusterTerm, bounds,
                   elected, leaders, voteRegressed>>

\* ... storing it fails: the response is an error, the vote in memory stays.
StoreVoteFails(r) ==
    /\ r.stage = "storing"
    /\ reqs' = reqs \ {r}
    /\ UNCHANGED <<coord, disk, candidacy, clusterTerm, bounds, history>>

-----------------------------------------------------------------------------
(* The oplog, as far as elections read it. *)

\* A primary writes an entry of its term.
PrimaryWrite(n) ==
    /\ role[n] = "Leader" /\ ~steppingDown[n]
    /\ lastApplied[n] # term[n]
    /\ lastApplied' = [lastApplied EXCEPT ![n] = term[n]]
    /\ UNCHANGED <<coord, durableVote, candidacy, reqs, clusterTerm, bounds,
                   history>>

\* A secondary applies the entries of a fresher node.
ApplyOps(n, source) ==
    /\ role[n] # "Leader"
    /\ lastApplied[source] > lastApplied[n]
    /\ lastApplied' = [lastApplied EXCEPT ![n] = lastApplied[source]]
    /\ UNCHANGED <<coord, durableVote, candidacy, reqs, clusterTerm, bounds,
                   history>>

-----------------------------------------------------------------------------
(* Restart: what a process keeps is its oplog and its last-vote document. *)

\* The process dies; the next one loads the last vote, then installs its
\* configuration, which resets the term.  It serves requests from here on.
Restart(n) ==
    /\ restarts < MaxRestarts
    /\ restarts' = restarts + 1
    /\ lastVote' = [lastVote EXCEPT ![n] = durableVote[n]]
    /\ term' = [term EXCEPT ![n] = 0]
    /\ loading' = [loading EXCEPT ![n] = TRUE]
    /\ role' = [role EXCEPT ![n] = "Follower"]
    /\ steppingDown' = [steppingDown EXCEPT ![n] = FALSE]
    /\ pendingTerm' = [pendingTerm EXCEPT ![n] = 0]
    /\ phase' = [phase EXCEPT ![n] = "none"]
    /\ electTerm' = [electTerm EXCEPT ![n] = 0]
    /\ tally' = [tally EXCEPT ![n] = NoTally]
    /\ reqs' = CrashRequests(n, reqs)
    /\ UNCHANGED <<disk, clusterTerm, elections, history>>

\* The end of _finishLoadLocalConfig: the term is restored.
RestoreTerm(n) ==
    /\ loading[n]
    /\ UpdateTerm(n, Max2(lastApplied[n], durableVote[n].term))
    /\ loading' = [loading EXCEPT ![n] = FALSE]
    /\ UNCHANGED <<role, lastVote, disk, candidacy, reqs, clusterTerm, bounds,
                   history>>

-----------------------------------------------------------------------------
Candidacy(n) ==
    \/ StartDryRun(n) \/ StartSkippingDryRun(n) \/ ProcessDryRunResult(n)
    \/ WriteLastVoteForMyElection(n) \/ LastVoteWriteFails(n)
    \/ OnVoteRequestComplete(n) \/ WinElection(n)

Serving(r) ==
    \/ ReceiveVoteRequest(r) \/ DenyVote(r) \/ GrantDryRunVote(r)
    \/ GrantVote(r) \/ StoreVote(r) \/ StoreVoteFails(r)

Next ==
    \/ \E n \in Node : Candidacy(n)
    \/ \E r \in reqs : Serving(r)
    \/ \E n \in Node, t \in Term : LearnTerm(n, t)
    \/ \E n \in Node : StepDownFinish(n) \/ StepDownCommand(n)
    \/ \E n \in Node : PrimaryWrite(n)
    \/ \E n, source \in Node : ApplyOps(n, source)
    \/ \E n \in Node : Restart(n) \/ RestoreTerm(n)

Spec == Init /\ [][Next]_vars

\* The executor runs the callbacks it was given: those of a node's election,
\* of the calls it serves, of its step-down and of its start.  (Calls that get
\* no response time out, so the callback that counts the votes is always due.)
FairSpec ==
    /\ Spec
    /\ \A n \in Node :
         /\ WF_vars(ProcessDryRunResult(n)) /\ WF_vars(WriteLastVoteForMyElection(n))
         /\ WF_vars(OnVoteRequestComplete(n)) /\ WF_vars(WinElection(n))
         /\ WF_vars(StepDownFinish(n)) /\ WF_vars(RestoreTerm(n))

-----------------------------------------------------------------------------
(* Properties. *)

\* Every variable has its type.
TypeOK ==
    /\ term \in [Node -> Term]
    /\ role \in [Node -> {"Follower", "Candidate", "Leader"}]
    /\ steppingDown \in [Node -> BOOLEAN]
    /\ pendingTerm \in [Node -> Term]
    /\ lastVote \in [Node -> LastVote]
    /\ durableVote \in [Node -> LastVote]
    /\ lastApplied \in [Node -> Term]
    /\ loading \in [Node -> BOOLEAN]
    /\ phase \in [Node -> {"none", "dryRun", "lastVote", "voting", "won"}]
    /\ electTerm \in [Node -> Term]
    /\ tally \in [Node -> Tally]
    /\ reqs \subseteq Request
    /\ clusterTerm \in Term
    /\ elections \in 0..MaxElections /\ restarts \in 0..MaxRestarts
    /\ grants \subseteq Vote
    /\ elected \subseteq [node : Node, term : Term]
    /\ leaders \subseteq [node : Node, electionId : Term]
    /\ voteRegressed \in BOOLEAN

\* A voter gives its vote of a term to one candidate only, over all its
\* restarts (processReplSetRequestVotes and the last-vote document).
OneVotePerTerm ==
    \A g, h \in grants : g.voter = h.voter /\ g.term = h.term => g.cand = h.cand

\* A voter can give two votes in one term only after it has granted a vote in
\* a term below that of its last vote, which the test lastVote.term =
\* args.term of processReplSetRequestVotes lets through.
OneVotePerTermUnlessRegressed == ~voteRegressed => OneVotePerTerm

\* No term has two candidates that counted a majority of votes, unless a vote
\* has regressed (_onVoteRequestComplete).
OneElectedPerTerm ==
    ~voteRegressed =>
        \A e, f \in elected : e.term = f.term => e.node = f.node

\* Two transitions to primary with one election id are of one node: the id is
\* unique to an election (kActionWinElection).
ElectionIdUnique ==
    \A k, l \in leaders : k.electionId = l.electionId => k.node = l.node

\* A vote that a voter has answered with yes survives in its last-vote
\* document, itself or as a later vote, whatever order concurrent writers of
\* the document take (storeLocalLastVoteDocument).
GrantedVotesDurable ==
    \A g \in grants : durableVote[g.voter].term >= g.term

\* A node never holds a last vote beyond its term, or, while it steps down,
\* beyond the term that it will adopt: so it cannot stand for election in a
\* term in which it has voted (updateTerm before the vote, _stepDownFinish).
LastVoteWithinTerm ==
    \A n \in Node :
        loading[n] \/ lastVote[n].term <= Max2(term[n], pendingTerm[n])

\* A candidate does not remain one for ever (LoseElectionGuardV1).
CandidacyEnds == \A n \in Node : role[n] = "Candidate" ~> role[n] # "Candidate"

\* A primary that has learned of a newer term is in that term eventually, or
\* restarts (_stepDownFinish and the pending term).
PendingTermAdopted ==
    \A n \in Node, t \in Term :
        pendingTerm[n] = t /\ t > 0 ~> term[n] >= t \/ loading[n]

-----------------------------------------------------------------------------
(* The strengthening that makes the safety properties inductive. *)

\* The votes given so far: those recorded, and those given in memory whose
\* record is still to be written by the same process.
CastVotes ==
    grants
      \cup {[voter |-> r.to, cand |-> r.from, term |-> r.term] :
               r \in {q \in reqs : q.stage = "storing"}}
      \cup {[voter |-> n, cand |-> n, term |-> electTerm[n]] :
               n \in {m \in Node : phase[m] = "lastVote"}}

\* How the pieces of a node's control state go together.
ControlInv ==
    \A n \in Node :
        /\ phase[n] = "none" <=> role[n] # "Candidate"
        /\ steppingDown[n] => role[n] = "Leader"
        /\ pendingTerm[n] > 0 => steppingDown[n]
        /\ loading[n] => role[n] = "Follower"
        /\ loading[n] => lastVote[n].term <= Max2(term[n], durableVote[n].term)

\* A call beyond updateTerm is for a term that its voter has, or will adopt; a
\* call whose response is awaited belongs to the election under way.
RequestInv ==
    \A r \in reqs :
        /\ r.stage = "waiting" => steppingDown[r.to]
        /\ r.stage # "sent" => r.term <= Max2(term[r.to], pendingTerm[r.to])
        /\ r.stage = "storing" => ~r.dry
        /\ r.live => /\ phase[r.from] = (IF r.dry THEN "dryRun" ELSE "voting")
                     /\ r.term = electTerm[r.from]

\* The votes counted in a real election are recorded votes of its term.
TallyInv ==
    \A n \in Node :
        /\ phase[n] = "lastVote" => tally[n] = NoTally
        /\ phase[n] = "voting" =>
             \A v \in tally[n].yes \cup {n} :
                 [voter |-> v, cand |-> n, term |-> electTerm[n]] \in grants

\* Votes without a regression: none is beyond the voter's last vote, and no two
\* of one voter and term differ.
VoteInv ==
    ~voteRegressed =>
        /\ \A g \in CastVotes : g.term <= lastVote[g.voter].term
        /\ \A g, h \in CastVotes :
             g.voter = h.voter /\ g.term = h.term => g.cand = h.cand

\* Who was elected has a majority of recorded votes.
ElectedInv ==
    \A e \in elected : \E Q \in SUBSET Node :
        /\ IsMajority(Q)
        /\ \A v \in Q : [voter |-> v, cand |-> e.node, term |-> e.term] \in grants

ElectionInv ==
    /\ TypeOK /\ ControlInv /\ RequestInv /\ LastVoteWithinTerm
    /\ GrantedVotesDurable /\ TallyInv /\ VoteInv /\ ElectedInv
=============================================================================
