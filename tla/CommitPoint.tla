------------------------------ MODULE CommitPoint ------------------------------
(***************************************************************************)
(* How a replica set decides that an oplog entry is committed: elections,  *)
(* members that pull entries from any member that is ahead, reports of     *)
(* positions that travel up a chain of sync sources together with the term *)
(* of their sender, the primary that takes the commit point from the       *)
(* positions it knows, and members that learn it from their sync source    *)
(* and roll back what others do not have.  An election is one step of the  *)
(* candidate and a majority of voters: Election models it vote by vote.    *)
(*                                                                         *)
(* An oplog is a sequence of terms; the optime of its last entry is a pair *)
(* of term and length.  "history" is no variable of the program: it is the *)
(* longest oplog that a primary has found committed.                       *)
(***************************************************************************)
EXTENDS Integers, Sequences, FiniteSetsExt, SequencesExt

CONSTANTS
    Nodes,          \* the voting members
    InitialLogs,    \* the oplogs with which the members may begin
    MaxTerm,        \* bound on terms
    MaxLog,         \* bound on the length of an oplog
    MaxEvents,      \* bound on the number of reports and of step downs without a newer term
    Faults          \* which of FaultKinds may happen

\* OffBranch: a member whose commit point is ahead of its own oplog fetches from a
\* source that does not have the entry at that point.  OldTerm: a primary that has caught
\* up with entries of a newer term, from a source that has not taken that term over yet,
\* writes in its own, older term.  Both take five members.
FaultKinds == {"OffBranch", "OldTerm"}

\* The terms of an oplog do not decrease.
Sorted(l) == \A i, j \in DOMAIN l : i <= j => l[i] <= l[j]

\* Up to an entry of one oplog in whose term the other one has that entry or a later one,
\* the two are the same.
Match(a, b) ==
    \A i \in DOMAIN a, j \in DOMAIN b :
        i <= j /\ a[i] = b[j] => \A x \in 1..i : a[x] = b[x]

ASSUME NodeAssumption == IsFiniteSet(Nodes) /\ Nodes # {}
ASSUME BoundAssumption ==
    MaxTerm \in Nat \ {0} /\ MaxLog \in Nat \ {0} /\ MaxEvents \in Nat
ASSUME LogAssumption ==
    /\ InitialLogs \subseteq [Nodes -> Seq(1..MaxTerm)]
    /\ \A logs \in InitialLogs : \A n \in Nodes :
        /\ Len(logs[n]) \in 1..MaxLog /\ logs[n][1] = 1
        /\ Sorted(logs[n]) /\ \A m \in Nodes : Match(logs[n], logs[m])
ASSUME FaultAssumption == Faults \subseteq FaultKinds

VARIABLES
    log,            \* per member: its oplog
    term,           \* per member: TopologyCoordinator::_term
    role,           \* per member: follower, or its leader mode
    pending,        \* per member: _pendingTermUpdateDuringStepDown, or 0
    known,          \* per member and other member: MemberData's optime
    commit,         \* per member: _lastCommittedOpTime
    events,         \* how many of these there have been
    report,         \* per member: its replSetUpdatePosition on the way, or NoReport
    history,        \* the entries that are committed
    failed          \* the invariant() that has failed, or "none"

election == <<term, role, pending>>
vars == <<log, election, known, commit, report, events, history, failed>>

-----------------------------------------------------------------------------
Null == <<0, 0>>
NoReport == [to |-> "none"]
Leq(a, b) == a[1] < b[1] \/ (a[1] = b[1] /\ a[2] <= b[2])
Greater(a, b) == IF Leq(a, b) THEN b ELSE a
OpTimeAt(l, i) == IF i = 0 THEN Null ELSE <<l[i], i>>
LastApplied(n) == OpTimeAt(log[n], Len(log[n]))
Has(l, optime) == optime[2] <= Len(l) /\ (optime[2] = 0 \/ l[optime[2]] = optime[1])
IsMajority(s) == 2 * Cardinality(s) > Cardinality(Nodes)

\* _iAmPrimary: kLeaderElect, kMaster and kSteppingDown.
IsLeader(n) == role[n] \in {"elect", "master", "stepping"}

Common(a, b) ==
    Max({i \in 0..Len(a) : i <= Len(b) /\ \A j \in 1..i : a[j] = b[j]})

Init ==
    /\ log \in InitialLogs
    /\ term = [n \in Nodes |-> Max({Last(log[m]) : m \in Nodes})]
    /\ role = [n \in Nodes |-> "follower"]
    /\ pending = [n \in Nodes |-> 0]
    /\ known = [n \in Nodes |-> [m \in Nodes |-> Null]]
    /\ commit = [n \in Nodes |-> <<1, 1>>]
    /\ report = [n \in Nodes |-> NoReport]
    /\ events = 0 /\ history = <<1>> /\ failed = "none"

-----------------------------------------------------------------------------
(* Terms and elections. *)

\* updateTerm: a leader begins to step down and takes the term over when it has.
UpdateTerm(n, t) ==
    IF t > term[n] /\ IsLeader(n)
    THEN /\ role' = [role EXCEPT ![n] = "stepping"]
         /\ pending' = [pending EXCEPT ![n] = Max({@, t})]
         /\ UNCHANGED term
    ELSE /\ term' = [term EXCEPT ![n] = Max({@, t})]
         /\ UNCHANGED <<role, pending>>

\* A heartbeat tells of a newer term.
Heartbeat(n, m) ==
    /\ term[m] > term[n] /\ term[m] > pending[n]
    /\ UpdateTerm(n, term[m])
    /\ UNCHANGED <<log, known, commit, report, events, history, failed>>

\* Mutant: the pending term is not reset.
PendingKept(n) == pending[n]

PendingAfterStepDown(n) == 0

\* A heartbeat, or the lack of heartbeats from a majority, makes a leader step down without
\* a newer term.
StepDownSelf(n) ==
    /\ role[n] \in {"elect", "master"}
    /\ role' = [role EXCEPT ![n] = "stepping"]
    /\ events < MaxEvents /\ events' = events + 1
    /\ UNCHANGED <<log, term, pending, known, commit, report, history, failed>>

\* replSetStepDown succeeds, at once when it is forced to.  A leader that still attempts it
\* goes on to commit; it is a leader here that does not write.
StepDown(n) ==
    /\ role[n] \in {"elect", "master"}
    /\ role' = [role EXCEPT ![n] = "follower"]
    /\ events < MaxEvents /\ events' = events + 1
    /\ UNCHANGED <<log, term, pending, known, commit, report, history, failed>>

\* The step down has the global lock, and a pending term is taken over.
FinishStepDown(n) ==
    /\ role[n] = "stepping"
    /\ role' = [role EXCEPT ![n] = "follower"]
    /\ term' = [term EXCEPT ![n] = Max({@, pending[n]})]
    /\ pending' = [pending EXCEPT ![n] = PendingAfterStepDown(n)]
    /\ UNCHANGED <<log, known, commit, report, events, history, failed>>

\* Mutant: the candidate's optime is not looked at.
MayVoteForStale(v, n) == ~IsLeader(v) /\ term[v] <= term[n]

\* processReplSetRequestVotes: no vote in the new term yet, and the candidate not
\* behind.  A voter that knows the new term already has it from an election that a
\* majority has voted in, so it is left out here.
MayVote(v, n) ==
    ~IsLeader(v) /\ term[v] <= term[n] /\ Leq(LastApplied(v), LastApplied(n))

\* A candidate takes a new term and wins it with the votes of a majority, all in one step:
\* a term has one leader, as in Election outside the two failures that it shows.
WinElection(n, voters) ==
    /\ role[n] = "follower" /\ term[n] < MaxTerm
    /\ n \notin voters /\ IsMajority(voters \union {n})
    /\ \A v \in voters : MayVote(v, n)
    /\ role' = [role EXCEPT ![n] = "elect"]
    /\ term' = [m \in Nodes |-> IF m \in voters \union {n} THEN term[n] + 1 ELSE term[m]]
    /\ UNCHANGED <<log, pending, known, commit, report, events, history, failed>>

-----------------------------------------------------------------------------
(* The commit point. *)

\* The position of m as p knows it when its oplog is l and the others' positions are k.
Position(p, l, k, m) == IF m = p THEN OpTimeAt(l, Len(l)) ELSE k[m]

\* The greatest optime that a majority of the voters has reached.
MajorityOpTime(p, l, k) ==
    LET positions == {Position(p, l, k, m) : m \in Nodes}
        reached == {o \in positions :
                        IsMajority({m \in Nodes : Leq(o, Position(p, l, k, m))})}
    IN  CHOOSE o \in reached : \A x \in reached : Leq(x, o)

\* Mutant: a primary commits entries of former terms.
MayCommitOld(p, l, o) == role[p] = "master"

\* _firstOpTimeOfMyTerm: a primary commits nothing before its first entry, which it has
\* once it is kMaster, and nothing when it steps down.
MayCommit(p, l, o) ==
    /\ role[p] = "master"
    /\ Leq(<<term[p], Min({i \in DOMAIN l : l[i] = term[p]} \union {MaxLog + 1})>>, o)

\* updateLastCommittedOpTime of p, with oplog l and positions k.
UpdateCommitPoint(p, l, k) ==
    LET o == MajorityOpTime(p, l, k)
    IN  IF MayCommit(p, l, o) /\ ~Leq(o, commit[p])
        THEN /\ commit' = [commit EXCEPT ![p] = o]
             /\ history' = IF o[2] > Len(history) THEN SubSeq(l, 1, o[2]) ELSE history
        ELSE UNCHANGED <<commit, history>>

\* The new primary has drained and writes the first entry of its term.
CompleteTransition(n) ==
    /\ role[n] = "elect" /\ Len(log[n]) < MaxLog
    /\ "OldTerm" \in Faults \/ Last(log[n]) <= term[n]
    /\ role' = [role EXCEPT ![n] = "master"]
    /\ log' = [log EXCEPT ![n] = Append(@, term[n])]
    /\ UNCHANGED <<term, pending, known, commit, report, events, history, failed>>

\* A primary that has completed its transition writes until the step down has the
\* global lock.
Write(n) ==
    /\ role[n] \in {"master", "stepping"} /\ Last(log[n]) = term[n]
    /\ Len(log[n]) < MaxLog
    /\ log' = [log EXCEPT ![n] = Append(@, term[n])]
    /\ UpdateCommitPoint(n, log'[n], known[n])
    /\ UNCHANGED <<election, known, report, events, failed>>

-----------------------------------------------------------------------------
(* Replication. *)

\* Mutant: the commit point is taken from a response that triggers a rollback.
ContinuesAnyway(n, s) == TRUE

\* checkRemoteOplogStart: the source has the member's last entry.
Continues(n, s) == Has(log[s], LastApplied(n))

\* The source is fresher than the member.
Fresher(n, s) ==
    \/ ~Leq(LastApplied(s), LastApplied(n))
    \/ (LastApplied(s) = LastApplied(n) /\ ~Leq(commit[s], commit[n]))

\* _onSuccessfulBatch with at most one entry: the commit point and the term of the
\* source come first.  The primary-elect fetches while it catches up.
Fetch(n, s, entries) ==
    /\ n # s /\ role[n] \in {"follower", "elect"}
    /\ Fresher(n, s) /\ Continues(n, s)
    /\ \/ "OffBranch" \in Faults
       \/ Has(log[n], commit[n]) \/ Has(log[s], commit[n])
    /\ entries <= Len(log[s]) - Len(log[n])
    /\ entries = 0 => ~Leq(commit[s], commit[n])
    /\ commit' = [commit EXCEPT ![n] = IF IsLeader(n) THEN @ ELSE Greater(@, commit[s])]
    /\ UpdateTerm(n, term[s])
    /\ log' = [log EXCEPT ![n] = @ \o SubSeq(log[s], Len(@) + 1, Len(@) + entries)]
    /\ UNCHANGED <<known, report, events, history, failed>>

\* The source does not have the member's last entry: the member returns to the last
\* one they share, which must not be before the commit point.
Rollback(n, s) ==
    /\ n # s /\ role[n] = "follower"
    /\ Fresher(n, s) /\ ~Has(log[s], LastApplied(n))
    /\ LET i == Common(log[n], log[s])
       IN  IF commit[n][2] <= i /\ Leq(commit[n], OpTimeAt(log[n], i))
           THEN log' = [log EXCEPT ![n] = SubSeq(@, 1, i)] /\ UNCHANGED failed
           ELSE failed' = "commonPoint" /\ UNCHANGED log
    /\ UNCHANGED <<election, known, commit, report, events, history>>

\* prepareReplSetUpdatePositionCommand: the positions of all members and the term. One
\* that tells the sync source of no new position is left out: it changes no more than a
\* heartbeat does.
SendReport(n, s) ==
    /\ n # s /\ role[n] = "follower" /\ report[n] = NoReport
    /\ events < MaxEvents /\ events' = events + 1
    /\ LET positions == [m \in Nodes |-> Position(n, log[n], known[n], m)]
       IN  /\ \E m \in Nodes \ {s} : ~Leq(positions[m], known[s][m])
           /\ report' = [report EXCEPT ![n] =
                [to |-> s, term |-> term[n], step |-> "term", positions |-> positions]]
    /\ UNCHANGED <<log, election, known, commit, history, failed>>

\* Mutant: the term of the report is not looked at.
ReportedTermIgnored(r) == 0

\* The metadata of the command.
ReportedTerm(r) == r.term

\* replSetUpdatePosition first processes the term of its sender...
ReceiveTerm(n) ==
    /\ report[n] # NoReport /\ report[n].step = "term"
    /\ UpdateTerm(report[n].to, ReportedTerm(report[n]))
    /\ report' = [report EXCEPT ![n].step = "positions"]
    /\ UNCHANGED <<log, known, commit, events, history, failed>>

\* ...and then the positions, which only go forward.
ReceivePositions(n) ==
    /\ report[n] # NoReport /\ report[n].step = "positions"
    /\ LET s == report[n].to
           k == [m \in Nodes |-> IF m = s THEN known[s][m]
                                 ELSE Greater(known[s][m], report[n].positions[m])]
       IN  /\ known' = [known EXCEPT ![s] = k]
           /\ UpdateCommitPoint(s, log[s], k)
    /\ report' = [report EXCEPT ![n] = NoReport]
    /\ UNCHANGED <<log, election, events, failed>>

-----------------------------------------------------------------------------
Next ==
    /\ failed = "none"
    /\ \E n \in Nodes :
        \/ StepDownSelf(n) \/ StepDown(n) \/ FinishStepDown(n)
        \/ \E voters \in SUBSET Nodes : WinElection(n, voters)
        \/ CompleteTransition(n) \/ Write(n)
        \/ ReceiveTerm(n) \/ ReceivePositions(n)
        \/ \E m \in Nodes :
            \/ Heartbeat(n, m)
            \/ \E entries \in {0, 1} : Fetch(n, m, entries)
            \/ Rollback(n, m) \/ SendReport(n, m)

Spec == Init /\ [][Next]_vars

-----------------------------------------------------------------------------
(* Properties. *)

OpTimes == ((1..MaxTerm) \X (1..MaxLog)) \union {Null}
Reports == [to : Nodes, term : 1..MaxTerm, step : {"term", "positions"},
            positions : [Nodes -> OpTimes]]

\* The variables have their types, and a term is pending only while a leader steps
\* down.
TypeOK ==
    /\ log \in [Nodes -> Seq(1..MaxTerm)] /\ \A n \in Nodes : Len(log[n]) \in 1..MaxLog
    /\ term \in [Nodes -> 1..MaxTerm]
    /\ role \in [Nodes -> {"follower", "elect", "master", "stepping"}]
    /\ pending \in [Nodes -> 0..MaxTerm]
    /\ \A n \in Nodes : pending[n] # 0 => role[n] = "stepping"
    /\ commit \in [Nodes -> OpTimes]
    /\ known \in [Nodes -> [Nodes -> OpTimes]]
    /\ report \in [Nodes -> Reports \union {NoReport}]
    /\ events \in 0..MaxEvents /\ history \in Seq(1..MaxTerm)

\* The oplog l begins with the entries of h.
Includes(l, h) == Len(h) <= Len(l) /\ \A x \in DOMAIN h : l[x] = h[x]

\* What is committed stays committed: no primary commits entries that contradict those
\* which another primary has committed.
CommittedGrows == [][IsPrefix(history, history')]_vars

\* No step takes a committed entry from a member that has them all: a member returns in a
\* rollback only to what it shares with a fresher source (rollback_impl.cpp,
\* _findCommonPoint), which has them too.
CommittedIsKept ==
    [][\A n \in Nodes : Includes(log[n], history) => Includes(log'[n], history)]_vars

\* A rollback does not find its common point before the commit point (the invariant()s of
\* rollback_impl.cpp).
CommonPointNotBeforeCommitPoint == failed = "none"

\* Each member's commit point, computed or learned, is an entry of the committed history.
CommitPointIsCommitted == \A n \in Nodes : Has(history, commit[n])

\* The entries of a member up to its commit point, which may become its stable
\* timestamp, are committed ones.
StableOnBranch ==
    \A n \in Nodes : \A i \in DOMAIN log[n] :
        Leq(OpTimeAt(log[n], i), commit[n]) => Common(log[n], history) >= i

-----------------------------------------------------------------------------
(* The inductive invariant, without OldTerm. *)

\* Entries are of terms, and in places, that agree between all oplogs.
LogInv ==
    \A n \in Nodes :
        log[n][1] = 1 /\ Sorted(log[n]) /\ \A m \in Nodes : Match(log[n], log[m])

\* The optime is the one of an entry that some member has, or that somebody has reported.
Occurs(o) ==
    \/ \E n \in Nodes : \E i \in DOMAIN log[n] : o = <<log[n][i], i>>
    \/ \E n, m \in Nodes : o = known[n][m]
    \/ \E n, m \in Nodes : report[n] # NoReport /\ o = report[n].positions[m]

\* Terms come from elections, and an entry of a term from the one leader of it.
MajorityAt(t) == IsMajority({v \in Nodes : term[v] >= t})

TermInv ==
    /\ \A o \in OpTimes : Occurs(o) => MajorityAt(o[1])
    /\ \A p \in Nodes : IsLeader(p) =>
        /\ MajorityAt(term[p])
        /\ \A q \in Nodes : IsLeader(q) /\ term[q] = term[p] => q = p
        /\ \A o \in OpTimes :
            Occurs(o) /\ o[1] = term[p] => o[2] <= Len(log[p]) /\ log[p][o[2]] = o[1]
        /\ role[p] = "elect" => \A i \in DOMAIN log[p] : log[p][i] # term[p]
        /\ pending[p] # 0 => pending[p] > term[p]

\* The newest term that a member has or will take over.
NewestTerm(n) == IF pending[n] # 0 THEN pending[n] ELSE term[n]

\* Whoever knows of a report knows a term that is at least that of its sender.
ReportInv ==
    \A n \in Nodes :
        report[n] # NoReport /\ report[n].step = "positions" =>
            NewestTerm(report[n].to) >= report[n].term

\* The leader of term t may still count v for the i-th entry.
Acked(v, t, i) ==
    \/ \E n \in Nodes : NewestTerm(n) <= t /\ Leq(<<t, i>>, known[n][v])
    \/ \E n \in Nodes :
        /\ report[n] # NoReport /\ report[n].term <= t
        /\ Leq(<<t, i>>, report[n].positions[v])

\* It will never count a majority for it.
Unchosen(t, i) ==
    \E Q \in SUBSET Nodes :
        IsMajority(Q) /\ \A v \in Q : term[v] > t /\ ~Acked(v, t, i)

\* The oplog l has, up to its k-th entry, one of term t that is not before the i-th.
Reaches(l, k, t, i) == \E j \in DOMAIN l : i <= j /\ j <= k /\ l[j] = t

\* The member has the i-th entry of term t, or newer ones, and will not write older ones.
Supports(v, t, i) ==
    Leq(<<t, i>>, LastApplied(v)) /\ (IsLeader(v) => term[v] >= t)

Terms == 1..MaxTerm
Places == 1..MaxLog + 1

\* What a former leader may still commit is in every oplog with entries of later terms,
\* and in those of later leaders, before they write.
Inherited(t, i) ==
    /\ \A n \in Nodes : \A k \in DOMAIN log[n] :
        log[n][k] > t => Reaches(log[n], k, t, i)
    /\ \A n \in Nodes :
        role[n] = "elect" /\ term[n] > t => Reaches(log[n], Len(log[n]), t, i)
    /\ \A v \in Nodes : Acked(v, t, i) => Supports(v, t, i)
    /\ i = MaxLog + 1 =>
        /\ \A o \in OpTimes : Occurs(o) => o[1] <= t
        /\ \A n \in Nodes : IsLeader(n) => term[n] <= t

ChosenInv == \A t \in Terms, i \in Places : Unchosen(t, i) \/ Inherited(t, i)

\* The entries of h, in the end the ones that are committed, are in every oplog with a
\* newer optime and on a majority that nobody without them can be elected by.
HistoryOK(h) ==
    /\ h # <<>>
    /\ \A n \in Nodes : \A k \in DOMAIN log[n] :
        Leq(<<Last(h), Len(h)>>, <<log[n][k], k>>) => Len(h) <= k /\ Includes(log[n], h)
    /\ \A n \in Nodes : role[n] = "elect" /\ term[n] > Last(h) => Includes(log[n], h)
    /\ IsMajority({v \in Nodes : Supports(v, Last(h), Len(h))})

CommitPointInv ==
    /\ TypeOK /\ LogInv /\ TermInv /\ ReportInv /\ ChosenInv
    /\ HistoryOK(history) /\ CommitPointIsCommitted
=============================================================================
