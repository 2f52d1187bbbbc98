-------------------------- MODULE CommitPointProofs --------------------------
(***************************************************************************)
(* Theorems about module CommitPoint, for any finite set of members and    *)
(* all bounds.                                                             *)
(***************************************************************************)
EXTENDS CommitPoint, FiniteSetTheorems, SequenceTheorems, WellFoundedInduction, TLAPS

-----------------------------------------------------------------------------
(* Majorities, numbers and optimes. *)

\* Two majorities have a member in common.
LEMMA MajoritiesMeet ==
    ASSUME NEW P \in SUBSET Nodes, NEW Q \in SUBSET Nodes, IsMajority(P), IsMajority(Q)
    PROVE  \E v \in Nodes : v \in P /\ v \in Q
<1>1. IsFiniteSet(Nodes) /\ IsFiniteSet(P) /\ IsFiniteSet(Q)
  BY NodeAssumption, FS_Subset
<1>2. /\ Cardinality(Nodes) \in Nat /\ Cardinality(P) \in Nat /\ Cardinality(Q) \in Nat
  BY <1>1, FS_CardinalityType
<1>3. Cardinality(P) + Cardinality(Q) > Cardinality(Nodes)
  BY <1>2 DEF IsMajority
<1>4. P \cap Q # {}
  BY <1>1, <1>3, FS_MajoritiesIntersect
<1> QED BY <1>4

\* More than a majority is a majority.
LEMMA MajorityGrows ==
    ASSUME NEW Q \in SUBSET Nodes, NEW P \in SUBSET Q, IsMajority(P)
    PROVE  IsMajority(Q)
<1>1. IsFiniteSet(Nodes) /\ IsFiniteSet(P) /\ IsFiniteSet(Q)
  BY NodeAssumption, FS_Subset
<1>2. /\ Cardinality(Nodes) \in Nat /\ Cardinality(P) \in Nat /\ Cardinality(Q) \in Nat
      /\ Cardinality(P) <= Cardinality(Q)
  BY <1>1, FS_CardinalityType, FS_Subset
<1> QED BY <1>2 DEF IsMajority

\* All members are a majority.
LEMMA AllAreMajority == IsMajority(Nodes)
<1>1. Cardinality(Nodes) \in Nat /\ Cardinality(Nodes) # 0
  BY NodeAssumption, FS_CardinalityType, FS_EmptySet
<1> QED BY <1>1 DEF IsMajority

\* A set of numbers has a least one.
LEMMA LeastExists ==
    ASSUME NEW S \in SUBSET Nat, S # {}
    PROVE  \E m \in S : \A x \in S : m <= x
<1> DEFINE R == OpToRel(<, Nat)
<1>1. IsWellFoundedOn(R, Nat)
  BY NatLessThanWellFounded
<1>2. \A x, y \in Nat : x < y => <<x, y>> \in R
  BY Zenon DEF OpToRel
<1> HIDE DEF R
<1>3. PICK m \in S : \A y \in S : ~(<<y, m>> \in R)
  BY <1>1, WFMin
<1>4. \A y \in S : m <= y
  <2> TAKE y \in S
  <2>1. m \in Nat /\ y \in Nat /\ ~(y < m)
    BY <1>2, <1>3
  <2> QED BY <2>1
<1> QED BY <1>4

\* A bounded one has a greatest.
LEMMA GreatestExists ==
    ASSUME NEW N \in Nat, NEW S \in SUBSET (0..N), S # {}
    PROVE  \E m \in S : \A x \in S : x <= m
<1> DEFINE T == {N - x : x \in S}
<1>1. T \in SUBSET Nat /\ T # {}
  OBVIOUS
<1> HIDE DEF T
<1>2. PICK y \in T : \A x \in T : y <= x
  BY <1>1, LeastExists
<1>3. PICK m \in S : y = N - m
  BY DEF T
<1>4. \A x \in S : x <= m
  <2> TAKE x \in S
  <2>1. y <= N - x
    BY <1>2 DEF T
  <2>2. x \in Nat /\ m \in Nat
    OBVIOUS
  <2> QED BY <1>3, <2>1, <2>2
<1> QED BY <1>4

\* Max is that greatest one.
LEMMA MaxFacts ==
    ASSUME NEW N \in Nat, NEW S \in SUBSET (0..N), S # {}
    PROVE  Max(S) \in S /\ \A x \in S : x <= Max(S)
<1>1. \E m \in S : \A x \in S : m >= x
  BY GreatestExists
<1>2. Max(S) \in S /\ \A x \in S : Max(S) >= x
  BY <1>1 DEF Max
<1> QED BY <1>2

\* The later of two terms.
LEMMA Max2Facts ==
    ASSUME NEW a \in Nat, NEW b \in Nat
    PROVE  Max({a, b}) = IF a >= b THEN a ELSE b
<1>1. \E m \in {a, b} : \A x \in {a, b} : m >= x
  OBVIOUS
<1>2. Max({a, b}) \in {a, b} /\ \A x \in {a, b} : Max({a, b}) >= x
  BY <1>1 DEF Max
<1> QED BY <1>2

\* An optime is a term and an index.
LEMMA OpTimeFacts ==
    ASSUME NEW o \in OpTimes
    PROVE  /\ o[1] \in 0..MaxTerm /\ o[2] \in 0..MaxLog /\ o = <<o[1], o[2]>>
           /\ o[1] = 0 <=> o[2] = 0
           /\ o[1] \in Nat /\ o[2] \in Nat
BY BoundAssumption DEF OpTimes, Null

\* The order of optimes is linear.
LEMMA LeqFacts ==
    /\ \A a \in OpTimes : Leq(a, a)
    /\ \A a, b \in OpTimes : Leq(a, b) \/ Leq(b, a)
    /\ \A a, b, c \in OpTimes : Leq(a, b) /\ Leq(b, c) => Leq(a, c)
<1>1. ASSUME NEW a \in OpTimes, NEW b \in OpTimes, NEW c \in OpTimes
      PROVE  /\ Leq(a, a)
             /\ Leq(a, b) \/ Leq(b, a)
             /\ Leq(a, b) /\ Leq(b, c) => Leq(a, c)
  <2>1. /\ a[1] \in Nat /\ a[2] \in Nat /\ b[1] \in Nat /\ b[2] \in Nat
        /\ c[1] \in Nat /\ c[2] \in Nat
    BY OpTimeFacts
  <2> QED BY <2>1 DEF Leq
<1> QED BY <1>1

\* A set of optimes has a greatest one.
LEMMA GreatestOpTime ==
    ASSUME NEW S \in SUBSET OpTimes, S # {}
    PROVE  \E o \in S : \A x \in S : Leq(x, o)
<1>0. \A x \in S : x[1] \in 0..MaxTerm /\ x[2] \in 0..MaxLog
  BY OpTimeFacts
<1> DEFINE A == {x[1] : x \in S}
<1>1. A \in SUBSET (0..MaxTerm) /\ A # {}
  BY <1>0
<1>2. PICK t \in A : \A x \in A : x <= t
  BY <1>1, GreatestExists, BoundAssumption
<1> DEFINE B == {x[2] : x \in {y \in S : y[1] = t}}
<1>3. B \in SUBSET (0..MaxLog) /\ B # {}
  BY <1>0, <1>2
<1>4. PICK i \in B : \A x \in B : x <= i
  BY <1>3, GreatestExists, BoundAssumption
<1>5. PICK o \in S : o[1] = t /\ o[2] = i
  BY <1>4
<1>6. \A x \in S : Leq(x, o)
  <2> TAKE x \in S
  <2>1. x[1] \in Nat /\ o[1] \in Nat /\ x[1] <= t
    BY <1>0, <1>2
  <2>2. x[1] = t => x[2] <= i
    BY <1>4
  <2> QED BY <1>5, <2>1, <2>2 DEF Leq
<1> QED BY <1>6

\* A set of optimes has a least one.
LEMMA LeastOpTime ==
    ASSUME NEW S \in SUBSET OpTimes, S # {}
    PROVE  \E o \in S : \A x \in S : Leq(o, x)
<1>0. \A x \in S : x[1] \in Nat /\ x[2] \in Nat
  BY OpTimeFacts
<1> DEFINE A == {x[1] : x \in S}
<1>1. A \in SUBSET Nat /\ A # {}
  BY <1>0
<1>2. PICK t \in A : \A x \in A : t <= x
  BY <1>1, LeastExists
<1> DEFINE B == {x[2] : x \in {y \in S : y[1] = t}}
<1>3. B \in SUBSET Nat /\ B # {}
  BY <1>0, <1>2
<1>4. PICK i \in B : \A x \in B : i <= x
  BY <1>3, LeastExists
<1>5. PICK o \in S : o[1] = t /\ o[2] = i
  BY <1>4
<1>6. \A x \in S : Leq(o, x)
  <2> TAKE x \in S
  <2>1. x[1] \in Nat /\ o[1] \in Nat /\ t <= x[1]
    BY <1>0, <1>2
  <2>2. x[1] = t => i <= x[2]
    BY <1>4
  <2> QED BY <1>5, <2>1, <2>2 DEF Leq
<1> QED BY <1>6

\* The last entry of an oplog is at an optime.
LEMMA LastFacts ==
    ASSUME NEW l \in Seq(1..MaxTerm), Len(l) \in 1..MaxLog
    PROVE  /\ OpTimeAt(l, Len(l)) \in OpTimes
           /\ OpTimeAt(l, Len(l)) = <<l[Len(l)], Len(l)>>
           /\ \A i \in DOMAIN l : <<l[i], i>> \in OpTimes /\ l[i] \in 1..MaxTerm
           /\ DOMAIN l = 1..Len(l) /\ Len(l) \in DOMAIN l
           /\ Last(l) = l[Len(l)] /\ Last(l) \in 1..MaxTerm
<1>1. DOMAIN l = 1..Len(l) /\ Len(l) \in DOMAIN l /\ Len(l) # 0
  BY BoundAssumption
<1>2. \A i \in DOMAIN l : l[i] \in 1..MaxTerm /\ i \in 1..MaxLog
  BY <1>1, BoundAssumption
<1> QED BY <1>1, <1>2 DEF OpTimeAt, OpTimes, Last

\* The first entries of an oplog.
LEMMA SubSeqFacts ==
    ASSUME NEW l \in Seq(1..MaxTerm), NEW i \in Nat, i <= Len(l)
    PROVE  /\ SubSeq(l, 1, i) \in Seq(1..MaxTerm) /\ Len(SubSeq(l, 1, i)) = i
           /\ DOMAIN SubSeq(l, 1, i) = 1..i
           /\ \A x \in 1..i : SubSeq(l, 1, i)[x] = l[x]
<1>1. Len(l) \in Nat /\ DOMAIN l = 1..Len(l)
  OBVIOUS
<1>2. \A x \in 1..i : l[x] \in 1..MaxTerm
  BY <1>1, BoundAssumption
<1> QED BY <1>1, <1>2

\* The optime that a majority has reached is the position of a member, and a majority
\* is not behind it.
LEMMA MajorityOpTimeFacts ==
    ASSUME NEW p \in Nodes, NEW l \in Seq(1..MaxTerm), Len(l) \in 1..MaxLog,
           NEW k \in [Nodes -> OpTimes]
    PROVE  LET o == MajorityOpTime(p, l, k)
           IN  /\ o \in OpTimes
               /\ \E m \in Nodes : o = Position(p, l, k, m)
               /\ IsMajority({m \in Nodes : Leq(o, Position(p, l, k, m))})
<1> DEFINE positions == {Position(p, l, k, m) : m \in Nodes}
           reached == {o \in positions :
                        IsMajority({m \in Nodes : Leq(o, Position(p, l, k, m))})}
           o == MajorityOpTime(p, l, k)
<1>1. positions \in SUBSET OpTimes /\ positions # {}
  BY LastFacts DEF Position
<1>2. PICK a \in positions : \A x \in positions : Leq(a, x)
  BY <1>1, LeastOpTime
<1>3. {m \in Nodes : Leq(a, Position(p, l, k, m))} = Nodes
  BY <1>2
<1>4. a \in reached
  BY <1>3, AllAreMajority
<1>5. reached \in SUBSET OpTimes /\ reached # {}
  BY <1>1, <1>4
<1>6. \E x \in reached : \A y \in reached : Leq(y, x)
  BY <1>5, GreatestOpTime
<1>7. o = CHOOSE x \in reached : \A y \in reached : Leq(y, x)
  BY DEF MajorityOpTime
<1> HIDE DEF o
<1>8. o \in reached
  BY <1>6, <1>7
<1> QED BY <1>5, <1>8 DEF o

\* What two oplogs have in common.
LEMMA CommonFacts ==
    ASSUME NEW a \in Seq(1..MaxTerm), NEW b \in Seq(1..MaxTerm)
    PROVE  /\ Common(a, b) \in 0..Len(a) /\ Common(a, b) <= Len(b)
           /\ \A x \in 1..Common(a, b) : a[x] = b[x]
           /\ \A i \in 0..Len(a) :
                i <= Len(b) /\ (\A x \in 1..i : a[x] = b[x]) => i <= Common(a, b)
<1> DEFINE S == {i \in 0..Len(a) : i <= Len(b) /\ \A j \in 1..i : a[j] = b[j]}
<1>1. Len(a) \in Nat /\ Len(b) \in Nat
  OBVIOUS
<1>2. S \in SUBSET (0..Len(a)) /\ 0 \in S
  BY <1>1
<1>3. Max(S) \in S /\ \A x \in S : x <= Max(S)
  BY <1>1, <1>2, MaxFacts
<1>4. Common(a, b) = Max(S)
  BY DEF Common
<1> QED BY <1>1, <1>3, <1>4

-----------------------------------------------------------------------------
(* Types. *)

Roles == {"follower", "elect", "master", "stepping"}
ElectionTypes ==
    /\ term \in [Nodes -> 1..MaxTerm] /\ role \in [Nodes -> Roles]
    /\ pending \in [Nodes -> 0..MaxTerm]
    /\ \A n \in Nodes : pending[n] # 0 => role[n] = "stepping"
LogTypes ==
    /\ log \in [Nodes -> Seq(1..MaxTerm)] /\ \A n \in Nodes : Len(log[n]) \in 1..MaxLog
    /\ \A n \in Nodes : log[n][1] = 1
ReportTypes ==
    /\ known \in [Nodes -> [Nodes -> OpTimes]]
    /\ report \in [Nodes -> Reports \union {NoReport}] /\ events \in 0..MaxEvents
CommitTypes == commit \in [Nodes -> OpTimes]
TypeInv == ElectionTypes /\ LogTypes /\ ReportTypes /\ CommitTypes

\* The parts are the type invariant, but for history, and the first entry that all
\* oplogs share.
LEMMA TypeParts ==
    TypeInv /\ history \in Seq(1..MaxTerm) <=> TypeOK /\ \A n \in Nodes : log[n][1] = 1
BY DEF TypeInv, TypeOK, ElectionTypes, LogTypes, ReportTypes, CommitTypes, Roles

\* updateTerm keeps the types, and terms and roles only change in one direction.
TermsGrow ==
    \A m \in Nodes :
        /\ term'[m] >= term[m] /\ NewestTerm(m)' >= NewestTerm(m)
        /\ IsLeader(m)' => IsLeader(m) /\ term'[m] = term[m]
        /\ role'[m] = "elect" => role[m] = "elect"

SteppingInv == \A p \in Nodes : pending[p] # 0 => pending[p] > term[p]

\* A pending term is newer than the one of the leader that steps down.
LEMMA PendingIsNewer == ElectionTypes /\ TermInv => SteppingInv
BY DEF ElectionTypes, TermInv, SteppingInv, IsLeader

\* A newer term is taken over at once, or by the step down that it starts.
LEMMA UpdateTermFacts ==
    ASSUME ElectionTypes, NEW n \in Nodes, NEW t \in 0..MaxTerm, UpdateTerm(n, t)
    PROVE  /\ ElectionTypes'
           /\ SteppingInv => SteppingInv' /\ TermsGrow /\ NewestTerm(n)' >= t
<1>1. MaxTerm \in Nat /\ t \in Nat /\ term[n] \in Nat /\ pending[n] \in Nat
  BY BoundAssumption DEF ElectionTypes
<1>2. /\ Max({term[n], t}) = IF term[n] >= t THEN term[n] ELSE t
      /\ Max({pending[n], t}) = IF pending[n] >= t THEN pending[n] ELSE t
  BY <1>1, Max2Facts
<1>3. CASE t > term[n] /\ IsLeader(n)
  <2> DEFINE x == IF pending[n] >= t THEN pending[n] ELSE t
  <2>1. /\ role' = [role EXCEPT ![n] = "stepping"] /\ pending' = [pending EXCEPT ![n] = x]
        /\ term' = term
    BY <1>2, <1>3 DEF UpdateTerm
  <2>2. x \in 1..MaxTerm /\ x >= t /\ x >= pending[n]
    BY <1>1, <1>3 DEF ElectionTypes
  <2> HIDE DEF x
  <2>3. ElectionTypes'
    BY <2>1, <2>2 DEF ElectionTypes, Roles
  <2>4. \A m \in Nodes : term[m] \in Nat /\ pending[m] \in Nat
    BY BoundAssumption DEF ElectionTypes
  <2>5. SteppingInv => SteppingInv'
    BY <1>1, <1>3, <2>1, <2>2, <2>4 DEF SteppingInv, ElectionTypes
  <2>6. SteppingInv => TermsGrow
    BY <1>1, <1>3, <2>1, <2>2, <2>4
    DEF TermsGrow, ElectionTypes, NewestTerm, IsLeader, SteppingInv
  <2>7. NewestTerm(n)' >= t
    BY <2>1, <2>2 DEF NewestTerm, ElectionTypes
  <2> QED BY <2>3, <2>5, <2>6, <2>7
<1>4. CASE ~(t > term[n] /\ IsLeader(n))
  <2> DEFINE x == IF term[n] >= t THEN term[n] ELSE t
  <2>1. /\ role' = role /\ pending' = pending
        /\ term' = [term EXCEPT ![n] = x]
    BY <1>2, <1>4 DEF UpdateTerm
  <2>2. x \in 1..MaxTerm /\ x >= t /\ x >= term[n] /\ (IsLeader(n) => x = term[n])
    BY <1>1, <1>4 DEF ElectionTypes
  <2> HIDE DEF x
  <2>3. ElectionTypes'
    BY <2>1, <2>2 DEF ElectionTypes
  <2>4. \A m \in Nodes : term[m] \in Nat /\ pending[m] \in Nat
    BY BoundAssumption DEF ElectionTypes
  <2>5. SteppingInv => SteppingInv'
    BY <1>1, <2>1, <2>2, <2>4 DEF SteppingInv, ElectionTypes, IsLeader
  <2>6. TermsGrow
    BY <1>1, <2>1, <2>2, <2>4
    DEF TermsGrow, ElectionTypes, NewestTerm, IsLeader
  <2>7. SteppingInv => NewestTerm(n)' >= t
    BY <1>1, <2>1, <2>2 DEF NewestTerm, ElectionTypes, SteppingInv, IsLeader
  <2> QED BY <2>3, <2>5, <2>6, <2>7
<1> QED BY <1>3, <1>4

\* The end of a step down.
LEMMA FinishStepDownFacts ==
    ASSUME ElectionTypes, NEW n \in Nodes, FinishStepDown(n)
    PROVE  /\ ElectionTypes'
           /\ SteppingInv => SteppingInv' /\ TermsGrow
<1>1. MaxTerm \in Nat /\ term[n] \in Nat /\ pending[n] \in Nat
  BY BoundAssumption DEF ElectionTypes
<1> DEFINE x == IF term[n] >= pending[n] THEN term[n] ELSE pending[n]
<1>2. Max({term[n], pending[n]}) = x
  BY <1>1, Max2Facts
<1>3. /\ role[n] = "stepping" /\ role' = [role EXCEPT ![n] = "follower"]
      /\ pending' = [pending EXCEPT ![n] = 0] /\ term' = [term EXCEPT ![n] = x]
  BY <1>2 DEF FinishStepDown, PendingAfterStepDown
<1>4. x \in 1..MaxTerm /\ x >= pending[n] /\ x >= term[n]
  BY <1>1 DEF ElectionTypes
<1> HIDE DEF x
<1>5. ElectionTypes'
  BY <1>1, <1>3, <1>4 DEF ElectionTypes, Roles
<1>6. \A m \in Nodes : term[m] \in Nat /\ pending[m] \in Nat
  BY BoundAssumption DEF ElectionTypes
<1>7. SteppingInv => SteppingInv'
  BY <1>3, <1>4, <1>6 DEF SteppingInv, ElectionTypes
<1>8. TermsGrow
  BY <1>3, <1>4, <1>6 DEF TermsGrow, ElectionTypes, NewestTerm, IsLeader
<1> QED BY <1>5, <1>7, <1>8

\* A step down without a newer term begins, or is over at once.
LEMMA StepDownFacts ==
    ASSUME ElectionTypes, NEW n \in Nodes, StepDownSelf(n) \/ StepDown(n)
    PROVE  /\ ElectionTypes'
           /\ SteppingInv => SteppingInv' /\ TermsGrow
<1>1. \A m \in Nodes : term[m] \in Nat /\ pending[m] \in Nat
  BY BoundAssumption DEF ElectionTypes
<1>2. PICK r \in {"stepping", "follower"} :
        role[n] \in {"elect", "master"} /\ role' = [role EXCEPT ![n] = r]
  BY DEF StepDownSelf, StepDown
<1>3. UNCHANGED <<term, pending>> /\ pending[n] = 0
  BY <1>1, <1>2 DEF StepDownSelf, StepDown, ElectionTypes
<1>4. ElectionTypes'
  BY <1>2, <1>3 DEF ElectionTypes, Roles
<1>5. SteppingInv => SteppingInv'
  BY <1>3 DEF SteppingInv
<1>6. TermsGrow
  <2> SUFFICES ASSUME NEW m \in Nodes
               PROVE  /\ term'[m] >= term[m] /\ NewestTerm(m)' >= NewestTerm(m)
                      /\ IsLeader(m)' => IsLeader(m)
                      /\ role'[m] = "elect" => role[m] = "elect"
    BY <1>3 DEF TermsGrow
  <2>1. term'[m] >= term[m] /\ NewestTerm(m)' >= NewestTerm(m)
    BY <1>1, <1>3 DEF NewestTerm
  <2>2. role'[m] = IF m = n THEN r ELSE role[m]
    BY <1>2 DEF ElectionTypes
  <2> QED BY <1>2, <2>1, <2>2 DEF IsLeader
<1> QED BY <1>4, <1>5, <1>6

\* A primary's commit point is at an optime.
LEMMA CommitPointTypes ==
    ASSUME CommitTypes, NEW p \in Nodes, NEW l \in Seq(1..MaxTerm), Len(l) \in 1..MaxLog,
           NEW k \in [Nodes -> OpTimes], UpdateCommitPoint(p, l, k)
    PROVE  CommitTypes'
<1>1. MajorityOpTime(p, l, k) \in OpTimes
  BY MajorityOpTimeFacts
<1> QED BY <1>1 DEF UpdateCommitPoint, CommitTypes

-----------------------------------------------------------------------------
(* Every step keeps the types. *)

\* The first states have the types.
LEMMA TypesStart == Init => TypeInv
<1> SUFFICES ASSUME Init PROVE TypeInv
  OBVIOUS
<1>1. LogTypes
  BY LogAssumption DEF Init, LogTypes
<1>2. \A m \in Nodes : Last(log[m]) \in 1..MaxTerm
  <2> TAKE m \in Nodes
  <2>1. log[m] \in Seq(1..MaxTerm) /\ Len(log[m]) \in 1..MaxLog
    BY <1>1 DEF LogTypes
  <2> QED BY <2>1, LastFacts
<1> DEFINE S == {Last(log[m]) : m \in Nodes}
<1>3. S \in SUBSET (0..MaxTerm) /\ S # {} /\ S \in SUBSET (1..MaxTerm)
  BY <1>2, NodeAssumption, BoundAssumption
<1>4. Max(S) \in 1..MaxTerm
  BY <1>3, MaxFacts, BoundAssumption
<1>5. ElectionTypes
  BY <1>4, BoundAssumption DEF Init, ElectionTypes, Roles
<1>6. ReportTypes
  BY BoundAssumption DEF Init, ReportTypes, OpTimes
<1>7. CommitTypes
  BY BoundAssumption DEF Init, CommitTypes, OpTimes
<1> QED BY <1>1, <1>5, <1>6, <1>7 DEF TypeInv

\* Every action keeps them.
LEMMA TypesKept == TypeInv /\ [Next]_vars => TypeInv'
<1> SUFFICES ASSUME TypeInv, [Next]_vars PROVE TypeInv'
  OBVIOUS
<1>0. ElectionTypes /\ LogTypes /\ ReportTypes /\ CommitTypes
  BY DEF TypeInv
<1>e. UNCHANGED election => ElectionTypes'
  BY <1>0 DEF ElectionTypes, election
<1>l. UNCHANGED log => LogTypes'
  BY <1>0 DEF LogTypes
<1>r. UNCHANGED <<known, report, events>> => ReportTypes'
  BY <1>0 DEF ReportTypes
<1>c. UNCHANGED commit => CommitTypes'
  BY <1>0 DEF CommitTypes
<1>b. \A n \in Nodes : /\ log[n] \in Seq(1..MaxTerm) /\ Len(log[n]) \in 1..MaxLog
                       /\ DOMAIN log[n] = 1..Len(log[n]) /\ term[n] \in 1..MaxTerm
  BY <1>0 DEF LogTypes, ElectionTypes
<1>1. ASSUME NEW n \in Nodes, FinishStepDown(n) PROVE TypeInv'
  BY <1>0, <1>1, <1>l, <1>r, <1>c, FinishStepDownFacts DEF FinishStepDown, TypeInv
<1>s. ASSUME NEW n \in Nodes, StepDownSelf(n) \/ StepDown(n) PROVE TypeInv'
  <2>1. /\ UNCHANGED <<log, known, report, commit>>
        /\ events < MaxEvents /\ events' = events + 1
    BY <1>s DEF StepDownSelf, StepDown
  <2>2. ReportTypes'
    BY <1>0, <2>1, BoundAssumption DEF ReportTypes
  <2> QED BY <1>0, <1>s, <1>l, <1>c, <2>1, <2>2, StepDownFacts DEF TypeInv
<1>2. ASSUME NEW n \in Nodes, NEW voters \in SUBSET Nodes, WinElection(n, voters)
      PROVE  TypeInv'
  <2>1. ElectionTypes'
    <3>1. term[n] + 1 \in 1..MaxTerm /\ role[n] = "follower"
      BY <1>2, <1>b, BoundAssumption DEF WinElection
    <3>2. term' \in [Nodes -> 1..MaxTerm]
      BY <1>2, <1>b, <3>1 DEF WinElection
    <3> QED BY <1>0, <1>2, <3>1, <3>2 DEF WinElection, ElectionTypes, Roles
  <2> QED BY <1>2, <1>l, <1>r, <1>c, <2>1 DEF WinElection, TypeInv
<1>3. ASSUME NEW n \in Nodes, NEW t \in 1..MaxTerm, log' = [log EXCEPT ![n] = Append(@, t)],
             Len(log[n]) < MaxLog
      PROVE  LogTypes'
  <2>1. /\ Append(log[n], t) \in Seq(1..MaxTerm)
        /\ Len(Append(log[n], t)) \in 1..MaxLog /\ Append(log[n], t)[1] = log[n][1]
    BY <1>3, <1>b, BoundAssumption
  <2> QED BY <1>0, <1>3, <2>1 DEF LogTypes
<1>4. ASSUME NEW n \in Nodes, CompleteTransition(n) PROVE TypeInv'
  <2>1. ElectionTypes'
    BY <1>0, <1>4 DEF CompleteTransition, ElectionTypes, Roles
  <2> QED BY <1>3, <1>4, <1>b, <1>r, <1>c, <2>1 DEF CompleteTransition, TypeInv
<1>5. ASSUME NEW n \in Nodes, Write(n) PROVE TypeInv'
  <2>1. LogTypes'
    BY <1>3, <1>5, <1>b DEF Write
  <2>2. CommitTypes'
    BY <1>0, <1>5, <2>1, CommitPointTypes DEF Write, LogTypes, ReportTypes
  <2> QED BY <1>5, <1>e, <1>r, <2>1, <2>2 DEF Write, TypeInv
<1>6. ASSUME NEW n \in Nodes, ReceiveTerm(n) PROVE TypeInv'
  <2>1. report[n] \in Reports
    BY <1>0, <1>6 DEF ReceiveTerm, ReportTypes
  <2>2. report[n].to \in Nodes /\ report[n].term \in 0..MaxTerm
    BY <2>1, BoundAssumption DEF Reports
  <2>3. ElectionTypes'
    BY <1>0, <1>6, <2>2, UpdateTermFacts DEF ReceiveTerm, ReportedTerm
  <2>4. ReportTypes'
    BY <1>0, <1>6, <2>1 DEF ReceiveTerm, ReportTypes, Reports
  <2> QED BY <1>6, <1>l, <1>c, <2>3, <2>4 DEF ReceiveTerm, TypeInv
<1>7. ASSUME NEW n \in Nodes, ReceivePositions(n) PROVE TypeInv'
  <2>1. report[n] \in Reports
    BY <1>0, <1>7 DEF ReceivePositions, ReportTypes
  <2> DEFINE s == report[n].to
             k == [m \in Nodes |-> IF m = s THEN known[s][m]
                                   ELSE Greater(known[s][m], report[n].positions[m])]
  <2>2. s \in Nodes /\ report[n].positions \in [Nodes -> OpTimes]
    BY <2>1 DEF Reports
  <2>3. k \in [Nodes -> OpTimes]
    BY <1>0, <2>2 DEF ReportTypes, Greater
  <2>4. /\ known' = [known EXCEPT ![s] = k] /\ UpdateCommitPoint(s, log[s], k)
        /\ report' = [report EXCEPT ![n] = NoReport]
        /\ UNCHANGED <<log, election, events, failed>>
    BY <1>7 DEF ReceivePositions
  <2> HIDE DEF k, s
  <2>5. CommitTypes'
    BY <1>0, <1>b, <2>2, <2>3, <2>4, CommitPointTypes
  <2>6. ReportTypes'
    BY <1>0, <2>2, <2>3, <2>4 DEF ReportTypes
  <2> QED BY <1>e, <1>l, <2>4, <2>5, <2>6 DEF TypeInv
<1>8. ASSUME NEW n \in Nodes, NEW m \in Nodes, Heartbeat(n, m) PROVE TypeInv'
  <2>1. ElectionTypes'
    BY <1>0, <1>8, <1>b, BoundAssumption, UpdateTermFacts DEF Heartbeat
  <2> QED BY <1>8, <1>l, <1>r, <1>c, <2>1 DEF Heartbeat, TypeInv
<1>9. ASSUME NEW n \in Nodes, NEW m \in Nodes, NEW e \in {0, 1}, Fetch(n, m, e)
      PROVE  TypeInv'
  <2>1. ElectionTypes'
    BY <1>0, <1>9, <1>b, BoundAssumption, UpdateTermFacts DEF Fetch
  <2> DEFINE more == SubSeq(log[m], Len(log[n]) + 1, Len(log[n]) + e)
             l == log[n] \o more
  <2>2. e <= Len(log[m]) - Len(log[n]) /\ log' = [log EXCEPT ![n] = l]
    BY <1>9 DEF Fetch
  <2>3. more \in Seq(1..MaxTerm) /\ Len(more) = e
    BY <1>b, <2>2, BoundAssumption
  <2> HIDE DEF more
  <2>4. l \in Seq(1..MaxTerm) /\ Len(l) \in 1..MaxLog /\ l[1] = log[n][1]
    BY <1>b, <2>2, <2>3, BoundAssumption
  <2>5. LogTypes'
    BY <1>0, <2>2, <2>4 DEF LogTypes
  <2>6. CommitTypes'
    BY <1>0, <1>9 DEF Fetch, CommitTypes, Greater
  <2> QED BY <1>9, <1>r, <2>1, <2>5, <2>6 DEF Fetch, TypeInv
<1>10. ASSUME NEW n \in Nodes, NEW m \in Nodes, Rollback(n, m) PROVE TypeInv'
  <2> DEFINE i == Common(log[n], log[m])
  <2>1. i \in 1..Len(log[n])
    <3>1. i \in 0..Len(log[n])
      BY <1>b, CommonFacts
    <3>2. 1 \in 0..Len(log[n]) /\ 1 <= Len(log[m]) /\ \A x \in 1..1 : log[n][x] = log[m][x]
      BY <1>0, <1>b DEF LogTypes
    <3>3. 1 <= i
      BY <1>b, <3>2, CommonFacts
    <3> QED BY <3>1, <3>3, <1>b
  <2>2. log' = log \/ log' = [log EXCEPT ![n] = SubSeq(@, 1, i)]
    BY <1>10 DEF Rollback
  <2> HIDE DEF i
  <2>3. /\ SubSeq(log[n], 1, i) \in Seq(1..MaxTerm) /\ Len(SubSeq(log[n], 1, i)) \in 1..MaxLog
        /\ SubSeq(log[n], 1, i)[1] = log[n][1]
    BY <1>b, <2>1, BoundAssumption
  <2>4. LogTypes'
    BY <1>0, <2>2, <2>3 DEF LogTypes
  <2> QED BY <1>10, <1>e, <1>r, <1>c, <2>4 DEF Rollback, TypeInv
<1>11. ASSUME NEW n \in Nodes, NEW m \in Nodes, SendReport(n, m) PROVE TypeInv'
  <2> DEFINE positions == [x \in Nodes |-> Position(n, log[n], known[n], x)]
  <2>1. positions \in [Nodes -> OpTimes]
    BY <1>0, <1>b, LastFacts DEF ReportTypes, Position
  <2>2. /\ report' = [report EXCEPT ![n] =
                [to |-> m, term |-> term[n], step |-> "term", positions |-> positions]]
        /\ events < MaxEvents /\ events' = events + 1 /\ known' = known
    BY <1>11 DEF SendReport
  <2> HIDE DEF positions
  <2>3. ReportTypes'
    BY <1>0, <1>b, <2>1, <2>2, BoundAssumption DEF ReportTypes, Reports
  <2> QED BY <1>11, <1>e, <1>l, <1>c, <2>3 DEF SendReport, TypeInv
<1>12. CASE UNCHANGED vars
  BY <1>12, <1>e, <1>l, <1>r, <1>c DEF vars, TypeInv
<1> QED BY <1>1, <1>s, <1>2, <1>4, <1>5, <1>6, <1>7, <1>8, <1>9, <1>10, <1>11, <1>12 DEF Next

-----------------------------------------------------------------------------
(* The steps that write no entry and elect nobody: what they have in common, and *)
(* why that keeps the invariant.                                                *)

OccursKept == \A o \in OpTimes : Occurs(o)' => Occurs(o)
PrefixOfOld == \A n \in Nodes : \E m \in Nodes : Includes(log[m], log'[n])
LeadersExtend == \A n \in Nodes : IsLeader(n)' => Includes(log'[n], log[n])
AcksKept ==
    \A v \in Nodes, t \in Terms, i \in Places :
        Acked(v, t, i)' => Acked(v, t, i) \/ (term[v] <= t /\ Supports(v, t, i))

\* A member extends its oplog, or returns at most to what it shares with a fresher one.
Returns(v, s) ==
    /\ ~Leq(LastApplied(s), LastApplied(v))
    /\ \A j \in DOMAIN log[v] :
        j <= Len(log[s]) /\ (\A x \in 1..j : log[v][x] = log[s][x]) =>
            j <= Len(log'[v]) /\ \A x \in 1..j : log'[v][x] = log[v][x]
ExtendsOrReturns ==
    \A v \in Nodes : Includes(log'[v], log[v]) \/ \E s \in Nodes : Returns(v, s)

QuietStep ==
    /\ SteppingInv' /\ TermsGrow
    /\ OccursKept /\ PrefixOfOld /\ LeadersExtend /\ AcksKept /\ ExtendsOrReturns

\* What the types say of a member's oplog.
LEMMA LogFacts ==
    ASSUME LogTypes, NEW n \in Nodes
    PROVE  /\ log[n] \in Seq(1..MaxTerm) /\ Len(log[n]) \in 1..MaxLog
           /\ Len(log[n]) \in Nat /\ DOMAIN log[n] = 1..Len(log[n])
           /\ Len(log[n]) \in DOMAIN log[n]
           /\ \A i \in DOMAIN log[n] : log[n][i] \in 1..MaxTerm /\ log[n][i] \in Nat
           /\ LastApplied(n) = <<log[n][Len(log[n])], Len(log[n])>>
           /\ LastApplied(n) \in OpTimes
<1>1. log[n] \in Seq(1..MaxTerm) /\ Len(log[n]) \in 1..MaxLog
  BY DEF LogTypes
<1>2. \A i \in DOMAIN log[n] : log[n][i] \in 1..MaxTerm
  BY <1>1, LastFacts
<1> QED BY <1>1, <1>2, LastFacts, BoundAssumption DEF LastApplied

\* A part of an oplog is sorted and matches what the oplog matches.
LEMMA PrefixFacts ==
    ASSUME NEW a \in Seq(1..MaxTerm), NEW b \in Seq(1..MaxTerm),
           NEW c \in Seq(1..MaxTerm), NEW d \in Seq(1..MaxTerm),
           Includes(c, a), Includes(d, b), Match(c, d), Sorted(c)
    PROVE  Match(a, b) /\ Sorted(a)
<1>1. /\ DOMAIN a = 1..Len(a) /\ DOMAIN b = 1..Len(b)
      /\ DOMAIN c = 1..Len(c) /\ DOMAIN d = 1..Len(d)
      /\ Len(a) \in Nat /\ Len(b) \in Nat /\ Len(c) \in Nat /\ Len(d) \in Nat
  OBVIOUS
<1>2. Sorted(a)
  BY <1>1 DEF Sorted, Includes
<1>3. ASSUME NEW i \in DOMAIN a, NEW j \in DOMAIN b, i <= j, a[i] = b[j], NEW x \in 1..i
      PROVE  a[x] = b[x]
  <2>1. i \in DOMAIN c /\ j \in DOMAIN d /\ c[i] = d[j]
    BY <1>1, <1>3 DEF Includes
  <2>2. c[x] = d[x]
    BY <1>3, <2>1 DEF Match
  <2>3. x \in DOMAIN a /\ x \in DOMAIN b
    BY <1>1, <1>3
  <2> QED BY <2>2, <2>3 DEF Includes
<1> QED BY <1>2, <1>3 DEF Match

\* After a quiet step the oplogs still agree.
LEMMA QuietLogs ==
    ASSUME LogTypes, LogTypes', LogInv, PrefixOfOld
    PROVE  LogInv'
<1> SUFFICES ASSUME NEW n \in Nodes, NEW m \in Nodes
             PROVE  log'[n][1] = 1 /\ Sorted(log'[n]) /\ Match(log'[n], log'[m])
  BY DEF LogInv
<1>1. log'[n] \in Seq(1..MaxTerm) /\ log'[m] \in Seq(1..MaxTerm) /\ log'[n][1] = 1
  BY DEF LogTypes
<1>2. PICK p \in Nodes : Includes(log[p], log'[n])
  BY DEF PrefixOfOld
<1>3. PICK q \in Nodes : Includes(log[q], log'[m])
  BY DEF PrefixOfOld
<1>4. /\ log[p] \in Seq(1..MaxTerm) /\ log[q] \in Seq(1..MaxTerm)
      /\ Match(log[p], log[q]) /\ Sorted(log[p])
  BY DEF LogTypes, LogInv
<1> QED BY <1>1, <1>2, <1>3, <1>4, PrefixFacts

\* A majority that knows a term goes on to know it.
LEMMA MajorityAtKept ==
    ASSUME ElectionTypes, ElectionTypes', \A m \in Nodes : term'[m] >= term[m],
           NEW t \in Nat, MajorityAt(t)
    PROVE  MajorityAt(t)'
<1> DEFINE P == {v \in Nodes : term[v] >= t}
           Q == {v \in Nodes : term'[v] >= t}
<1>1. P \in SUBSET Q
  <2> SUFFICES ASSUME NEW v \in Nodes, term[v] >= t PROVE term'[v] >= t
    OBVIOUS
  <2>1. term[v] \in Nat /\ term'[v] \in Nat
    BY DEF ElectionTypes
  <2> QED BY <2>1
<1>2. IsMajority(P) /\ Q \in SUBSET Nodes
  BY DEF MajorityAt
<1> HIDE DEF P
<1>3. IsMajority(Q)
  BY <1>1, <1>2, MajorityGrows
<1> QED BY <1>3 DEF MajorityAt

\* A quiet step brings no optime and no leader that was not there.
LEMMA QuietTerms ==
    ASSUME ElectionTypes, ElectionTypes', LogTypes, LogTypes', TermInv,
           SteppingInv', TermsGrow, OccursKept, LeadersExtend
    PROVE  TermInv'
<1>0. \A m \in Nodes : term'[m] >= term[m]
  BY DEF TermsGrow
<1>1. \A o \in OpTimes : Occurs(o)' => MajorityAt(o[1])'
  <2> SUFFICES ASSUME NEW o \in OpTimes, Occurs(o)' PROVE MajorityAt(o[1])'
    OBVIOUS
  <2>1. MajorityAt(o[1]) /\ o[1] \in Nat
    BY OpTimeFacts DEF OccursKept, TermInv
  <2> QED BY <1>0, <2>1, MajorityAtKept
<1>2. ASSUME NEW p \in Nodes, IsLeader(p)'
      PROVE  /\ MajorityAt(term[p])'
             /\ \A q \in Nodes : IsLeader(q)' /\ term'[q] = term'[p] => q = p
             /\ \A o \in OpTimes : Occurs(o)' /\ o[1] = term'[p] =>
                    o[2] <= Len(log'[p]) /\ log'[p][o[2]] = o[1]
             /\ role'[p] = "elect" => \A i \in DOMAIN log'[p] : log'[p][i] # term'[p]
             /\ pending'[p] # 0 => pending'[p] > term'[p]
  <2>1. IsLeader(p) /\ term'[p] = term[p] /\ term[p] \in Nat
    BY <1>2 DEF TermsGrow, ElectionTypes
  <2>2. MajorityAt(term[p])'
    <3>1. MajorityAt(term[p])
      BY <2>1 DEF TermInv
    <3>2. PICK t \in Nat : t = term[p]
      BY <2>1
    <3>3. MajorityAt(t)'
      BY <1>0, <3>1, <3>2, MajorityAtKept
    <3> QED BY <2>1, <3>2, <3>3
  <2>3. \A q \in Nodes : IsLeader(q)' /\ term'[q] = term'[p] => q = p
    BY <2>1 DEF TermsGrow, TermInv
  <2>4. \A o \in OpTimes : Occurs(o)' /\ o[1] = term'[p] =>
            o[2] <= Len(log[p]) /\ log[p][o[2]] = o[1] /\ o[2] \in DOMAIN log[p]
    <3> SUFFICES ASSUME NEW o \in OpTimes, Occurs(o)', o[1] = term[p]
                 PROVE  o[2] <= Len(log[p]) /\ log[p][o[2]] = o[1] /\ o[2] \in DOMAIN log[p]
      BY <2>1
    <3>1. o[2] <= Len(log[p]) /\ log[p][o[2]] = o[1]
      BY <2>1 DEF OccursKept, TermInv
    <3>2. o[2] \in Nat /\ o[2] # 0
      BY OpTimeFacts DEF ElectionTypes
    <3> QED BY <3>1, <3>2, LogFacts
  <2>5. Includes(log'[p], log[p]) /\ Len(log'[p]) \in Nat
    BY <1>2 DEF LeadersExtend, LogTypes
  <2>6. \A o \in OpTimes : Occurs(o)' /\ o[1] = term'[p] =>
            o[2] <= Len(log'[p]) /\ log'[p][o[2]] = o[1]
    <3> SUFFICES ASSUME NEW o \in OpTimes, Occurs(o)', o[1] = term'[p]
                 PROVE  o[2] <= Len(log'[p]) /\ log'[p][o[2]] = o[1]
      OBVIOUS
    <3>1. o[2] <= Len(log[p]) /\ log[p][o[2]] = o[1] /\ o[2] \in DOMAIN log[p]
      BY <2>4
    <3>2. o[2] \in Nat /\ Len(log[p]) \in Nat
      BY OpTimeFacts, LogFacts
    <3> QED BY <2>5, <3>1, <3>2 DEF Includes
  <2>7. role'[p] = "elect" => \A i \in DOMAIN log'[p] : log'[p][i] # term'[p]
    <3> SUFFICES ASSUME role'[p] = "elect", NEW i \in DOMAIN log'[p], log'[p][i] = term'[p]
                 PROVE  FALSE
      OBVIOUS
    <3>1. <<log'[p][i], i>> \in OpTimes
      BY LastFacts DEF LogTypes
    <3>2. PICK o \in OpTimes : o = <<log'[p][i], i>>
      BY <3>1
    <3>3. Occurs(o)' /\ o[1] = term'[p] /\ o[2] = i
      BY <3>2 DEF Occurs
    <3>4. i \in DOMAIN log[p] /\ log[p][i] = term[p]
      BY <2>1, <2>4, <3>3
    <3>5. role[p] = "elect"
      BY DEF TermsGrow
    <3> QED BY <2>1, <3>4, <3>5 DEF TermInv
  <2> QED BY <2>2, <2>3, <2>6, <2>7 DEF SteppingInv
<1> QED BY <1>1, <1>2 DEF TermInv

\* An entry of an oplog is not after its last one.
LEMMA LastIsGreatest ==
    ASSUME NEW l \in Seq(1..MaxTerm), Len(l) \in 1..MaxLog, Sorted(l),
           NEW t \in Terms, NEW i \in Places, NEW j \in DOMAIN l, i <= j, t <= l[j]
    PROVE  Leq(<<t, i>>, <<l[Len(l)], Len(l)>>)
<1>1. l[j] <= l[Len(l)] /\ j <= Len(l)
  BY LastFacts DEF Sorted
<1>2. t \in Nat /\ i \in Nat /\ j \in Nat /\ l[j] \in Nat /\ l[Len(l)] \in Nat /\ Len(l) \in Nat
  BY LastFacts, BoundAssumption DEF Terms, Places
<1> QED BY <1>1, <1>2 DEF Leq

\* A member that has an entry keeps it, when everybody who is as fresh has it as well.
LEMMA SupportsKept ==
    ASSUME LogTypes, LogTypes', LogInv, LogInv', TermsGrow, ExtendsOrReturns,
           NEW v \in Nodes, NEW t \in Terms, NEW i \in Places, Supports(v, t, i),
           \A s \in Nodes : Leq(<<t, i>>, LastApplied(s)) =>
                                Reaches(log[s], Len(log[s]), t, i)
    PROVE  Supports(v, t, i)'
<1>1. t \in Nat /\ i \in Nat
  BY BoundAssumption DEF Terms, Places
<1>2. IsLeader(v)' => term'[v] >= t
  BY DEF TermsGrow, Supports
<1>3. PICK j \in DOMAIN log[v] : i <= j /\ log[v][j] = t
  BY DEF Supports, Reaches
<1>4. /\ log'[v] \in Seq(1..MaxTerm) /\ Len(log'[v]) \in 1..MaxLog /\ Sorted(log'[v])
      /\ LastApplied(v)' = <<log'[v][Len(log'[v])], Len(log'[v])>>
      /\ DOMAIN log'[v] = 1..Len(log'[v]) /\ Len(log'[v]) \in Nat
  BY LastFacts DEF LogTypes, LogInv, LastApplied
<1>5. SUFFICES \E x \in DOMAIN log'[v] : i <= x /\ log'[v][x] = t
  <2>1. PICK x \in DOMAIN log'[v] : i <= x /\ log'[v][x] = t
    BY <1>5
  <2>2. Leq(<<t, i>>, <<log'[v][Len(log'[v])], Len(log'[v])>>)
    BY <1>1, <1>4, <2>1, LastIsGreatest
  <2> QED BY <1>2, <1>4, <2>2 DEF Supports
<1>6. CASE Includes(log'[v], log[v])
  <2>1. j \in DOMAIN log'[v] /\ log'[v][j] = t
    BY <1>3, <1>4, <1>6, LogFacts DEF Includes
  <2> QED BY <1>3, <2>1
<1>7. ASSUME NEW s \in Nodes, Returns(v, s) PROVE \E x \in DOMAIN log'[v] : i <= x /\ log'[v][x] = t
  <2>1. Leq(<<t, i>>, LastApplied(s))
    <3>1. /\ Leq(<<t, i>>, LastApplied(v)) /\ ~Leq(LastApplied(s), LastApplied(v))
      BY <1>7 DEF Returns, Supports
    <3>2. /\ LastApplied(v)[1] \in Nat /\ LastApplied(v)[2] \in Nat
          /\ LastApplied(s)[1] \in Nat /\ LastApplied(s)[2] \in Nat
      BY LogFacts, OpTimeFacts
    <3> QED BY <1>1, <3>1, <3>2 DEF Leq
  <2>2. PICK k \in DOMAIN log[s] : i <= k /\ log[s][k] = t
    BY <2>1 DEF Reaches
  <2>3. j \in Nat /\ k \in Nat /\ 1 <= j /\ 1 <= k
    BY <1>3, <2>2, LogFacts
  <2>4. Match(log[v], log[s]) /\ Match(log[s], log[v])
    BY DEF LogInv
  <2>5. PICK x \in DOMAIN log[v] : /\ i <= x /\ log[v][x] = t /\ x <= Len(log[s])
                                   /\ \A y \in 1..x : log[v][y] = log[s][y]
    <3>1. CASE j <= k
      <4>1. \A y \in 1..j : log[v][y] = log[s][y]
        BY <1>3, <2>2, <2>4, <3>1 DEF Match
      <4> QED BY <1>3, <2>2, <2>3, <3>1, <4>1, LogFacts
    <3>2. CASE k <= j
      <4>1. \A y \in 1..k : log[v][y] = log[s][y]
        BY <1>3, <2>2, <2>4, <3>2 DEF Match
      <4>2. k \in DOMAIN log[v] /\ k <= Len(log[s]) /\ k \in 1..k
        BY <1>3, <2>2, <2>3, <3>2, LogFacts
      <4> QED BY <2>2, <4>1, <4>2
    <3> QED BY <2>3, <3>1, <3>2
  <2>6. x <= Len(log'[v]) /\ \A y \in 1..x : log'[v][y] = log[v][y]
    BY <1>7, <2>5 DEF Returns
  <2>7. x \in Nat /\ 1 <= x
    BY LogFacts
  <2>8. x \in DOMAIN log'[v] /\ log'[v][x] = t
    BY <1>4, <2>5, <2>6, <2>7
  <2> QED BY <2>5, <2>8
<1> QED BY <1>6, <1>7 DEF ExtendsOrReturns

\* What will never be chosen is never chosen.
LEMMA UnchosenKept ==
    ASSUME ElectionTypes, ElectionTypes', \A m \in Nodes : term'[m] >= term[m], AcksKept,
           NEW t \in Terms, NEW i \in Places, Unchosen(t, i)
    PROVE  Unchosen(t, i)'
<1>1. PICK Q \in SUBSET Nodes :
        IsMajority(Q) /\ \A v \in Q : term[v] > t /\ ~Acked(v, t, i)
  BY DEF Unchosen
<1>2. ASSUME NEW v \in Q PROVE term'[v] > t /\ ~Acked(v, t, i)'
  <2>1. term[v] \in Nat /\ term'[v] \in Nat /\ t \in Nat /\ v \in Nodes
    BY BoundAssumption DEF ElectionTypes, Terms
  <2>2. term[v] > t /\ ~Acked(v, t, i) /\ term'[v] >= term[v]
    BY <1>1, <2>1
  <2>3. ~(term[v] <= t)
    BY <2>1, <2>2
  <2> QED BY <2>1, <2>2, <2>3 DEF AcksKept
<1> QED BY <1>1, <1>2 DEF Unchosen

\* Whoever is as fresh as an entry that is inherited has it.
LEMMA InheritedFacts ==
    ASSUME LogTypes, NEW t \in Terms, NEW i \in Places, Inherited(t, i),
           NEW s \in Nodes, Leq(<<t, i>>, LastApplied(s))
    PROVE  Reaches(log[s], Len(log[s]), t, i)
<1> DEFINE k == Len(log[s])
<1>1. /\ k \in DOMAIN log[s] /\ LastApplied(s) = <<log[s][k], k>>
      /\ log[s][k] \in Nat /\ k \in Nat /\ t \in Nat /\ i \in Nat
  BY LogFacts, BoundAssumption DEF Terms, Places
<1> HIDE DEF k
<1>2. log[s][k] > t \/ (log[s][k] = t /\ i <= k)
  BY <1>1 DEF Leq
<1>3. CASE log[s][k] > t
  BY <1>1, <1>3 DEF Inherited, k
<1>4. CASE log[s][k] = t /\ i <= k
  <2>1. k <= k
    BY <1>1
  <2>2. Reaches(log[s], k, t, i)
    BY <1>1, <1>4, <2>1 DEF Reaches
  <2> QED BY <2>2 DEF k
<1> QED BY <1>2, <1>3, <1>4

\* A quiet step leaves inherited what was, or nobody will choose it.
LEMMA QuietChosen ==
    ASSUME ElectionTypes, ElectionTypes', LogTypes, LogTypes', LogInv, LogInv',
           ChosenInv, QuietStep
    PROVE  ChosenInv'
<1>0. TermsGrow /\ OccursKept /\ PrefixOfOld /\ LeadersExtend /\ AcksKept /\ ExtendsOrReturns
  BY DEF QuietStep
<1> SUFFICES ASSUME NEW t \in Terms, NEW i \in Places
             PROVE  Unchosen(t, i)' \/ Inherited(t, i)'
  BY DEF ChosenInv, Terms, Places
<1>1. CASE Unchosen(t, i)
  <2>1. \A m \in Nodes : term'[m] >= term[m]
    BY <1>0 DEF TermsGrow
  <2> QED BY <1>0, <1>1, <2>1, UnchosenKept
<1>2. CASE Inherited(t, i)
  <2>1. ASSUME NEW n \in Nodes, NEW k \in DOMAIN log'[n], log'[n][k] > t
        PROVE  Reaches(log'[n], k, t, i)
    <3>1. PICK m \in Nodes : Includes(log[m], log'[n])
      BY <1>0 DEF PrefixOfOld
    <3>2. /\ DOMAIN log'[n] = 1..Len(log'[n]) /\ Len(log'[n]) \in Nat
          /\ DOMAIN log[m] = 1..Len(log[m]) /\ Len(log[m]) \in Nat
      BY LogFacts DEF LogTypes
    <3>3. k \in DOMAIN log[m] /\ log[m][k] > t
      BY <2>1, <3>1, <3>2 DEF Includes
    <3>4. PICK j \in DOMAIN log[m] : i <= j /\ j <= k /\ log[m][j] = t
      BY <1>2, <3>3 DEF Inherited, Reaches
    <3>5. j \in DOMAIN log'[n]
      BY <2>1, <3>2, <3>4
    <3>6. log'[n][j] = t
      BY <3>1, <3>4, <3>5 DEF Includes
    <3> QED BY <3>4, <3>5, <3>6 DEF Reaches
  <2>2. ASSUME NEW n \in Nodes, role'[n] = "elect", term'[n] > t
        PROVE  Reaches(log'[n], Len(log'[n]), t, i)
    <3>1. IsLeader(n)' /\ role[n] = "elect" /\ term'[n] = term[n]
      BY <1>0, <2>2 DEF TermsGrow, IsLeader
    <3>2. PICK j \in DOMAIN log[n] : i <= j /\ log[n][j] = t
      BY <1>2, <2>2, <3>1 DEF Inherited, Reaches
    <3>3. Includes(log'[n], log[n])
      BY <1>0, <3>1 DEF LeadersExtend
    <3>4. /\ DOMAIN log'[n] = 1..Len(log'[n]) /\ Len(log'[n]) \in Nat
          /\ DOMAIN log[n] = 1..Len(log[n]) /\ Len(log[n]) \in Nat
      BY LogFacts DEF LogTypes
    <3>5. j \in DOMAIN log'[n] /\ j <= Len(log'[n]) /\ log'[n][j] = t
      BY <3>2, <3>3, <3>4 DEF Includes
    <3> QED BY <3>2, <3>5 DEF Reaches
  <2>3. ASSUME NEW v \in Nodes, Acked(v, t, i)' PROVE Supports(v, t, i)'
    <3>1. Supports(v, t, i)
      BY <1>0, <1>2, <2>3 DEF AcksKept, Inherited
    <3>2. \A s \in Nodes : Leq(<<t, i>>, LastApplied(s)) =>
                                Reaches(log[s], Len(log[s]), t, i)
      BY <1>2, InheritedFacts
    <3> QED BY <1>0, <3>1, <3>2, SupportsKept
  <2>4. ASSUME i = MaxLog + 1
        PROVE  /\ \A o \in OpTimes : Occurs(o)' => o[1] <= t
               /\ \A n \in Nodes : IsLeader(n)' => term'[n] <= t
    BY <1>0, <1>2, <2>4 DEF Inherited, OccursKept, TermsGrow
  <2> QED BY <2>1, <2>2, <2>3, <2>4 DEF Inherited
<1> QED BY <1>1, <1>2 DEF ChosenInv

\* What h says about its last entry.
LEMMA HistoryFacts ==
    ASSUME NEW h \in Seq(1..MaxTerm), h # <<>>
    PROVE  /\ Len(h) \in Nat \ {0} /\ DOMAIN h = 1..Len(h) /\ Len(h) \in DOMAIN h
           /\ Last(h) = h[Len(h)] /\ Last(h) \in Terms
<1>1. Len(h) \in Nat \ {0} /\ DOMAIN h = 1..Len(h)
  OBVIOUS
<1>2. Len(h) \in DOMAIN h
  BY <1>1
<1>3. \A i \in DOMAIN h : h[i] \in 1..MaxTerm
  BY <1>1, BoundAssumption
<1> QED BY <1>1, <1>2, <1>3 DEF Last, Terms

\* A committed entry is in an oplog.
LEMMA HistoryOccurs ==
    ASSUME LogTypes, NEW h \in Seq(1..MaxTerm), HistoryOK(h)
    PROVE  /\ \E v \in Nodes : Includes(log[v], h)
           /\ Last(h) \in Terms /\ Len(h) \in 1..MaxLog
           /\ \A i \in DOMAIN h : <<h[i], i>> \in OpTimes /\ Occurs(<<h[i], i>>)
<1>1. h # <<>> /\ IsMajority({v \in Nodes : Supports(v, Last(h), Len(h))})
  BY DEF HistoryOK
<1> DEFINE Q == {v \in Nodes : Supports(v, Last(h), Len(h))}
<1>2. PICK v \in Nodes : v \in Q
  <2>1. Q \in SUBSET Nodes /\ IsMajority(Q)
    BY <1>1
  <2> HIDE DEF Q
  <2> QED BY <2>1, MajoritiesMeet
<1>3. Leq(<<Last(h), Len(h)>>, <<log[v][Len(log[v])], Len(log[v])>>)
  BY <1>2, LogFacts DEF Supports
<1>4. Includes(log[v], h)
  BY <1>3, LogFacts DEF HistoryOK
<1>5. Last(h) \in Terms /\ Len(h) \in 1..MaxLog
  BY <1>1, <1>4, HistoryFacts, LogFacts, BoundAssumption DEF Includes
<1>6. ASSUME NEW i \in DOMAIN h PROVE <<h[i], i>> \in OpTimes /\ Occurs(<<h[i], i>>)
  <2>1. i \in DOMAIN log[v] /\ log[v][i] = h[i]
    BY <1>1, <1>4, HistoryFacts, LogFacts DEF Includes
  <2>2. <<log[v][i], i>> \in OpTimes
    BY <2>1, LogFacts, LastFacts
  <2>3. Occurs(<<log[v][i], i>>)
    BY <2>1 DEF Occurs
  <2> QED BY <2>1, <2>2, <2>3
<1> QED BY <1>4, <1>5, <1>6

\* Whoever is as fresh as the last committed entry has it.
LEMMA HistoryReached ==
    ASSUME LogTypes, NEW h \in Seq(1..MaxTerm), HistoryOK(h),
           NEW s \in Nodes, Leq(<<Last(h), Len(h)>>, LastApplied(s))
    PROVE  Includes(log[s], h) /\ Reaches(log[s], Len(log[s]), Last(h), Len(h))
<1>1. /\ Len(h) \in Nat \ {0} /\ DOMAIN h = 1..Len(h) /\ Len(h) \in DOMAIN h
      /\ Last(h) = h[Len(h)]
  BY HistoryFacts DEF HistoryOK
<1>2. Includes(log[s], h)
  BY LogFacts DEF HistoryOK
<1>3. Len(h) \in DOMAIN log[s] /\ Len(h) <= Len(log[s]) /\ log[s][Len(h)] = Last(h)
  BY <1>1, <1>2, LogFacts DEF Includes
<1> QED BY <1>1, <1>2, <1>3 DEF Reaches

\* A quiet step takes the committed entries from nobody who counts for them.
LEMMA QuietHistory ==
    ASSUME LogTypes, LogTypes', LogInv, LogInv', QuietStep,
           NEW h \in Seq(1..MaxTerm), HistoryOK(h)
    PROVE  HistoryOK(h)'
<1>0. TermsGrow /\ PrefixOfOld /\ LeadersExtend /\ ExtendsOrReturns
  BY DEF QuietStep
<1>1. /\ h # <<>> /\ Len(h) \in Nat \ {0} /\ DOMAIN h = 1..Len(h) /\ Len(h) \in DOMAIN h
      /\ Last(h) \in Terms /\ Len(h) \in Places /\ Last(h) = h[Len(h)]
  BY HistoryFacts, HistoryOccurs, BoundAssumption DEF HistoryOK, Places
<1>2. ASSUME NEW n \in Nodes, NEW k \in DOMAIN log'[n],
             Leq(<<Last(h), Len(h)>>, <<log'[n][k], k>>)
      PROVE  Len(h) <= k /\ Includes(log'[n], h)
  <2>1. PICK m \in Nodes : Includes(log[m], log'[n])
    BY <1>0 DEF PrefixOfOld
  <2>2. /\ DOMAIN log'[n] = 1..Len(log'[n]) /\ Len(log'[n]) \in Nat
        /\ DOMAIN log[m] = 1..Len(log[m]) /\ Len(log[m]) \in Nat
    BY LogFacts DEF LogTypes
  <2>3. k \in DOMAIN log[m] /\ log[m][k] = log'[n][k]
    BY <2>1, <2>2 DEF Includes
  <2>4. Len(h) <= k /\ Includes(log[m], h)
    BY <1>2, <2>3 DEF HistoryOK
  <2>5. Len(h) <= Len(log'[n])
    BY <1>1, <2>2, <2>4
  <2>6. \A x \in DOMAIN h : x \in DOMAIN log'[n]
    BY <1>1, <2>2, <2>5
  <2> QED BY <2>1, <2>4, <2>5, <2>6 DEF Includes
<1>3. ASSUME NEW n \in Nodes, role'[n] = "elect", term'[n] > Last(h)
      PROVE  Includes(log'[n], h)
  <2>1. IsLeader(n)' /\ role[n] = "elect" /\ term'[n] = term[n]
    BY <1>0, <1>3 DEF TermsGrow, IsLeader
  <2>2. Includes(log[n], h) /\ Includes(log'[n], log[n])
    BY <1>0, <1>3, <2>1 DEF LeadersExtend, HistoryOK
  <2>3. /\ Len(log'[n]) \in Nat /\ DOMAIN log[n] = 1..Len(log[n]) /\ Len(log[n]) \in Nat
    BY LogFacts DEF LogTypes
  <2>4. \A x \in DOMAIN h : x \in DOMAIN log[n]
    BY <1>1, <2>2, <2>3 DEF Includes
  <2> QED BY <1>1, <2>2, <2>3, <2>4 DEF Includes
<1>4. \A s \in Nodes : Leq(<<Last(h), Len(h)>>, LastApplied(s)) =>
            Reaches(log[s], Len(log[s]), Last(h), Len(h))
  BY HistoryReached
<1> DEFINE P == {v \in Nodes : Supports(v, Last(h), Len(h))}
           Q == {v \in Nodes : Supports(v, Last(h), Len(h))'}
<1>5. P \in SUBSET Q
  BY <1>0, <1>1, <1>4, SupportsKept
<1>6. IsMajority(P) /\ Q \in SUBSET Nodes
  BY DEF HistoryOK
<1>7. IsMajority(Q)
  <2> HIDE DEF P, Q
  <2> QED BY <1>5, <1>6, MajorityGrows
<1> QED BY <1>1, <1>2, <1>3, <1>7 DEF HistoryOK

-----------------------------------------------------------------------------
(* Which steps are quiet. *)

\* Steps that leave the oplogs alone keep every support.
LEMMA SameLogs ==
    ASSUME LogTypes, UNCHANGED log
    PROVE  PrefixOfOld /\ LeadersExtend /\ ExtendsOrReturns
<1>1. \A n \in Nodes : Len(log[n]) <= Len(log[n])
  BY LogFacts
<1>2. \A n \in Nodes : Includes(log[n], log[n])
  BY <1>1 DEF Includes
<1> QED BY <1>2 DEF PrefixOfOld, LeadersExtend, ExtendsOrReturns

\* No report is new, and what is on the way is as it was sent.
OldReports ==
    \A n \in Nodes : report'[n] # NoReport =>
        /\ report[n] # NoReport
        /\ report'[n].term = report[n].term /\ report'[n].positions = report[n].positions

\* The newest term of a member is a term.
LEMMA NewestTermType ==
    ASSUME ElectionTypes, NEW n \in Nodes
    PROVE  NewestTerm(n) \in Nat /\ term[n] \in Nat /\ pending[n] \in Nat
BY BoundAssumption DEF ElectionTypes, NewestTerm

\* Steps that leave positions and reports alone count nobody anew.
LEMMA SameReports ==
    ASSUME ElectionTypes, ElectionTypes', \A n \in Nodes : NewestTerm(n)' >= NewestTerm(n),
           UNCHANGED known, OldReports
    PROVE  /\ AcksKept /\ (UNCHANGED log => OccursKept)
           /\ \A v \in Nodes, t \in Terms, i \in Places : Acked(v, t, i)' => Acked(v, t, i)
<1>1. UNCHANGED log => OccursKept
  BY DEF OccursKept, Occurs, OldReports
<1>2. ASSUME NEW v \in Nodes, NEW t \in Terms, NEW i \in Places, Acked(v, t, i)'
      PROVE  Acked(v, t, i)
  <2>1. CASE \E n \in Nodes : NewestTerm(n)' <= t /\ Leq(<<t, i>>, known'[n][v])
    <3>1. PICK n \in Nodes : NewestTerm(n)' <= t /\ Leq(<<t, i>>, known'[n][v])
      BY <2>1
    <3>2. NewestTerm(n) \in Nat /\ NewestTerm(n)' \in Nat /\ t \in Nat
      BY NewestTermType, BoundAssumption DEF ElectionTypes, NewestTerm, Terms
    <3>3. NewestTerm(n) <= t
      BY <3>1, <3>2
    <3> QED BY <3>1, <3>3 DEF Acked
  <2>2. CASE \E n \in Nodes : /\ report'[n] # NoReport /\ report'[n].term <= t
                              /\ Leq(<<t, i>>, report'[n].positions[v])
    BY <2>2 DEF OldReports, Acked
  <2> QED BY <1>2, <2>1, <2>2 DEF Acked
<1> QED BY <1>1, <1>2 DEF AcksKept

\* A new term that a heartbeat, a report or the end of a step down brings.
LEMMA TermStepIsQuiet ==
    ASSUME ElectionTypes, ElectionTypes', LogTypes, SteppingInv', TermsGrow,
           UNCHANGED <<log, known>>, OldReports
    PROVE  QuietStep
BY SameLogs, SameReports DEF QuietStep, TermsGrow

\* The positions of a report are merged into what its receiver knows.
LEMMA ReceivePositionsIsQuiet ==
    ASSUME TypeInv, TypeInv', TermInv, ReportInv, NEW n \in Nodes, ReceivePositions(n)
    PROVE  QuietStep
<1>0. ElectionTypes /\ LogTypes /\ ReportTypes
  BY DEF TypeInv
<1> DEFINE s == report[n].to
           k == [m \in Nodes |-> IF m = s THEN known[s][m]
                                 ELSE Greater(known[s][m], report[n].positions[m])]
<1>1. /\ report[n] # NoReport /\ report[n].step = "positions"
      /\ known' = [known EXCEPT ![s] = k] /\ report' = [report EXCEPT ![n] = NoReport]
      /\ UNCHANGED <<log, term, role, pending>>
  BY DEF ReceivePositions, election
<1>2. report[n] \in Reports /\ s \in Nodes
  BY <1>0, <1>1 DEF ReportTypes, Reports
<1>3. ASSUME NEW a \in Nodes, NEW m \in Nodes
      PROVE  known'[a][m] = known[a][m] \/ (a = s /\ known'[a][m] = report[n].positions[m])
  BY <1>0, <1>1, <1>2 DEF ReportTypes, Greater
<1>4. OldReports /\ \A a \in Nodes : report'[a] # NoReport => report'[a] = report[a]
  BY <1>0, <1>1 DEF OldReports, ReportTypes
<1> HIDE DEF s, k
<1>5. TermsGrow
  <2> SUFFICES ASSUME NEW m \in Nodes PROVE term[m] >= term[m] /\ NewestTerm(m) >= NewestTerm(m)
    BY <1>1 DEF TermsGrow, NewestTerm, IsLeader
  <2> QED BY <1>0, NewestTermType
<1>6. SteppingInv'
  BY <1>0, <1>1, PendingIsNewer DEF SteppingInv
<1>7. OccursKept
  <2> SUFFICES ASSUME NEW o \in OpTimes, Occurs(o)' PROVE Occurs(o)
    BY DEF OccursKept
  <2>1. CASE \E a \in Nodes : \E i \in DOMAIN log'[a] : o = <<log'[a][i], i>>
    BY <1>1, <2>1 DEF Occurs
  <2>2. CASE \E a, m \in Nodes : o = known'[a][m]
    BY <1>1, <1>3, <2>2 DEF Occurs
  <2>3. CASE \E a, m \in Nodes : report'[a] # NoReport /\ o = report'[a].positions[m]
    BY <1>4, <2>3 DEF Occurs
  <2> QED BY <2>1, <2>2, <2>3 DEF Occurs
<1>8. AcksKept
  <2> SUFFICES ASSUME NEW v \in Nodes, NEW t \in Terms, NEW i \in Places, Acked(v, t, i)'
               PROVE  Acked(v, t, i)
    BY DEF AcksKept
  <2>1. CASE \E a \in Nodes : NewestTerm(a)' <= t /\ Leq(<<t, i>>, known'[a][v])
    <3>1. PICK a \in Nodes : NewestTerm(a) <= t /\ Leq(<<t, i>>, known'[a][v])
      BY <1>1, <2>1 DEF NewestTerm
    <3>2. CASE known'[a][v] = known[a][v]
      BY <3>1, <3>2 DEF Acked
    <3>3. CASE a = s /\ known'[a][v] = report[n].positions[v]
      <4>1. NewestTerm(s) >= report[n].term
        BY <1>1 DEF ReportInv, s
      <4>2. report[n].term \in Nat /\ NewestTerm(s) \in Nat /\ t \in Nat
        BY <1>0, <1>2, NewestTermType, BoundAssumption DEF Reports, Terms
      <4>3. report[n].term <= t
        BY <3>1, <3>3, <4>1, <4>2
      <4> QED BY <1>1, <3>1, <3>3, <4>3 DEF Acked
    <3> QED BY <1>3, <3>2, <3>3
  <2>2. CASE \E a \in Nodes : /\ report'[a] # NoReport /\ report'[a].term <= t
                              /\ Leq(<<t, i>>, report'[a].positions[v])
    BY <1>4, <2>2 DEF Acked
  <2> QED BY <2>1, <2>2 DEF Acked
<1> QED BY <1>0, <1>1, <1>5, <1>6, <1>7, <1>8, SameLogs DEF QuietStep

\* A report carries what its sender knows and where its own oplog ends.
LEMMA SendReportIsQuiet ==
    ASSUME TypeInv, TypeInv', TermInv, NEW n \in Nodes, NEW s \in Nodes, SendReport(n, s)
    PROVE  QuietStep
<1>0. ElectionTypes /\ LogTypes /\ ReportTypes
  BY DEF TypeInv
<1> DEFINE positions == [m \in Nodes |-> Position(n, log[n], known[n], m)]
           r == [to |-> s, term |-> term[n], step |-> "term", positions |-> positions]
<1>1. /\ role[n] = "follower" /\ report' = [report EXCEPT ![n] = r]
      /\ UNCHANGED <<log, term, role, pending, known>>
  BY DEF SendReport, election
<1>2. ASSUME NEW m \in Nodes
      PROVE  r.positions[m] = known[n][m] \/ (m = n /\ r.positions[m] = LastApplied(n))
  BY DEF Position, LastApplied
<1>3. r.term = term[n]
  OBVIOUS
<1> HIDE DEF positions, r
<1>4. \A a \in Nodes : report'[a] = IF a = n THEN r ELSE report[a]
  BY <1>0, <1>1 DEF ReportTypes
<1>5. TermsGrow
  <2> SUFFICES ASSUME NEW m \in Nodes PROVE term[m] >= term[m] /\ NewestTerm(m) >= NewestTerm(m)
    BY <1>1 DEF TermsGrow, NewestTerm, IsLeader
  <2> QED BY <1>0, NewestTermType
<1>6. SteppingInv'
  BY <1>0, <1>1, PendingIsNewer DEF SteppingInv
<1>7. OccursKept
  <2> SUFFICES ASSUME NEW o \in OpTimes, Occurs(o)' PROVE Occurs(o)
    BY DEF OccursKept
  <2>1. CASE \E a \in Nodes : \E i \in DOMAIN log'[a] : o = <<log'[a][i], i>>
    BY <1>1, <2>1 DEF Occurs
  <2>2. CASE \E a, m \in Nodes : o = known'[a][m]
    BY <1>1, <2>2 DEF Occurs
  <2>3. CASE \E a, m \in Nodes : report'[a] # NoReport /\ o = report'[a].positions[m]
    <3>1. PICK a \in Nodes, m \in Nodes : report'[a] # NoReport /\ o = report'[a].positions[m]
      BY <2>3
    <3>2. CASE a # n
      BY <1>4, <3>1, <3>2 DEF Occurs
    <3>3. CASE a = n
      <4>1. o = known[n][m] \/ o = LastApplied(n)
        BY <1>2, <1>4, <3>1, <3>3
      <4>2. CASE o = LastApplied(n)
        <5>1. Len(log[n]) \in DOMAIN log[n] /\ o = <<log[n][Len(log[n])], Len(log[n])>>
          BY <1>0, <4>2, LogFacts
        <5> QED BY <5>1 DEF Occurs
      <4> QED BY <4>1, <4>2 DEF Occurs
    <3> QED BY <3>2, <3>3
  <2> QED BY <2>1, <2>2, <2>3 DEF Occurs
<1>8. AcksKept
  <2> SUFFICES ASSUME NEW v \in Nodes, NEW t \in Terms, NEW i \in Places, Acked(v, t, i)'
               PROVE  Acked(v, t, i) \/ (term[v] <= t /\ Supports(v, t, i))
    BY DEF AcksKept
  <2>1. CASE \E a \in Nodes : NewestTerm(a)' <= t /\ Leq(<<t, i>>, known'[a][v])
    BY <1>1, <2>1 DEF Acked, NewestTerm
  <2>2. CASE \E a \in Nodes : /\ report'[a] # NoReport /\ report'[a].term <= t
                              /\ Leq(<<t, i>>, report'[a].positions[v])
    <3>1. PICK a \in Nodes : /\ report'[a] # NoReport /\ report'[a].term <= t
                             /\ Leq(<<t, i>>, report'[a].positions[v])
      BY <2>2
    <3>2. CASE a # n
      BY <1>4, <3>1, <3>2 DEF Acked
    <3>3. CASE a = n
      <4>1. term[n] <= t /\ Leq(<<t, i>>, r.positions[v])
        BY <1>3, <1>4, <3>1, <3>3
      <4>2. CASE r.positions[v] = known[n][v]
        BY <1>0, <1>1, <4>1, <4>2 DEF Acked, NewestTerm, ElectionTypes
      <4>3. CASE v = n /\ r.positions[v] = LastApplied(n)
        BY <1>1, <4>1, <4>3 DEF Supports, IsLeader
      <4> QED BY <1>2, <4>2, <4>3
    <3> QED BY <3>2, <3>3
  <2> QED BY <2>1, <2>2 DEF Acked
<1> QED BY <1>0, <1>1, <1>5, <1>6, <1>7, <1>8, SameLogs DEF QuietStep

\* What a member fetches makes its oplog a part of the source's.
LEMMA ExtendFacts ==
    ASSUME NEW a \in Seq(1..MaxTerm), NEW b \in Seq(1..MaxTerm), NEW e \in {0, 1},
           Len(a) \in 1..MaxLog, Match(a, b), Has(b, OpTimeAt(a, Len(a))),
           e <= Len(b) - Len(a)
    PROVE  LET l == a \o SubSeq(b, Len(a) + 1, Len(a) + e)
           IN  Includes(b, l) /\ Includes(l, a) /\ Len(l) = Len(a) + e
<1> DEFINE more == SubSeq(b, Len(a) + 1, Len(a) + e)
           l == a \o more
<1>1. /\ Len(a) \in Nat \ {0} /\ Len(b) \in Nat /\ DOMAIN a = 1..Len(a) /\ DOMAIN b = 1..Len(b)
      /\ Len(a) <= Len(b) /\ Len(a) \in DOMAIN a /\ Len(a) \in DOMAIN b
  BY BoundAssumption
<1>2. a[Len(a)] = b[Len(a)]
  BY <1>1 DEF Has, OpTimeAt
<1>3. \A x \in DOMAIN a : a[x] = b[x]
  BY <1>1, <1>2 DEF Match
<1>4. more \in Seq(1..MaxTerm) /\ Len(more) = e /\ (e = 1 => more[1] = b[Len(a) + 1])
  BY <1>1, BoundAssumption
<1> HIDE DEF more
<1>5. /\ Len(l) = Len(a) + e /\ DOMAIN l = 1..(Len(a) + e)
      /\ \A x \in DOMAIN a : l[x] = a[x]
      /\ e = 1 => l[Len(a) + 1] = b[Len(a) + 1]
  BY <1>1, <1>4
<1> HIDE DEF l
<1>6. \A x \in DOMAIN l : b[x] = l[x]
  BY <1>1, <1>3, <1>5
<1>7. Includes(b, l) /\ Includes(l, a)
  BY <1>1, <1>3, <1>5, <1>6 DEF Includes
<1> QED BY <1>5, <1>7 DEF l, more

\* The oplog after a fetch has its type and begins with the former one.
LEMMA FetchFacts ==
    ASSUME LogTypes, LogInv, NEW n \in Nodes, NEW s \in Nodes, NEW e \in {0, 1},
           Fetch(n, s, e)
    PROVE  /\ Includes(log[s], log'[n]) /\ Includes(log'[n], log[n])
           /\ Len(log'[n]) = Len(log[n]) + e
           /\ \A m \in Nodes \ {n} : log'[m] = log[m]
<1> DEFINE l == log[n] \o SubSeq(log[s], Len(log[n]) + 1, Len(log[n]) + e)
<1>1. /\ log' = [log EXCEPT ![n] = l] /\ Has(log[s], OpTimeAt(log[n], Len(log[n])))
      /\ e <= Len(log[s]) - Len(log[n])
  BY DEF Fetch, Continues, LastApplied
<1>2. Includes(log[s], l) /\ Includes(l, log[n]) /\ Len(l) = Len(log[n]) + e
  BY <1>1, LogFacts, ExtendFacts DEF LogInv
<1> HIDE DEF l
<1> QED BY <1>1, <1>2 DEF LogTypes

\* A member fetches only what its source has.
LEMMA FetchIsQuiet ==
    ASSUME TypeInv, TypeInv', LogInv, TermInv, NEW n \in Nodes, NEW s \in Nodes,
           NEW e \in {0, 1}, Fetch(n, s, e)
    PROVE  QuietStep
<1>0. ElectionTypes /\ LogTypes /\ ElectionTypes' /\ LogTypes'
  BY DEF TypeInv
<1>1. /\ Includes(log[s], log'[n]) /\ Includes(log'[n], log[n])
      /\ \A m \in Nodes \ {n} : log'[m] = log[m]
  BY <1>0, FetchFacts
<1>2. SteppingInv' /\ TermsGrow
  <2>1. SteppingInv
    BY PendingIsNewer DEF TypeInv
  <2>2. UpdateTerm(n, term[s]) /\ term[s] \in 0..MaxTerm
    BY <1>0, BoundAssumption DEF Fetch, ElectionTypes
  <2> QED BY <1>0, <2>1, <2>2, UpdateTermFacts
<1>3. UNCHANGED <<known, report>> /\ OldReports
  BY DEF Fetch, OldReports
<1>4. AcksKept
  BY <1>0, <1>2, <1>3, SameReports DEF TermsGrow
<1>5. \A m \in Nodes : Includes(log[m], log[m])
  <2> TAKE m \in Nodes
  <2>1. Len(log[m]) <= Len(log[m])
    BY <1>0, LogFacts
  <2> QED BY <2>1 DEF Includes
<1>6. PrefixOfOld /\ LeadersExtend /\ ExtendsOrReturns
  BY <1>1, <1>5 DEF PrefixOfOld, LeadersExtend, ExtendsOrReturns
<1>7. OccursKept
  <2> SUFFICES ASSUME NEW o \in OpTimes, Occurs(o)' PROVE Occurs(o)
    BY DEF OccursKept
  <2>1. CASE \E a \in Nodes : \E i \in DOMAIN log'[a] : o = <<log'[a][i], i>>
    <3>1. PICK a \in Nodes : \E i \in DOMAIN log'[a] : o = <<log'[a][i], i>>
      BY <2>1
    <3>2. PICK i \in DOMAIN log'[a] : o = <<log'[a][i], i>>
      BY <3>1
    <3>3. PICK m \in Nodes : Includes(log[m], log'[a])
      BY <1>6 DEF PrefixOfOld
    <3>4. /\ DOMAIN log'[a] = 1..Len(log'[a]) /\ Len(log'[a]) \in Nat
          /\ DOMAIN log[m] = 1..Len(log[m]) /\ Len(log[m]) \in Nat
      BY <1>0 DEF LogTypes
    <3>5. i \in DOMAIN log[m] /\ log[m][i] = log'[a][i]
      BY <3>2, <3>3, <3>4 DEF Includes
    <3> QED BY <3>2, <3>5 DEF Occurs
  <2>2. CASE \E a, m \in Nodes : o = known'[a][m]
    BY <1>3, <2>2 DEF Occurs
  <2>3. CASE \E a, m \in Nodes : report'[a] # NoReport /\ o = report'[a].positions[m]
    BY <1>3, <2>3 DEF Occurs
  <2> QED BY <2>1, <2>2, <2>3 DEF Occurs
<1> QED BY <1>2, <1>4, <1>6, <1>7 DEF QuietStep

\* What a rollback leaves is what the member shares with the source.
LEMMA RollbackFacts ==
    ASSUME LogTypes, LogTypes', NEW n \in Nodes, NEW s \in Nodes, Rollback(n, s)
    PROVE  /\ \A m \in Nodes : Includes(log[m], log'[m])
           /\ \A m \in Nodes \ {n} : log'[m] = log[m]
           /\ log' = log \/ Returns(n, s)
<1> DEFINE c == Common(log[n], log[s])
<1>0. /\ log[n] \in Seq(1..MaxTerm) /\ log[s] \in Seq(1..MaxTerm) /\ Len(log[n]) \in Nat
      /\ DOMAIN log[n] = 1..Len(log[n]) /\ Len(log[s]) \in Nat
  BY LogFacts
<1>1. c \in 0..Len(log[n])
  BY <1>0, CommonFacts
<1>2. \A i \in 0..Len(log[n]) :
        i <= Len(log[s]) /\ (\A x \in 1..i : log[n][x] = log[s][x]) => i <= c
  BY <1>0, CommonFacts
<1>3. log' = log \/ log' = [log EXCEPT ![n] = SubSeq(@, 1, c)]
  BY DEF Rollback
<1>4. ~Leq(LastApplied(s), LastApplied(n))
  <2>1. LastApplied(s) = LastApplied(n) => Has(log[s], LastApplied(n))
    <3>1. LastApplied(s) = <<log[s][Len(log[s])], Len(log[s])>> /\ Len(log[s]) <= Len(log[s])
      BY <1>0, LogFacts
    <3> QED BY <3>1 DEF Has
  <2> QED BY <2>1 DEF Rollback, Fresher
<1> HIDE DEF c
<1>5. CASE log' = log
  <2>1. \A m \in Nodes : Len(log[m]) <= Len(log[m])
    BY LogFacts
  <2> QED BY <1>5, <2>1 DEF Includes
<1>6. CASE log' = [log EXCEPT ![n] = SubSeq(@, 1, c)]
  <2>1. \A m \in Nodes : Len(log[m]) <= Len(log[m])
    BY LogFacts
  <2>2. \A m \in Nodes \ {n} : log'[m] = log[m]
    BY <1>6 DEF LogTypes
  <2>3. log'[n] = SubSeq(log[n], 1, c)
    BY <1>6 DEF LogTypes
  <2>4. Len(log'[n]) = c /\ DOMAIN log'[n] = 1..c /\ \A x \in 1..c : log'[n][x] = log[n][x]
    BY <1>0, <1>1, <2>3
  <2>5. \A m \in Nodes : Includes(log[m], log'[m])
    BY <1>0, <1>1, <2>1, <2>2, <2>4 DEF Includes
  <2>6. ASSUME NEW j \in DOMAIN log[n], j <= Len(log[s]), \A x \in 1..j : log[n][x] = log[s][x]
        PROVE  j <= Len(log'[n]) /\ \A x \in 1..j : log'[n][x] = log[n][x]
    <3>1. j <= c
      BY <1>0, <1>2, <2>6
    <3> QED BY <1>0, <1>1, <2>4, <3>1
  <2> QED BY <1>4, <2>2, <2>5, <2>6 DEF Returns
<1> QED BY <1>3, <1>5, <1>6

\* A rollback drops only entries that the source, which is fresher, does not have.
LEMMA RollbackIsQuiet ==
    ASSUME TypeInv, TypeInv', TermInv, NEW n \in Nodes, NEW s \in Nodes, Rollback(n, s)
    PROVE  QuietStep
<1>0. ElectionTypes /\ LogTypes /\ ElectionTypes' /\ LogTypes'
  BY DEF TypeInv
<1>1. /\ UNCHANGED <<term, role, pending, known, report>> /\ role[n] = "follower"
      /\ OldReports
  BY DEF Rollback, election, OldReports
<1>2. /\ \A m \in Nodes : Includes(log[m], log'[m])
      /\ \A m \in Nodes \ {n} : log'[m] = log[m]
      /\ log' = log \/ Returns(n, s)
  BY <1>0, RollbackFacts
<1>3. TermsGrow
  <2> SUFFICES ASSUME NEW m \in Nodes PROVE term[m] >= term[m] /\ NewestTerm(m) >= NewestTerm(m)
    BY <1>1 DEF TermsGrow, NewestTerm, IsLeader
  <2> QED BY <1>0, NewestTermType
<1>4. SteppingInv'
  BY <1>0, <1>1, PendingIsNewer DEF SteppingInv
<1>5. AcksKept
  BY <1>0, <1>1, <1>3, SameReports DEF TermsGrow
<1>6. \A m \in Nodes : Includes(log[m], log[m])
  <2> TAKE m \in Nodes
  <2>1. Len(log[m]) <= Len(log[m])
    BY <1>0, LogFacts
  <2> QED BY <2>1 DEF Includes
<1>7. PrefixOfOld
  BY <1>2 DEF PrefixOfOld
<1>8. ~IsLeader(n)'
  BY <1>1 DEF IsLeader
<1>9. LeadersExtend
  BY <1>2, <1>6, <1>8 DEF LeadersExtend
<1>10. ExtendsOrReturns
  BY <1>2, <1>6 DEF ExtendsOrReturns
<1>11. OccursKept
  <2> SUFFICES ASSUME NEW o \in OpTimes, Occurs(o)' PROVE Occurs(o)
    BY DEF OccursKept
  <2>1. ASSUME NEW a \in Nodes, NEW i \in DOMAIN log'[a], o = <<log'[a][i], i>>
        PROVE  Occurs(o)
    <3>1. /\ DOMAIN log'[a] = 1..Len(log'[a]) /\ Len(log'[a]) \in Nat
          /\ DOMAIN log[a] = 1..Len(log[a]) /\ Len(log[a]) \in Nat
      BY <1>0 DEF LogTypes
    <3>2. i \in DOMAIN log[a] /\ log[a][i] = log'[a][i]
      BY <1>2, <2>1, <3>1 DEF Includes
    <3> QED BY <2>1, <3>2 DEF Occurs
  <2>2. CASE \E a, m \in Nodes : o = known'[a][m]
    BY <1>1, <2>2 DEF Occurs
  <2>3. CASE \E a, m \in Nodes : report'[a] # NoReport /\ o = report'[a].positions[m]
    BY <1>1, <2>3 DEF Occurs
  <2> QED BY <2>1, <2>2, <2>3 DEF Occurs
<1> QED BY <1>3, <1>4, <1>5, <1>7, <1>9, <1>10, <1>11 DEF QuietStep

-----------------------------------------------------------------------------
(* A leader writes an entry of its term. *)

AppendStep(n) ==
    /\ IsLeader(n) /\ log[n][Len(log[n])] <= term[n]
    /\ role[n] = "elect" \/ log[n][Len(log[n])] = term[n]
    /\ log' = [log EXCEPT ![n] = Append(@, term[n])]
    /\ UNCHANGED <<term, pending, known, report>>
    /\ \A m \in Nodes :
        role'[m] = role[m] \/ (m = n /\ role[m] = "elect" /\ role'[m] = "master")
    /\ role'[n] # "elect"

\* The oplog of a leader that writes is the former one and an entry of its term.
LEMMA AppendFacts ==
    ASSUME TypeInv, TypeInv', NEW n \in Nodes, AppendStep(n)
    PROVE  /\ \A m \in Nodes \ {n} : log'[m] = log[m]
           /\ Len(log'[n]) = Len(log[n]) + 1 /\ log'[n][Len(log[n]) + 1] = term[n]
           /\ DOMAIN log'[n] = 1..(Len(log[n]) + 1)
           /\ \A m \in Nodes : Includes(log'[m], log[m])
           /\ \A m \in Nodes : IsLeader(m)' <=> IsLeader(m)
           /\ \A m \in Nodes : NewestTerm(m)' = NewestTerm(m)
           /\ \A o \in OpTimes : Occurs(o)' => Occurs(o) \/ o = <<term[n], Len(log[n]) + 1>>
           /\ \A v \in Nodes, t \in Terms, i \in Places : Acked(v, t, i)' <=> Acked(v, t, i)
<1>0. ElectionTypes /\ LogTypes
  BY DEF TypeInv
<1>1. log[n] \in Seq(1..MaxTerm) /\ Len(log[n]) \in Nat /\ term[n] \in 1..MaxTerm
  BY <1>0, LogFacts DEF ElectionTypes
<1>2. /\ \A m \in Nodes \ {n} : log'[m] = log[m]
      /\ log'[n] = Append(log[n], term[n])
  BY <1>0 DEF AppendStep, LogTypes
<1>3. /\ Len(log'[n]) = Len(log[n]) + 1 /\ log'[n][Len(log[n]) + 1] = term[n]
      /\ DOMAIN log'[n] = 1..(Len(log[n]) + 1)
      /\ \A x \in 1..Len(log[n]) : log'[n][x] = log[n][x]
  BY <1>1, <1>2
<1>4. \A m \in Nodes : Includes(log'[m], log[m])
  <2> TAKE m \in Nodes
  <2>1. Len(log[m]) \in Nat /\ DOMAIN log[m] = 1..Len(log[m])
    BY <1>0, LogFacts
  <2>2. CASE m = n
    BY <1>3, <2>1, <2>2 DEF Includes
  <2>3. CASE m # n
    BY <1>2, <2>1, <2>3 DEF Includes
  <2> QED BY <2>2, <2>3
<1>5. \A m \in Nodes : (IsLeader(m)' <=> IsLeader(m)) /\ NewestTerm(m)' = NewestTerm(m)
  BY DEF AppendStep, IsLeader, NewestTerm
<1>6. ASSUME NEW o \in OpTimes, Occurs(o)'
      PROVE  Occurs(o) \/ o = <<term[n], Len(log[n]) + 1>>
  <2>1. ASSUME NEW a \in Nodes, NEW i \in DOMAIN log'[a], o = <<log'[a][i], i>>
        PROVE  Occurs(o) \/ o = <<term[n], Len(log[n]) + 1>>
    <3>1. CASE a # n
      BY <1>2, <2>1, <3>1 DEF Occurs
    <3>2. CASE a = n /\ i = Len(log[n]) + 1
      BY <1>3, <2>1, <3>2
    <3>3. CASE a = n /\ i \in 1..Len(log[n])
      <4>1. i \in DOMAIN log[n] /\ o = <<log[n][i], i>>
        BY <1>0, <1>3, <2>1, <3>3, LogFacts
      <4> QED BY <4>1 DEF Occurs
    <3> QED BY <1>1, <1>3, <3>1, <3>2, <3>3
  <2>2. CASE \E a, m \in Nodes : o = known'[a][m]
    BY <2>2 DEF Occurs, AppendStep
  <2>3. CASE \E a, m \in Nodes : report'[a] # NoReport /\ o = report'[a].positions[m]
    BY <2>3 DEF Occurs, AppendStep
  <2> QED BY <1>6, <2>1, <2>2, <2>3 DEF Occurs
<1>7. \A v \in Nodes, t \in Terms, i \in Places : Acked(v, t, i)' <=> Acked(v, t, i)
  BY <1>5 DEF Acked, AppendStep
<1> QED BY <1>2, <1>3, <1>4, <1>5, <1>6, <1>7

\* The entry of the one leader of a term agrees with all oplogs.
LEMMA AppendLogs ==
    ASSUME TypeInv, TypeInv', LogInv, TermInv, NEW n \in Nodes, AppendStep(n)
    PROVE  LogInv'
<1> DEFINE L == Len(log[n])
           T == term[n]
<1>0. ElectionTypes /\ LogTypes /\ LogTypes'
  BY DEF TypeInv
<1>1. /\ \A m \in Nodes \ {n} : log'[m] = log[m]
      /\ log'[n][L + 1] = T /\ DOMAIN log'[n] = 1..(L + 1)
      /\ \A m \in Nodes : Includes(log'[m], log[m])
  BY AppendFacts
<1>2. /\ L \in Nat /\ DOMAIN log[n] = 1..L /\ T \in Nat /\ L \in DOMAIN log[n]
      /\ \A x \in 1..L : log'[n][x] = log[n][x] /\ log[n][x] \in Nat
  BY <1>0, <1>1, LogFacts, NewestTermType DEF Includes
<1>3. log[n][L] <= T
  BY DEF AppendStep
\* An entry of the leader's term is one that the leader has.
<1>4. ASSUME NEW m \in Nodes, NEW i \in DOMAIN log[m], log[m][i] = T
      PROVE  i \in 1..L /\ log[n][i] = T
  <2>1. PICK o \in OpTimes : o = <<log[m][i], i>>
    BY <1>0, LogFacts, LastFacts
  <2>2. Occurs(o) /\ o[1] = T /\ o[2] = i
    BY <1>4, <2>1 DEF Occurs
  <2>3. i <= L /\ log[n][i] = T
    BY <2>2 DEF TermInv, AppendStep
  <2> QED BY <1>0, <1>2, <2>3, LogFacts
<1>5. Sorted(log'[n])
  <2> SUFFICES ASSUME NEW i \in 1..(L + 1), NEW j \in 1..(L + 1), i <= j
               PROVE  log'[n][i] <= log'[n][j]
    BY <1>1 DEF Sorted
  <2>1. CASE j <= L
    BY <1>2, <2>1 DEF LogInv, Sorted
  <2>2. CASE j = L + 1 /\ i <= L
    <3>1. log[n][i] <= log[n][L]
      BY <1>2, <2>2 DEF LogInv, Sorted
    <3>2. log'[n][i] = log[n][i] /\ log'[n][j] = T /\ log[n][i] \in Nat /\ log[n][L] \in Nat
      BY <1>1, <1>2, <2>2
    <3> QED BY <1>2, <1>3, <3>1, <3>2
  <2>3. CASE j = L + 1 /\ i = L + 1
    BY <1>1, <1>2, <2>3
  <2> QED BY <1>2, <2>1, <2>2, <2>3
<1>6. ASSUME NEW m \in Nodes \ {n} PROVE Match(log'[n], log[m]) /\ Match(log[m], log'[n])
  <2>0. DOMAIN log[m] = 1..Len(log[m]) /\ Len(log[m]) \in Nat
    BY <1>0, LogFacts
  <2>1. ASSUME NEW i \in 1..(L + 1), NEW j \in DOMAIN log[m], i <= j, log'[n][i] = log[m][j],
               NEW x \in 1..i
        PROVE  log'[n][x] = log[m][x]
    <3>1. CASE i = L + 1
      <4>1. log[m][j] = T
        BY <1>1, <2>1, <3>1
      <4>2. j \in 1..L
        BY <1>4, <4>1
      <4> QED BY <1>2, <2>1, <3>1, <4>2
    <3>2. CASE i \in 1..L
      <4>1. log[n][i] = log[m][j] /\ x \in 1..L
        BY <1>2, <2>1, <3>2
      <4>2. log[n][x] = log[m][x]
        BY <1>2, <2>1, <3>2, <4>1 DEF LogInv, Match
      <4> QED BY <1>2, <4>1, <4>2
    <3> QED BY <1>2, <3>1, <3>2
  <2>2. ASSUME NEW i \in DOMAIN log[m], NEW j \in 1..(L + 1), i <= j, log[m][i] = log'[n][j],
               NEW x \in 1..i
        PROVE  log[m][x] = log'[n][x]
    <3>1. CASE j = L + 1
      <4>1. i \in 1..L /\ log[n][i] = log[m][i]
        BY <1>1, <1>4, <2>2, <3>1
      <4>2. i <= i /\ x \in 1..L
        BY <1>2, <2>2, <4>1
      <4>3. log[m][x] = log[n][x]
        BY <1>2, <2>2, <4>1, <4>2 DEF LogInv, Match
      <4> QED BY <1>2, <4>2, <4>3
    <3>2. CASE j \in 1..L
      <4>1. log[m][i] = log[n][j] /\ x \in 1..L
        BY <1>2, <2>0, <2>2, <3>2
      <4>2. log[m][x] = log[n][x]
        BY <1>2, <2>2, <3>2, <4>1 DEF LogInv, Match
      <4> QED BY <1>2, <4>1, <4>2
    <3> QED BY <1>2, <3>1, <3>2
  <2>3. Match(log'[n], log[m])
    BY <1>1, <2>1 DEF Match
  <2>4. Match(log[m], log'[n])
    BY <1>1, <2>2 DEF Match
  <2> QED BY <2>3, <2>4
<1>7. Match(log'[n], log'[n])
  <2> SUFFICES ASSUME NEW i \in 1..(L + 1), NEW j \in 1..(L + 1), NEW x \in 1..i
               PROVE  log'[n][x] = log'[n][x]
    BY <1>1 DEF Match
  <2> QED OBVIOUS
<1>8. \A m \in Nodes : log'[m][1] = 1
  BY <1>0 DEF LogTypes
<1> HIDE DEF L, T
<1>9. ASSUME NEW a \in Nodes, NEW b \in Nodes PROVE Sorted(log'[a]) /\ Match(log'[a], log'[b])
  <2>1. CASE a = n
    BY <1>1, <1>5, <1>6, <1>7, <2>1
  <2>2. CASE a # n
    BY <1>1, <1>6, <2>2 DEF LogInv
  <2> QED BY <2>1, <2>2
<1> QED BY <1>8, <1>9 DEF LogInv

\* The entry is in the oplog of the leader of its term.
LEMMA AppendTerms ==
    ASSUME TypeInv, TypeInv', TermInv, NEW n \in Nodes, AppendStep(n)
    PROVE  TermInv'
<1> DEFINE L == Len(log[n])
           T == term[n]
<1>0. ElectionTypes /\ LogTypes /\ LogTypes' /\ UNCHANGED <<term, pending>> /\ IsLeader(n)
  BY DEF TypeInv, AppendStep
<1>1. /\ \A m \in Nodes \ {n} : log'[m] = log[m]
      /\ Len(log'[n]) = L + 1 /\ log'[n][L + 1] = T
      /\ \A m \in Nodes : Includes(log'[m], log[m])
      /\ \A m \in Nodes : IsLeader(m)' <=> IsLeader(m)
      /\ \A o \in OpTimes : Occurs(o)' => Occurs(o) \/ o = <<T, L + 1>>
  BY AppendFacts
<1>2. \A t \in Nat : MajorityAt(t)' <=> MajorityAt(t)
  BY <1>0 DEF MajorityAt
<1>3. L \in Nat /\ \A m \in Nodes : term[m] \in Nat
  BY <1>0, LogFacts, NewestTermType
<1>4. ASSUME NEW o \in OpTimes, Occurs(o)' PROVE MajorityAt(o[1])'
  <2>1. o[1] \in Nat
    BY OpTimeFacts
  <2>2. CASE Occurs(o)
    BY <1>2, <2>1, <2>2 DEF TermInv
  <2>3. CASE o = <<T, L + 1>>
    BY <1>0, <1>2, <1>3, <2>3 DEF TermInv
  <2> QED BY <1>1, <1>4, <2>2, <2>3
<1>5. ASSUME NEW p \in Nodes, IsLeader(p)'
      PROVE  /\ MajorityAt(term[p])'
             /\ \A q \in Nodes : IsLeader(q)' /\ term'[q] = term'[p] => q = p
             /\ role'[p] = "elect" => \A i \in DOMAIN log'[p] : log'[p][i] # term'[p]
             /\ pending'[p] # 0 => pending'[p] > term'[p]
  <2>1. IsLeader(p)
    BY <1>1, <1>5
  <2>2. MajorityAt(term[p])'
    <3>1. PICK t \in Nat : t = term[p]
      BY <1>3
    <3>2. MajorityAt(t)
      BY <2>1, <3>1 DEF TermInv
    <3>3. MajorityAt(t)'
      BY <1>2, <3>2
    <3> QED BY <1>0, <3>1, <3>3
  <2>3. \A q \in Nodes : IsLeader(q)' /\ term'[q] = term'[p] => q = p
    BY <1>0, <1>1, <2>1 DEF TermInv
  <2>4. role'[p] = "elect" => \A i \in DOMAIN log'[p] : log'[p][i] # term'[p]
    BY <1>0, <1>1, <2>1 DEF TermInv, AppendStep
  <2>5. pending'[p] # 0 => pending'[p] > term'[p]
    BY <1>0, <2>1 DEF TermInv, AppendStep
  <2> QED BY <2>2, <2>3, <2>4, <2>5
<1>6. ASSUME NEW p \in Nodes, IsLeader(p)', NEW o \in OpTimes, Occurs(o)', o[1] = term'[p]
      PROVE  o[2] <= Len(log'[p]) /\ log'[p][o[2]] = o[1]
  <2>1. IsLeader(p) /\ o[1] = term[p]
    BY <1>0, <1>1, <1>6
  <2>2. CASE Occurs(o)
    <3>1. o[2] <= Len(log[p]) /\ log[p][o[2]] = o[1]
      BY <2>1, <2>2 DEF TermInv
    <3>2. o[2] \in Nat /\ o[2] # 0 /\ Len(log[p]) \in Nat /\ Len(log'[p]) \in Nat
      BY <1>0, <2>1, OpTimeFacts, LogFacts DEF ElectionTypes, LogTypes
    <3>3. o[2] \in DOMAIN log[p]
      BY <1>0, <3>1, <3>2, LogFacts
    <3> QED BY <1>1, <3>1, <3>2, <3>3 DEF Includes
  <2>3. CASE o = <<T, L + 1>>
    <3>1. p = n
      BY <1>0, <2>1, <2>3 DEF TermInv
    <3> QED BY <1>1, <1>3, <2>3, <3>1
  <2> QED BY <1>1, <1>6, <2>2, <2>3
<1> QED BY <1>4, <1>5, <1>6 DEF TermInv

\* Whoever has an entry has it after the write.
LEMMA AppendKeeps ==
    ASSUME TypeInv, TypeInv', NEW n \in Nodes, AppendStep(n)
    PROVE  TermsGrow /\ AcksKept /\ ExtendsOrReturns
<1>0. ElectionTypes
  BY DEF TypeInv
<1>1. /\ \A m \in Nodes : Includes(log'[m], log[m])
      /\ \A m \in Nodes : IsLeader(m)' <=> IsLeader(m)
      /\ \A m \in Nodes : NewestTerm(m)' = NewestTerm(m)
      /\ \A v \in Nodes, t \in Terms, i \in Places : Acked(v, t, i)' <=> Acked(v, t, i)
  BY AppendFacts
<1>2. AcksKept /\ ExtendsOrReturns
  BY <1>1 DEF AcksKept, ExtendsOrReturns
<1>3. TermsGrow
  <2> SUFFICES ASSUME NEW m \in Nodes
               PROVE  /\ term'[m] >= term[m] /\ NewestTerm(m)' >= NewestTerm(m)
                      /\ IsLeader(m)' => IsLeader(m) /\ term'[m] = term[m]
                      /\ role'[m] = "elect" => role[m] = "elect"
    BY DEF TermsGrow
  <2>1. term[m] \in Nat /\ NewestTerm(m) \in Nat /\ term' = term
    BY <1>0, NewestTermType DEF AppendStep
  <2>2. role'[m] = "elect" => role[m] = "elect"
    BY DEF AppendStep
  <2> QED BY <1>1, <2>1, <2>2
<1> QED BY <1>2, <1>3

\* What former leaders may commit is below the entry that is written.
LEMMA AppendChosen ==
    ASSUME TypeInv, TypeInv', LogInv, LogInv', ChosenInv, NEW n \in Nodes, AppendStep(n)
    PROVE  ChosenInv'
<1> DEFINE L == Len(log[n])
           T == term[n]
<1>0. /\ ElectionTypes /\ LogTypes /\ ElectionTypes' /\ LogTypes' /\ term' = term
      /\ IsLeader(n)
  BY DEF TypeInv, AppendStep
<1>1. /\ \A m \in Nodes \ {n} : log'[m] = log[m]
      /\ log'[n][L + 1] = T /\ DOMAIN log'[n] = 1..(L + 1)
      /\ \A m \in Nodes : Includes(log'[m], log[m])
      /\ \A m \in Nodes : IsLeader(m)' <=> IsLeader(m)
      /\ \A o \in OpTimes : Occurs(o)' => Occurs(o) \/ o = <<T, L + 1>>
  BY AppendFacts
<1>2. TermsGrow /\ AcksKept /\ ExtendsOrReturns
  BY AppendKeeps
<1>3. L \in Nat /\ DOMAIN log[n] = 1..L /\ L \in DOMAIN log[n]
  BY <1>0, LogFacts
<1> SUFFICES ASSUME NEW t \in Terms, NEW i \in Places
             PROVE  Unchosen(t, i)' \/ Inherited(t, i)'
  BY DEF ChosenInv, Terms, Places
<1>4. CASE Unchosen(t, i)
  <2>1. \A m \in Nodes : term'[m] >= term[m]
    BY <1>2 DEF TermsGrow
  <2> QED BY <1>0, <1>2, <1>4, <2>1, UnchosenKept
<1>5. CASE Inherited(t, i)
  <2>1. ASSUME NEW m \in Nodes, NEW k \in DOMAIN log'[m], log'[m][k] > t
        PROVE  Reaches(log'[m], k, t, i)
    <3>1. CASE m # n
      BY <1>1, <1>5, <2>1, <3>1 DEF Inherited
    <3>2. CASE m = n
      <4>1. PICK j \in DOMAIN log[n] : i <= j /\ j <= k /\ log[n][j] = t
        <5>1. CASE k \in 1..L
          <6>1. log[n][k] > t /\ k \in DOMAIN log[n]
            BY <1>1, <1>3, <2>1, <3>2, <5>1 DEF Includes
          <6> QED BY <1>5, <6>1 DEF Inherited, Reaches
        <5>2. CASE k = L + 1
          <6>1. T > t
            BY <1>1, <2>1, <3>2, <5>2
          <6>2. Reaches(log[n], L, t, i)
            BY <1>3, <1>5, <6>1 DEF Inherited, AppendStep
          <6> QED BY <1>3, <5>2, <6>2 DEF Reaches
        <5> QED BY <1>1, <1>3, <2>1, <3>2, <5>1, <5>2
      <4>2. j \in DOMAIN log'[n] /\ log'[n][j] = t
        BY <1>1, <1>3, <4>1 DEF Includes
      <4> QED BY <3>2, <4>1, <4>2 DEF Reaches
    <3> QED BY <3>1, <3>2
  <2>2. ASSUME NEW m \in Nodes, role'[m] = "elect", term'[m] > t
        PROVE  Reaches(log'[m], Len(log'[m]), t, i)
    <3>1. m # n /\ role[m] = "elect"
      BY <2>2 DEF AppendStep
    <3> QED BY <1>0, <1>1, <1>5, <2>2, <3>1 DEF Inherited
  <2>3. ASSUME NEW v \in Nodes, Acked(v, t, i)' PROVE Supports(v, t, i)'
    <3>1. Supports(v, t, i)
      BY <1>2, <1>5, <2>3 DEF AcksKept, Inherited
    <3>2. \A s \in Nodes : Leq(<<t, i>>, LastApplied(s)) =>
                                Reaches(log[s], Len(log[s]), t, i)
      BY <1>0, <1>5, InheritedFacts
    <3> QED BY <1>0, <1>2, <3>1, <3>2, SupportsKept
  <2>4. ASSUME i = MaxLog + 1
        PROVE  /\ \A o \in OpTimes : Occurs(o)' => o[1] <= t
               /\ \A m \in Nodes : IsLeader(m)' => term'[m] <= t
    <3>1. \A m \in Nodes : IsLeader(m) => term[m] <= t
      BY <1>5, <2>4 DEF Inherited
    <3>2. \A o \in OpTimes : Occurs(o) => o[1] <= t
      BY <1>5, <2>4 DEF Inherited
    <3>3. <<T, L + 1>>[1] <= t
      BY <1>0, <3>1
    <3> QED BY <1>0, <1>1, <3>1, <3>2, <3>3
  <2> QED BY <2>1, <2>2, <2>3, <2>4 DEF Inherited
<1> QED BY <1>4, <1>5 DEF ChosenInv

\* The committed entries are below the entry that is written.
LEMMA AppendHistory ==
    ASSUME TypeInv, TypeInv', LogInv, LogInv', TermInv, NEW n \in Nodes, AppendStep(n),
           NEW h \in Seq(1..MaxTerm), HistoryOK(h)
    PROVE  HistoryOK(h)'
<1> DEFINE L == Len(log[n])
           T == term[n]
<1>0. /\ ElectionTypes /\ LogTypes /\ ElectionTypes' /\ LogTypes' /\ term' = term
      /\ IsLeader(n)
  BY DEF TypeInv, AppendStep
<1>1. /\ \A m \in Nodes \ {n} : log'[m] = log[m]
      /\ Len(log'[n]) = L + 1 /\ log'[n][L + 1] = T /\ DOMAIN log'[n] = 1..(L + 1)
      /\ Includes(log'[n], log[n])
  BY AppendFacts
<1>2. TermsGrow /\ ExtendsOrReturns
  BY AppendKeeps
<1>3. L \in Nat /\ DOMAIN log[n] = 1..L /\ L \in DOMAIN log[n] /\ T \in Nat
  BY <1>0, LogFacts, NewestTermType
<1>4. /\ h # <<>> /\ Len(h) \in Nat \ {0} /\ DOMAIN h = 1..Len(h) /\ Len(h) \in DOMAIN h
      /\ Last(h) \in Terms /\ Len(h) \in Places /\ Last(h) = h[Len(h)] /\ Last(h) \in Nat
  BY <1>0, HistoryFacts, HistoryOccurs, BoundAssumption DEF HistoryOK, Places, Terms
<1>5. ASSUME Includes(log[n], h) PROVE Includes(log'[n], h) /\ Len(h) <= L
  <2>1. Len(h) <= L /\ \A x \in DOMAIN h : x \in DOMAIN log[n] /\ log[n][x] = h[x]
    BY <1>3, <1>4, <1>5 DEF Includes
  <2>2. \A x \in DOMAIN log[n] : log'[n][x] = log[n][x]
    BY <1>1 DEF Includes
  <2>3. Len(h) <= Len(log'[n])
    BY <1>1, <1>3, <1>4, <2>1
  <2> QED BY <2>1, <2>2, <2>3 DEF Includes
<1>6. ASSUME NEW m \in Nodes, NEW k \in DOMAIN log'[m],
             Leq(<<Last(h), Len(h)>>, <<log'[m][k], k>>)
      PROVE  Len(h) <= k /\ Includes(log'[m], h)
  <2>1. CASE m # n
    BY <1>1, <1>6, <2>1 DEF HistoryOK
  <2>2. CASE m = n /\ k \in 1..L
    <3>1. log'[n][k] = log[n][k]
      BY <1>1, <1>3, <2>2 DEF Includes
    <3>2. Len(h) <= k /\ Includes(log[n], h)
      BY <1>3, <1>6, <2>2, <3>1 DEF HistoryOK
    <3> QED BY <1>5, <2>2, <3>2
  <2>3. CASE m = n /\ k = L + 1
    <3>1. Leq(<<Last(h), Len(h)>>, <<T, L + 1>>)
      BY <1>1, <1>6, <2>3
    <3>2. T > Last(h) \/ T = Last(h)
      BY <1>3, <1>4, <3>1 DEF Leq
    <3>3. Includes(log[n], h)
      <4>1. CASE T > Last(h) /\ role[n] = "elect"
        BY <4>1 DEF HistoryOK
      <4>2. CASE T > Last(h) /\ log[n][L] = T
        <5>1. Leq(<<Last(h), Len(h)>>, <<log[n][L], L>>)
          BY <1>3, <1>4, <4>2 DEF Leq
        <5> QED BY <1>3, <5>1 DEF HistoryOK
      <4>3. CASE T = Last(h)
        <5>1. PICK o \in OpTimes : o = <<Last(h), Len(h)>> /\ Occurs(o)
          BY <1>0, <1>4, HistoryOccurs
        <5>2. o[1] = T /\ o[2] = Len(h)
          BY <4>3, <5>1
        <5>3. Len(h) <= L /\ log[n][Len(h)] = Last(h)
          BY <1>0, <4>3, <5>1, <5>2 DEF TermInv
        <5>4. Len(h) \in DOMAIN log[n] /\ Leq(<<Last(h), Len(h)>>, <<log[n][Len(h)], Len(h)>>)
          BY <1>3, <1>4, <5>3 DEF Leq
        <5> QED BY <5>4 DEF HistoryOK
      <4> QED BY <3>2, <4>1, <4>2, <4>3 DEF AppendStep
    <3> QED BY <1>3, <1>4, <1>5, <2>3, <3>3
  <2> QED BY <1>1, <1>3, <1>6, <2>1, <2>2, <2>3
<1>7. ASSUME NEW m \in Nodes, role'[m] = "elect", term'[m] > Last(h)
      PROVE  Includes(log'[m], h)
  <2>1. m # n /\ role[m] = "elect"
    BY <1>7 DEF AppendStep
  <2> QED BY <1>0, <1>1, <1>7, <2>1 DEF HistoryOK
<1> DEFINE P == {v \in Nodes : Supports(v, Last(h), Len(h))}
           Q == {v \in Nodes : Supports(v, Last(h), Len(h))'}
<1>8. P \in SUBSET Q
  <2>1. \A s \in Nodes : Leq(<<Last(h), Len(h)>>, LastApplied(s)) =>
            Reaches(log[s], Len(log[s]), Last(h), Len(h))
    BY <1>0, HistoryReached
  <2> QED BY <1>0, <1>2, <1>4, <2>1, SupportsKept
<1>9. IsMajority(P) /\ Q \in SUBSET Nodes
  BY DEF HistoryOK
<1>10. IsMajority(Q)
  <2> HIDE DEF P, Q
  <2> QED BY <1>8, <1>9, MajorityGrows
<1> QED BY <1>4, <1>6, <1>7, <1>10 DEF HistoryOK

-----------------------------------------------------------------------------
(* An election. *)

\* The members that vote are a majority, of the new term and not fresher than the winner.
LEMMA ElectionFacts ==
    ASSUME TypeInv, TypeInv', NEW n \in Nodes, NEW voters \in SUBSET Nodes,
           WinElection(n, voters)
    PROVE  LET Q == voters \union {n}
           IN  /\ Q \in SUBSET Nodes /\ IsMajority(Q)
               /\ \A v \in Q : /\ term[v] <= term[n] /\ ~IsLeader(v) /\ term'[v] = term[n] + 1
                               /\ Leq(LastApplied(v), LastApplied(n))
               /\ \A m \in Nodes \ Q : term'[m] = term[m]
               /\ role'[n] = "elect" /\ \A m \in Nodes \ {n} : role'[m] = role[m]
               /\ \A m \in Nodes : term'[m] >= term[m] /\ NewestTerm(m)' >= NewestTerm(m)
               /\ \A t \in Nat : MajorityAt(t) => t <= term[n]
               /\ OccursKept
               /\ \A v \in Nodes, t \in Terms, i \in Places : Acked(v, t, i)' => Acked(v, t, i)
<1> DEFINE Q == voters \union {n}
<1>0. ElectionTypes /\ LogTypes /\ ElectionTypes'
  BY DEF TypeInv
<1>t. \A m \in Nodes : term[m] \in Nat /\ term'[m] \in Nat
  BY <1>0 DEF ElectionTypes
<1>1. Q \in SUBSET Nodes /\ IsMajority(Q)
  BY DEF WinElection
<1>2. ASSUME NEW v \in Q
      PROVE  /\ term[v] <= term[n] /\ ~IsLeader(v) /\ term'[v] = term[n] + 1
             /\ Leq(LastApplied(v), LastApplied(n))
  <2>1. term'[v] = term[n] + 1
    BY <1>1 DEF WinElection
  <2>2. CASE v = n
    <3>1. Leq(LastApplied(n), LastApplied(n))
      BY <1>0, LogFacts, LeqFacts
    <3>2. ~IsLeader(n)
      BY DEF WinElection, IsLeader
    <3> QED BY <1>t, <2>1, <2>2, <3>1, <3>2
  <2>3. CASE v \in voters
    BY <2>1, <2>3 DEF WinElection, MayVote
  <2> QED BY <2>2, <2>3
<1>3. \A m \in Nodes \ Q : term'[m] = term[m]
  BY DEF WinElection
<1>4. role'[n] = "elect" /\ \A m \in Nodes \ {n} : role'[m] = role[m]
  BY <1>0 DEF WinElection, ElectionTypes
<1>5. UNCHANGED <<log, pending, known, report>> /\ OldReports
  BY DEF WinElection, OldReports
<1> HIDE DEF Q
<1>6. ASSUME NEW m \in Nodes PROVE term'[m] >= term[m] /\ NewestTerm(m)' >= NewestTerm(m)
  <2>1. CASE m \in Q
    <3>1. pending[m] = 0 /\ pending'[m] = 0
      BY <1>0, <1>2, <1>5, <2>1 DEF IsLeader, ElectionTypes
    <3>2. term'[m] = term[n] + 1 /\ term[m] <= term[n]
      BY <1>2, <2>1
    <3> QED BY <1>t, <3>1, <3>2 DEF NewestTerm
  <2>2. CASE m \notin Q
    <3>1. term'[m] = term[m] /\ role'[m] = role[m] /\ pending' = pending
      BY <1>3, <1>4, <1>5, <2>2 DEF Q
    <3>2. NewestTerm(m)' = NewestTerm(m) /\ NewestTerm(m) \in Nat
      BY <1>0, <3>1, NewestTermType DEF NewestTerm
    <3> QED BY <1>t, <3>1, <3>2
  <2> QED BY <2>1, <2>2
<1>7. ASSUME NEW t \in Nat, MajorityAt(t) PROVE t <= term[n]
  <2> DEFINE P == {v \in Nodes : term[v] >= t}
  <2>1. P \in SUBSET Nodes /\ IsMajority(P)
    BY <1>7 DEF MajorityAt
  <2>2. PICK v \in Nodes : v \in P /\ v \in Q
    <3> HIDE DEF P
    <3> QED BY <1>1, <2>1, MajoritiesMeet
  <2>3. term[v] <= term[n] /\ term[v] >= t
    BY <1>2, <2>2
  <2> QED BY <1>t, <2>3
<1>8. OccursKept /\ \A v \in Nodes, t \in Terms, i \in Places : Acked(v, t, i)' => Acked(v, t, i)
  BY <1>0, <1>5, <1>6, SameReports
<1> QED BY <1>1, <1>2, <1>3, <1>4, <1>6, <1>7, <1>8 DEF Q

\* The winner is the only leader of its term, of which there is no entry yet.
LEMMA ElectionTerms ==
    ASSUME TypeInv, TypeInv', TermInv, NEW n \in Nodes, NEW voters \in SUBSET Nodes,
           WinElection(n, voters)
    PROVE  TermInv'
<1> DEFINE Q == voters \union {n}
           T == term[n]
<1>0. ElectionTypes /\ LogTypes /\ ElectionTypes'
  BY DEF TypeInv
<1>1. /\ Q \in SUBSET Nodes /\ IsMajority(Q)
      /\ \A v \in Q : ~IsLeader(v) /\ term'[v] = T + 1
      /\ \A m \in Nodes \ Q : term'[m] = term[m]
      /\ role'[n] = "elect" /\ \A m \in Nodes \ {n} : role'[m] = role[m]
      /\ \A m \in Nodes : term'[m] >= term[m]
      /\ \A t \in Nat : MajorityAt(t) => t <= T
      /\ OccursKept
  BY ElectionFacts
<1>2. /\ UNCHANGED <<log, pending>> /\ n \in Q
      /\ \A m \in Nodes : term[m] \in Nat /\ term'[m] \in Nat
  BY <1>0 DEF WinElection, ElectionTypes
<1> HIDE DEF Q
<1>3. ASSUME NEW o \in OpTimes, Occurs(o)' PROVE MajorityAt(o[1])' /\ o[1] <= T
  <2>1. o[1] \in Nat /\ MajorityAt(o[1])
    BY <1>1, <1>3, OpTimeFacts DEF OccursKept, TermInv
  <2> QED BY <1>0, <1>1, <2>1, MajorityAtKept
<1>4. ASSUME NEW p \in Nodes \ {n}, IsLeader(p)'
      PROVE  IsLeader(p) /\ term'[p] = term[p] /\ term[p] <= T
  <2>1. IsLeader(p)
    BY <1>1, <1>4 DEF IsLeader
  <2>2. MajorityAt(term[p])
    BY <2>1 DEF TermInv
  <2> QED BY <1>1, <1>2, <2>1, <2>2
<1>5. term'[n] = T + 1 /\ MajorityAt(term[n])'
  <2>1. PICK t \in Nat : t = T + 1
    BY <1>2
  <2>2. Q \in SUBSET {v \in Nodes : term'[v] >= t}
    BY <1>1, <1>2, <2>1
  <2>3. IsMajority({v \in Nodes : term'[v] >= t})
    BY <1>1, <2>2, MajorityGrows
  <2> QED BY <1>1, <1>2, <2>1, <2>3 DEF MajorityAt
<1>6. ASSUME NEW p \in Nodes, IsLeader(p)'
      PROVE  /\ MajorityAt(term[p])'
             /\ \A q \in Nodes : IsLeader(q)' /\ term'[q] = term'[p] => q = p
             /\ \A o \in OpTimes : Occurs(o)' /\ o[1] = term'[p] =>
                    o[2] <= Len(log'[p]) /\ log'[p][o[2]] = o[1]
             /\ role'[p] = "elect" => \A i \in DOMAIN log'[p] : log'[p][i] # term'[p]
             /\ pending'[p] # 0 => pending'[p] > term'[p]
  <2>1. CASE p = n
    <3>1. \A q \in Nodes : IsLeader(q)' /\ term'[q] = term'[p] => q = p
      BY <1>2, <1>4, <1>5, <2>1
    <3>2. \A o \in OpTimes : Occurs(o)' => o[1] # term'[p]
      <4> SUFFICES ASSUME NEW o \in OpTimes, Occurs(o)' PROVE o[1] # term'[p]
        OBVIOUS
      <4>1. o[1] <= T /\ o[1] \in Nat
        BY <1>3, OpTimeFacts
      <4> QED BY <1>2, <1>5, <2>1, <4>1
    <3>3. ASSUME NEW i \in DOMAIN log'[p] PROVE log'[p][i] # term'[p]
      <4>1. PICK o \in OpTimes : o = <<log'[p][i], i>>
        BY <1>0, <1>2, LogFacts, LastFacts
      <4>2. Occurs(o)' /\ o[1] = log'[p][i]
        BY <4>1 DEF Occurs
      <4> QED BY <3>2, <4>2
    <3>4. pending'[p] = 0
      BY <1>0, <1>1, <2>1 DEF ElectionTypes
    <3> QED BY <1>5, <2>1, <3>1, <3>2, <3>3, <3>4
  <2>2. CASE p # n
    <3>1. IsLeader(p) /\ term'[p] = term[p] /\ term[p] <= T /\ role'[p] = role[p]
      BY <1>1, <1>4, <1>6, <2>2
    <3>2. MajorityAt(term[p])'
      <4>1. PICK t \in Nat : t = term[p]
        BY <1>2
      <4>2. MajorityAt(t)
        BY <3>1, <4>1 DEF TermInv
      <4>3. MajorityAt(t)'
        BY <1>0, <1>1, <4>2, MajorityAtKept
      <4> QED BY <3>1, <4>1, <4>3
    <3>3. ASSUME NEW q \in Nodes, IsLeader(q)', term'[q] = term'[p] PROVE q = p
      <4>1. q # n
        BY <1>2, <1>5, <3>1, <3>3
      <4>2. IsLeader(q) /\ term'[q] = term[q]
        BY <1>4, <3>3, <4>1
      <4> QED BY <3>1, <3>3, <4>2 DEF TermInv
    <3>4. \A o \in OpTimes : Occurs(o)' /\ o[1] = term'[p] =>
                    o[2] <= Len(log'[p]) /\ log'[p][o[2]] = o[1]
      BY <1>1, <1>2, <3>1 DEF OccursKept, TermInv
    <3>5. role'[p] = "elect" => \A i \in DOMAIN log'[p] : log'[p][i] # term'[p]
      BY <1>2, <3>1 DEF TermInv
    <3>6. pending'[p] # 0 => pending'[p] > term'[p]
      BY <1>2, <3>1 DEF TermInv
    <3> QED BY <3>2, <3>3, <3>4, <3>5, <3>6
  <2> QED BY <2>1, <2>2
<1> QED BY <1>3, <1>6 DEF TermInv

\* Whoever has been counted has reported something that occurs.
LEMMA AckedOccurs ==
    ASSUME ReportTypes, NEW v \in Nodes, NEW t \in Terms, NEW i \in Places, Acked(v, t, i)
    PROVE  \E o \in OpTimes : Occurs(o) /\ Leq(<<t, i>>, o)
<1>1. CASE \E n \in Nodes : NewestTerm(n) <= t /\ Leq(<<t, i>>, known[n][v])
  BY <1>1 DEF ReportTypes, Occurs
<1>2. CASE \E n \in Nodes : /\ report[n] # NoReport /\ report[n].term <= t
                            /\ Leq(<<t, i>>, report[n].positions[v])
  <2>1. PICK n \in Nodes : report[n] # NoReport /\ Leq(<<t, i>>, report[n].positions[v])
    BY <1>2
  <2>2. report[n].positions[v] \in OpTimes
    BY <2>1 DEF ReportTypes, Reports
  <2>3. Occurs(report[n].positions[v])
    BY <2>1 DEF Occurs
  <2> QED BY <2>1, <2>2, <2>3
<1> QED BY <1>1, <1>2 DEF Acked

\* What a former leader may commit without the voters is in the oplog of the winner.
LEMMA ElectionChosen ==
    ASSUME TypeInv, TypeInv', LogInv, TermInv, ChosenInv, NEW n \in Nodes,
           NEW voters \in SUBSET Nodes, WinElection(n, voters)
    PROVE  ChosenInv'
<1> DEFINE Q == voters \union {n}
           T == term[n]
<1>0. ElectionTypes /\ LogTypes /\ ReportTypes /\ ElectionTypes' /\ UNCHANGED log
  BY DEF TypeInv, WinElection
<1>1. /\ Q \in SUBSET Nodes /\ IsMajority(Q)
      /\ \A v \in Q : /\ ~IsLeader(v) /\ term'[v] = T + 1
                      /\ Leq(LastApplied(v), LastApplied(n))
      /\ \A m \in Nodes \ Q : term'[m] = term[m]
      /\ role'[n] = "elect" /\ \A m \in Nodes \ {n} : role'[m] = role[m]
      /\ \A m \in Nodes : term'[m] >= term[m]
      /\ \A t \in Nat : MajorityAt(t) => t <= T
      /\ OccursKept
      /\ \A v \in Nodes, t \in Terms, i \in Places : Acked(v, t, i)' => Acked(v, t, i)
  BY ElectionFacts
<1>2. n \in Q /\ T \in Nat
  BY <1>0, NewestTermType
<1> HIDE DEF Q
<1>3. \A m \in Nodes \ {n} : IsLeader(m)' => IsLeader(m) /\ term'[m] = term[m]
  BY <1>1 DEF IsLeader
<1> SUFFICES ASSUME NEW t \in Terms, NEW i \in Places, ~Unchosen(t, i)'
             PROVE  Inherited(t, i)'
  BY DEF ChosenInv, Terms, Places
<1>4. t \in Nat /\ i \in Nat
  BY BoundAssumption DEF Terms, Places
<1>5. Inherited(t, i)
  <2>1. AcksKept
    BY <1>1 DEF AcksKept
  <2>2. ~Unchosen(t, i)
    BY <1>0, <1>1, <2>1, UnchosenKept
  <2> QED BY <2>2 DEF ChosenInv
\* Otherwise its voters are the ones that will never count for the entry.
<1>6. ASSUME T + 1 > t PROVE \E v \in Q : Acked(v, t, i)
  <2> SUFFICES ASSUME \A v \in Q : ~Acked(v, t, i) PROVE FALSE
    OBVIOUS
  <2>1. \A v \in Q : term'[v] > t /\ ~Acked(v, t, i)'
    BY <1>1, <1>6
  <2>2. Unchosen(t, i)'
    BY <1>1, <2>1 DEF Unchosen
  <2> QED BY <2>2
<1>7. ASSUME NEW o \in OpTimes, Occurs(o) PROVE o[1] <= T
  BY <1>1, <1>7, OpTimeFacts DEF TermInv
<1>8. ASSUME NEW m \in Nodes, role'[m] = "elect", term'[m] > t
      PROVE  Reaches(log[m], Len(log[m]), t, i)
  <2>1. CASE m # n
    <3>1. IsLeader(m)' /\ role[m] = "elect"
      BY <1>1, <1>8, <2>1 DEF IsLeader
    <3> QED BY <1>3, <1>5, <1>8, <2>1, <3>1 DEF Inherited
  <2>2. CASE m = n
    <3>1. PICK v \in Q : Acked(v, t, i)
      BY <1>1, <1>2, <1>6, <1>8, <2>2
    <3>2. v \in Nodes /\ Leq(<<t, i>>, LastApplied(v)) /\ Leq(LastApplied(v), LastApplied(n))
      BY <1>1, <1>5, <3>1 DEF Inherited, Supports
    <3>3. /\ LastApplied(v)[1] \in Nat /\ LastApplied(v)[2] \in Nat
          /\ LastApplied(n)[1] \in Nat /\ LastApplied(n)[2] \in Nat
      BY <1>0, <3>2, LogFacts, OpTimeFacts
    <3>4. Leq(<<t, i>>, LastApplied(n))
      BY <1>4, <3>2, <3>3 DEF Leq
    <3> QED BY <1>0, <1>5, <2>2, <3>4, InheritedFacts
  <2> QED BY <2>1, <2>2
<1>9. ASSUME NEW v \in Nodes, Acked(v, t, i)' PROVE Supports(v, t, i)'
  <2>1. Acked(v, t, i)
    BY <1>1, <1>9
  <2>2. Supports(v, t, i)
    BY <1>5, <2>1 DEF Inherited
  <2>3. LastApplied(v)' = LastApplied(v)
    BY <1>0 DEF LastApplied
  <2>4. ASSUME IsLeader(v)' PROVE term'[v] >= t
    <3>1. CASE v # n
      BY <1>3, <2>2, <2>4, <3>1 DEF Supports
    <3>2. CASE v = n
      <4>1. PICK o \in OpTimes : Occurs(o) /\ Leq(<<t, i>>, o)
        BY <1>0, <2>1, AckedOccurs
      <4>2. o[1] \in Nat /\ o[1] <= T /\ t <= o[1]
        BY <1>4, <1>7, <4>1, OpTimeFacts DEF Leq
      <4>3. term'[v] = T + 1
        BY <1>1, <1>2, <3>2
      <4> QED BY <1>2, <1>4, <4>2, <4>3
    <3> QED BY <3>1, <3>2
  <2> QED BY <2>2, <2>3, <2>4 DEF Supports
<1>10. ASSUME i = MaxLog + 1
       PROVE  /\ \A o \in OpTimes : Occurs(o)' => o[1] <= t
              /\ \A m \in Nodes : IsLeader(m)' => term'[m] <= t
  <2>1. /\ \A o \in OpTimes : Occurs(o) => o[1] <= t
        /\ \A m \in Nodes : IsLeader(m) => term[m] <= t
    BY <1>5, <1>10 DEF Inherited
  <2>2. T + 1 <= t
    <3> SUFFICES ASSUME T + 1 > t PROVE FALSE
      BY <1>2, <1>4
    <3>1. PICK v \in Q : Acked(v, t, i)
      BY <1>6
    <3>2. PICK o \in OpTimes : Occurs(o) /\ Leq(<<t, i>>, o)
      BY <1>0, <1>1, <3>1, AckedOccurs
    <3>3. o[1] \in Nat /\ o[2] \in 0..MaxLog /\ o[1] <= t
      BY <2>1, <3>2, OpTimeFacts
    <3> QED BY <1>4, <1>10, <3>2, <3>3, BoundAssumption DEF Leq
  <2>3. term'[n] = T + 1
    BY <1>1, <1>2
  <2> QED BY <1>1, <1>3, <2>1, <2>2, <2>3 DEF OccursKept
<1> QED BY <1>0, <1>5, <1>8, <1>9, <1>10 DEF Inherited

\* The committed entries are in the oplog of the winner.
LEMMA ElectionHistory ==
    ASSUME TypeInv, TypeInv', LogInv, TermInv, NEW n \in Nodes,
           NEW voters \in SUBSET Nodes, WinElection(n, voters),
           NEW h \in Seq(1..MaxTerm), HistoryOK(h)
    PROVE  HistoryOK(h)'
<1> DEFINE Q == voters \union {n}
           T == term[n]
<1>0. ElectionTypes /\ LogTypes /\ UNCHANGED log
  BY DEF TypeInv, WinElection
<1>1. /\ Q \in SUBSET Nodes /\ IsMajority(Q)
      /\ \A v \in Q : term'[v] = T + 1 /\ Leq(LastApplied(v), LastApplied(n))
      /\ \A m \in Nodes \ Q : term'[m] = term[m]
      /\ \A v \in Q : ~IsLeader(v)
      /\ role'[n] = "elect" /\ \A m \in Nodes \ {n} : role'[m] = role[m]
      /\ \A t \in Nat : MajorityAt(t) => t <= T
  BY ElectionFacts
<1>2. n \in Q /\ T \in Nat
  BY <1>0, NewestTermType
<1>3. /\ h # <<>> /\ Len(h) \in Nat \ {0} /\ Last(h) \in Nat
  BY <1>0, HistoryFacts, BoundAssumption DEF HistoryOK, Terms
<1> DEFINE P == {v \in Nodes : Supports(v, Last(h), Len(h))}
           P2 == {v \in Nodes : Supports(v, Last(h), Len(h))'}
<1>4. IsMajority(P) /\ P \in SUBSET Nodes /\ P2 \in SUBSET Nodes
  BY DEF HistoryOK
<1>5. ASSUME NEW m \in Nodes, role'[m] = "elect", term'[m] > Last(h)
      PROVE  Includes(log[m], h)
  <2>1. CASE m # n
    <3>1. role[m] = "elect" /\ term'[m] = term[m]
      BY <1>1, <1>5, <2>1 DEF IsLeader
    <3> QED BY <1>5, <3>1 DEF HistoryOK
  <2>2. CASE m = n
    <3>1. PICK v \in Nodes : v \in P /\ v \in Q
      <4> HIDE DEF P, Q
      <4> QED BY <1>1, <1>4, MajoritiesMeet
    <3>2. Leq(<<Last(h), Len(h)>>, LastApplied(v)) /\ Leq(LastApplied(v), LastApplied(n))
      BY <1>1, <3>1 DEF Supports
    <3>3. /\ LastApplied(v)[1] \in Nat /\ LastApplied(v)[2] \in Nat
          /\ LastApplied(n)[1] \in Nat /\ LastApplied(n)[2] \in Nat
      BY <1>0, LogFacts, OpTimeFacts
    <3>4. Leq(<<Last(h), Len(h)>>, LastApplied(n))
      BY <1>3, <3>2, <3>3 DEF Leq
    <3> QED BY <1>0, <2>2, <3>4, HistoryReached
  <2> QED BY <2>1, <2>2
<1>6. P \in SUBSET P2
  <2> SUFFICES ASSUME NEW v \in Nodes, Supports(v, Last(h), Len(h))
               PROVE  Supports(v, Last(h), Len(h))'
    OBVIOUS
  <2>1. LastApplied(v)' = LastApplied(v)
    BY <1>0 DEF LastApplied
  <2>2. ASSUME IsLeader(v)' PROVE term'[v] >= Last(h)
    <3>1. CASE v # n
      <4>1. IsLeader(v) /\ term'[v] = term[v]
        BY <1>1, <2>2, <3>1 DEF IsLeader
      <4> QED BY <4>1 DEF Supports
    <3>2. CASE v = n
      <4>1. PICK o \in OpTimes : o = LastApplied(n)
        BY <1>0, LogFacts
      <4>2. Occurs(o)
        <5>1. Len(log[n]) \in DOMAIN log[n] /\ o = <<log[n][Len(log[n])], Len(log[n])>>
          BY <1>0, <4>1, LogFacts
        <5> QED BY <5>1 DEF Occurs
      <4>3. o[1] \in Nat /\ o[1] <= T
        BY <1>1, <4>2, OpTimeFacts DEF TermInv
      <4>4. Last(h) <= o[1]
        BY <1>3, <3>2, <4>1, <4>3 DEF Supports, Leq
      <4>5. term'[v] = T + 1
        BY <1>1, <1>2, <3>2
      <4> QED BY <1>2, <1>3, <4>3, <4>4, <4>5
    <3> QED BY <3>1, <3>2
  <2> QED BY <2>1, <2>2 DEF Supports
<1>7. IsMajority(P2)
  <2> HIDE DEF P, P2
  <2> QED BY <1>4, <1>6, MajorityGrows
<1> QED BY <1>0, <1>3, <1>5, <1>7 DEF HistoryOK

-----------------------------------------------------------------------------
(* The commit point. *)

\* What a primary may commit is an entry of its own term, and a history.
CommitFact ==
    \A p \in Nodes :
        LET o == MajorityOpTime(p, log[p], known[p])
        IN  TypeInv /\ LogInv /\ TermInv /\ ChosenInv /\ MayCommit(p, log[p], o) =>
                /\ o \in OpTimes /\ o[1] = term[p]
                /\ o[2] \in DOMAIN log[p] /\ log[p][o[2]] = o[1]
                /\ HistoryOK(SubSeq(log[p], 1, o[2]))

\* An entry of a leader's term that it counts a majority for is safe to commit.
LEMMA MayCommitFacts == CommitFact
<1> SUFFICES ASSUME NEW p \in Nodes, TypeInv, LogInv, TermInv, ChosenInv,
                    MayCommit(p, log[p], MajorityOpTime(p, log[p], known[p]))
             PROVE  LET o == MajorityOpTime(p, log[p], known[p])
                    IN  /\ o \in OpTimes /\ o[1] = term[p]
                        /\ o[2] \in DOMAIN log[p] /\ log[p][o[2]] = o[1]
                        /\ HistoryOK(SubSeq(log[p], 1, o[2]))
  BY Zenon DEF CommitFact
<1> DEFINE o == MajorityOpTime(p, log[p], known[p])
           T == term[p]
           M == {m \in Nodes : Leq(o, Position(p, log[p], known[p], m))}
<1>0. ElectionTypes /\ LogTypes /\ ReportTypes
  BY DEF TypeInv
<1>1. /\ log[p] \in Seq(1..MaxTerm) /\ Len(log[p]) \in 1..MaxLog
      /\ known[p] \in [Nodes -> OpTimes]
  BY <1>0, LogFacts DEF ReportTypes
<1>2. /\ o \in OpTimes /\ \E m \in Nodes : o = Position(p, log[p], known[p], m)
      /\ IsMajority(M)
  BY <1>1, MajorityOpTimeFacts
<1>3. role[p] = "master" /\ T <= o[1]
  <2>1. /\ role[p] = "master"
        /\ Leq(<<T, Min({i \in DOMAIN log[p] : log[p][i] = T} \union {MaxLog + 1})>>, o)
    BY DEF MayCommit
  <2>2. o[1] \in Nat /\ T \in Nat
    BY <1>0, <1>2, OpTimeFacts, NewestTermType
  <2> QED BY <2>1, <2>2 DEF Leq
<1> HIDE DEF o
<1>4. \A m \in M : m \in Nodes /\ (m # p => Leq(o, known[p][m]))
  BY DEF Position
<1>5. T \in Nat /\ T \in Terms /\ o[1] \in Nat /\ o[2] \in 0..MaxLog /\ NewestTerm(p) = T
  BY <1>0, <1>2, <1>3, OpTimeFacts, NewestTermType DEF NewestTerm, ElectionTypes, Terms
<1>6. IsLeader(p) /\ M \in SUBSET Nodes
  BY <1>3 DEF IsLeader
<1>7. Occurs(o)
  <2>1. PICK m \in Nodes : o = Position(p, log[p], known[p], m)
    BY <1>2
  <2>2. CASE m = p
    <3>1. o = <<log[p][Len(log[p])], Len(log[p])>> /\ Len(log[p]) \in DOMAIN log[p]
      BY <1>1, <2>1, <2>2, LastFacts DEF Position
    <3> QED BY <3>1 DEF Occurs
  <2>3. CASE m # p
    BY <2>1, <2>3 DEF Occurs, Position
  <2> QED BY <2>2, <2>3
\* It counts a majority, and whom it counts has answered it.
<1>8. ASSUME NEW i \in Places, \A m \in M : m # p => Acked(m, T, i) PROVE ~Unchosen(T, i)
  <2> SUFFICES ASSUME Unchosen(T, i) PROVE FALSE
    OBVIOUS
  <2>1. PICK Q \in SUBSET Nodes :
            IsMajority(Q) /\ \A v \in Q : term[v] > T /\ ~Acked(v, T, i)
    BY DEF Unchosen
  <2>2. PICK v \in Nodes : v \in Q /\ v \in M
    <3> HIDE DEF M
    <3> QED BY <1>2, <1>6, <2>1, MajoritiesMeet
  <2>3. v # p
    BY <1>5, <2>1, <2>2
  <2> QED BY <1>8, <2>1, <2>2, <2>3
<1>9. o[1] = T
  <2> SUFFICES ASSUME o[1] > T PROVE FALSE
    BY <1>3, <1>5
  <2>1. MaxLog + 1 \in Places /\ MaxLog + 1 \in Nat
    BY BoundAssumption DEF Places
  <2>2. ASSUME NEW m \in M, m # p PROVE Acked(m, T, MaxLog + 1)
    <3>1. Leq(o, known[p][m]) /\ known[p][m] \in OpTimes /\ m \in Nodes
      BY <1>1, <1>4, <2>2
    <3>2. known[p][m][1] \in Nat
      BY <3>1, OpTimeFacts
    <3>3. Leq(<<T, MaxLog + 1>>, known[p][m])
      BY <1>5, <3>1, <3>2 DEF Leq
    <3>4. NewestTerm(p) <= T
      BY <1>5
    <3> QED BY <3>3, <3>4 DEF Acked
  <2>3. Inherited(T, MaxLog + 1)
    BY <1>5, <1>8, <2>1, <2>2 DEF ChosenInv
  <2>4. o[1] <= T
    BY <1>2, <1>7, <2>3 DEF Inherited
  <2> QED BY <1>5, <2>4
<1> DEFINE i == o[2]
<1>10. i <= Len(log[p]) /\ log[p][i] = T
  BY <1>2, <1>6, <1>7, <1>9 DEF TermInv
<1>11. i \in Nat \ {0} /\ i \in DOMAIN log[p] /\ i \in Places /\ o = <<T, i>>
  <2>1. i # 0
    BY <1>0, <1>2, <1>5, <1>9, OpTimeFacts DEF ElectionTypes
  <2>2. i \in Nat \ {0} /\ i \in Places
    BY <1>5, <2>1, BoundAssumption DEF Places
  <2>3. i \in DOMAIN log[p]
    BY <1>1, <1>10, <2>2
  <2> QED BY <1>2, <1>9, <2>2, <2>3, OpTimeFacts
<1> HIDE DEF i
<1>12. ASSUME NEW m \in M, m # p PROVE Acked(m, T, i)
  <2>1. Leq(<<T, i>>, known[p][m]) /\ m \in Nodes /\ NewestTerm(p) <= T
    BY <1>4, <1>5, <1>11, <1>12
  <2> QED BY <2>1 DEF Acked
<1>13. Inherited(T, i)
  BY <1>5, <1>8, <1>11, <1>12 DEF ChosenInv
<1> DEFINE h == SubSeq(log[p], 1, i)
<1>14. /\ h \in Seq(1..MaxTerm) /\ Len(h) = i /\ DOMAIN h = 1..i
       /\ \A x \in 1..i : h[x] = log[p][x]
  BY <1>1, <1>10, <1>11, SubSeqFacts
<1>15. h # <<>> /\ Last(h) = T
  BY <1>10, <1>11, <1>14 DEF Last
<1> HIDE DEF h
\* Whoever has the entry, or another of the term after it, has h.
<1>16. ASSUME NEW n \in Nodes, NEW j \in DOMAIN log[n], i <= j, log[n][j] = T
       PROVE  Includes(log[n], h)
  <2>1. \A x \in 1..i : log[p][x] = log[n][x]
    BY <1>10, <1>11, <1>16 DEF LogInv, Match
  <2>2. j <= Len(log[n]) /\ Len(log[n]) \in Nat /\ j \in Nat
    BY <1>0, LogFacts
  <2> QED BY <1>11, <1>14, <1>16, <2>1, <2>2 DEF Includes
<1>17. ASSUME NEW n \in Nodes, NEW k \in DOMAIN log[n], Leq(<<T, i>>, <<log[n][k], k>>)
       PROVE  i <= k /\ Includes(log[n], h)
  <2>1. log[n][k] \in Nat /\ k \in Nat
    BY <1>0, LogFacts
  <2>2. log[n][k] > T \/ (log[n][k] = T /\ i <= k)
    BY <1>5, <1>17, <2>1 DEF Leq
  <2>3. CASE log[n][k] = T /\ i <= k
    BY <1>16, <2>3
  <2>4. CASE log[n][k] > T
    <3>1. PICK j \in DOMAIN log[n] : i <= j /\ j <= k /\ log[n][j] = T
      BY <1>13, <2>4 DEF Inherited, Reaches
    <3>2. j \in Nat
      BY <1>0, LogFacts
    <3> QED BY <1>11, <1>16, <2>1, <3>1, <3>2
  <2> QED BY <2>2, <2>3, <2>4
<1>18. ASSUME NEW n \in Nodes, role[n] = "elect", term[n] > T PROVE Includes(log[n], h)
  BY <1>13, <1>16, <1>18 DEF Inherited, Reaches
<1>19. IsMajority({v \in Nodes : Supports(v, T, i)})
  <2>1. ASSUME NEW v \in M PROVE Supports(v, T, i)
    <3>1. CASE v # p
      BY <1>4, <1>12, <1>13, <3>1 DEF Inherited
    <3>2. CASE v = p
      <4>1. Leq(<<T, i>>, LastApplied(p))
        BY <1>11, <2>1, <3>2 DEF Position, LastApplied
      <4>2. term[p] >= T
        BY <1>5
      <4> QED BY <3>2, <4>1, <4>2 DEF Supports
    <3> QED BY <3>1, <3>2
  <2>2. M \in SUBSET {v \in Nodes : Supports(v, T, i)}
    BY <1>6, <2>1
  <2> HIDE DEF M
  <2> QED BY <1>2, <2>2, MajorityGrows
<1>20. HistoryOK(h)
  BY <1>14, <1>15, <1>17, <1>18, <1>19 DEF HistoryOK
<1> QED BY <1>2, <1>9, <1>10, <1>11, <1>20 DEF o, h, i

\* Two histories are parts of one.
CompareFact ==
    LogTypes => \A g, h \in Seq(1..MaxTerm) :
        HistoryOK(g) /\ HistoryOK(h) /\ Len(g) <= Len(h) => Includes(h, g)

\* Of two histories that are safe, one begins with the other.
LEMMA HistoriesCompare == CompareFact
<1>1. ASSUME LogTypes, NEW g \in Seq(1..MaxTerm), NEW h \in Seq(1..MaxTerm),
             HistoryOK(g), HistoryOK(h), Leq(<<Last(g), Len(g)>>, <<Last(h), Len(h)>>)
      PROVE  Includes(h, g)
  <2>1. /\ Len(g) \in Nat \ {0} /\ DOMAIN g = 1..Len(g)
        /\ Len(h) \in Nat \ {0} /\ DOMAIN h = 1..Len(h) /\ Len(h) \in DOMAIN h
        /\ Last(h) = h[Len(h)]
    BY <1>1, HistoryFacts DEF HistoryOK
  <2>2. PICK v \in Nodes : Includes(log[v], h)
    BY <1>1, HistoryOccurs
  <2>3. Len(h) \in DOMAIN log[v] /\ log[v][Len(h)] = Last(h)
    BY <1>1, <2>1, <2>2, LogFacts DEF Includes
  <2>4. Len(g) <= Len(h) /\ Includes(log[v], g)
    BY <1>1, <2>3 DEF HistoryOK
  <2>5. \A x \in DOMAIN g : x \in DOMAIN h
    BY <2>1, <2>4
  <2> QED BY <2>2, <2>4, <2>5 DEF Includes
<1>2. ASSUME LogTypes, NEW g \in Seq(1..MaxTerm), NEW h \in Seq(1..MaxTerm),
             HistoryOK(g), HistoryOK(h), Len(g) <= Len(h)
      PROVE  Includes(h, g)
  <2>1. /\ Len(g) \in Nat /\ DOMAIN g = 1..Len(g) /\ Last(g) \in Nat
        /\ Len(h) \in Nat /\ DOMAIN h = 1..Len(h) /\ Last(h) \in Nat
    BY <1>2, HistoryFacts, BoundAssumption DEF HistoryOK, Terms
  <2>2. CASE Leq(<<Last(g), Len(g)>>, <<Last(h), Len(h)>>)
    BY <1>1, <1>2, <2>2
  <2>3. CASE Leq(<<Last(h), Len(h)>>, <<Last(g), Len(g)>>)
    <3>1. Includes(g, h)
      BY <1>1, <1>2, <2>3
    <3> QED BY <1>2, <2>1, <3>1 DEF Includes
  <2> QED BY <2>1, <2>2, <2>3 DEF Leq
<1> QED BY <1>2 DEF CompareFact

\* p takes an entry of its own oplog and term for its commit point.
Commits(p) ==
    /\ Has(history', commit'[p]) /\ commit'[p][1] = term'[p]
    /\ commit'[p][2] \in DOMAIN log'[p] /\ commit'[p][2] <= Len(history')
    /\ log'[p][commit'[p][2]] = term'[p]
    /\ \A x \in 1..commit'[p][2] : log'[p][x] = history'[x]

\* updateLastCommittedOpTime in the state that the step leads to.
LEMMA CommitStep ==
    ASSUME TypeInv', LogInv', TermInv', ChosenInv', NEW p \in Nodes,
           UNCHANGED <<term, role>>, UpdateCommitPoint(p, log'[p], known'[p]),
           commit \in [Nodes -> OpTimes],
           NEW h \in Seq(1..MaxTerm), h = history, HistoryOK(h)'
    PROVE  /\ history' \in Seq(1..MaxTerm) /\ HistoryOK(history)'
           /\ Includes(history', history)
           /\ \A m \in Nodes : commit'[m] = commit[m] \/ Commits(m)
<1> DEFINE o == MajorityOpTime(p, log'[p], known'[p])
<1>h. Len(h) \in Nat /\ DOMAIN h = 1..Len(h) /\ Includes(h, h)
  <2>1. Len(h) \in Nat /\ DOMAIN h = 1..Len(h)
    OBVIOUS
  <2> QED BY <2>1 DEF Includes
<1>1. CASE UNCHANGED <<commit, history>>
  BY <1>1, <1>h DEF HistoryOK
<1>2. CASE MayCommit(p, log'[p], o) /\ ~Leq(o, commit[p])
  <2>1. /\ commit' = [commit EXCEPT ![p] = o]
        /\ history' = IF o[2] > Len(history) THEN SubSeq(log'[p], 1, o[2]) ELSE history
    BY <1>2 DEF UpdateCommitPoint
  <2>2. CommitFact' /\ CompareFact'
    BY MayCommitFacts, HistoriesCompare, PTL
  <2>3. /\ o \in OpTimes /\ o[1] = term'[p]
        /\ o[2] \in DOMAIN log'[p] /\ log'[p][o[2]] = o[1]
        /\ HistoryOK(SubSeq(log[p], 1, MajorityOpTime(p, log[p], known[p])[2]))'
    BY <1>2, <2>2 DEF CommitFact, MayCommit
  <2>4. LogTypes' /\ log'[p] \in Seq(1..MaxTerm) /\ o[2] \in Nat \ {0} /\ o[2] <= Len(log'[p])
    BY <2>3 DEF TypeInv, LogTypes
  <2>5. PICK g \in Seq(1..MaxTerm) :
            /\ g = SubSeq(log'[p], 1, o[2]) /\ Len(g) = o[2] /\ DOMAIN g = 1..o[2]
            /\ \A x \in 1..o[2] : g[x] = log'[p][x]
    BY <2>4, SubSeqFacts
  <2>6. HistoryOK(g)'
    BY <2>3, <2>5 DEF HistoryOK
  <2>7. commit'[p] = o /\ \A m \in Nodes \ {p} : commit'[m] = commit[m]
    BY <2>1
  <2> HIDE DEF o
  <2>8. CASE o[2] > Len(h)
    <3>1. history' = g
      BY <2>1, <2>5, <2>8
    <3>2. Includes(g, h)
      <4>1. Len(h) <= Len(g)
        BY <1>h, <2>4, <2>5, <2>8
      <4> QED BY <2>2, <2>4, <2>6, <4>1 DEF CompareFact
    <3>3. HistoryOK(history)'
      BY <2>6, <3>1 DEF HistoryOK
    <3>4. Has(g, o) /\ o[2] <= Len(g)
      BY <2>3, <2>4, <2>5 DEF Has
    <3> QED BY <2>3, <2>5, <2>7, <3>1, <3>2, <3>3, <3>4 DEF Commits
  <2>9. CASE o[2] <= Len(h)
    <3>1. history' = h
      BY <1>h, <2>1, <2>4, <2>9
    <3>2. Includes(h, g)
      <4>1. Len(g) <= Len(h)
        BY <2>5, <2>9
      <4> QED BY <2>2, <2>4, <2>6, <4>1 DEF CompareFact
    <3>3. HistoryOK(history)'
      BY <3>1 DEF HistoryOK
    <3>4. \A x \in 1..o[2] : log'[p][x] = h[x]
      BY <2>5, <3>2 DEF Includes
    <3>5. Has(h, o)
      BY <2>3, <2>4, <2>9, <3>4 DEF Has
    <3> QED BY <1>h, <2>3, <2>7, <2>9, <3>1, <3>3, <3>4, <3>5 DEF Commits
  <2> QED BY <1>h, <2>4, <2>8, <2>9
<1> QED BY <1>1, <1>2 DEF UpdateCommitPoint

-----------------------------------------------------------------------------
(* Every step keeps the invariant. *)

\* An optime of a history stays one when the history grows.
LEMMA HasKept ==
    ASSUME NEW a \in Seq(1..MaxTerm), NEW b \in Seq(1..MaxTerm), Includes(b, a),
           NEW o \in OpTimes, Has(a, o)
    PROVE  Has(b, o)
<1>1. Len(a) \in Nat /\ Len(b) \in Nat /\ o[2] \in Nat /\ DOMAIN a = 1..Len(a)
  BY OpTimeFacts
<1> QED BY <1>1 DEF Has, Includes

\* An oplog includes itself.
LEMMA IncludesItself ==
    ASSUME NEW h \in Seq(1..MaxTerm)
    PROVE  Includes(h, h)
<1>1. Len(h) \in Nat
  OBVIOUS
<1> QED BY <1>1 DEF Includes

\* A history that includes another one begins with it.
LEMMA IncludesIsPrefix ==
    ASSUME NEW a \in Seq(1..MaxTerm), NEW b \in Seq(1..MaxTerm), Includes(b, a)
    PROVE  IsPrefix(a, b)
<1>1. Len(a) \in Nat /\ Len(b) \in Nat /\ DOMAIN a = 1..Len(a) /\ Len(a) <= Len(b)
  BY DEF Includes
<1> DEFINE s == SubSeq(a, 1, Len(a))
           t == SubSeq(b, 1, Len(a))
<1>2. /\ s \in Seq(1..MaxTerm) /\ Len(s) = Len(a) /\ \A x \in 1..Len(a) : s[x] = a[x]
      /\ t \in Seq(1..MaxTerm) /\ Len(t) = Len(a) /\ \A x \in 1..Len(a) : t[x] = b[x]
  BY <1>1, SubSeqFacts
<1>3. \A x \in 1..Len(a) : s[x] = t[x]
  BY <1>1, <1>2 DEF Includes
<1> HIDE DEF s, t
<1>4. s = t
  BY <1>2, <1>3, SeqEqual
<1> QED BY <1>1, <1>4 DEF IsPrefix, s, t

\* A report that is not new is known as before.
LEMMA ReportInvKept ==
    ASSUME ElectionTypes, ElectionTypes', ReportTypes, ReportInv,
           \A m \in Nodes : NewestTerm(m)' >= NewestTerm(m),
           \A n \in Nodes : \/ report'[n] = report[n] \/ report'[n] = NoReport
                            \/ report'[n].step = "term"
    PROVE  ReportInv'
<1> SUFFICES ASSUME NEW n \in Nodes, report'[n] # NoReport, report'[n].step = "positions"
             PROVE  NewestTerm(report[n].to)' >= report'[n].term
  BY DEF ReportInv
<1>1. report'[n] = report[n]
  OBVIOUS
<1>2. NewestTerm(report[n].to) >= report[n].term
  BY <1>1 DEF ReportInv
<1>3. PICK s \in Nodes : s = report[n].to
  BY <1>1 DEF ReportTypes, Reports
<1>4. NewestTerm(s) \in Nat /\ NewestTerm(s)' \in Nat /\ report[n].term \in Nat
  BY <1>1, NewestTermType, BoundAssumption DEF ReportTypes, Reports, ElectionTypes, NewestTerm
<1>5. NewestTerm(s)' >= report[n].term
  BY <1>2, <1>3, <1>4
<1> QED BY <1>1, <1>3, <1>5

\* The invariant holds in the first states.
LEMMA InvStart == Init => CommitPointInv
<1> SUFFICES ASSUME Init PROVE CommitPointInv
  OBVIOUS
<1>0. TypeInv /\ ElectionTypes /\ LogTypes
  BY TypesStart DEF TypeInv
<1>1. LogInv
  BY LogAssumption DEF Init, LogInv
<1>2. history = <<1>> /\ history \in Seq(1..MaxTerm)
  BY BoundAssumption DEF Init
<1>3. TypeOK
  BY <1>0, <1>2, TypeParts
<1> DEFINE S == {Last(log[m]) : m \in Nodes}
           T == Max(S)
<1>4. S \in SUBSET (0..MaxTerm) /\ S # {}
  <2>1. \A m \in Nodes : Last(log[m]) \in 1..MaxTerm
    BY <1>0, LogFacts, LastFacts
  <2> QED BY <2>1, NodeAssumption, BoundAssumption
<1>5. T \in Nat /\ \A m \in Nodes : Last(log[m]) <= T
  <2>1. T \in S /\ \A x \in S : x <= T
    BY <1>4, MaxFacts, BoundAssumption
  <2>2. \A m \in Nodes : Last(log[m]) \in S
    OBVIOUS
  <2> HIDE DEF S, T
  <2>3. T \in Nat
    BY <1>4, <2>1, BoundAssumption
  <2> QED BY <2>1, <2>2, <2>3
<1>6. \A n \in Nodes : term[n] = T /\ role[n] = "follower" /\ ~IsLeader(n)
  BY DEF Init, IsLeader
<1> HIDE DEF S, T
<1>7. ASSUME NEW n \in Nodes, NEW i \in DOMAIN log[n]
      PROVE  log[n][i] <= T /\ log[n][i] \in Nat
  <2>1. Last(log[n]) = log[n][Len(log[n])] /\ log[n][i] <= log[n][Len(log[n])]
    BY <1>0, <1>1, LogFacts, LastFacts DEF LogInv, Sorted
  <2>2. log[n][i] \in Nat /\ log[n][Len(log[n])] \in Nat /\ Last(log[n]) <= T
    BY <1>0, <1>5, LogFacts
  <2> QED BY <1>5, <2>1, <2>2
<1>8. /\ \A n, m \in Nodes : known[n][m] = Null
      /\ \A n \in Nodes : report[n] = NoReport
  BY DEF Init
<1>9. ASSUME NEW o \in OpTimes, Occurs(o) PROVE o[1] <= T
  <2>1. CASE \E n \in Nodes : \E i \in DOMAIN log[n] : o = <<log[n][i], i>>
    BY <1>7, <2>1
  <2>2. CASE \E n, m \in Nodes : o = known[n][m]
    BY <1>5, <1>8, <2>2 DEF Null
  <2> QED BY <1>8, <1>9, <2>1, <2>2 DEF Occurs
<1>10. ASSUME NEW t \in Nat, t <= T PROVE MajorityAt(t)
  <2>1. {v \in Nodes : term[v] >= t} = Nodes
    BY <1>5, <1>6, <1>10
  <2> QED BY <2>1, AllAreMajority DEF MajorityAt
<1>11. TermInv
  <2>1. \A o \in OpTimes : Occurs(o) => MajorityAt(o[1])
    BY <1>9, <1>10, OpTimeFacts
  <2> QED BY <1>6, <2>1 DEF TermInv
<1>12. ReportInv
  BY <1>8 DEF ReportInv
<1>13. ASSUME NEW v \in Nodes, NEW t \in Terms, NEW i \in Places PROVE ~Acked(v, t, i)
  <2>1. t \in Nat \ {0}
    BY BoundAssumption DEF Terms
  <2>2. ~Leq(<<t, i>>, Null)
    BY <2>1 DEF Leq, Null
  <2> QED BY <1>8, <2>2 DEF Acked
<1>14. ChosenInv
  <2> SUFFICES ASSUME NEW t \in Terms, NEW i \in Places PROVE Unchosen(t, i) \/ Inherited(t, i)
    BY DEF ChosenInv
  <2>1. t \in Nat
    BY BoundAssumption DEF Terms
  <2>2. CASE t < T
    <3>1. \A v \in Nodes : term[v] > t /\ ~Acked(v, t, i)
      BY <1>5, <1>6, <1>13, <2>1, <2>2
    <3> QED BY <3>1, AllAreMajority DEF Unchosen
  <2>3. CASE T <= t
    <3>1. \A n \in Nodes : \A k \in DOMAIN log[n] : ~(log[n][k] > t)
      BY <1>5, <1>7, <2>1, <2>3
    <3>2. \A o \in OpTimes : Occurs(o) => o[1] <= t
      <4> SUFFICES ASSUME NEW o \in OpTimes, Occurs(o) PROVE o[1] <= t
        OBVIOUS
      <4>1. o[1] \in Nat /\ o[1] <= T
        BY <1>9, OpTimeFacts
      <4> QED BY <1>5, <2>1, <2>3, <4>1
    <3> QED BY <1>6, <1>13, <3>1, <3>2 DEF Inherited
  <2> QED BY <1>5, <2>1, <2>2, <2>3
<1>15. HistoryOK(history)
  <2> DEFINE h == <<1>>
  <2>1. h # <<>> /\ Len(h) = 1 /\ DOMAIN h = 1..1 /\ Last(h) = 1 /\ h[1] = 1
    BY DEF Last
  <2> HIDE DEF h
  <2>2. \A n \in Nodes : Includes(log[n], h)
    BY <1>0, <2>1, LogFacts DEF Includes, LogTypes
  <2>3. \A n \in Nodes : \A k \in DOMAIN log[n] : 1 <= k
    BY <1>0, LogFacts
  <2>4. \A v \in Nodes : Supports(v, 1, 1)
    <3> TAKE v \in Nodes
    <3>1. LastApplied(v)[1] \in Nat \ {0} /\ LastApplied(v)[2] \in Nat \ {0}
      BY <1>0, LogFacts
    <3>2. Leq(<<1, 1>>, LastApplied(v))
      BY <3>1 DEF Leq
    <3> QED BY <1>6, <3>2 DEF Supports
  <2>5. {v \in Nodes : Supports(v, 1, 1)} = Nodes
    BY <2>4
  <2>6. HistoryOK(h)
    BY <2>1, <2>2, <2>3, <2>5, AllAreMajority DEF HistoryOK
  <2> QED BY <1>2, <2>6 DEF h
<1>16. CommitPointIsCommitted
  BY <1>2 DEF Init, CommitPointIsCommitted, Has
<1> QED BY <1>1, <1>3, <1>11, <1>12, <1>14, <1>15, <1>16 DEF CommitPointInv

\* Whose commit point changes, and how.
CommitsOK ==
    \A m \in Nodes : \/ commit'[m] = commit[m] \/ Commits(m)
                     \/ \E s \in Nodes, e \in {0, 1} : Fetch(m, s, e)

InvStep == CommitPointInv' /\ Includes(history', history) /\ CommitsOK

\* Every action keeps the invariant, and the committed entries only grow.
LEMMA InvKept ==
    ASSUME "OldTerm" \notin Faults, CommitPointInv, [Next]_vars
    PROVE  InvStep
<1>1. /\ TypeInv /\ LogInv /\ TermInv /\ ReportInv /\ ChosenInv /\ CommitPointIsCommitted
      /\ history \in Seq(1..MaxTerm) /\ HistoryOK(history)
  BY TypeParts DEF CommitPointInv, LogInv
<1>2. TypeInv'
  BY <1>1, TypesKept
<1>3. /\ ElectionTypes /\ LogTypes /\ ReportTypes /\ CommitTypes
      /\ ElectionTypes' /\ LogTypes' /\ ReportTypes' /\ CommitTypes' /\ SteppingInv
  BY <1>1, <1>2, PendingIsNewer DEF TypeInv
<1>4. PICK h \in Seq(1..MaxTerm) : h = history /\ HistoryOK(h)
  BY <1>1
<1>5. Includes(history, history)
  BY <1>1, IncludesItself
<1>6. ASSUME LogInv', TermInv', ReportInv', ChosenInv', HistoryOK(history)',
             history' \in Seq(1..MaxTerm), Includes(history', history),
             CommitsOK,
             \A m \in Nodes : Has(history', commit'[m]) \/ \E x \in Nodes : commit'[m] = commit[x]
      PROVE  InvStep
  <2>1. TypeOK'
    BY <1>2, <1>6
    DEF TypeOK, TypeInv, ElectionTypes, LogTypes, ReportTypes, CommitTypes, Roles
  <2>2. CommitPointIsCommitted'
    <3> SUFFICES ASSUME NEW m \in Nodes PROVE Has(history', commit'[m])
      BY DEF CommitPointIsCommitted
    <3>1. ASSUME NEW x \in Nodes, commit'[m] = commit[x] PROVE Has(history', commit'[m])
      <4>1. commit[x] \in OpTimes /\ Has(history, commit[x])
        BY <1>1, <1>3 DEF CommitTypes, CommitPointIsCommitted
      <4> QED BY <1>1, <1>6, <3>1, <4>1, HasKept
    <3> QED BY <1>6, <3>1
  <2> QED BY <1>6, <2>1, <2>2 DEF CommitPointInv, InvStep
<1>7. ASSUME QuietStep PROVE LogInv' /\ TermInv' /\ ChosenInv' /\ HistoryOK(h)'
  <2>1. LogInv'
    BY <1>1, <1>3, <1>7, QuietLogs DEF QuietStep
  <2>2. TermInv'
    BY <1>1, <1>3, <1>7, QuietTerms DEF QuietStep
  <2>3. ChosenInv'
    BY <1>1, <1>3, <1>7, <2>1, QuietChosen
  <2>4. HistoryOK(h)'
    BY <1>1, <1>3, <1>4, <1>7, <2>1, QuietHistory
  <2> QED BY <2>1, <2>2, <2>3, <2>4
<1>8. ASSUME QuietStep, ReportInv', UNCHANGED history, CommitsOK,
             \A m \in Nodes : \E x \in Nodes : commit'[m] = commit[x]
      PROVE  InvStep
  <2>1. LogInv' /\ TermInv' /\ ChosenInv' /\ HistoryOK(h)'
    BY <1>7, <1>8
  <2>2. HistoryOK(history)'
    BY <1>4, <1>8, <2>1 DEF HistoryOK
  <2> QED BY <1>1, <1>5, <1>6, <1>8, <2>1, <2>2
<1>9. ASSUME NEW p \in Nodes, UNCHANGED <<term, role>>,
             LogInv', TermInv', ReportInv', ChosenInv', HistoryOK(h)',
             UpdateCommitPoint(p, log'[p], known'[p])
      PROVE  InvStep
  <2>1. commit \in [Nodes -> OpTimes]
    BY <1>3 DEF CommitTypes
  <2>2. /\ history' \in Seq(1..MaxTerm) /\ HistoryOK(history)' /\ Includes(history', history)
        /\ \A m \in Nodes : commit'[m] = commit[m] \/ Commits(m)
    BY <1>2, <1>4, <1>9, <2>1, CommitStep
  <2>3. /\ CommitsOK
        /\ \A m \in Nodes : Has(history', commit'[m]) \/ \E x \in Nodes : commit'[m] = commit[x]
    BY <2>2 DEF CommitsOK, Commits
  <2> QED BY <1>6, <1>9, <2>2, <2>3
<1>10. ASSUME NEW n \in Nodes, AppendStep(n)
       PROVE  LogInv' /\ TermInv' /\ ChosenInv' /\ HistoryOK(h)'
  <2>1. LogInv'
    BY <1>1, <1>2, <1>10, AppendLogs
  <2>2. TermInv'
    BY <1>1, <1>2, <1>10, AppendTerms
  <2>3. ChosenInv'
    BY <1>1, <1>2, <1>10, <2>1, AppendChosen
  <2>4. HistoryOK(h)'
    BY <1>1, <1>2, <1>4, <1>10, <2>1, AppendHistory
  <2> QED BY <2>1, <2>2, <2>3, <2>4
<1>11. \A m \in Nodes : NewestTerm(m) >= NewestTerm(m)
  BY <1>3, NewestTermType
<1>12. UNCHANGED <<term, role, pending>> => \A m \in Nodes : NewestTerm(m)' >= NewestTerm(m)
  BY <1>11 DEF NewestTerm
<1>13. \A n \in Nodes : Last(log[n]) = log[n][Len(log[n])]
  BY DEF Last
<1>14. UNCHANGED commit => CommitsOK
  BY DEF CommitsOK
<1>21. ASSUME NEW n \in Nodes, FinishStepDown(n)
       PROVE  InvStep
  <2>1. SteppingInv' /\ TermsGrow
    BY <1>3, <1>21, FinishStepDownFacts
  <2>2. UNCHANGED <<log, known, commit, report, history>> /\ OldReports
    BY <1>21 DEF FinishStepDown, OldReports
  <2>3. QuietStep
    BY <1>3, <2>1, <2>2, TermStepIsQuiet
  <2>4. ReportInv'
    BY <1>1, <1>3, <2>1, <2>2, ReportInvKept DEF TermsGrow
  <2> QED BY <1>8, <1>14, <2>2, <2>3, <2>4
<1>32. ASSUME NEW n \in Nodes, StepDownSelf(n) \/ StepDown(n)
       PROVE  InvStep
  <2>1. SteppingInv' /\ TermsGrow
    BY <1>3, <1>32, StepDownFacts
  <2>2. UNCHANGED <<log, known, commit, report, history>> /\ OldReports
    BY <1>32 DEF StepDownSelf, StepDown, OldReports
  <2>3. QuietStep
    BY <1>3, <2>1, <2>2, TermStepIsQuiet
  <2>4. ReportInv'
    BY <1>1, <1>3, <2>1, <2>2, ReportInvKept DEF TermsGrow
  <2> QED BY <1>8, <1>14, <2>2, <2>3, <2>4
<1>22. ASSUME NEW n \in Nodes, NEW voters \in SUBSET Nodes, WinElection(n, voters)
       PROVE  InvStep
  <2>1. UNCHANGED <<log, commit, report, history>>
    BY <1>22 DEF WinElection
  <2>2. TermInv' /\ ChosenInv' /\ HistoryOK(h)'
    BY <1>1, <1>2, <1>4, <1>22, ElectionTerms, ElectionChosen, ElectionHistory
  <2>3. LogInv'
    BY <1>1, <2>1 DEF LogInv
  <2>4. \A m \in Nodes : NewestTerm(m)' >= NewestTerm(m)
    BY <1>1, <1>2, <1>22, ElectionFacts
  <2>5. ReportInv'
    BY <1>1, <1>3, <2>1, <2>4, ReportInvKept
  <2>6. HistoryOK(history)'
    BY <1>4, <2>1, <2>2 DEF HistoryOK
  <2> QED BY <1>1, <1>5, <1>6, <1>14, <2>1, <2>2, <2>3, <2>5, <2>6
<1>23. ASSUME NEW n \in Nodes, CompleteTransition(n)
       PROVE  InvStep
  <2>1. AppendStep(n)
    <3>1. /\ role[n] = "elect" /\ Last(log[n]) <= term[n]
          /\ role' = [role EXCEPT ![n] = "master"]
          /\ log' = [log EXCEPT ![n] = Append(@, term[n])]
          /\ UNCHANGED <<term, pending, known, report>>
      BY <1>23 DEF CompleteTransition
    <3> QED BY <1>3, <1>13, <3>1 DEF AppendStep, ElectionTypes, IsLeader
  <2>2. UNCHANGED <<commit, report, history>>
    BY <1>23 DEF CompleteTransition
  <2>3. LogInv' /\ TermInv' /\ ChosenInv' /\ HistoryOK(h)'
    BY <1>10, <2>1
  <2>4. \A m \in Nodes : NewestTerm(m)' >= NewestTerm(m)
    BY <1>1, <1>2, <1>11, <2>1, AppendFacts
  <2>5. ReportInv'
    BY <1>1, <1>3, <2>2, <2>4, ReportInvKept
  <2>6. HistoryOK(history)'
    BY <1>4, <2>2, <2>3 DEF HistoryOK
  <2> QED BY <1>1, <1>5, <1>6, <1>14, <2>2, <2>3, <2>5, <2>6
<1>24. ASSUME NEW n \in Nodes, Write(n)
       PROVE  InvStep
  <2>1. /\ role[n] \in {"master", "stepping"} /\ Last(log[n]) = term[n]
        /\ log' = [log EXCEPT ![n] = Append(@, term[n])]
        /\ UpdateCommitPoint(n, log'[n], known[n])
        /\ UNCHANGED <<term, role, pending, known, report>>
    BY <1>24 DEF Write, election
  <2>2. AppendStep(n)
    <3>1. term[n] <= term[n]
      BY <1>3, NewestTermType
    <3> QED BY <1>13, <2>1, <3>1 DEF AppendStep, IsLeader
  <2>3. LogInv' /\ TermInv' /\ ChosenInv' /\ HistoryOK(h)'
    BY <1>10, <2>2
  <2>4. ReportInv'
    BY <1>1, <1>3, <1>12, <2>1, ReportInvKept
  <2> QED BY <1>9, <2>1, <2>3, <2>4
<1>25. ASSUME NEW n \in Nodes, ReceiveTerm(n)
       PROVE  InvStep
  <2>1. /\ report[n] # NoReport /\ UpdateTerm(report[n].to, report[n].term)
        /\ report' = [report EXCEPT ![n].step = "positions"]
        /\ UNCHANGED <<log, known, commit, history>>
    BY <1>25 DEF ReceiveTerm, ReportedTerm
  <2>2. report[n] \in Reports /\ report[n].to \in Nodes /\ report[n].term \in 0..MaxTerm
    BY <1>3, <2>1, BoundAssumption DEF ReportTypes, Reports
  <2>3. PICK s \in Nodes : s = report[n].to
    BY <2>2
  <2>4. SteppingInv' /\ TermsGrow /\ NewestTerm(s)' >= report[n].term
    BY <1>3, <2>1, <2>2, <2>3, UpdateTermFacts
  <2>5. /\ report'[n].to = s /\ report'[n].term = report[n].term
        /\ report'[n].positions = report[n].positions
        /\ \A m \in Nodes \ {n} : report'[m] = report[m]
    BY <1>3, <2>1, <2>2, <2>3 DEF ReportTypes, Reports
  <2>6. OldReports
    BY <2>1, <2>5 DEF OldReports
  <2>7. QuietStep
    BY <1>3, <2>1, <2>4, <2>6, TermStepIsQuiet
  <2>8. ReportInv'
    <3> SUFFICES ASSUME NEW m \in Nodes, report'[m] # NoReport, report'[m].step = "positions"
                 PROVE  NewestTerm(report[m].to)' >= report'[m].term
      BY DEF ReportInv
    <3>1. CASE m = n
      BY <2>4, <2>5, <3>1
    <3>2. CASE m # n
      <4>1. report'[m] = report[m] /\ NewestTerm(report[m].to) >= report[m].term
        BY <1>1, <2>5, <3>2 DEF ReportInv
      <4>2. PICK x \in Nodes : x = report[m].to
        BY <1>3, <4>1 DEF ReportTypes, Reports
      <4>3. NewestTerm(x) \in Nat /\ NewestTerm(x)' \in Nat
        BY <1>3, NewestTermType, BoundAssumption DEF ElectionTypes, NewestTerm
      <4>4. NewestTerm(x)' >= NewestTerm(x)
        BY <2>4 DEF TermsGrow
      <4>5. report[m] \in Reports
        BY <1>3, <4>1 DEF ReportTypes
      <4>6. report[m].term \in Nat
        BY <4>5, BoundAssumption DEF Reports
      <4>7. NewestTerm(x)' >= report[m].term
        BY <4>1, <4>2, <4>3, <4>4, <4>6
      <4> QED BY <4>1, <4>2, <4>7
    <3> QED BY <3>1, <3>2
  <2> QED BY <1>8, <1>14, <2>1, <2>7, <2>8
<1>26. ASSUME NEW n \in Nodes, ReceivePositions(n)
       PROVE  InvStep
  <2> DEFINE s == report[n].to
             k == [m \in Nodes |-> IF m = s THEN known[s][m]
                                   ELSE Greater(known[s][m], report[n].positions[m])]
  <2>1. /\ report[n] # NoReport /\ report' = [report EXCEPT ![n] = NoReport]
        /\ known' = [known EXCEPT ![s] = k] /\ UpdateCommitPoint(s, log[s], k)
        /\ UNCHANGED <<log, term, role, pending>>
    BY <1>26 DEF ReceivePositions, election
  <2>2. s \in Nodes
    BY <1>3, <2>1 DEF ReportTypes, Reports
  <2>3. PICK p \in Nodes : p = s
    BY <2>2
  <2>4. known'[p] = k
    BY <1>3, <2>1, <2>3 DEF ReportTypes
  <2>5. UpdateCommitPoint(p, log'[p], known'[p])
    BY <2>1, <2>3, <2>4
  <2> HIDE DEF s, k
  <2>6. LogInv' /\ TermInv' /\ ChosenInv' /\ HistoryOK(h)'
    BY <1>1, <1>2, <1>7, <1>26, ReceivePositionsIsQuiet
  <2>7. ReportInv'
    BY <1>1, <1>3, <1>12, <2>1, ReportInvKept DEF ReportTypes
  <2> QED BY <1>9, <2>1, <2>5, <2>6, <2>7
<1>27. ASSUME NEW n \in Nodes, NEW m \in Nodes, Heartbeat(n, m)
       PROVE  InvStep
  <2>1. UpdateTerm(n, term[m]) /\ term[m] \in 0..MaxTerm
    BY <1>3, <1>27, BoundAssumption DEF Heartbeat, ElectionTypes
  <2>2. SteppingInv' /\ TermsGrow
    BY <1>3, <2>1, UpdateTermFacts
  <2>3. UNCHANGED <<log, known, commit, report, history>> /\ OldReports
    BY <1>27 DEF Heartbeat, OldReports
  <2>4. QuietStep
    BY <1>3, <2>2, <2>3, TermStepIsQuiet
  <2>5. ReportInv'
    BY <1>1, <1>3, <2>2, <2>3, ReportInvKept DEF TermsGrow
  <2> QED BY <1>8, <1>14, <2>3, <2>4, <2>5
<1>28. ASSUME NEW n \in Nodes, NEW m \in Nodes, NEW e \in {0, 1}, Fetch(n, m, e)
       PROVE  InvStep
  <2>1. QuietStep
    BY <1>1, <1>2, <1>28, FetchIsQuiet
  <2>2. /\ commit' = [commit EXCEPT ![n] = IF IsLeader(n) THEN @ ELSE Greater(@, commit[m])]
        /\ UNCHANGED <<known, report, history>>
    BY <1>28 DEF Fetch
  <2>3. ReportInv'
    BY <1>1, <1>3, <2>1, <2>2, ReportInvKept DEF QuietStep, TermsGrow
  <2>4. \A a \in Nodes : \E x \in Nodes : commit'[a] = commit[x]
    BY <1>3, <2>2 DEF CommitTypes, Greater
  <2>5. CommitsOK
    BY <1>3, <1>28, <2>2 DEF CommitsOK, CommitTypes
  <2> QED BY <1>8, <2>1, <2>2, <2>3, <2>4, <2>5
<1>29. ASSUME NEW n \in Nodes, NEW m \in Nodes, Rollback(n, m)
       PROVE  InvStep
  <2>1. QuietStep
    BY <1>1, <1>2, <1>29, RollbackIsQuiet
  <2>2. UNCHANGED <<commit, report, history>>
    BY <1>29 DEF Rollback
  <2>3. ReportInv'
    BY <1>1, <1>3, <2>1, <2>2, ReportInvKept DEF QuietStep, TermsGrow
  <2> QED BY <1>8, <1>14, <2>1, <2>2, <2>3
<1>30. ASSUME NEW n \in Nodes, NEW m \in Nodes, SendReport(n, m)
       PROVE  InvStep
  <2>1. QuietStep
    BY <1>1, <1>2, <1>30, SendReportIsQuiet
  <2>2. UNCHANGED <<commit, history>>
    BY <1>30 DEF SendReport
  <2>3. \A a \in Nodes : report'[a] = report[a] \/ report'[a].step = "term"
    BY <1>3, <1>30 DEF SendReport, ReportTypes
  <2>4. ReportInv'
    BY <1>1, <1>3, <2>1, <2>3, ReportInvKept DEF QuietStep, TermsGrow
  <2> QED BY <1>8, <1>14, <2>1, <2>2, <2>4
<1>31. CASE UNCHANGED vars
  <2>1. UNCHANGED <<log, term, role, pending, known, commit, report, history>>
    BY <1>31 DEF vars, election
  <2>2. LogInv' /\ TermInv' /\ ReportInv' /\ ChosenInv'
    <3>1. LogInv'
      BY <1>1, <2>1 DEF LogInv
    <3>2. \A o \in OpTimes : Occurs(o)' <=> Occurs(o)
      BY <2>1 DEF Occurs
    <3>3. TermInv'
      BY <1>1, <2>1, <3>2 DEF TermInv, MajorityAt, IsLeader
    <3>4. ReportInv'
      BY <1>1, <2>1 DEF ReportInv, NewestTerm
    <3>5. \A v \in Nodes, t \in Terms, i \in Places :
            (Acked(v, t, i)' <=> Acked(v, t, i)) /\ (Supports(v, t, i)' <=> Supports(v, t, i))
      BY <2>1 DEF Acked, Supports, NewestTerm, LastApplied, IsLeader
    <3>6. \A t \in Terms, i \in Places : Unchosen(t, i)' <=> Unchosen(t, i)
      BY <2>1, <3>5 DEF Unchosen
    <3>7. \A t \in Terms, i \in Places : Inherited(t, i)' <=> Inherited(t, i)
      BY <2>1, <3>2, <3>5 DEF Inherited, IsLeader
    <3>8. ChosenInv'
      BY <1>1, <3>6, <3>7 DEF ChosenInv, Terms, Places
    <3> QED BY <3>1, <3>3, <3>4, <3>8
  <2>3. HistoryOK(history)'
    BY <1>1, <2>1 DEF HistoryOK, Supports, LastApplied, IsLeader
  <2> QED BY <1>1, <1>5, <1>6, <1>14, <2>1, <2>2, <2>3
<1> QED BY <1>21, <1>22, <1>23, <1>24, <1>25, <1>26, <1>27, <1>28, <1>29, <1>30, <1>31, <1>32
    DEF Next

-----------------------------------------------------------------------------
(* The theorems. *)

\* The invariant of the commit protocol: what a former primary may still commit is in the
\* oplog of everyone who is elected later.
THEOREM CommitPointInvariant == "OldTerm" \notin Faults => (Spec => []CommitPointInv)
<1> SUFFICES ASSUME "OldTerm" \notin Faults PROVE Spec => []CommitPointInv
  OBVIOUS
<1>1. Init => CommitPointInv
  BY InvStart
<1>2. CommitPointInv /\ [Next]_vars => CommitPointInv'
  BY InvKept DEF InvStep
<1> QED BY <1>1, <1>2, PTL DEF Spec

\* The variables of module CommitPoint have their types.
THEOREM CommitPointTypesHold == "OldTerm" \notin Faults => (Spec => []TypeOK)
<1>1. CommitPointInv => TypeOK
  BY DEF CommitPointInv
<1> QED BY <1>1, CommitPointInvariant, PTL

\* The commit point of every member, the primary's own and what the others learn from
\* their sync sources, is a committed entry (updateLastCommittedOpTime and
\* advanceLastCommittedOpTime).
THEOREM CommitPointsAreCommitted ==
    "OldTerm" \notin Faults => (Spec => []CommitPointIsCommitted)
<1>1. CommitPointInv => CommitPointIsCommitted
  BY DEF CommitPointInv
<1> QED BY <1>1, CommitPointInvariant, PTL

\* No primary commits entries that contradict the ones that are committed.
THEOREM CommittedStaysCommitted == "OldTerm" \notin Faults => (Spec => CommittedGrows)
<1> SUFFICES ASSUME "OldTerm" \notin Faults PROVE Spec => CommittedGrows
  OBVIOUS
<1>1. CommitPointInv /\ CommitPointInv' /\ [Next]_vars => [IsPrefix(history, history')]_vars
  <2> SUFFICES ASSUME CommitPointInv, CommitPointInv', [Next]_vars
               PROVE  IsPrefix(history, history')
    OBVIOUS
  <2>1. Includes(history', history)
    BY InvKept DEF InvStep
  <2>2. history \in Seq(1..MaxTerm) /\ history' \in Seq(1..MaxTerm)
    BY DEF CommitPointInv, TypeOK
  <2> QED BY <2>1, <2>2, IncludesIsPrefix
<1>2. Spec => []CommitPointInv
  BY CommitPointInvariant
<1> QED BY <1>1, <1>2, PTL DEF Spec, CommittedGrows

\* Every step extends an oplog, or returns it to what it shares with a fresher one.
LEMMA LogSteps ==
    ASSUME TypeInv, TypeInv', LogInv, TermInv, [Next]_vars
    PROVE  ExtendsOrReturns
<1>0. LogTypes
  BY DEF TypeInv
<1>1. ASSUME UNCHANGED log PROVE ExtendsOrReturns
  BY <1>0, <1>1, SameLogs
<1>2. ASSUME NEW n \in Nodes, log' = [log EXCEPT ![n] = Append(@, term[n])]
      PROVE  ExtendsOrReturns
  <2> SUFFICES ASSUME NEW v \in Nodes PROVE Includes(log'[v], log[v])
    BY DEF ExtendsOrReturns
  <2>1. /\ log[v] \in Seq(1..MaxTerm) /\ Len(log[v]) \in Nat /\ DOMAIN log[v] = 1..Len(log[v])
        /\ log'[v] = IF v = n THEN Append(log[v], term[n]) ELSE log[v]
    BY <1>0, <1>2, LogFacts DEF LogTypes
  <2> QED BY <2>1 DEF Includes
<1>3. ASSUME NEW n \in Nodes, NEW s \in Nodes, NEW e \in {0, 1}, Fetch(n, s, e)
      PROVE  ExtendsOrReturns
  BY <1>3, FetchIsQuiet DEF QuietStep
<1>4. ASSUME NEW n \in Nodes, NEW s \in Nodes, Rollback(n, s) PROVE ExtendsOrReturns
  BY <1>4, RollbackIsQuiet DEF QuietStep
<1> QED BY <1>1, <1>2, <1>3, <1>4
    DEF Next, StepDownSelf, StepDown, FinishStepDown, WinElection, CompleteTransition, Write, ReceiveTerm,
        ReceivePositions, Heartbeat, SendReport, vars

\* A rollback, of any member from any source, never removes a committed entry from a
\* member that has the last one (_findCommonPoint and _truncateOplog of RollbackImpl).
THEOREM CommittedIsNotRolledBack == "OldTerm" \notin Faults => (Spec => CommittedIsKept)
<1> SUFFICES ASSUME "OldTerm" \notin Faults PROVE Spec => CommittedIsKept
  OBVIOUS
<1> DEFINE Kept == \A n \in Nodes : Includes(log[n], history) => Includes(log'[n], history)
<1>1. CommitPointInv /\ CommitPointInv' /\ [Next]_vars => [Kept]_vars
  <2> SUFFICES ASSUME CommitPointInv, CommitPointInv', [Next]_vars,
                      NEW n \in Nodes, Includes(log[n], history)
               PROVE  Includes(log'[n], history)
    OBVIOUS
  <2>1. /\ TypeInv /\ TypeInv' /\ LogInv /\ TermInv /\ LogTypes /\ LogTypes'
        /\ history \in Seq(1..MaxTerm) /\ HistoryOK(history)
    BY TypeParts, TypesKept DEF CommitPointInv, LogInv, TypeInv
  <2>2. PICK h \in Seq(1..MaxTerm) : h = history /\ HistoryOK(h) /\ Includes(log[n], h)
    BY <2>1
  <2>3. /\ Len(h) \in Nat \ {0} /\ DOMAIN h = 1..Len(h) /\ Len(h) \in DOMAIN h
        /\ Last(h) = h[Len(h)] /\ Last(h) \in Terms
    BY <2>2, HistoryFacts DEF HistoryOK
  <2>4. /\ DOMAIN log[n] = 1..Len(log[n]) /\ Len(log[n]) \in Nat
        /\ log'[n] \in Seq(1..MaxTerm) /\ Len(log'[n]) \in Nat
    BY <2>1, LogFacts DEF LogTypes
  <2>5. CASE Includes(log'[n], log[n])
    BY <2>2, <2>3, <2>4, <2>5 DEF Includes
  <2>6. ASSUME NEW s \in Nodes, Returns(n, s) PROVE Includes(log'[n], h)
    <3>1. Leq(<<Last(h), Len(h)>>, LastApplied(n))
      <4>1. Len(h) \in DOMAIN log[n] /\ log[n][Len(h)] = Last(h) /\ Sorted(log[n])
        BY <2>1, <2>2, <2>3, <2>4 DEF Includes, LogInv
      <4>2. Last(h) \in Nat
        BY <2>3, BoundAssumption DEF Terms
      <4>3. log[n] \in Seq(1..MaxTerm) /\ Len(log[n]) \in 1..MaxLog
            /\ LastApplied(n) = <<log[n][Len(log[n])], Len(log[n])>>
        BY <2>1, LogFacts
      <4>4. Last(h) <= log[n][Len(log[n])] /\ Len(h) <= Len(log[n])
        BY <2>3, <2>4, <4>1, <4>3 DEF Sorted
      <4>5. log[n][Len(log[n])] \in Nat
        BY <2>1, <4>3, LogFacts
      <4> QED BY <2>3, <2>4, <4>2, <4>3, <4>4, <4>5 DEF Leq
    <3>2. /\ LastApplied(n)[1] \in Nat /\ LastApplied(n)[2] \in Nat
          /\ LastApplied(s)[1] \in Nat /\ LastApplied(s)[2] \in Nat /\ Last(h) \in Nat
      BY <2>1, <2>3, LogFacts, OpTimeFacts, BoundAssumption DEF Terms
    <3>3. Leq(<<Last(h), Len(h)>>, LastApplied(s))
      BY <2>3, <2>6, <3>1, <3>2 DEF Leq, Returns
    <3>4. Includes(log[s], h)
      BY <2>1, <2>2, <3>3, HistoryReached
    <3>5. /\ Len(h) \in DOMAIN log[n] /\ Len(h) <= Len(log[s])
          /\ \A x \in 1..Len(h) : log[n][x] = log[s][x]
      BY <2>2, <2>3, <2>4, <3>4 DEF Includes
    <3>6. Len(h) <= Len(log'[n]) /\ \A x \in 1..Len(h) : log'[n][x] = log[n][x]
      BY <2>6, <3>5 DEF Returns
    <3> QED BY <2>2, <2>3, <3>6 DEF Includes
  <2>7. ExtendsOrReturns
    BY <2>1, LogSteps
  <2> QED BY <2>2, <2>5, <2>6, <2>7 DEF ExtendsOrReturns
<1>2. Spec => []CommitPointInv
  BY CommitPointInvariant
<1> QED BY <1>1, <1>2, PTL DEF Spec, CommittedIsKept

-----------------------------------------------------------------------------
(* The stable optime. *)

\* The i-th entry of l and the ones before it are those of h.
Agrees(l, h, i) == i <= Len(h) /\ \A x \in 1..i : l[x] = h[x]

OnBranch ==
    \A n \in Nodes : \A i \in DOMAIN log[n] :
        Leq(<<log[n][i], i>>, commit[n]) => Agrees(log[n], history, i)

\* A member has the term of its commit point.
CommitTerms == \A n \in Nodes : commit[n][1] <= term[n]

BranchInv == OnBranch /\ CommitTerms

\* The optimes up to the commit point of a member on its branch are committed.
LEMMA BranchForm == CommitPointInv /\ OnBranch => StableOnBranch
<1> SUFFICES ASSUME CommitPointInv, OnBranch, NEW n \in Nodes, NEW i \in DOMAIN log[n],
                    Leq(OpTimeAt(log[n], i), commit[n])
             PROVE  Common(log[n], history) >= i
  BY DEF StableOnBranch
<1>1. /\ LogTypes /\ history \in Seq(1..MaxTerm)
  BY TypeParts DEF CommitPointInv, LogInv, TypeInv
<1>2. /\ log[n] \in Seq(1..MaxTerm) /\ i \in 0..Len(log[n]) /\ i # 0 /\ i \in Nat
  BY <1>1, LogFacts
<1>3. Agrees(log[n], history, i)
  BY <1>2 DEF OnBranch, OpTimeAt
<1>4. i <= Common(log[n], history) /\ Common(log[n], history) \in 0..Len(log[n])
  BY <1>1, <1>2, <1>3, CommonFacts DEF Agrees
<1>5. Common(log[n], history) \in Nat
  BY <1>1, <1>4, LogFacts
<1> QED BY <1>2, <1>4, <1>5

\* An oplog that has a committed entry has the ones before it.
LEMMA BranchMatch ==
    ASSUME LogTypes, LogInv, NEW h \in Seq(1..MaxTerm), HistoryOK(h), NEW n \in Nodes,
           NEW i \in DOMAIN log[n], i \in DOMAIN h, log[n][i] = h[i]
    PROVE  Agrees(log[n], h, i)
<1>1. PICK v \in Nodes : Includes(log[v], h)
  BY HistoryOccurs
<1>2. DOMAIN h = 1..Len(h) /\ Len(h) \in Nat /\ DOMAIN log[v] = 1..Len(log[v])
  BY LogFacts
<1>3. i \in DOMAIN log[v] /\ log[v][i] = h[i] /\ i <= Len(h) /\ i <= i /\ Len(log[v]) \in Nat
  BY <1>1, <1>2, LogFacts DEF Includes
<1>4. \A x \in 1..i : log[n][x] = log[v][x]
  BY <1>3 DEF LogInv, Match
<1>5. \A x \in 1..i : log[v][x] = h[x]
  BY <1>1, <1>2, <1>3 DEF Includes
<1> QED BY <1>3, <1>4, <1>5 DEF Agrees

\* The commit point occurs.
LEMMA CommitOccurs ==
    ASSUME LogTypes, CommitTypes, history \in Seq(1..MaxTerm), HistoryOK(history),
           CommitPointIsCommitted, NEW n \in Nodes, commit[n][2] # 0
    PROVE  /\ commit[n] \in OpTimes /\ Occurs(commit[n]) /\ commit[n][2] \in DOMAIN history
           /\ history[commit[n][2]] = commit[n][1]
<1>1. /\ commit[n] \in OpTimes /\ commit[n][2] \in Nat
      /\ commit[n] = <<commit[n][1], commit[n][2]>>
  BY OpTimeFacts DEF CommitTypes
<1>2. commit[n][2] <= Len(history) /\ history[commit[n][2]] = commit[n][1]
  BY DEF CommitPointIsCommitted, Has
<1>3. commit[n][2] \in DOMAIN history
  BY <1>1, <1>2
<1>4. Occurs(<<history[commit[n][2]], commit[n][2]>>)
  BY <1>3, HistoryOccurs
<1> QED BY <1>1, <1>2, <1>3, <1>4

\* All members begin on the branch of their commit point.
LEMMA BranchStart == Init => BranchInv
<1> SUFFICES ASSUME Init PROVE BranchInv
  OBVIOUS
<1>1. ElectionTypes /\ LogTypes
  BY TypesStart DEF TypeInv
<1>2. CommitTerms
  <2> SUFFICES ASSUME NEW n \in Nodes PROVE commit[n][1] <= term[n]
    BY DEF CommitTerms
  <2>1. commit[n] = <<1, 1>> /\ term[n] \in 1..MaxTerm
    BY <1>1 DEF Init, ElectionTypes
  <2> QED BY <2>1, BoundAssumption
<1>3. OnBranch
  <2> SUFFICES ASSUME NEW n \in Nodes, NEW i \in DOMAIN log[n],
                      Leq(<<log[n][i], i>>, commit[n])
               PROVE  Agrees(log[n], history, i)
    BY DEF OnBranch
  <2>1. commit[n] = <<1, 1>> /\ history = <<1>> /\ log[n][1] = 1
    BY <1>1 DEF Init, LogTypes
  <2>2. log[n][i] \in Nat \ {0} /\ i \in Nat \ {0}
    BY <1>1, LogFacts
  <2>3. i = 1
    BY <2>1, <2>2 DEF Leq
  <2> QED BY <2>1, <2>3 DEF Agrees
<1> QED BY <1>2, <1>3 DEF BranchInv

\* Without OffBranch, every action keeps every member on that branch.
LEMMA BranchKept ==
    ASSUME Faults = {}, CommitPointInv, BranchInv, [Next]_vars
    PROVE  BranchInv'
<1>0. InvStep
  BY InvKept
<1>1. /\ TypeInv /\ LogInv /\ TermInv /\ CommitPointIsCommitted
      /\ history \in Seq(1..MaxTerm) /\ HistoryOK(history) /\ OnBranch /\ CommitTerms
  BY TypeParts DEF CommitPointInv, LogInv, BranchInv
<1>2. /\ LogInv' /\ Includes(history', history) /\ CommitsOK /\ history' \in Seq(1..MaxTerm)
  BY <1>0 DEF InvStep, CommitPointInv, TypeOK
<1>3. TypeInv'
  BY <1>1, TypesKept
<1>4. /\ ElectionTypes /\ LogTypes /\ CommitTypes
      /\ ElectionTypes' /\ LogTypes' /\ CommitTypes'
  BY <1>1, <1>3 DEF TypeInv
<1>5. /\ \A n \in Nodes : term[n] \in Nat /\ term'[n] \in Nat
      /\ \A n \in Nodes : commit[n] \in OpTimes /\ commit'[n] \in OpTimes
      /\ \A n \in Nodes : /\ commit[n][1] \in Nat /\ commit[n][2] \in Nat
                          /\ commit'[n][1] \in Nat /\ commit'[n][2] \in Nat
  BY <1>4, OpTimeFacts, NewestTermType DEF CommitTypes, ElectionTypes
<1>6. /\ Len(history) \in Nat /\ Len(history') \in Nat /\ DOMAIN history = 1..Len(history)
  BY <1>1, <1>2
\* Entries that agree go on to agree.
<1>7. ASSUME NEW n \in Nodes, NEW m \in Nodes, Includes(log[m], log'[n]),
             NEW i \in DOMAIN log'[n], Agrees(log[m], history, i)
      PROVE  Agrees(log'[n], history', i)
  <2>1. i \in Nat /\ Len(log'[n]) \in Nat /\ DOMAIN log'[n] = 1..Len(log'[n])
    BY <1>4 DEF LogTypes
  <2>2. i <= Len(history')
    BY <1>2, <1>6, <1>7, <2>1 DEF Includes, Agrees
  <2>3. ASSUME NEW x \in 1..i PROVE log'[n][x] = history'[x]
    <3>1. x \in DOMAIN log'[n] /\ x \in DOMAIN history
      BY <1>6, <1>7, <2>1 DEF Agrees
    <3>2. log'[n][x] = log[m][x] /\ log[m][x] = history[x] /\ history[x] = history'[x]
      BY <1>2, <1>7, <3>1 DEF Includes, Agrees
    <3> QED BY <3>2
  <2> QED BY <2>2, <2>3 DEF Agrees
\* A member that keeps its commit point, and entries of some oplog with the same one.
<1>8. ASSUME NEW n \in Nodes, commit'[n] = commit[n], Includes(log[n], log'[n])
      PROVE  \A i \in DOMAIN log'[n] :
                Leq(<<log'[n][i], i>>, commit'[n]) => Agrees(log'[n], history', i)
  <2> SUFFICES ASSUME NEW i \in DOMAIN log'[n], Leq(<<log'[n][i], i>>, commit'[n])
               PROVE  Agrees(log'[n], history', i)
    OBVIOUS
  <2>1. /\ DOMAIN log'[n] = 1..Len(log'[n]) /\ Len(log'[n]) \in Nat
        /\ DOMAIN log[n] = 1..Len(log[n]) /\ Len(log[n]) \in Nat
    BY <1>4 DEF LogTypes
  <2>2. i \in DOMAIN log[n] /\ log'[n][i] = log[n][i]
    BY <1>8, <2>1 DEF Includes
  <2>3. Agrees(log[n], history, i)
    BY <1>1, <1>8, <2>2 DEF OnBranch
  <2> QED BY <1>7, <1>8, <2>3
\* A primary that takes a commit point.
<1>9. ASSUME NEW n \in Nodes, Commits(n)
      PROVE  /\ commit'[n][1] <= term'[n]
             /\ \A i \in DOMAIN log'[n] :
                    Leq(<<log'[n][i], i>>, commit'[n]) => Agrees(log'[n], history', i)
  <2>1. commit'[n][1] <= term'[n]
    BY <1>5, <1>9 DEF Commits
  <2> SUFFICES ASSUME NEW i \in DOMAIN log'[n], Leq(<<log'[n][i], i>>, commit'[n])
               PROVE  Agrees(log'[n], history', i)
    BY <2>1
  <2> DEFINE c == commit'[n][2]
  <2>2. /\ DOMAIN log'[n] = 1..Len(log'[n]) /\ Len(log'[n]) \in Nat /\ i \in Nat
        /\ log'[n][i] \in Nat
    BY <1>4, LastFacts, BoundAssumption DEF LogTypes
  <2>3. c \in DOMAIN log'[n] /\ log'[n][c] = commit'[n][1] /\ c \in Nat
    BY <1>5, <1>9 DEF Commits
  <2>4. i <= c
    <3> SUFFICES ASSUME c < i PROVE FALSE
      BY <2>2, <2>3
    <3>1. log'[n][c] <= log'[n][i]
      BY <1>2, <2>2, <2>3 DEF LogInv, Sorted
    <3> QED BY <1>5, <2>2, <2>3, <3>1 DEF Leq
  <2>5. c <= Len(history') /\ \A x \in 1..c : log'[n][x] = history'[x]
    BY <1>9 DEF Commits
  <2> HIDE DEF c
  <2> QED BY <1>6, <2>2, <2>3, <2>4, <2>5 DEF Agrees
<1>10. \A n \in Nodes : Includes(log[n], log[n])
  BY <1>4, IncludesItself DEF LogTypes
<1>11. ASSUME \A n \in Nodes : Includes(log[n], log'[n]),
              \A n \in Nodes : term'[n] >= term[n],
              \A n \in Nodes : commit'[n] = commit[n] \/ Commits(n)
       PROVE  BranchInv'
  <2>1. CommitTerms'
    <3> SUFFICES ASSUME NEW n \in Nodes PROVE commit'[n][1] <= term'[n]
      BY DEF CommitTerms
    <3>1. CASE commit'[n] = commit[n]
      <4>1. commit[n][1] <= term[n] /\ term[n] <= term'[n]
        BY <1>1, <1>5, <1>11 DEF CommitTerms
      <4> QED BY <1>5, <3>1, <4>1
    <3> QED BY <1>9, <1>11, <3>1
  <2>2. OnBranch'
    BY <1>8, <1>9, <1>11 DEF OnBranch
  <2> QED BY <2>1, <2>2 DEF BranchInv
<1>12. \A n \in Nodes : term[n] >= term[n]
  BY <1>5
<1>13. ASSUME UNCHANGED <<log, commit>>, \A n \in Nodes : term'[n] >= term[n]
       PROVE  BranchInv'
  BY <1>10, <1>11, <1>13
<1>14. ASSUME NEW n \in Nodes, AppendStep(n),
              \A m \in Nodes : commit'[m] = commit[m] \/ Commits(m)
       PROVE  BranchInv'
  <2> DEFINE L == Len(log[n])
             T == term[n]
  <2>1. /\ \A m \in Nodes \ {n} : log'[m] = log[m]
        /\ log'[n][L + 1] = T /\ DOMAIN log'[n] = 1..(L + 1)
        /\ Includes(log'[n], log[n])
    BY <1>1, <1>3, <1>14, AppendFacts
  <2>2. /\ L \in Nat /\ DOMAIN log[n] = 1..L /\ term' = term /\ IsLeader(n)
        /\ \A x \in 1..L : log'[n][x] = log[n][x]
    BY <1>4, <1>14, <2>1, LogFacts DEF AppendStep, Includes
  <2>3. ASSUME NEW m \in Nodes, commit'[m] = commit[m]
        PROVE  /\ commit'[m][1] <= term'[m]
               /\ \A i \in DOMAIN log'[m] :
                    Leq(<<log'[m][i], i>>, commit'[m]) => Agrees(log'[m], history', i)
    <3>1. commit'[m][1] <= term'[m]
      BY <1>1, <2>2, <2>3 DEF CommitTerms
    <3>2. CASE m # n
      BY <1>8, <1>10, <2>1, <2>3, <3>1, <3>2
    <3>3. CASE m = n
      <4> SUFFICES ASSUME NEW i \in DOMAIN log'[n], Leq(<<log'[n][i], i>>, commit[n])
                   PROVE  Agrees(log'[n], history', i)
        BY <2>3, <3>1, <3>3
      <4>1. CASE i \in 1..L
        <5>1. Agrees(log[n], history, i)
          BY <1>1, <2>2, <4>1 DEF OnBranch
        <5>2. i <= Len(history') /\ \A x \in 1..i : history[x] = history'[x]
          BY <1>2, <1>6, <2>2, <4>1, <5>1 DEF Includes, Agrees
        <5>3. \A x \in 1..i : log'[n][x] = history[x]
          BY <2>2, <4>1, <5>1 DEF Agrees
        <5> QED BY <5>2, <5>3 DEF Agrees
      <4>2. CASE i = L + 1
        <5>1. commit[n][1] <= T /\ Leq(<<T, L + 1>>, commit[n])
          BY <1>1, <2>1, <4>2 DEF CommitTerms
        <5>2. commit[n][1] = T /\ L + 1 <= commit[n][2] /\ commit[n][2] # 0
          BY <1>5, <2>2, <5>1 DEF Leq
        <5>3. commit[n] \in OpTimes /\ Occurs(commit[n])
          BY <1>1, <1>4, <5>2, CommitOccurs
        <5>4. commit[n][2] <= L
          BY <1>1, <2>2, <5>2, <5>3 DEF TermInv
        <5> QED BY <1>5, <2>2, <5>2, <5>4
      <4> QED BY <2>1, <2>2, <4>1, <4>2
    <3> QED BY <3>2, <3>3
  <2>4. ASSUME NEW m \in Nodes
        PROVE  /\ commit'[m][1] <= term'[m]
               /\ \A i \in DOMAIN log'[m] :
                    Leq(<<log'[m][i], i>>, commit'[m]) => Agrees(log'[m], history', i)
    BY <1>9, <1>14, <2>3
  <2> QED BY <2>4 DEF BranchInv, OnBranch, CommitTerms
<1>15. ASSUME NEW p \in Nodes, NEW l, NEW k, UpdateCommitPoint(p, l, k)
       PROVE  \A m \in Nodes : commit'[m] = commit[m] \/ Commits(m)
  <2>1. \A m \in Nodes : commit'[m] = commit[m] \/ role[m] = "master"
    BY <1>4, <1>15 DEF UpdateCommitPoint, MayCommit, CommitTypes
  <2>2. \A m, s \in Nodes, e \in {0, 1} : Fetch(m, s, e) => role[m] # "master"
    BY DEF Fetch
  <2> QED BY <1>2, <2>1, <2>2 DEF CommitsOK
<1>16. \A n \in Nodes : Last(log[n]) = log[n][Len(log[n])]
  BY DEF Last
<1>17. SteppingInv
  BY <1>1, <1>4, PendingIsNewer
<1>21. ASSUME NEW n \in Nodes, FinishStepDown(n) PROVE BranchInv'
  BY <1>4, <1>13, <1>17, <1>21, FinishStepDownFacts DEF FinishStepDown, TermsGrow
<1>32. ASSUME NEW n \in Nodes, StepDownSelf(n) \/ StepDown(n) PROVE BranchInv'
  BY <1>4, <1>13, <1>17, <1>32, StepDownFacts DEF StepDownSelf, StepDown, TermsGrow
<1>22. ASSUME NEW n \in Nodes, NEW voters \in SUBSET Nodes, WinElection(n, voters)
       PROVE  BranchInv'
  <2>1. \A m \in Nodes : term'[m] >= term[m]
    BY <1>1, <1>3, <1>22, ElectionFacts
  <2> QED BY <1>13, <1>22, <2>1 DEF WinElection
<1>23. ASSUME NEW n \in Nodes, CompleteTransition(n) PROVE BranchInv'
  <2>1. /\ role[n] = "elect" /\ Last(log[n]) <= term[n]
        /\ role' = [role EXCEPT ![n] = "master"]
        /\ log' = [log EXCEPT ![n] = Append(@, term[n])]
        /\ UNCHANGED <<term, pending, known, report, commit>>
    BY <1>23 DEF CompleteTransition
  <2>2. AppendStep(n)
    BY <1>4, <1>16, <2>1 DEF AppendStep, ElectionTypes, IsLeader
  <2> QED BY <1>14, <2>1, <2>2
<1>24. ASSUME NEW n \in Nodes, Write(n) PROVE BranchInv'
  <2>1. /\ role[n] \in {"master", "stepping"} /\ Last(log[n]) = term[n]
        /\ log' = [log EXCEPT ![n] = Append(@, term[n])]
        /\ UNCHANGED <<term, role, pending, known, report>>
        /\ UpdateCommitPoint(n, log'[n], known[n])
    BY <1>24 DEF Write, election
  <2>2. AppendStep(n)
    <3>1. term[n] <= term[n]
      BY <1>5
    <3> QED BY <1>16, <2>1, <3>1 DEF AppendStep, IsLeader
  <2> QED BY <1>14, <1>15, <2>1, <2>2
<1>25. ASSUME NEW n \in Nodes, ReceivePositions(n) PROVE BranchInv'
  <2> DEFINE s == report[n].to
             k == [m \in Nodes |-> IF m = s THEN known[s][m]
                                   ELSE Greater(known[s][m], report[n].positions[m])]
  <2>1. /\ report[n] # NoReport /\ UpdateCommitPoint(s, log[s], k)
        /\ UNCHANGED <<log, term>>
    BY <1>25 DEF ReceivePositions, election
  <2>2. s \in Nodes
    BY <1>1, <2>1 DEF TypeInv, ReportTypes, Reports
  <2>3. PICK p \in Nodes : p = s
    BY <2>2
  <2> HIDE DEF s, k
  <2> QED BY <1>10, <1>11, <1>12, <1>15, <2>1, <2>3
<1>26. ASSUME NEW n \in Nodes, ReceiveTerm(n) PROVE BranchInv'
  <2>1. /\ report[n] # NoReport /\ UpdateTerm(report[n].to, report[n].term)
        /\ UNCHANGED <<log, commit>>
    BY <1>26 DEF ReceiveTerm, ReportedTerm
  <2>2. report[n].to \in Nodes /\ report[n].term \in 0..MaxTerm
    BY <1>1, <2>1, BoundAssumption DEF TypeInv, ReportTypes, Reports
  <2>3. TermsGrow
    BY <1>4, <1>17, <2>1, <2>2, UpdateTermFacts
  <2> QED BY <1>13, <2>1, <2>3 DEF TermsGrow
<1>27. ASSUME NEW n \in Nodes, NEW m \in Nodes, Heartbeat(n, m) PROVE BranchInv'
  <2>1. /\ UpdateTerm(n, term[m]) /\ term[m] \in 0..MaxTerm /\ UNCHANGED <<log, commit>>
    BY <1>4, <1>27, BoundAssumption DEF Heartbeat, ElectionTypes
  <2>2. TermsGrow
    BY <1>4, <1>17, <2>1, UpdateTermFacts
  <2> QED BY <1>13, <2>1, <2>2 DEF TermsGrow
<1>28. ASSUME NEW n \in Nodes, NEW s \in Nodes, NEW e \in {0, 1}, Fetch(n, s, e)
       PROVE  BranchInv'
  <2>1. /\ Includes(log[s], log'[n]) /\ Includes(log'[n], log[n])
        /\ Len(log'[n]) = Len(log[n]) + e /\ \A m \in Nodes \ {n} : log'[m] = log[m]
    BY <1>1, <1>4, <1>28, FetchFacts
  <2>2. /\ commit' = [commit EXCEPT ![n] = IF IsLeader(n) THEN @ ELSE Greater(@, commit[s])]
        /\ Has(log[n], commit[n]) \/ Has(log[s], commit[n])
        /\ UpdateTerm(n, term[s])
    BY <1>28 DEF Fetch
  <2>3. TermsGrow /\ term[s] \in 0..MaxTerm
    BY <1>4, <1>17, <2>2, UpdateTermFacts, BoundAssumption DEF ElectionTypes
  <2>4. \A m \in Nodes \ {n} : commit'[m] = commit[m]
    BY <1>4, <2>2 DEF CommitTypes
  <2>5. \/ commit'[n] = commit[n]
        \/ ~IsLeader(n) /\ commit'[n] = commit[s]
    BY <1>4, <2>2 DEF CommitTypes, Greater
  <2>6. CommitTerms'
    <3> SUFFICES ASSUME NEW m \in Nodes PROVE commit'[m][1] <= term'[m]
      BY DEF CommitTerms
    <3>1. term'[m] >= term[m] /\ commit[m][1] <= term[m] /\ commit[s][1] <= term[s]
      BY <1>1, <2>3 DEF TermsGrow, CommitTerms
    <3>2. CASE commit'[m] = commit[m]
      BY <1>5, <3>1, <3>2
    <3>3. CASE m = n /\ ~IsLeader(n) /\ commit'[n] = commit[s]
      <4>1. term'[n] = Max({term[n], term[s]})
        BY <1>4, <2>2, <3>3 DEF UpdateTerm, ElectionTypes
      <4>2. term'[n] >= term[s]
        <5>1. Max({term[n], term[s]}) = IF term[n] >= term[s] THEN term[n] ELSE term[s]
          BY <1>5, Max2Facts
        <5> QED BY <1>5, <4>1, <5>1
      <4> QED BY <1>5, <3>1, <3>3, <4>2
    <3> QED BY <2>4, <2>5, <3>2, <3>3
  <2>7. ASSUME NEW i \in DOMAIN log'[n], Leq(<<log'[n][i], i>>, commit'[n])
        PROVE  Agrees(log'[n], history', i)
    <3>0. /\ DOMAIN log'[n] = 1..Len(log'[n]) /\ Len(log'[n]) \in Nat /\ i \in Nat
          /\ DOMAIN log[n] = 1..Len(log[n]) /\ Len(log[n]) \in Nat
          /\ DOMAIN log[s] = 1..Len(log[s]) /\ Len(log[s]) \in Nat /\ Len(log[n]) # 0
      BY <1>4 DEF LogTypes
    <3>1. i \in DOMAIN log[s] /\ log[s][i] = log'[n][i]
      BY <2>1, <3>0 DEF Includes
    <3> SUFFICES Agrees(log[s], history, i)
      BY <1>7, <2>1
    <3>2. CASE commit'[n] = commit[s]
      BY <1>1, <2>7, <3>1, <3>2 DEF OnBranch
    <3>3. CASE commit'[n] = commit[n]
      <4> DEFINE c == commit[n][2]
      <4>1. /\ Leq(<<log[s][i], i>>, commit[n]) /\ log[s][i] \in Nat /\ i # 0
            /\ log[s][i] # 0
        BY <1>4, <2>7, <3>1, <3>3, LogFacts
      <4>2. c # 0 /\ c \in Nat /\ commit[n][1] # 0
        BY <1>5, <4>1, OpTimeFacts DEF Leq
      <4>3. c \in DOMAIN history /\ history[c] = commit[n][1]
        BY <1>1, <1>4, <4>2, CommitOccurs
      <4> HIDE DEF c
      \* The source has the entry at the commit point, or the member has it.
      <4>4. CASE c \in DOMAIN log[s] /\ log[s][c] = commit[n][1]
        <5>1. Agrees(log[s], history, c)
          BY <1>1, <1>4, <4>3, <4>4, BranchMatch
        <5>2. i <= c
          <6> SUFFICES ASSUME c < i PROVE FALSE
            BY <3>0, <4>2
          <6>1. log[s][c] <= log[s][i]
            BY <1>1, <3>0, <3>1, <4>2, <4>4 DEF LogInv, Sorted
          <6> QED BY <1>5, <3>0, <4>1, <4>2, <4>4, <6>1 DEF Leq, c
        <5> QED BY <1>6, <3>0, <4>2, <5>1, <5>2 DEF Agrees
      <4>5. CASE Has(log[s], commit[n])
        <5>1. c \in DOMAIN log[s] /\ log[s][c] = commit[n][1]
          BY <3>0, <4>2, <4>5 DEF Has, c
        <5> QED BY <4>4, <5>1
      <4>6. CASE Has(log[n], commit[n])
        <5>1. c \in DOMAIN log[n] /\ log[n][c] = commit[n][1]
          BY <3>0, <4>2, <4>6 DEF Has, c
        <5>2. c \in DOMAIN log'[n] /\ log'[n][c] = log[n][c]
          BY <2>1, <3>0, <5>1 DEF Includes
        <5>3. c \in DOMAIN log[s] /\ log[s][c] = log'[n][c]
          BY <2>1, <3>0, <5>2 DEF Includes
        <5> QED BY <4>4, <5>1, <5>2, <5>3
      <4> QED BY <2>2, <4>5, <4>6
    <3> QED BY <2>5, <3>2, <3>3
  <2>8. OnBranch'
    BY <1>8, <1>10, <2>1, <2>4, <2>7 DEF OnBranch
  <2> QED BY <2>6, <2>8 DEF BranchInv
<1>29. ASSUME NEW n \in Nodes, NEW m \in Nodes, Rollback(n, m) PROVE BranchInv'
  <2>1. \A x \in Nodes : Includes(log[x], log'[x])
    BY <1>4, <1>29, RollbackFacts
  <2>2. UNCHANGED <<term, commit>>
    BY <1>29 DEF Rollback, election
  <2> QED BY <1>11, <1>12, <2>1, <2>2
<1>30. ASSUME NEW n \in Nodes, NEW m \in Nodes, SendReport(n, m) PROVE BranchInv'
  BY <1>12, <1>13, <1>30 DEF SendReport, election
<1>31. CASE UNCHANGED vars
  BY <1>12, <1>13, <1>31 DEF vars, election
<1> QED BY <1>21, <1>22, <1>23, <1>24, <1>25, <1>26, <1>27, <1>28, <1>29, <1>30, <1>31, <1>32
    DEF Next

\* The entries of a member up to its commit point, from which its stable timestamp is
\* taken (_updateStableOpTime), are committed ones, when it fetches no entries off the
\* branch of its commit point.
THEOREM StableOpTimeOnBranch == Faults = {} => (Spec => []StableOnBranch)
<1> SUFFICES ASSUME Faults = {} PROVE Spec => []StableOnBranch
  OBVIOUS
<1>1. Init => CommitPointInv /\ BranchInv
  BY InvStart, BranchStart
<1>2. CommitPointInv /\ BranchInv /\ [Next]_vars => CommitPointInv' /\ BranchInv'
  BY InvKept, BranchKept DEF InvStep
<1>3. CommitPointInv /\ BranchInv => StableOnBranch
  BY BranchForm DEF BranchInv
<1> QED BY <1>1, <1>2, <1>3, PTL DEF Spec
=============================================================================
