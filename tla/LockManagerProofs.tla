-------------------------- MODULE LockManagerProofs --------------------------
(***************************************************************************)
(* Theorems about module LockManager, for any finite set of lockers, any   *)
(* partitions, any modes and upgrades that are asked for, and any depth of *)
(* recursion.                                                              *)
(***************************************************************************)
EXTENDS LockManager, FiniteSetTheorems, TLAPS

-----------------------------------------------------------------------------
(* Lemmas about lists of requests. *)

\* What a list holds after a request is put at its end.
LEMMA AppendFacts ==
    ASSUME NEW S, NEW s \in Seq(S), NEW x \in S
    PROVE  /\ Append(s, x) \in Seq(S)
           /\ Range(Append(s, x)) = Range(s) \union {x}
           /\ x \notin Range(s) /\ IsInjective(s) => IsInjective(Append(s, x))
           /\ Append(s, x) # <<>>
           /\ Append(s, x)[1] = IF s = <<>> THEN x ELSE s[1]
<1>1. Append(s, x) \in Seq(S)
  OBVIOUS
<1>2. Len(Append(s, x)) = Len(s) + 1
  OBVIOUS
<1>3. \A i \in 1..Len(s) + 1 : Append(s, x)[i] = IF i <= Len(s) THEN s[i] ELSE x
  OBVIOUS
<1>4. Range(Append(s, x)) = Range(s) \union {x}
  <2>1. \A y \in Range(s) : y \in Range(Append(s, x))
    BY <1>1, <1>2, <1>3 DEF Range
  <2>2. x \in Range(Append(s, x))
    <3>1. Len(s) + 1 \in DOMAIN Append(s, x) /\ Append(s, x)[Len(s) + 1] = x
      BY <1>1, <1>2, <1>3
    <3> QED BY <3>1 DEF Range
  <2>3. \A y \in Range(Append(s, x)) : y \in Range(s) \union {x}
    BY <1>1, <1>2, <1>3 DEF Range
  <2> QED BY <2>1, <2>2, <2>3
<1>5. x \notin Range(s) /\ IsInjective(s) => IsInjective(Append(s, x))
  BY <1>1, <1>2, <1>3 DEF Range, IsInjective
<1>6. Append(s, x)[1] = IF s = <<>> THEN x ELSE s[1]
  <2>1. Len(s) \in Nat /\ (s = <<>> <=> Len(s) = 0)
    OBVIOUS
  <2>2. Append(s, x)[1] = IF 1 = Len(s) + 1 THEN x ELSE s[1]
    BY <1>3, <2>1
  <2> QED BY <2>1, <2>2
<1>7. Append(s, x) # <<>>
  BY <1>1, <1>2
<1> QED BY <1>1, <1>4, <1>5, <1>6, <1>7

\* What a list holds after a request is put at its front.
LEMMA PrependFacts ==
    ASSUME NEW S, NEW s \in Seq(S), NEW x \in S
    PROVE  /\ <<x>> \o s \in Seq(S)
           /\ Range(<<x>> \o s) = Range(s) \union {x}
           /\ x \notin Range(s) /\ IsInjective(s) => IsInjective(<<x>> \o s)
           /\ (<<x>> \o s) # <<>> /\ (<<x>> \o s)[1] = x
<1>1. <<x>> \o s \in Seq(S)
  OBVIOUS
<1>2. Len(<<x>> \o s) = Len(s) + 1
  OBVIOUS
<1>3. \A i \in 1..Len(s) + 1 : (<<x>> \o s)[i] = IF i = 1 THEN x ELSE s[i - 1]
  OBVIOUS
<1>4. Range(<<x>> \o s) = Range(s) \union {x}
  <2>1. ASSUME NEW i \in DOMAIN s
        PROVE  s[i] \in Range(<<x>> \o s)
    <3>1. i + 1 \in DOMAIN (<<x>> \o s) /\ (<<x>> \o s)[i + 1] = s[i]
      BY <1>1, <1>2, <1>3
    <3> QED BY <3>1 DEF Range
  <2>2. x \in Range(<<x>> \o s)
    BY <1>1, <1>2, <1>3 DEF Range
  <2>3. \A y \in Range(<<x>> \o s) : y \in Range(s) \union {x}
    BY <1>1, <1>2, <1>3 DEF Range
  <2> QED BY <2>1, <2>2, <2>3 DEF Range
<1>5. x \notin Range(s) /\ IsInjective(s) => IsInjective(<<x>> \o s)
  BY <1>1, <1>2, <1>3 DEF Range, IsInjective
<1> QED BY <1>1, <1>2, <1>3, <1>4, <1>5

\* What a list holds after a request is removed from it.
LEMMA WithoutFacts ==
    ASSUME NEW S, NEW s \in Seq(S), IsInjective(s), NEW x \in Range(s)
    PROVE  /\ Without(s, x) \in Seq(S)
           /\ Range(Without(s, x)) = Range(s) \ {x}
           /\ IsInjective(Without(s, x))
           /\ s[1] # x => Without(s, x) # <<>> /\ Without(s, x)[1] = s[1]
<1> DEFINE k == CHOOSE i \in DOMAIN s : s[i] = x
           w == Without(s, x)
<1>1. k \in 1..Len(s) /\ s[k] = x
  BY DEF Range
<1>2. w = SubSeq(s, 1, k - 1) \o SubSeq(s, k + 1, Len(s))
  BY DEF Without, RemoveAt
<1> DEFINE a == SubSeq(s, 1, k - 1)
           b == SubSeq(s, k + 1, Len(s))
<1> HIDE DEF k, w
<1>a. a \in Seq(S) /\ Len(a) = k - 1 /\ \A i \in 1..k - 1 : a[i] = s[i]
  BY <1>1
<1>b. b \in Seq(S) /\ Len(b) = Len(s) - k /\ \A i \in 1..Len(s) - k : b[i] = s[i + k]
  BY <1>1
<1>c. w = a \o b
  BY <1>2
<1> HIDE DEF a, b
<1>3. w \in Seq(S) /\ Len(w) = Len(s) - 1
  BY <1>1, <1>a, <1>b, <1>c
<1>4. \A i \in 1..Len(s) - 1 : w[i] = IF i < k THEN s[i] ELSE s[i + 1]
  <2> TAKE i \in 1..Len(s) - 1
  <2>1. w[i] = IF i <= Len(a) THEN a[i] ELSE b[i - Len(a)]
    BY <1>1, <1>a, <1>b, <1>c
  <2>2. CASE i < k
    BY <1>1, <1>a, <2>1, <2>2
  <2>3. CASE i >= k
    <3>1. i - Len(a) \in 1..Len(s) - k /\ (i - Len(a)) + k = i + 1
      BY <1>1, <1>a, <2>3
    <3>2. b[i - Len(a)] = s[i + 1]
      BY <1>b, <3>1
    <3>3. ~(i <= Len(a)) /\ ~(i < k)
      BY <1>1, <1>a, <2>3
    <3> QED BY <2>1, <3>2, <3>3
  <2> QED BY <1>1, <2>2, <2>3
<1>5. Range(w) = Range(s) \ {x}
  <2>1. ASSUME NEW i \in DOMAIN s, s[i] # x
        PROVE  s[i] \in Range(w)
    <3>1. CASE i < k
      BY <1>1, <1>3, <1>4, <3>1 DEF Range
    <3>2. CASE i > k
      <4>1. i - 1 \in DOMAIN w /\ w[i - 1] = s[i]
        BY <1>1, <1>3, <1>4, <3>2
      <4> QED BY <4>1 DEF Range
    <3> QED BY <1>1, <2>1, <3>1, <3>2
  <2>2. ASSUME NEW i \in DOMAIN w
        PROVE  w[i] \in Range(s) \ {x}
    <3>1. i \in 1..Len(s) - 1
      BY <1>3
    <3>2. CASE i < k
      BY <1>1, <1>3, <1>4, <3>1, <3>2 DEF Range, IsInjective
    <3>3. CASE i >= k
      BY <1>1, <1>3, <1>4, <3>1, <3>3 DEF Range, IsInjective
    <3> QED BY <1>1, <3>1, <3>2, <3>3
  <2> QED BY <2>1, <2>2 DEF Range
<1>6. IsInjective(w)
  <2> SUFFICES ASSUME NEW i \in DOMAIN w, NEW j \in DOMAIN w, w[i] = w[j]
               PROVE  i = j
    BY DEF IsInjective
  <2>1. i \in 1..Len(s) - 1 /\ j \in 1..Len(s) - 1
    BY <1>3
  <2> QED BY <1>1, <1>4, <2>1 DEF IsInjective
<1>7. s[1] # x => w # <<>> /\ w[1] = s[1]
  BY <1>1, <1>3, <1>4
<1> QED BY <1>3, <1>5, <1>6, <1>7 DEF w

\* What a list holds after another one is put behind it.
LEMMA ConcatFacts ==
    ASSUME NEW S, NEW s \in Seq(S), NEW t \in Seq(S)
    PROVE  /\ s \o t \in Seq(S)
           /\ Range(s \o t) = Range(s) \union Range(t)
           /\ IsInjective(s) /\ IsInjective(t) /\ Range(s) \intersect Range(t) = {}
                => IsInjective(s \o t)
<1>1. s \o t \in Seq(S) /\ Len(s \o t) = Len(s) + Len(t)
  OBVIOUS
<1>2. \A i \in 1..Len(s) + Len(t) :
        (s \o t)[i] = IF i <= Len(s) THEN s[i] ELSE t[i - Len(s)]
  OBVIOUS
<1>3. Range(s \o t) = Range(s) \union Range(t)
  <2>1. ASSUME NEW i \in DOMAIN s
        PROVE  s[i] \in Range(s \o t)
    BY <1>1, <1>2 DEF Range
  <2>2. ASSUME NEW i \in DOMAIN t
        PROVE  t[i] \in Range(s \o t)
    <3>1. i + Len(s) \in DOMAIN (s \o t) /\ (s \o t)[i + Len(s)] = t[i]
      BY <1>1, <1>2
    <3> QED BY <3>1 DEF Range
  <2>3. ASSUME NEW i \in DOMAIN (s \o t)
        PROVE  (s \o t)[i] \in Range(s) \union Range(t)
    <3>1. i \in 1..Len(s) + Len(t)
      BY <1>1
    <3>2. CASE i <= Len(s)
      BY <1>2, <3>1, <3>2 DEF Range
    <3>3. CASE i > Len(s)
      <4>1. i - Len(s) \in DOMAIN t /\ (s \o t)[i] = t[i - Len(s)]
        BY <1>2, <3>1, <3>3
      <4> QED BY <4>1 DEF Range
    <3> QED BY <3>1, <3>2, <3>3
  <2> QED BY <2>1, <2>2, <2>3 DEF Range
<1>4. ASSUME IsInjective(s), IsInjective(t), Range(s) \intersect Range(t) = {}
      PROVE  IsInjective(s \o t)
  <2> SUFFICES ASSUME NEW i \in 1..Len(s) + Len(t), NEW j \in 1..Len(s) + Len(t),
                      (s \o t)[i] = (s \o t)[j], i < j
               PROVE  FALSE
    BY <1>1 DEF IsInjective
  <2>1. CASE j <= Len(s)
    BY <1>2, <1>4, <2>1 DEF IsInjective
  <2>2. CASE i > Len(s)
    <3>1. i - Len(s) \in DOMAIN t /\ j - Len(s) \in DOMAIN t /\ i - Len(s) # j - Len(s)
      BY <2>2
    <3>2. t[i - Len(s)] = t[j - Len(s)]
      BY <1>2, <2>2
    <3> QED BY <1>4, <3>1, <3>2 DEF IsInjective
  <2>3. CASE i <= Len(s) /\ j > Len(s)
    <3>1. i \in DOMAIN s /\ j - Len(s) \in DOMAIN t /\ s[i] = t[j - Len(s)]
      BY <1>2, <2>3
    <3> QED BY <1>4, <3>1 DEF Range
  <2> QED BY <2>1, <2>2, <2>3
<1> QED BY <1>1, <1>3, <1>4

\* A list but its last element.
LEMMA FrontFacts ==
    ASSUME NEW S, NEW s \in Seq(S), s # <<>>
    PROVE  /\ Front(s) \in Seq(S) /\ Last(s) \in S
           /\ Range(s) \subseteq Range(Front(s)) \union {Last(s)}
           /\ Range(Front(s)) \subseteq Range(s)
<1>1. Len(s) \in Nat \ {0} /\ Last(s) = s[Len(s)] /\ Last(s) \in S
  BY DEF Last
<1>2. /\ Front(s) \in Seq(S) /\ Len(Front(s)) = Len(s) - 1
      /\ \A i \in 1..Len(s) - 1 : Front(s)[i] = s[i]
  <2> DEFINE n == Len(s) - 1
  <2>1. Front(s) = SubSeq(s, 1, n) /\ n \in Nat /\ n <= Len(s)
    BY <1>1 DEF Front
  <2> HIDE DEF n
  <2>2. /\ SubSeq(s, 1, n) \in Seq(S) /\ Len(SubSeq(s, 1, n)) = n
        /\ \A i \in 1..n : SubSeq(s, 1, n)[i] = s[i]
    BY <2>1
  <2> QED BY <2>1, <2>2 DEF n
<1>3. ASSUME NEW i \in DOMAIN s
      PROVE  s[i] \in Range(Front(s)) \union {Last(s)}
  <2>1. CASE i = Len(s)
    BY <1>1, <2>1
  <2>2. CASE i # Len(s)
    <3>1. i \in DOMAIN Front(s) /\ Front(s)[i] = s[i]
      BY <1>1, <1>2, <2>2
    <3> QED BY <3>1 DEF Range
  <2> QED BY <2>1, <2>2
<1>4. ASSUME NEW i \in DOMAIN Front(s)
      PROVE  Front(s)[i] \in Range(s)
  <2>1. i \in DOMAIN s /\ Front(s)[i] = s[i]
    BY <1>1, <1>2
  <2> QED BY <2>1 DEF Range
<1>5. Range(s) \subseteq Range(Front(s)) \union {Last(s)}
  BY <1>3 DEF Range
<1>6. Range(Front(s)) \subseteq Range(s)
  BY <1>4 DEF Range
<1> QED BY <1>1, <1>2, <1>5, <1>6

\* A list is empty when nobody is on it.
LEMMA EmptyFacts ==
    ASSUME NEW S, NEW s \in Seq(S)
    PROVE  /\ Range(s) \subseteq S
           /\ s = <<>> <=> Range(s) = {}
           /\ s # <<>> => s[1] \in Range(s)
BY DEF Range

-----------------------------------------------------------------------------
(* Lemmas about numbers of requests. *)

\* Sets of lockers are finite, and are counted by adding and removing lockers.
LEMMA LockerSets ==
    ASSUME NEW S \in SUBSET Lockers
    PROVE  /\ Cardinality(S) \in Nat
           /\ Cardinality(S) = 0 <=> S = {}
           /\ \A l \in Lockers \ S : Cardinality(S \union {l}) = Cardinality(S) + 1
           /\ \A l \in S : Cardinality(S \ {l}) = Cardinality(S) - 1
<1>1. IsFiniteSet(S)
  BY LockerAssumption, FS_Subset
<1>2. Cardinality(S) \in Nat
  BY <1>1, FS_CardinalityType
<1>3. Cardinality(S) = 0 <=> S = {}
  BY <1>1, FS_EmptySet
<1>4. \A l \in Lockers \ S : Cardinality(S \union {l}) = Cardinality(S) + 1
  BY <1>1, FS_AddElement
<1>5. \A l \in S : Cardinality(S \ {l}) = Cardinality(S) - 1
  BY <1>1, FS_RemoveElement
<1> QED BY <1>2, <1>3, <1>4, <1>5

\* Disjoint sets of lockers add up.
LEMMA LockerUnion ==
    ASSUME NEW S \in SUBSET Lockers, NEW T \in SUBSET Lockers, S \intersect T = {}
    PROVE  Cardinality(S \union T) = Cardinality(S) + Cardinality(T)
<1>1. IsFiniteSet(S) /\ IsFiniteSet(T)
  BY LockerAssumption, FS_Subset
<1>2. Cardinality(S) \in Nat /\ Cardinality(T) \in Nat
  BY <1>1, FS_CardinalityType
<1>3. Cardinality(S \union T) = Cardinality(S) + Cardinality(T) - Cardinality({})
  BY <1>1, FS_Union
<1> QED BY <1>2, <1>3, FS_EmptySet

\* The positions at which a list has requests of a set are as many as those requests.
LEMMA PositionsCount ==
    ASSUME NEW s \in Seq(Lockers), IsInjective(s), NEW S \in SUBSET Range(s)
    PROVE  Cardinality({i \in DOMAIN s : s[i] \in S}) = Cardinality(S)
<1> DEFINE D == {i \in DOMAIN s : s[i] \in S}
           f == [i \in D |-> s[i]]
<1>1. IsFiniteSet(D)
  <2>1. D \subseteq 1..Len(s) /\ Len(s) \in Nat
    OBVIOUS
  <2>2. IsFiniteSet(1..Len(s))
    BY <2>1, FS_Interval
  <2> QED BY <2>1, <2>2, FS_Subset
<1>2. f \in Bijection(D, S)
  BY DEF Bijection, Injection, Surjection, IsInjective, Range
<1>3. ExistsBijection(D, S)
  BY <1>2 DEF ExistsBijection
<1> QED BY <1>1, <1>3, FS_Bijection

-----------------------------------------------------------------------------
(* Lemmas about modes. *)

\* The conflicts table: it is symmetric, intent modes are compatible and X conflicts
\* with all.
LEMMA ConflictFacts ==
    /\ \A m \in Modes : Conflicting[m] \subseteq Modes
    /\ \A m, n \in Modes : m \in Conflicting[n] <=> n \in Conflicting[m]
    /\ \A m, n \in IntentModes : m \notin Conflicting[n]
    /\ \A m \in Modes : "X" \in Conflicting[m] /\ m \in Conflicting["X"]
    /\ IntentModes \subseteq Modes /\ NoMode \notin Modes /\ "X" \in Modes
<1>1. /\ Conflicting["IS"] = {"X"} /\ Conflicting["IX"] = {"S", "X"}
      /\ Conflicting["S"] = {"IX", "X"} /\ Conflicting["X"] = {"S", "X", "IS", "IX"}
  BY DEF Conflicting, Modes, NoMode
<1> QED BY <1>1 DEF Modes, IntentModes, NoMode

\* A mode that covers another conflicts with all that the other one conflicts with.
LEMMA CoverFacts ==
    ASSUME NEW m \in Modes, NEW n \in Modes, Covers(m, n), NEW x \in Modes,
           n \in Conflicting[x]
    PROVE  m \in Conflicting[x]
BY ConflictFacts DEF Covers

\* Which modes the counters show.
ModesShown ==
    /\ \A m \in Modes : m \in GrantedModes <=>
        \E l \in Lockers : (OnLockHead(l) /\ mode[l] = m) \/ convertMode[l] = m
    /\ \A m \in Modes : m \in ConflictModes <=> \E l \in Lockers : Queued(l) /\ mode[l] = m
    /\ \A l \in Lockers : OnLockHead(l) => \A m \in Modes : m \in GrantedWithout(l) <=>
        \E k \in Lockers \ {l} : (OnLockHead(k) /\ mode[k] = m) \/ convertMode[k] = m
    /\ conversions = 0 <=> \A l \in Lockers : status[l] # "converting"
    /\ firsts = 0 <=> \A l \in Lockers : ~(OnLockHead(l) /\ first[l])

\* Counters that say what is on the lists show the modes of the requests on them.
LEMMA CountersShowModes == CountInv => ModesShown
<1> SUFFICES ASSUME CountInv
             PROVE  ModesShown
  OBVIOUS
<1>1. ASSUME NEW m \in Modes
      PROVE  /\ HoldersIn(m) \in SUBSET Lockers /\ ConvertersTo(m) \in SUBSET Lockers
             /\ QueuedIn(m) \in SUBSET Lockers
             /\ grantedCounts[m] = Cardinality(HoldersIn(m)) + Cardinality(ConvertersTo(m))
             /\ conflictCounts[m] = Cardinality(QueuedIn(m))
  BY DEF CountInv, HoldersIn, ConvertersTo, QueuedIn
<1>2. ASSUME NEW m \in Modes
      PROVE  m \in GrantedModes <=>
                \E l \in Lockers : (OnLockHead(l) /\ mode[l] = m) \/ convertMode[l] = m
  <2>1. grantedCounts[m] > 0 <=> HoldersIn(m) # {} \/ ConvertersTo(m) # {}
    BY <1>1, LockerSets
  <2> QED BY <2>1 DEF GrantedModes, HoldersIn, ConvertersTo
<1>3. ASSUME NEW m \in Modes
      PROVE  m \in ConflictModes <=> \E l \in Lockers : Queued(l) /\ mode[l] = m
  <2>1. conflictCounts[m] > 0 <=> QueuedIn(m) # {}
    BY <1>1, LockerSets
  <2> QED BY <2>1 DEF ConflictModes, QueuedIn
<1>4. ASSUME NEW l \in Lockers, OnLockHead(l), NEW m \in Modes
      PROVE  m \in GrantedWithout(l) <=>
                \E k \in Lockers \ {l} : (OnLockHead(k) /\ mode[k] = m) \/ convertMode[k] = m
  <2> DEFINE H == HoldersIn(m) \ {l}
             C == ConvertersTo(m) \ {l}
  <2>1. H \in SUBSET Lockers /\ C \in SUBSET Lockers
    BY <1>1
  <2>n. /\ Cardinality(H) \in Nat /\ Cardinality(C) \in Nat
        /\ Cardinality(H) = 0 <=> H = {}
        /\ Cardinality(C) = 0 <=> C = {}
    BY <2>1, LockerSets
  <2> HIDE DEF H, C
  <2>2. Cardinality(HoldersIn(m)) = Cardinality(H) + Is(mode[l], m)
    <3>1. CASE mode[l] = m
      <4>1. l \in HoldersIn(m)
        BY <1>4, <3>1 DEF HoldersIn
      <4>2. Cardinality(H) = Cardinality(HoldersIn(m)) - 1
        BY <1>1, <4>1, LockerSets DEF H
      <4>3. Cardinality(HoldersIn(m)) \in Nat
        BY <1>1, LockerSets
      <4> QED BY <2>n, <3>1, <4>2, <4>3 DEF Is
    <3>2. CASE mode[l] # m
      <4>1. H = HoldersIn(m)
        BY <3>2 DEF HoldersIn, H
      <4> QED BY <2>n, <3>2, <4>1 DEF Is
    <3> QED BY <3>1, <3>2
  <2>3. Cardinality(ConvertersTo(m)) = Cardinality(C) + Is(convertMode[l], m)
    <3>1. CASE convertMode[l] = m
      <4>1. l \in ConvertersTo(m)
        BY <3>1 DEF ConvertersTo
      <4>2. Cardinality(C) = Cardinality(ConvertersTo(m)) - 1
        BY <1>1, <4>1, LockerSets DEF C
      <4>3. Cardinality(ConvertersTo(m)) \in Nat
        BY <1>1, LockerSets
      <4> QED BY <2>n, <3>1, <4>2, <4>3 DEF Is
    <3>2. CASE convertMode[l] # m
      <4>1. C = ConvertersTo(m)
        BY <3>2 DEF ConvertersTo, C
      <4> QED BY <2>n, <3>2, <4>1 DEF Is
    <3> QED BY <3>1, <3>2
  <2>4. Is(mode[l], m) \in Nat /\ Is(convertMode[l], m) \in Nat
    BY DEF Is
  <2>5. grantedCounts[m] > Is(mode[l], m) + Is(convertMode[l], m) <=> H # {} \/ C # {}
    BY <1>1, <2>2, <2>3, <2>4, <2>n
  <2> QED BY <2>5 DEF GrantedWithout, HoldersIn, ConvertersTo, H, C
<1>5. conversions = 0 <=> \A l \in Lockers : status[l] # "converting"
  <2> DEFINE S == {l \in Lockers : status[l] = "converting"}
  <2>1. S \in SUBSET Lockers /\ conversions = Cardinality(S)
    BY DEF CountInv
  <2>2. S = {} <=> \A l \in Lockers : status[l] # "converting"
    OBVIOUS
  <2> QED BY <2>1, <2>2, LockerSets
<1>6. firsts = 0 <=> \A l \in Lockers : ~(OnLockHead(l) /\ first[l])
  <2> DEFINE S == {l \in Lockers : OnLockHead(l) /\ first[l]}
  <2>1. S \in SUBSET Lockers /\ firsts = Cardinality(S)
    BY DEF CountInv
  <2>2. S = {} <=> \A l \in Lockers : ~(OnLockHead(l) /\ first[l])
    OBVIOUS
  <2> QED BY <2>1, <2>2, LockerSets
<1> QED BY <1>2, <1>3, <1>4, <1>5, <1>6 DEF ModesShown

\* The types but for the counters, of which it is enough to know that they are numbers:
\* CountInv says of what.
PlainTypes ==
    /\ global \in BOOLEAN
    /\ status \in [Lockers -> {"none", "new", "granted", "waiting", "converting"}]
    /\ mode \in [Lockers -> Modes \union {NoMode}]
    /\ convertMode \in [Lockers -> Modes \union {NoMode}]
    /\ target \in [Lockers -> Modes \union {NoMode}]
    /\ count \in [Lockers -> 0..MaxRecursion]
    /\ partitioned \in [Lockers -> BOOLEAN] /\ first \in [Lockers -> BOOLEAN]
    /\ notified \in [Lockers -> BOOLEAN]
    /\ heads \in [Partitions -> Seq(Lockers)] /\ existing \subseteq Partitions
    /\ partitions \in Seq(Partitions)
    /\ grantedList \in Seq(Lockers) /\ IsInjective(grantedList)
    /\ conflictList \in Seq(Lockers) /\ IsInjective(conflictList)
    /\ grantedCounts \in [Modes -> Int] /\ conflictCounts \in [Modes -> Int]
    /\ bucket \in Lockers \union {Cleaner, "free"}
    /\ pc \in [Lockers -> {"idle", "lock", "convert", "wait", "cancel", "unlock",
                           "conversions", "grants"}]

\* Counters that say what is on the lists are natural numbers.
LEMMA TypesFromCounts == CountInv /\ PlainTypes => TypeOK
<1> SUFFICES ASSUME CountInv, PlainTypes
             PROVE  TypeOK
  OBVIOUS
<1>1. \A m \in Modes : grantedCounts[m] \in Nat /\ conflictCounts[m] \in Nat
  <2> TAKE m \in Modes
  <2>1. HoldersIn(m) \in SUBSET Lockers /\ ConvertersTo(m) \in SUBSET Lockers
           /\ QueuedIn(m) \in SUBSET Lockers
    BY DEF HoldersIn, ConvertersTo, QueuedIn
  <2>2. Cardinality(HoldersIn(m)) \in Nat /\ Cardinality(ConvertersTo(m)) \in Nat
           /\ Cardinality(QueuedIn(m)) \in Nat
    BY <2>1, LockerSets
  <2> QED BY <2>2 DEF CountInv
<1>2. conversions \in Nat
  <2> DEFINE S == {l \in Lockers : status[l] = "converting"}
  <2>1. S \in SUBSET Lockers /\ conversions = Cardinality(S)
    BY DEF CountInv
  <2> HIDE DEF S
  <2> QED BY <2>1, LockerSets
<1>3. firsts \in Nat
  <2> DEFINE S == {l \in Lockers : OnLockHead(l) /\ first[l]}
  <2>1. S \in SUBSET Lockers /\ firsts = Cardinality(S)
    BY DEF CountInv
  <2> HIDE DEF S
  <2> QED BY <2>1, LockerSets
<1>4. grantedCounts \in [Modes -> Nat] /\ conflictCounts \in [Modes -> Nat]
  BY <1>1 DEF PlainTypes
<1> QED BY <1>2, <1>3, <1>4 DEF PlainTypes, TypeOK

\* The invariant gives the types.
LEMMA InvTypes == LockInv => PlainTypes
<1> SUFFICES ASSUME LockInv
             PROVE  PlainTypes
  OBVIOUS
<1>1. TypeOK
  BY DEF LockInv
<1>2. grantedCounts \in [Modes -> Int] /\ conflictCounts \in [Modes -> Int]
  BY <1>1 DEF TypeOK
<1> QED BY <1>1, <1>2 DEF PlainTypes, TypeOK

-----------------------------------------------------------------------------
(* Steps that leave the lock head alone. *)

\* Whom a request may have been put before.
QueuedConflict(l) ==
    \E k \in Lockers : k # l /\ Queued(k) /\ Conflicts(mode[l], {mode[k]})

QueueOK == conflictList \in Seq(Lockers)
PutBeforeIs ==
    \A l \in Lockers : PutBefore(l) <=> first[l] /\ GrantedModes # {} /\ QueuedConflict(l)

\* The requests that the queue names are lockers.
LEMMA PutBeforeFacts == QueueOK => PutBeforeIs
<1> SUFFICES ASSUME conflictList \in Seq(Lockers), NEW l \in Lockers
             PROVE  PutBefore(l) <=> first[l] /\ GrantedModes # {} /\ QueuedConflict(l)
  BY DEF QueueOK, PutBeforeIs
<1>1. \A k : k \in Range(conflictList) => k \in Lockers
  BY DEF Range
<1> QED BY <1>1 DEF PutBefore, QueuedConflict, Queued

\* The step leaves alone what the lock head shows.
Quiet ==
    /\ UNCHANGED <<queues, counters, convertMode>>
    /\ \A k \in Lockers : status'[k] = "converting" <=> status[k] = "converting"
    /\ \A k \in Lockers :
        OnLockHead(k) \/ Queued(k) => mode'[k] = mode[k] /\ first'[k] = first[k]

\* What the lock head shows is unchanged.
LEMMA QuietFacts ==
    ASSUME LockInv, Quiet
    PROVE  /\ CountInv'
           /\ GrantedModes' = GrantedModes /\ ConflictModes' = ConflictModes
           /\ FrontWaits' <=> FrontWaits
           /\ FrontConflicts' <=> FrontConflicts
           /\ \A k \in Lockers : ConversionWaits(k)' <=> ConversionWaits(k)
           /\ \A k \in Lockers : OnLockHead(k)' <=> OnLockHead(k)
           /\ \A k \in Lockers : Queued(k)' <=> Queued(k)
<1>1. /\ grantedList' = grantedList /\ conflictList' = conflictList
      /\ conversions' = conversions /\ firsts' = firsts
      /\ grantedCounts' = grantedCounts /\ conflictCounts' = conflictCounts
      /\ convertMode' = convertMode
  BY DEF Quiet, queues, counters
<1>2. \A k \in Lockers : (OnLockHead(k)' <=> OnLockHead(k)) /\ (Queued(k)' <=> Queued(k))
  BY <1>1 DEF OnLockHead, Queued
<1>3. \A k \in Lockers :
        OnLockHead(k) \/ Queued(k) => mode'[k] = mode[k] /\ first'[k] = first[k]
  BY DEF Quiet
<1>4. CountInv'
  <2>1. \A m \in Modes : HoldersIn(m)' = HoldersIn(m) /\ QueuedIn(m)' = QueuedIn(m)
                            /\ ConvertersTo(m)' = ConvertersTo(m)
    BY <1>1, <1>2, <1>3 DEF HoldersIn, QueuedIn, ConvertersTo
  <2>2. {l \in Lockers : status'[l] = "converting"} = {l \in Lockers : status[l] = "converting"}
    BY DEF Quiet
  <2>3. {l \in Lockers : OnLockHead(l)' /\ first'[l]} = {l \in Lockers : OnLockHead(l) /\ first[l]}
    BY <1>2, <1>3
  <2>4. CountInv
    BY DEF LockInv
  <2> QED BY <1>1, <2>1, <2>2, <2>3, <2>4 DEF CountInv
<1>5. GrantedModes' = GrantedModes /\ ConflictModes' = ConflictModes
  BY <1>1 DEF GrantedModes, ConflictModes
<1>6. /\ conflictList \in Seq(Lockers)
      /\ conflictList # <<>> => conflictList[1] \in Lockers /\ Queued(conflictList[1])
  <2>1. conflictList \in Seq(Lockers)
    BY DEF LockInv, TypeOK
  <2> QED BY <2>1, EmptyFacts DEF Queued
<1>7. (FrontWaits' <=> FrontWaits) /\ (FrontConflicts' <=> FrontConflicts)
  <2>1. FrontConflicts' <=> FrontConflicts
    BY <1>1, <1>3, <1>5, <1>6 DEF FrontConflicts, Conflicts
  <2>2. CASE conflictList = <<>>
    BY <1>1, <2>1, <2>2 DEF FrontWaits
  <2>3. CASE conflictList # <<>>
    <3>1. PICK f \in Lockers : f = conflictList[1] /\ Queued(f)
      BY <1>6, <2>3
    <3>2. mode'[f] = mode[f] /\ first'[f] = first[f]
      BY <1>3, <3>1
    <3>3. QueuedConflict(f)' <=> QueuedConflict(f)
      BY <1>2, <1>3, <3>2 DEF QueuedConflict, Conflicts
    <3>4. PutBefore(f) <=> first[f] /\ GrantedModes # {} /\ QueuedConflict(f)
      BY <1>6, PutBeforeFacts DEF QueueOK, PutBeforeIs
    <3>5. PutBefore(f)' <=> first'[f] /\ GrantedModes' # {} /\ QueuedConflict(f)'
      <4>1. QueueOK'
        BY <1>1, <1>6 DEF QueueOK
      <4>2. PutBeforeIs'
        BY <4>1, PutBeforeFacts, PTL
      <4> QED BY <4>2 DEF PutBeforeIs
    <3>6. PutBefore(f)' <=> PutBefore(f)
      BY <1>5, <3>2, <3>3, <3>4, <3>5
    <3>7. Conflicts(mode'[f], GrantedModes') <=> Conflicts(mode[f], GrantedModes)
      BY <1>5, <3>2 DEF Conflicts
    <3> QED BY <1>1, <2>1, <2>3, <3>1, <3>6, <3>7 DEF FrontWaits
  <2> QED BY <2>2, <2>3
<1>8. ASSUME NEW k \in Lockers
      PROVE  ConversionWaits(k)' <=> ConversionWaits(k)
  <2>1. CASE status[k] = "converting"
    <3>1. OnLockHead(k)
      <4>1. TypeOK /\ ThreadInv /\ ListInv
        BY DEF LockInv
      <4> QED BY <2>1, <4>1 DEF ListInv, PlaceOK, ThreadInv, ThreadOK, Released, Scanning
    <3>2. GrantedWithout(k)' = GrantedWithout(k)
      BY <1>1, <1>3, <3>1 DEF GrantedWithout
    <3> QED BY <1>1, <2>1, <3>2 DEF ConversionWaits, Quiet, Conflicts
  <2>2. CASE status[k] # "converting"
    BY <2>2 DEF ConversionWaits, Quiet
  <2> QED BY <2>1, <2>2
<1> QED BY <1>2, <1>4, <1>5, <1>7, <1>8

\* Nobody is forgotten in a step that also leaves the scans alone.
LEMMA QuietWakeup ==
    ASSUME LockInv, Quiet, scan' = scan,
           \A k \in Lockers : Scanning(k) \/ Scanning(k)' => pc'[k] = pc[k]
    PROVE  WakeupInv'
<1>1. /\ FrontWaits' <=> FrontWaits
      /\ FrontConflicts' <=> FrontConflicts
      /\ \A k \in Lockers : ConversionWaits(k)' <=> ConversionWaits(k)
  BY QuietFacts
<1>2. \A k \in Lockers : /\ Scanning(k)' <=> Scanning(k)
                         /\ pc'[k] = "conversions" <=> pc[k] = "conversions"
                         /\ pc'[k] = "grants" <=> pc[k] = "grants"
  BY DEF Scanning
<1>3. grantedList' = grantedList /\ grantedList \in Seq(Lockers)
  BY DEF Quiet, queues, LockInv, TypeOK
<1>4. \A i \in DOMAIN grantedList : grantedList[i] \in Lockers
  BY <1>3
<1>5. \A i \in DOMAIN grantedList :
        ConversionWaits(grantedList[i])' <=> ConversionWaits(grantedList[i])
  BY <1>1, <1>3, <1>4 DEF ConversionWaits, GrantedWithout
<1>6. WakeupInv
  BY DEF LockInv
<1> QED BY <1>1, <1>2, <1>3, <1>5, <1>6 DEF WakeupInv

-----------------------------------------------------------------------------
(* lock() *)

\* Facts that every action's proof begins with.
LEMMA InvParts ==
    LockInv => /\ PlainTypes /\ NeverFails /\ ThreadInv /\ ModeInv /\ ListInv /\ CountInv
               /\ PartitionInv /\ BucketInv /\ HeldInv /\ WakeupInv /\ ModesShown
BY InvTypes, CountersShowModes DEF LockInv

\* The parts make up the invariant.
LEMMA PartsInv ==
    (/\ PlainTypes /\ NeverFails /\ ThreadInv /\ ModeInv /\ ListInv /\ CountInv
     /\ PartitionInv /\ BucketInv /\ HeldInv /\ WakeupInv)
    => LockInv
<1> SUFFICES ASSUME PlainTypes, NeverFails, ThreadInv, ModeInv, ListInv, CountInv,
                    PartitionInv, BucketInv, HeldInv, WakeupInv
             PROVE  LockInv
  OBVIOUS
<1>1. TypeOK
  BY TypesFromCounts
<1> QED BY <1>1 DEF LockInv

\* While the lock head shows intent modes only, all that is held is held in those.
LEMMA IntentsHeld ==
    ASSUME LockInv, GrantedModes \subseteq IntentModes, NEW k \in Lockers, Held(k)
    PROVE  mode[k] \in IntentModes
<1>1. PlainTypes /\ ModeInv /\ ListInv /\ ModesShown
  BY InvParts
<1>2. CASE OnPartition(k)
  BY <1>1, <1>2 DEF ListInv, PlaceOK
<1>3. CASE OnLockHead(k)
  <2>1. mode[k] \in Modes
    BY <1>1, <1>3 DEF ListInv, PlaceOK, ModeInv, ModeOK, PlainTypes
  <2>2. mode[k] \in GrantedModes
    BY <1>1, <1>3, <2>1 DEF ModesShown
  <2> QED BY <2>2
<1> QED BY <1>2, <1>3 DEF Held

\* A request is as it was, and where it was.
SameRequest(k) ==
    /\ status'[k] = status[k] /\ mode'[k] = mode[k] /\ convertMode'[k] = convertMode[k]
    /\ target'[k] = target[k] /\ count'[k] = count[k] /\ partitioned'[k] = partitioned[k]
    /\ first'[k] = first[k] /\ notified'[k] = notified[k] /\ pc'[k] = pc[k]

SamePlace(k) ==
    /\ OnPartition(k)' <=> OnPartition(k)
    /\ OnLockHead(k)' <=> OnLockHead(k)
    /\ Queued(k)' <=> Queued(k)

\* Such a request keeps its part of the invariant.
LEMMA OthersKeep ==
    ASSUME LockInv, global' = global, NEW k \in Lockers, SameRequest(k), SamePlace(k)
    PROVE  ThreadOK(k)' /\ ModeOK(k)' /\ PlaceOK(k)'
<1>1. ThreadOK(k) /\ ModeOK(k) /\ PlaceOK(k)
  BY InvParts DEF ThreadInv, ModeInv, ListInv
<1>2. ThreadOK(k)'
  BY <1>1 DEF SameRequest, ThreadOK, Scanning
<1>3. ModeOK(k)'
  BY <1>1 DEF SameRequest, ModeOK
<1>4. PlaceOK(k)'
  BY <1>1 DEF SameRequest, SamePlace, PlaceOK, Released, Scanning
<1> QED BY <1>2, <1>3, <1>4

\* Nothing else is held, and in no other mode.
LEMMA SameHeld ==
    ASSUME LockInv, \A k \in Lockers : Held(k)' => Held(k) /\ mode'[k] = mode[k]
    PROVE  HeldInv'
BY InvParts DEF HeldInv

\* A partition has a list of its lockers after a request is put on it.
LEMMA JoinFacts ==
    ASSUME LockInv, NEW l \in Lockers, ~OnPartition(l),
           heads' = [heads EXCEPT ![PartitionOf[l]] = Append(@, l)]
    PROVE  /\ heads' \in [Partitions -> Seq(Lockers)]
           /\ \A p \in Partitions : /\ IsInjective(heads'[p])
                                    /\ \A k \in Range(heads'[p]) : PartitionOf[k] = p
                                    /\ p # PartitionOf[l] => heads'[p] = heads[p]
           /\ \A k \in Lockers : OnPartition(k)' <=> OnPartition(k) \/ k = l
<1> DEFINE q == PartitionOf[l]
<1>1. PlainTypes /\ ListInv /\ q \in Partitions
  BY InvParts, PartitionAssumption
<1>2. heads[q] \in Seq(Lockers) /\ IsInjective(heads[q]) /\ l \notin Range(heads[q])
  BY <1>1 DEF PlainTypes, ListInv, PlaceOK, OnPartition
<1> HIDE DEF q
<1>3. /\ Append(heads[q], l) \in Seq(Lockers)
      /\ Range(Append(heads[q], l)) = Range(heads[q]) \union {l}
      /\ IsInjective(Append(heads[q], l))
  BY <1>2, AppendFacts
<1>4. heads' \in [Partitions -> Seq(Lockers)] /\ heads'[q] = Append(heads[q], l)
        /\ \A p \in Partitions : p # q => heads'[p] = heads[p]
  BY <1>1, <1>3 DEF PlainTypes, q
<1>5. ASSUME NEW p \in Partitions
      PROVE  IsInjective(heads'[p]) /\ \A k \in Range(heads'[p]) : PartitionOf[k] = p
  <2>1. CASE p = q
    BY <1>1, <1>3, <1>4, <2>1 DEF ListInv, PlaceOK, q
  <2>2. CASE p # q
    BY <1>1, <1>4, <2>2 DEF ListInv, PlaceOK
  <2> QED BY <2>1, <2>2
<1>6. ASSUME NEW k \in Lockers
      PROVE  OnPartition(k)' <=> OnPartition(k) \/ k = l
  <2>1. PartitionOf[k] \in Partitions
    BY PartitionAssumption
  <2>2. CASE PartitionOf[k] = q
    BY <1>3, <1>4, <2>2 DEF OnPartition
  <2>3. CASE PartitionOf[k] # q
    BY <1>4, <2>1, <2>3 DEF OnPartition, q
  <2> QED BY <2>2, <2>3
<1> QED BY <1>4, <1>5, <1>6 DEF q

\* A new request goes to its partition, or to the bucket.
LEMMA LockKeeps ==
    ASSUME LockInv, NEW l \in Lockers, NEW m \in RequestModes, Lock(l, m)
    PROVE  LockInv'
<1> DEFINE fast == m \in IntentModes /\ PartitionOf[l] \in existing
<1>1. /\ PlainTypes /\ NeverFails /\ ThreadInv /\ ModeInv /\ ListInv
      /\ PartitionInv /\ BucketInv /\ HeldInv
  BY InvParts
<1>2. m \in Modes /\ m # NoMode
  BY ModeAssumption, ConflictFacts
<1>3. pc[l] = "idle" /\ status[l] = "none" /\ count[l] = 0
  BY <1>1 DEF Lock, ThreadInv, ThreadOK
<1>4. ~OnPartition(l) /\ ~OnLockHead(l) /\ ~Queued(l) /\ ~notified[l]
  BY <1>1, <1>3 DEF ListInv, PlaceOK, ModeInv, ModeOK
<1>5. \A k \in Lockers :
        /\ status'[k] = IF k # l THEN status[k] ELSE IF fast THEN "granted" ELSE "new"
        /\ mode'[k] = IF k = l THEN m ELSE mode[k]
        /\ count'[k] = IF k = l THEN 1 ELSE count[k]
        /\ partitioned'[k] = IF k = l THEN m \in IntentModes ELSE partitioned[k]
        /\ first'[k] = IF k = l THEN global /\ m \in {"S", "X"} ELSE first[k]
        /\ notified'[k] = IF k = l THEN FALSE ELSE notified[k]
        /\ pc'[k] = IF k = l /\ ~fast THEN "lock" ELSE pc[k]
  BY <1>1 DEF Lock, Go, PlainTypes
<1>6. /\ global' = global /\ convertMode' = convertMode /\ target' = target
      /\ existing' = existing /\ partitions' = partitions
      /\ grantedList' = grantedList /\ conflictList' = conflictList
      /\ conversions' = conversions /\ firsts' = firsts
      /\ grantedCounts' = grantedCounts /\ conflictCounts' = conflictCounts
      /\ bucket' = bucket /\ scan' = scan /\ failed' = failed
  BY DEF Lock, lockHead, queues, counters
<1>7. fast => heads' = [heads EXCEPT ![PartitionOf[l]] = Append(@, l)]
  BY DEF Lock
<1>8. ~fast => heads' = heads
  BY DEF Lock
<1>9. /\ heads' \in [Partitions -> Seq(Lockers)]
      /\ \A p \in Partitions :
            /\ IsInjective(heads'[p]) /\ \A k \in Range(heads'[p]) : PartitionOf[k] = p
            /\ (fast /\ p = PartitionOf[l]) \/ heads'[p] = heads[p]
      /\ \A k \in Lockers : OnPartition(k)' <=> OnPartition(k) \/ (k = l /\ fast)
  <2>1. CASE fast
    BY <1>4, <1>7, <2>1, JoinFacts
  <2>2. CASE ~fast
    BY <1>1, <1>8, <2>2 DEF PlainTypes, ListInv, PlaceOK, OnPartition
  <2> QED BY <2>1, <2>2
<1> HIDE DEF fast
<1>10. PlainTypes'
  <2> DEFINE onPartition == m \in IntentModes
             atFront == global /\ m \in {"S", "X"}
  <2>1. onPartition \in BOOLEAN /\ atFront \in BOOLEAN
    OBVIOUS
  <2>2. /\ mode' = [mode EXCEPT ![l] = m] /\ count' = [count EXCEPT ![l] = 1]
        /\ partitioned' = [partitioned EXCEPT ![l] = onPartition]
        /\ first' = [first EXCEPT ![l] = atFront]
        /\ notified' = [notified EXCEPT ![l] = FALSE]
    BY DEF Lock
  <2>3. /\ status' \in {[status EXCEPT ![l] = "granted"], [status EXCEPT ![l] = "new"]}
        /\ pc' \in {pc, [pc EXCEPT ![l] = "lock"]}
    BY DEF Lock, Go
  <2> HIDE DEF onPartition, atFront
  <2>4. /\ mode' \in [Lockers -> Modes \union {NoMode}]
        /\ count' \in [Lockers -> 0..MaxRecursion]
        /\ partitioned' \in [Lockers -> BOOLEAN] /\ first' \in [Lockers -> BOOLEAN]
        /\ notified' \in [Lockers -> BOOLEAN]
    BY <1>1, <1>2, <2>1, <2>2, RecursionAssumption DEF PlainTypes
  <2>5. /\ status' \in [Lockers -> {"none", "new", "granted", "waiting", "converting"}]
        /\ pc' \in [Lockers -> {"idle", "lock", "convert", "wait", "cancel", "unlock",
                                "conversions", "grants"}]
    BY <1>1, <2>3 DEF PlainTypes
  <2> QED BY <1>1, <1>6, <1>9, <2>4, <2>5 DEF PlainTypes
<1>11. Quiet
  BY <1>3, <1>4, <1>5, <1>6 DEF Quiet, queues, counters
<1>12. /\ CountInv'
       /\ GrantedModes' = GrantedModes /\ ConflictModes' = ConflictModes
       /\ \A k \in Lockers : (OnLockHead(k)' <=> OnLockHead(k)) /\ (Queued(k)' <=> Queued(k))
  BY <1>11, QuietFacts
<1>13. ThreadInv'
  <2> SUFFICES ASSUME NEW k \in Lockers
               PROVE  ThreadOK(k)'
    BY DEF ThreadInv, ThreadOK
  <2>1. CASE k = l
    <3>1. count'[k] = 1 /\ \/ pc'[k] = "idle" /\ status'[k] = "granted"
                           \/ pc'[k] = "lock" /\ status'[k] = "new"
      BY <1>3, <1>5, <2>1
    <3> QED BY <3>1 DEF ThreadOK, Scanning
  <2>2. CASE k # l
    BY <1>1, <1>5, <2>2 DEF ThreadInv, ThreadOK, Scanning
  <2> QED BY <2>1, <2>2
<1>14. ModeInv'
  <2> SUFFICES ASSUME NEW k \in Lockers
               PROVE  ModeOK(k)'
    BY DEF ModeInv, ModeOK
  <2>1. CASE k = l
    BY <1>1, <1>2, <1>3, <1>5, <1>6, <2>1 DEF ModeInv, ModeOK, fast, IntentModes
  <2>2. CASE k # l
    BY <1>1, <1>5, <1>6, <2>2 DEF ModeInv, ModeOK
  <2> QED BY <2>1, <2>2
<1>15. ListInv'
  <2>1. \A k \in Lockers : Released(k)' <=> Released(k)
    BY <1>3, <1>5 DEF Released, Scanning
  <2>2. ASSUME NEW k \in Lockers
        PROVE  PlaceOK(k)'
    <3>1. CASE k = l
      BY <1>3, <1>4, <1>5, <1>9, <1>12, <2>1, <3>1 DEF PlaceOK, fast, Released, Scanning
    <3>2. CASE k # l
      BY <1>1, <1>5, <1>9, <1>12, <2>1, <3>2 DEF ListInv, PlaceOK
    <3> QED BY <3>1, <3>2
  <2> QED BY <1>9, <2>2 DEF ListInv, PlaceOK
<1>16. PartitionInv'
  BY <1>1, <1>6, <1>9, <1>12 DEF PartitionInv, fast
<1>17. BucketInv'
  BY <1>1, <1>3, <1>5, <1>6 DEF BucketInv, Scanning
<1>18. HeldInv'
  <2>1. \A k \in Lockers : Held(k)' <=> Held(k) \/ (k = l /\ fast)
    BY <1>9, <1>12 DEF Held
  <2>2. ASSUME fast, NEW k \in Lockers, Held(k)
        PROVE  mode[k] \in IntentModes
    <3>1. partitions # <<>>
      BY <1>1, <2>2 DEF fast, PartitionInv, Range
    <3> QED BY <1>1, <2>2, <3>1, IntentsHeld DEF PartitionInv
  <2>3. ~Held(l)
    BY <1>4 DEF Held
  <2> SUFFICES ASSUME NEW j \in Lockers, NEW k \in Lockers, j # k, Held(j)', Held(k)'
               PROVE  mode'[k] \notin Conflicting[mode'[j]]
    BY DEF HeldInv
  <2>4. CASE j = l
    BY <1>5, <2>1, <2>2, <2>3, <2>4, ConflictFacts DEF fast
  <2>5. CASE k = l
    BY <1>5, <2>1, <2>2, <2>3, <2>5, ConflictFacts DEF fast
  <2>6. CASE j # l /\ k # l
    BY <1>1, <1>5, <2>1, <2>6 DEF HeldInv
  <2> QED BY <2>4, <2>5, <2>6
<1>19. WakeupInv'
  <2>1. \A k \in Lockers : Scanning(k) \/ Scanning(k)' => pc'[k] = pc[k]
    BY <1>3, <1>5 DEF Scanning
  <2> QED BY <1>6, <1>11, <2>1, QuietWakeup
<1>20. NeverFails'
  BY <1>1, <1>6 DEF NeverFails
<1>21. LockInv'
  BY <1>10, <1>12, <1>13, <1>14, <1>15, <1>16, <1>17, <1>18, <1>19, <1>20, PartsInv, PTL
<1> QED BY <1>21

\* The resource begins to be partitioned.
LEMMA StartPartitionKeeps ==
    ASSUME LockInv, NEW l \in Lockers, StartPartition(l)
    PROVE  LockInv'
<1>1. /\ PlainTypes /\ NeverFails /\ ThreadInv /\ ModeInv /\ ListInv
      /\ PartitionInv /\ BucketInv /\ HeldInv
  BY InvParts
<1>2. /\ pc[l] = "lock" /\ status[l] = "new" /\ count[l] = 1 /\ bucket = "free"
      /\ partitioned[l] /\ mode[l] \in IntentModes
      /\ GrantedModes \subseteq IntentModes /\ ConflictModes = {}
  BY <1>1 DEF StartPartition, MayPartition, ThreadInv, ThreadOK, ModeInv, ModeOK
<1>3. ~OnPartition(l) /\ ~OnLockHead(l) /\ ~Queued(l) /\ ~notified[l]
  BY <1>1, <1>2 DEF ListInv, PlaceOK, ModeInv, ModeOK
<1>4. /\ status' = [status EXCEPT ![l] = "granted"] /\ pc' = [pc EXCEPT ![l] = "idle"]
      /\ heads' = [heads EXCEPT ![PartitionOf[l]] = Append(@, l)]
      /\ existing' = existing \union {PartitionOf[l]}
      /\ partitions' = Append(partitions, PartitionOf[l])
      /\ global' = global /\ mode' = mode /\ convertMode' = convertMode /\ target' = target
      /\ count' = count /\ partitioned' = partitioned /\ first' = first
      /\ notified' = notified /\ grantedList' = grantedList /\ conflictList' = conflictList
      /\ conversions' = conversions /\ firsts' = firsts
      /\ grantedCounts' = grantedCounts /\ conflictCounts' = conflictCounts
      /\ bucket' = bucket /\ scan' = scan /\ failed' = failed
  BY DEF StartPartition, Go, queues, counters
<1>5. \A k \in Lockers : /\ status'[k] = IF k = l THEN "granted" ELSE status[k]
                         /\ pc'[k] = IF k = l THEN "idle" ELSE pc[k]
  BY <1>1, <1>4 DEF PlainTypes
<1>6. /\ heads' \in [Partitions -> Seq(Lockers)]
      /\ \A p \in Partitions : /\ IsInjective(heads'[p])
                               /\ \A k \in Range(heads'[p]) : PartitionOf[k] = p
                               /\ p # PartitionOf[l] => heads'[p] = heads[p]
      /\ \A k \in Lockers : OnPartition(k)' <=> OnPartition(k) \/ k = l
  BY <1>3, <1>4, JoinFacts
<1>7. /\ partitions' \in Seq(Partitions) /\ partitions' # <<>>
      /\ Range(partitions') = Range(partitions) \union {PartitionOf[l]}
      /\ PartitionOf[l] \in Partitions
  <2>1. PartitionOf[l] \in Partitions /\ partitions \in Seq(Partitions)
    BY <1>1, PartitionAssumption DEF PlainTypes
  <2> QED BY <1>4, <2>1, AppendFacts
<1>8. PlainTypes'
  <2>1. /\ status' \in [Lockers -> {"none", "new", "granted", "waiting", "converting"}]
        /\ pc' \in [Lockers -> {"idle", "lock", "convert", "wait", "cancel", "unlock",
                                "conversions", "grants"}]
    BY <1>1, <1>4 DEF PlainTypes
  <2>2. existing' \subseteq Partitions
    BY <1>1, <1>4, <1>7 DEF PlainTypes
  <2> QED BY <1>1, <1>4, <1>6, <1>7, <2>1, <2>2 DEF PlainTypes
<1>9. Quiet
  BY <1>2, <1>4, <1>5 DEF Quiet, queues, counters
<1>10. /\ CountInv'
       /\ GrantedModes' = GrantedModes /\ ConflictModes' = ConflictModes
       /\ \A k \in Lockers : (OnLockHead(k)' <=> OnLockHead(k)) /\ (Queued(k)' <=> Queued(k))
  BY <1>9, QuietFacts
<1>11. ASSUME NEW k \in Lockers, k # l
       PROVE  ThreadOK(k)' /\ ModeOK(k)' /\ PlaceOK(k)'
  <2>1. SameRequest(k) /\ SamePlace(k)
    BY <1>4, <1>5, <1>6, <1>10, <1>11 DEF SameRequest, SamePlace
  <2> QED BY <1>4, <2>1, OthersKeep
<1>12. ThreadOK(l)'
  BY <1>2, <1>4, <1>5 DEF ThreadOK, Scanning
<1>13. ModeOK(l)'
  BY <1>1, <1>2, <1>3, <1>4, <1>5 DEF ModeInv, ModeOK
<1>14. PlaceOK(l)'
  BY <1>2, <1>3, <1>4, <1>5, <1>6, <1>10 DEF PlaceOK, Released, Scanning
<1>15. ThreadInv' /\ ModeInv' /\ ListInv'
  BY <1>6, <1>11, <1>12, <1>13, <1>14 DEF ThreadInv, ModeInv, ListInv
<1>16. PartitionInv'
  <2>1. \A p \in Partitions : heads'[p] # <<>> => p \in existing'
    BY <1>1, <1>4, <1>6 DEF PartitionInv
  <2> QED BY <1>1, <1>2, <1>4, <1>7, <1>10, <2>1 DEF PartitionInv
<1>17. BucketInv'
  BY <1>1, <1>4, <1>5 DEF BucketInv, Scanning
<1>18. HeldInv'
  <2>1. \A k \in Lockers : Held(k)' <=> Held(k) \/ k = l
    BY <1>6, <1>10 DEF Held
  <2>2. \A k \in Lockers : Held(k) \/ k = l => mode[k] \in IntentModes
    BY <1>2, IntentsHeld
  <2> QED BY <1>4, <2>1, <2>2, ConflictFacts DEF HeldInv
<1>19. WakeupInv'
  <2>1. \A k \in Lockers : Scanning(k) \/ Scanning(k)' => pc'[k] = pc[k]
    BY <1>2, <1>5 DEF Scanning
  <2> QED BY <1>4, <1>9, <2>1, QuietWakeup
<1>20. NeverFails'
  BY <1>1, <1>4 DEF NeverFails
<1>21. LockInv'
  BY <1>8, <1>10, <1>15, <1>16, <1>17, <1>18, <1>19, <1>20, PartsInv, PTL
<1> QED BY <1>21

-----------------------------------------------------------------------------
(* Steps that change no list. *)

\* A step of one locker that changes no list and no counter keeps the invariant, if it
\* keeps the locker's own part of it, and the parts about the bucket and the wakeups.
LEMMA LocalKeeps ==
    ASSUME LockInv, Quiet, NEW l \in Lockers, PlainTypes', BucketInv', WakeupInv',
           global' = global, heads' = heads, existing' = existing, failed' = failed,
           partitions' = partitions, bucket' = bucket \/ bucket' # Cleaner,
           \A k \in Lockers \ {l} : SameRequest(k),
           OnPartition(l) => mode'[l] = mode[l],
           ThreadOK(l)', ModeOK(l)', PlaceOK(l)'
    PROVE  LockInv'
<1>1. NeverFails /\ ListInv /\ PartitionInv
  BY InvParts
<1>2. /\ CountInv'
      /\ GrantedModes' = GrantedModes /\ ConflictModes' = ConflictModes
      /\ \A k \in Lockers : (OnLockHead(k)' <=> OnLockHead(k)) /\ (Queued(k)' <=> Queued(k))
  BY QuietFacts
<1>3. \A k \in Lockers : OnPartition(k)' <=> OnPartition(k)
  BY DEF OnPartition
<1>4. ASSUME NEW k \in Lockers
      PROVE  ThreadOK(k)' /\ ModeOK(k)' /\ PlaceOK(k)'
  <2>1. CASE k # l
    <3>1. SameRequest(k) /\ SamePlace(k)
      BY <1>2, <1>3, <2>1 DEF SamePlace
    <3> QED BY <3>1, OthersKeep
  <2> QED BY <2>1
<1>5. ThreadInv' /\ ModeInv' /\ ListInv'
  BY <1>1, <1>4 DEF ThreadInv, ModeInv, ListInv
<1>6. PartitionInv'
  BY <1>1, <1>2 DEF PartitionInv
<1>7. HeldInv'
  <2>1. \A k \in Lockers : Held(k)' => Held(k) /\ mode'[k] = mode[k]
    BY <1>2, <1>3 DEF Held, SameRequest, Quiet
  <2> QED BY <2>1, SameHeld
<1>8. NeverFails'
  BY <1>1 DEF NeverFails
<1>9. LockInv'
  BY <1>2, <1>5, <1>6, <1>7, <1>8, PartsInv, PTL
<1> QED BY <1>9

\* A granted request is asked for again, in a mode that it covers or to be converted to.
LEMMA ConvertKeeps ==
    ASSUME LockInv, Faults = {}, NEW l \in Lockers, NEW m \in RequestModes, Convert(l, m)
    PROVE  LockInv'
<1> DEFINE covered == Covers(mode[l], m)
<1>1. PlainTypes /\ ThreadInv /\ ModeInv /\ ListInv /\ BucketInv
  BY InvParts
<1>2. m \in Modes /\ m # NoMode
  BY ModeAssumption, ConflictFacts
<1>3. /\ pc[l] = "idle" /\ status[l] = "granted" /\ count[l] > 0 /\ count[l] < MaxRecursion
      /\ covered \/ Covers(m, mode[l])
  BY <1>1 DEF Convert, ThreadInv, ThreadOK, PlainTypes
<1>4. first' = first
  <2>1. (first[l] \/ (global /\ m \in {"S", "X"})) <=> first[l]
    BY DEF Convert, IntentModes
  <2>2. first' = [first EXCEPT ![l] = first[l] \/ (global /\ m \in {"S", "X"})]
    BY DEF Convert
  <2>3. first \in [Lockers -> BOOLEAN]
    BY <1>1 DEF PlainTypes
  <2>4. (first[l] \/ (global /\ m \in {"S", "X"})) = first[l]
    BY <2>1, <2>3
  <2> QED BY <2>2, <2>3, <2>4
<1>5. /\ count' = [count EXCEPT ![l] = @ + 1]
      /\ notified' = [notified EXCEPT ![l] = FALSE]
      /\ covered => target' = target /\ pc' = pc
      /\ ~covered => /\ target' = [target EXCEPT ![l] = m]
                     /\ pc' = [pc EXCEPT ![l] = "convert"]
      /\ global' = global /\ status' = status /\ mode' = mode /\ convertMode' = convertMode
      /\ partitioned' = partitioned /\ heads' = heads /\ existing' = existing
      /\ partitions' = partitions
      /\ bucket' = bucket /\ scan' = scan /\ failed' = failed
  BY DEF Convert, Go, fastPath, lockHead
<1>6. UNCHANGED <<queues, counters>>
  BY DEF Convert, lockHead
<1>7. /\ grantedList' = grantedList /\ conflictList' = conflictList
      /\ grantedCounts' = grantedCounts /\ conflictCounts' = conflictCounts
  BY <1>6 DEF queues, counters
<1> HIDE DEF covered
<1>8. \A k \in Lockers : /\ count'[k] = IF k = l THEN count[k] + 1 ELSE count[k]
                         /\ notified'[k] = IF k = l THEN FALSE ELSE notified[k]
                         /\ target'[k] = IF k = l /\ ~covered THEN m ELSE target[k]
                         /\ pc'[k] = IF k = l /\ ~covered THEN "convert" ELSE pc[k]
  BY <1>1, <1>5 DEF PlainTypes
<1>9. PlainTypes'
  <2>1. count' \in [Lockers -> 0..MaxRecursion] /\ notified' \in [Lockers -> BOOLEAN]
    BY <1>1, <1>3, <1>5, RecursionAssumption DEF PlainTypes
  <2>2. /\ target' \in [Lockers -> Modes \union {NoMode}]
        /\ pc' \in [Lockers -> {"idle", "lock", "convert", "wait", "cancel", "unlock",
                                "conversions", "grants"}]
    <3>1. CASE covered
      BY <1>1, <1>5, <3>1 DEF PlainTypes
    <3>2. CASE ~covered
      <4>1. /\ target' = [target EXCEPT ![l] = m] /\ pc' = [pc EXCEPT ![l] = "convert"]
            /\ m \in Modes
        BY <1>2, <1>5, <3>2
      <4>2. /\ target \in [Lockers -> Modes \union {NoMode}]
            /\ pc \in [Lockers -> {"idle", "lock", "convert", "wait", "cancel", "unlock",
                                   "conversions", "grants"}]
        BY <1>1 DEF PlainTypes
      <4> QED BY <4>1, <4>2
    <3> QED BY <3>1, <3>2
  <2> QED BY <1>1, <1>4, <1>5, <1>7, <2>1, <2>2 DEF PlainTypes
<1>10. Quiet
  BY <1>4, <1>5, <1>6 DEF Quiet
<1>11. \A k \in Lockers \ {l} : SameRequest(k)
  BY <1>4, <1>5, <1>8 DEF SameRequest
<1>12. BucketInv'
  BY <1>1, <1>5, <1>8 DEF BucketInv, Scanning
<1>13. WakeupInv'
  <2>1. \A k \in Lockers : Scanning(k) \/ Scanning(k)' => pc'[k] = pc[k]
    BY <1>3, <1>8 DEF Scanning
  <2> QED BY <1>5, <1>10, <2>1, QuietWakeup
<1>14. ThreadOK(l)'
  <2>1. count'[l] \in Int /\ count'[l] > 1 /\ status'[l] = "granted"
           /\ pc'[l] \in {"idle", "convert"}
    BY <1>1, <1>3, <1>5, <1>8 DEF PlainTypes
  <2> QED BY <2>1 DEF ThreadOK, Scanning
<1>15. ModeOK(l)'
  BY <1>1, <1>2, <1>3, <1>4, <1>5, <1>8 DEF ModeInv, ModeOK
<1>16. PlaceOK(l)'
  <2>1. /\ OnPartition(l)' <=> OnPartition(l)
        /\ OnLockHead(l)' <=> OnLockHead(l)
        /\ Queued(l)' <=> Queued(l)
    BY <1>5, <1>7 DEF OnPartition, OnLockHead, Queued
  <2> QED BY <1>1, <1>3, <1>5, <1>8, <2>1 DEF ListInv, PlaceOK, Released, Scanning
<1> QED
  BY <1>5, <1>9, <1>10, <1>11, <1>12, <1>13, <1>14, <1>15, <1>16, LocalKeeps

-----------------------------------------------------------------------------
(* lockComplete() *)

\* A wait ends, with the notification or without.
LEMMA WaitKeeps ==
    ASSUME LockInv, NEW l \in Lockers, Granted(l) \/ TimeOut(l)
    PROVE  LockInv'
<1>1. PlainTypes /\ ThreadInv /\ ModeInv /\ ListInv /\ BucketInv
  BY InvParts
<1>2. pc[l] = "wait" /\ (notified[l] => status[l] = "granted")
  BY <1>1 DEF Granted, TimeOut, ModeInv, ModeOK
<1>3. /\ \/ /\ notified[l] /\ pc' = [pc EXCEPT ![l] = "idle"]
            /\ notified' = [notified EXCEPT ![l] = FALSE]
         \/ pc' = [pc EXCEPT ![l] = "cancel"] /\ notified' = notified
      /\ global' = global /\ status' = status /\ mode' = mode /\ convertMode' = convertMode
      /\ target' = target /\ count' = count /\ partitioned' = partitioned
      /\ first' = first /\ heads' = heads /\ existing' = existing
      /\ partitions' = partitions /\ bucket' = bucket /\ scan' = scan /\ failed' = failed
  BY DEF Granted, TimeOut, Go, fastPath, lockHead, request
<1>4. UNCHANGED <<queues, counters>>
  BY DEF Granted, TimeOut, lockHead
<1>5. /\ grantedList' = grantedList /\ conflictList' = conflictList
      /\ grantedCounts' = grantedCounts /\ conflictCounts' = conflictCounts
  BY <1>4 DEF queues, counters
<1>6. /\ \A k \in Lockers \ {l} : pc'[k] = pc[k] /\ notified'[k] = notified[k]
      /\ notified'[l] => notified[l]
      /\ pc'[l] = "cancel" \/ (pc'[l] = "idle" /\ status[l] = "granted")
  BY <1>1, <1>2, <1>3 DEF PlainTypes
<1>7. PlainTypes'
  <2>1. /\ notified' \in [Lockers -> BOOLEAN]
        /\ pc' \in [Lockers -> {"idle", "lock", "convert", "wait", "cancel", "unlock",
                                "conversions", "grants"}]
    BY <1>1, <1>3 DEF PlainTypes
  <2> QED BY <1>1, <1>3, <1>5, <2>1 DEF PlainTypes
<1>8. Quiet
  BY <1>3, <1>4 DEF Quiet
<1>9. \A k \in Lockers \ {l} : SameRequest(k)
  BY <1>3, <1>6 DEF SameRequest
<1>10. BucketInv'
  BY <1>1, <1>3, <1>6 DEF BucketInv, Scanning
<1>11. WakeupInv'
  <2>1. \A k \in Lockers : Scanning(k) \/ Scanning(k)' => pc'[k] = pc[k]
    BY <1>2, <1>6 DEF Scanning
  <2> QED BY <1>3, <1>8, <2>1, QuietWakeup
<1>12. ThreadOK(l)'
  BY <1>1, <1>2, <1>3, <1>6 DEF ThreadInv, ThreadOK, Scanning, PlainTypes
<1>13. ModeOK(l)'
  BY <1>1, <1>2, <1>3, <1>6 DEF ModeInv, ModeOK
<1>14. PlaceOK(l)'
  <2>1. /\ OnPartition(l)' <=> OnPartition(l)
        /\ OnLockHead(l)' <=> OnLockHead(l)
        /\ Queued(l)' <=> Queued(l)
    BY <1>3, <1>5 DEF OnPartition, OnLockHead, Queued
  <2> QED BY <1>1, <1>2, <1>3, <1>6, <2>1 DEF ListInv, PlaceOK, Released, Scanning
<1> QED BY <1>3, <1>7, <1>8, <1>9, <1>10, <1>11, <1>12, <1>13, <1>14, LocalKeeps

-----------------------------------------------------------------------------
(* unlock() before the bucket's mutex *)

\* A request that is on its partition is removed from it.
LEMMA LeaveFacts ==
    ASSUME LockInv, NEW l \in Lockers, OnPartition(l),
           heads' = [heads EXCEPT ![PartitionOf[l]] = Without(@, l)]
    PROVE  /\ heads' \in [Partitions -> Seq(Lockers)]
           /\ \A p \in Partitions : /\ IsInjective(heads'[p])
                                    /\ \A k \in Range(heads'[p]) : PartitionOf[k] = p
                                    /\ heads'[p] # <<>> => heads[p] # <<>>
           /\ \A k \in Lockers : OnPartition(k)' <=> OnPartition(k) /\ k # l
<1> DEFINE q == PartitionOf[l]
<1>1. PlainTypes /\ ListInv /\ q \in Partitions
  BY InvParts, PartitionAssumption
<1>2. heads[q] \in Seq(Lockers) /\ IsInjective(heads[q]) /\ l \in Range(heads[q])
  BY <1>1 DEF PlainTypes, ListInv, OnPartition
<1> HIDE DEF q
<1>3. /\ Without(heads[q], l) \in Seq(Lockers)
      /\ Range(Without(heads[q], l)) = Range(heads[q]) \ {l}
      /\ IsInjective(Without(heads[q], l))
  BY <1>2, WithoutFacts
<1>4. heads' \in [Partitions -> Seq(Lockers)] /\ heads'[q] = Without(heads[q], l)
        /\ \A p \in Partitions : p # q => heads'[p] = heads[p]
  BY <1>1, <1>3 DEF PlainTypes, q
<1>5. ASSUME NEW p \in Partitions
      PROVE  /\ IsInjective(heads'[p]) /\ \A k \in Range(heads'[p]) : PartitionOf[k] = p
             /\ heads'[p] # <<>> => heads[p] # <<>>
  <2>1. CASE p = q
    <3>1. heads[q] # <<>>
      BY <1>2, EmptyFacts
    <3> QED BY <1>1, <1>3, <1>4, <2>1, <3>1 DEF ListInv
  <2>2. CASE p # q
    BY <1>1, <1>4, <2>2 DEF ListInv
  <2> QED BY <2>1, <2>2
<1>6. ASSUME NEW k \in Lockers
      PROVE  OnPartition(k)' <=> OnPartition(k) /\ k # l
  <2>1. PartitionOf[k] \in Partitions
    BY PartitionAssumption
  <2>2. CASE PartitionOf[k] = q
    BY <1>3, <1>4, <2>2 DEF OnPartition
  <2>3. CASE PartitionOf[k] # q
    BY <1>4, <2>1, <2>3 DEF OnPartition, q
  <2> QED BY <2>2, <2>3
<1> QED BY <1>4, <1>5, <1>6

\* The three ways through unlock() before the bucket's mutex.
LEMMA UnlockCases ==
    ASSUME LockInv, Faults = {}, NEW l \in Lockers, Unlock(l)
    PROVE  /\ (pc[l] = "idle" /\ status[l] = "granted") \/ pc[l] = "cancel"
           /\ count' = [count EXCEPT ![l] = @ - 1]
           /\ global' = global /\ existing' = existing /\ scan' = scan /\ failed' = failed
           /\ partitions' = partitions /\ UNCHANGED <<queues, counters>>
           /\ \/ /\ status[l] = "granted" /\ count[l] > 1
                 /\ pc' = [pc EXCEPT ![l] = "idle"]
                 /\ UNCHANGED <<heads, bucket, status, mode, convertMode, target>>
                 /\ UNCHANGED <<partitioned, first, notified>>
              \/ /\ ~(status[l] = "granted" /\ count[l] > 1) /\ OnPartition(l)
                 /\ heads' = [heads EXCEPT ![PartitionOf[l]] = Without(@, l)]
                 /\ Forget(l)
                 /\ pc' = [pc EXCEPT ![l] = "idle"]
                 /\ bucket' = bucket
              \/ /\ ~(status[l] = "granted" /\ count[l] > 1) /\ ~OnPartition(l)
                 /\ status[l] = "converting" => bucket = "free" /\ bucket' = l
                 /\ status[l] # "converting" => bucket' = bucket
                 /\ pc' = [pc EXCEPT ![l] = "unlock"]
                 /\ UNCHANGED <<heads, status, mode, convertMode, target>>
                 /\ UNCHANGED <<partitioned, first, notified>>
<1>1. PlainTypes /\ ListInv
  BY InvParts
<1>2. Contains(heads[PartitionOf[l]], l) <=> OnPartition(l)
  <2>1. heads[PartitionOf[l]] \in Seq(Lockers)
    BY <1>1, PartitionAssumption DEF PlainTypes
  <2> QED BY <2>1 DEF Contains, OnPartition, Range
<1>3. OnPartition(l) => partitioned[l]
  BY <1>1 DEF ListInv, PlaceOK
<1>4. /\ (pc[l] = "idle" /\ status[l] = "granted") \/ pc[l] = "cancel"
      /\ count' = [count EXCEPT ![l] = @ - 1]
      /\ global' = global /\ existing' = existing /\ scan' = scan /\ failed' = failed
      /\ partitions' = partitions /\ UNCHANGED <<queues, counters>>
  BY DEF Unlock, lockHead
<1>5. CASE status[l] = "granted" /\ count[l] > 1
  BY <1>4, <1>5 DEF Unlock, Go
<1>6. CASE ~(status[l] = "granted" /\ count[l] > 1) /\ OnPartition(l)
  BY <1>2, <1>3, <1>4, <1>6 DEF Unlock, Go
<1>7. CASE ~(status[l] = "granted" /\ count[l] > 1) /\ ~OnPartition(l)
  BY <1>2, <1>3, <1>4, <1>7 DEF Unlock, Go
<1> QED BY <1>5, <1>6, <1>7

\* A reference but the last is dropped, or the thread goes on to the bucket.
LEMMA UnlockStays ==
    ASSUME LockInv, NEW l \in Lockers,
           (pc[l] = "idle" /\ status[l] = "granted") \/ pc[l] = "cancel",
           count' = [count EXCEPT ![l] = @ - 1],
           global' = global, existing' = existing, scan' = scan, failed' = failed,
           partitions' = partitions, UNCHANGED <<queues, counters>>,
           UNCHANGED <<heads, status, mode, convertMode, target>>,
           UNCHANGED <<partitioned, first, notified>>,
           \/ /\ status[l] = "granted" /\ count[l] > 1
              /\ pc' = [pc EXCEPT ![l] = "idle"] /\ bucket' = bucket
           \/ /\ ~(status[l] = "granted" /\ count[l] > 1) /\ ~OnPartition(l)
              /\ status[l] = "converting" => bucket = "free" /\ bucket' = l
              /\ status[l] # "converting" => bucket' = bucket
              /\ pc' = [pc EXCEPT ![l] = "unlock"]
    PROVE  LockInv'
<1>1. PlainTypes /\ ThreadInv /\ ModeInv /\ ListInv /\ BucketInv
  BY InvParts
<1>2. /\ grantedList' = grantedList /\ conflictList' = conflictList
      /\ grantedCounts' = grantedCounts /\ conflictCounts' = conflictCounts
      /\ heads' = heads /\ status' = status /\ mode' = mode /\ convertMode' = convertMode
      /\ target' = target /\ partitioned' = partitioned /\ first' = first
      /\ notified' = notified
  BY DEF queues, counters
<1>3. count[l] \in Nat /\ count[l] > 0 /\ count[l] <= MaxRecursion
         /\ status[l] \in {"waiting", "converting", "granted"}
         /\ (status[l] = "waiting" => count[l] = 1) /\ (status[l] = "converting" => count[l] > 1)
  BY <1>1, RecursionAssumption DEF PlainTypes, ThreadInv, ThreadOK
<1>4. \A k \in Lockers : /\ k # l => pc'[k] = pc[k] /\ count'[k] = count[k]
                         /\ k = l => count'[k] = count[k] - 1
  BY <1>1 DEF PlainTypes
<1>5. pc'[l] = IF status[l] = "granted" /\ count[l] > 1 THEN "idle" ELSE "unlock"
  BY <1>1 DEF PlainTypes
<1>6. bucket' = bucket \/ (status[l] = "converting" /\ bucket = "free" /\ bucket' = l)
  BY <1>3
<1>7. \A k \in Lockers \union {Cleaner} : k # "free"
  BY LockerAssumption
<1>8. PlainTypes'
  <2>1. count' \in [Lockers -> 0..MaxRecursion]
    <3>1. count[l] - 1 \in 0..MaxRecursion
      BY <1>3, RecursionAssumption
    <3> QED BY <1>1, <3>1 DEF PlainTypes
  <2>2. pc' \in [Lockers -> {"idle", "lock", "convert", "wait", "cancel", "unlock",
                             "conversions", "grants"}]
    BY <1>1 DEF PlainTypes
  <2>3. bucket' \in Lockers \union {Cleaner, "free"}
    BY <1>1, <1>6 DEF PlainTypes
  <2> QED BY <1>1, <1>2, <2>1, <2>2, <2>3 DEF PlainTypes
<1>9. Quiet
  BY <1>2 DEF Quiet
<1>10. \A k \in Lockers \ {l} : SameRequest(k)
  BY <1>2, <1>4 DEF SameRequest
<1>11. BucketInv'
  <2>1. ASSUME NEW k \in Lockers
        PROVE  Scanning(k)' \/ (pc'[k] = "unlock" /\ status'[k] = "converting") => bucket' = k
    <3>1. CASE k = l
      BY <1>2, <1>3, <1>5, <3>1 DEF Scanning
    <3>2. CASE k # l
      BY <1>1, <1>2, <1>4, <1>6, <1>7, <3>2 DEF Scanning, BucketInv
    <3> QED BY <3>1, <3>2
  <2>2. \A k \in Lockers : Scanning(k)' => Scanning(k)
    BY <1>4, <1>5 DEF Scanning
  <2> QED BY <1>1, <2>1, <2>2 DEF BucketInv
<1>12. WakeupInv'
  <2>1. \A k \in Lockers : Scanning(k) \/ Scanning(k)' => pc'[k] = pc[k]
    BY <1>4, <1>5 DEF Scanning
  <2> QED BY <1>9, <2>1, QuietWakeup
<1>13. ThreadOK(l)'
  BY <1>2, <1>3, <1>4, <1>5 DEF ThreadOK, Scanning
<1>14. ModeOK(l)'
  BY <1>1, <1>2, <1>5 DEF ModeInv, ModeOK
<1>15. PlaceOK(l)'
  <2>1. /\ OnPartition(l)' <=> OnPartition(l)
        /\ OnLockHead(l)' <=> OnLockHead(l)
        /\ Queued(l)' <=> Queued(l)
    BY <1>2 DEF OnPartition, OnLockHead, Queued
  <2>2. OnPartition(l) => pc'[l] = "idle"
    BY <1>5
  <2> QED BY <1>1, <1>2, <1>5, <2>1, <2>2 DEF ListInv, PlaceOK, Released, Scanning
<1>16. bucket' = bucket \/ bucket' # Cleaner
  BY <1>6, LockerAssumption
<1> QED
  BY <1>2, <1>8, <1>9, <1>10, <1>11, <1>12, <1>13, <1>14, <1>15, <1>16, LocalKeeps

\* The request is removed from its partition, and the Locker removes it.
LEMMA UnlockLeaves ==
    ASSUME LockInv, NEW l \in Lockers,
           (pc[l] = "idle" /\ status[l] = "granted") \/ pc[l] = "cancel",
           count' = [count EXCEPT ![l] = @ - 1],
           global' = global, existing' = existing, scan' = scan, failed' = failed,
           partitions' = partitions, UNCHANGED <<queues, counters>>, bucket' = bucket,
           ~(status[l] = "granted" /\ count[l] > 1), OnPartition(l),
           heads' = [heads EXCEPT ![PartitionOf[l]] = Without(@, l)],
           Forget(l), pc' = [pc EXCEPT ![l] = "idle"]
    PROVE  LockInv'
<1>1. /\ PlainTypes /\ NeverFails /\ ThreadInv /\ ModeInv /\ ListInv
      /\ PartitionInv /\ BucketInv
  BY InvParts
<1>2. /\ grantedList' = grantedList /\ conflictList' = conflictList
      /\ grantedCounts' = grantedCounts /\ conflictCounts' = conflictCounts
      /\ convertMode' = convertMode
  BY DEF queues, counters, Forget
<1>3. pc[l] = "idle" /\ status[l] = "granted" /\ ~OnLockHead(l) /\ ~Queued(l)
  BY <1>1 DEF ListInv, PlaceOK
<1>4. count[l] = 1
  BY <1>1, <1>3, RecursionAssumption DEF ThreadInv, ThreadOK, PlainTypes
<1>5. \A k \in Lockers : k # l => /\ status'[k] = status[k] /\ mode'[k] = mode[k]
                                  /\ target'[k] = target[k] /\ first'[k] = first[k]
                                  /\ partitioned'[k] = partitioned[k] /\ count'[k] = count[k]
                                  /\ notified'[k] = notified[k] /\ pc'[k] = pc[k]
  BY <1>1 DEF PlainTypes, Forget
<1>6. /\ status'[l] = "none" /\ mode'[l] = NoMode /\ target'[l] = NoMode /\ ~first'[l]
      /\ ~partitioned'[l] /\ ~notified'[l] /\ pc'[l] = "idle" /\ count'[l] = 0
  BY <1>1, <1>4 DEF PlainTypes, Forget
<1>7. /\ heads' \in [Partitions -> Seq(Lockers)]
      /\ \A p \in Partitions : /\ IsInjective(heads'[p])
                               /\ \A k \in Range(heads'[p]) : PartitionOf[k] = p
                               /\ heads'[p] # <<>> => heads[p] # <<>>
      /\ \A k \in Lockers : OnPartition(k)' <=> OnPartition(k) /\ k # l
  BY LeaveFacts
<1>8. PlainTypes'
  <2>1. /\ status' \in [Lockers -> {"none", "new", "granted", "waiting", "converting"}]
        /\ mode' \in [Lockers -> Modes \union {NoMode}]
        /\ target' \in [Lockers -> Modes \union {NoMode}]
        /\ partitioned' \in [Lockers -> BOOLEAN] /\ first' \in [Lockers -> BOOLEAN]
        /\ notified' \in [Lockers -> BOOLEAN]
        /\ pc' \in [Lockers -> {"idle", "lock", "convert", "wait", "cancel", "unlock",
                                "conversions", "grants"}]
    BY <1>1 DEF PlainTypes, Forget
  <2>2. count' \in [Lockers -> 0..MaxRecursion]
    BY <1>1, <1>4, RecursionAssumption DEF PlainTypes
  <2> QED BY <1>1, <1>2, <1>7, <2>1, <2>2 DEF PlainTypes
<1>9. Quiet
  BY <1>2, <1>3, <1>5, <1>6 DEF Quiet
<1>10. /\ CountInv'
       /\ GrantedModes' = GrantedModes /\ ConflictModes' = ConflictModes
       /\ \A k \in Lockers : (OnLockHead(k)' <=> OnLockHead(k)) /\ (Queued(k)' <=> Queued(k))
  BY <1>9, QuietFacts
<1>11. ASSUME NEW k \in Lockers, k # l
       PROVE  ThreadOK(k)' /\ ModeOK(k)' /\ PlaceOK(k)'
  <2>1. SameRequest(k) /\ SamePlace(k)
    BY <1>2, <1>5, <1>7, <1>10, <1>11 DEF SameRequest, SamePlace
  <2> QED BY <2>1, OthersKeep
<1>12. ThreadOK(l)'
  BY <1>6 DEF ThreadOK, Scanning
<1>13. ModeOK(l)'
  BY <1>1, <1>2, <1>3, <1>6 DEF ModeInv, ModeOK
<1>14. PlaceOK(l)'
  BY <1>3, <1>6, <1>7, <1>10 DEF PlaceOK, Released, Scanning
<1>15. ThreadInv' /\ ModeInv' /\ ListInv'
  BY <1>7, <1>11, <1>12, <1>13, <1>14 DEF ThreadInv, ModeInv, ListInv
<1>16. PartitionInv'
  BY <1>1, <1>7, <1>10 DEF PartitionInv
<1>17. BucketInv'
  BY <1>1, <1>5, <1>6 DEF BucketInv, Scanning
<1>18. HeldInv'
  <2>1. \A k \in Lockers : Held(k)' => Held(k) /\ mode'[k] = mode[k]
    BY <1>3, <1>5, <1>7, <1>10 DEF Held
  <2> QED BY <2>1, SameHeld
<1>19. WakeupInv'
  <2>1. \A k \in Lockers : Scanning(k) \/ Scanning(k)' => pc'[k] = pc[k]
    BY <1>3, <1>5, <1>6 DEF Scanning
  <2> QED BY <1>9, <2>1, QuietWakeup
<1>20. NeverFails'
  BY <1>1 DEF NeverFails
<1>21. LockInv'
  BY <1>8, <1>10, <1>15, <1>16, <1>17, <1>18, <1>19, <1>20, PartsInv, PTL
<1> QED BY <1>21

\* unlock() as far as the bucket's mutex.
LEMMA UnlockKeeps ==
    ASSUME LockInv, Faults = {}, NEW l \in Lockers, Unlock(l)
    PROVE  LockInv'
BY UnlockCases, UnlockStays, UnlockLeaves

-----------------------------------------------------------------------------
(* Scans that move on, and end. *)

\* One thread scans at most, the one that has the bucket.
LEMMA OneScan ==
    ASSUME LockInv, NEW l \in Lockers, Scanning(l), NEW k \in Lockers, Scanning(k)
    PROVE  k = l
BY InvParts DEF BucketInv

\* A conversion is of a request on the lock head.
LEMMA ConvertersOnLockHead ==
    ASSUME LockInv, NEW k \in Lockers, status[k] = "converting"
    PROVE  OnLockHead(k) /\ ~OnPartition(k) /\ ~Queued(k) /\ ~Scanning(k)
BY InvParts DEF ListInv, PlaceOK, ThreadInv, ThreadOK, Released, Scanning

\* The lists are empty when the counters show no mode.
LEMMA EmptyLists ==
    ASSUME LockInv
    PROVE  /\ GrantedModes = {} <=> grantedList = <<>>
           /\ ConflictModes = {} <=> conflictList = <<>>
<1>1. PlainTypes /\ ModeInv /\ ListInv /\ ModesShown
  BY InvParts
<1>2. grantedList \in Seq(Lockers) /\ conflictList \in Seq(Lockers)
  BY <1>1 DEF PlainTypes
<1>3. ASSUME NEW k \in Lockers, OnLockHead(k) \/ Queued(k)
      PROVE  mode[k] \in Modes
  BY <1>1, <1>3 DEF ListInv, PlaceOK, ModeInv, ModeOK, PlainTypes
<1>4. GrantedModes = {} => grantedList = <<>>
  <2>1. grantedList # <<>> => \E k \in Lockers : OnLockHead(k)
    BY <1>2, EmptyFacts DEF OnLockHead
  <2> QED BY <1>1, <1>3, <2>1 DEF ModesShown
<1>5. ASSUME grantedList = <<>>
      PROVE  GrantedModes = {}
  <2>1. \A k \in Lockers : ~OnLockHead(k)
    BY <1>2, <1>5, EmptyFacts DEF OnLockHead
  <2>2. \A k \in Lockers : convertMode[k] \notin Modes
    BY <1>1, <2>1, ConvertersOnLockHead, ConflictFacts DEF ModeInv, ModeOK
  <2> QED BY <1>1, <2>1, <2>2 DEF ModesShown, GrantedModes
<1>6. ConflictModes = {} => conflictList = <<>>
  <2>1. conflictList # <<>> => \E k \in Lockers : Queued(k)
    BY <1>2, EmptyFacts DEF Queued
  <2> QED BY <1>1, <1>3, <2>1 DEF ModesShown
<1>7. ASSUME conflictList = <<>>
      PROVE  ConflictModes = {}
  <2>1. \A k \in Lockers : ~Queued(k)
    BY <1>2, <1>7, EmptyFacts DEF Queued
  <2> QED BY <1>1, <2>1 DEF ModesShown, ConflictModes
<1> QED BY <1>4, <1>5, <1>6, <1>7

\* All conversions have been looked at.
LEMMA ConversionsDoneKeeps ==
    ASSUME LockInv, NEW l \in Lockers, ConversionsDone(l)
    PROVE  LockInv'
<1>1. PlainTypes /\ ThreadInv /\ ModeInv /\ ListInv /\ BucketInv /\ WakeupInv /\ ModesShown
  BY InvParts
<1>2. /\ pc[l] = "conversions" /\ pc' = [pc EXCEPT ![l] = "grants"]
      /\ scan' = [scan EXCEPT !.cursor = 1]
      /\ scan.cursor > Len(grantedList) \/ conversions = 0
      /\ global' = global /\ status' = status /\ mode' = mode /\ convertMode' = convertMode
      /\ target' = target /\ count' = count /\ partitioned' = partitioned
      /\ first' = first /\ notified' = notified /\ heads' = heads /\ existing' = existing
      /\ partitions' = partitions /\ bucket' = bucket /\ failed' = failed
  BY DEF ConversionsDone, Go, fastPath, lockHead, request
<1>3. UNCHANGED <<queues, counters>>
  BY DEF ConversionsDone, lockHead
<1>4. /\ grantedList' = grantedList /\ conflictList' = conflictList
      /\ grantedCounts' = grantedCounts /\ conflictCounts' = conflictCounts
  BY <1>3 DEF queues, counters
<1>5. pc'[l] = "grants" /\ \A k \in Lockers \ {l} : pc'[k] = pc[k]
  BY <1>1, <1>2 DEF PlainTypes
<1>6. scan'.cursor = 1 /\ scan'.check = scan.check
         /\ scan' \in [cursor : Nat, check : BOOLEAN, newly : BOOLEAN]
  BY <1>1, <1>2 DEF BucketInv
<1>7. PlainTypes'
  <2>1. pc' \in [Lockers -> {"idle", "lock", "convert", "wait", "cancel", "unlock",
                             "conversions", "grants"}]
    BY <1>1, <1>2 DEF PlainTypes
  <2> QED BY <1>1, <1>2, <1>4, <2>1 DEF PlainTypes
<1>8. Quiet
  BY <1>2, <1>3 DEF Quiet
<1>9. \A k \in Lockers \ {l} : SameRequest(k)
  BY <1>2, <1>5 DEF SameRequest
<1>10. BucketInv'
  BY <1>1, <1>2, <1>5, <1>6 DEF BucketInv, Scanning
<1>11. WakeupInv'
  <2>1. ASSUME NEW k \in Lockers
        PROVE  ConversionWaits(k)
    <3>1. CASE status[k] = "converting"
      <4>1. PICK i \in DOMAIN grantedList : grantedList[i] = k
        BY <3>1, ConvertersOnLockHead DEF OnLockHead, Range
      <4>2. conversions # 0
        BY <1>1, <3>1 DEF ModesShown
      <4>3. i < scan.cursor
        BY <1>1, <1>2, <4>2 DEF PlainTypes, BucketInv
      <4> QED BY <1>1, <1>2, <4>1, <4>3 DEF WakeupInv
    <3> QED BY <3>1 DEF ConversionWaits
  <2>2. /\ FrontWaits' <=> FrontWaits
        /\ \A k \in Lockers : ConversionWaits(k)' <=> ConversionWaits(k)
    BY <1>8, QuietFacts
  <2>3. \A k \in Lockers : Scanning(k)' => k = l
    BY <1>2, <1>5, OneScan DEF Scanning
  <2>4. scan.check \/ FrontWaits
    BY <1>1, <1>2 DEF WakeupInv
  <2> QED BY <1>5, <1>6, <2>1, <2>2, <2>3, <2>4 DEF WakeupInv, Scanning
<1>12. ThreadOK(l)'
  BY <1>1, <1>2, <1>5 DEF ThreadInv, ThreadOK, Scanning
<1>13. ModeOK(l)'
  BY <1>1, <1>2, <1>5 DEF ModeInv, ModeOK
<1>14. PlaceOK(l)'
  <2>1. /\ OnPartition(l)' <=> OnPartition(l)
        /\ OnLockHead(l)' <=> OnLockHead(l)
        /\ Queued(l)' <=> Queued(l)
    BY <1>2, <1>4 DEF OnPartition, OnLockHead, Queued
  <2> QED BY <1>1, <1>2, <1>5, <2>1 DEF ListInv, PlaceOK, Released, Scanning
<1> QED BY <1>2, <1>7, <1>8, <1>9, <1>10, <1>11, <1>12, <1>13, <1>14, LocalKeeps

\* The scan is over.
LEMMA EndScanKeeps ==
    ASSUME LockInv, NEW l \in Lockers, EndScan(l)
    PROVE  LockInv'
<1>1. PlainTypes /\ ThreadInv /\ ModeInv /\ ListInv /\ BucketInv /\ WakeupInv
  BY InvParts
<1>2. ~((GrantedModes = {}) # (grantedList = <<>>)
            \/ (ConflictModes = {}) # (conflictList = <<>>))
  BY EmptyLists
<1>3. /\ pc[l] = "grants" /\ pc' = [pc EXCEPT ![l] = "idle"]
      /\ ~scan.check \/ scan.cursor > Len(conflictList)
      /\ bucket' = "free" /\ scan' = NoScan
      /\ global' = global /\ count' = count /\ convertMode' = convertMode
      /\ heads' = heads /\ existing' = existing
      /\ partitions' = partitions /\ failed' = failed
  BY <1>2 DEF EndScan, Go, fastPath, lockHead, Forget
<1>4. UNCHANGED <<queues, counters>>
  BY <1>2 DEF EndScan, lockHead
<1>5. /\ grantedList' = grantedList /\ conflictList' = conflictList
      /\ grantedCounts' = grantedCounts /\ conflictCounts' = conflictCounts
  BY <1>4 DEF queues, counters
<1>6. /\ count[l] = 0 => /\ status' = [status EXCEPT ![l] = "none"]
                         /\ mode' = [mode EXCEPT ![l] = NoMode]
                         /\ target' = [target EXCEPT ![l] = NoMode]
                         /\ partitioned' = [partitioned EXCEPT ![l] = FALSE]
                         /\ first' = [first EXCEPT ![l] = FALSE]
                         /\ notified' = [notified EXCEPT ![l] = FALSE]
      /\ count[l] # 0 => /\ status' = status /\ mode' = mode /\ target' = target
                         /\ partitioned' = partitioned /\ first' = first
                         /\ notified' = notified
  BY <1>2 DEF EndScan, Forget
<1>7. pc'[l] = "idle" /\ \A k \in Lockers \ {l} :
        /\ pc'[k] = pc[k] /\ status'[k] = status[k] /\ mode'[k] = mode[k]
        /\ target'[k] = target[k] /\ partitioned'[k] = partitioned[k]
        /\ first'[k] = first[k] /\ notified'[k] = notified[k]
  BY <1>1, <1>3, <1>6 DEF PlainTypes
<1>8. count[l] = 0 => ~OnPartition(l) /\ ~OnLockHead(l) /\ ~Queued(l)
  BY <1>1, <1>3 DEF ListInv, PlaceOK, Released, Scanning
<1>9. status[l] # "converting" /\ (count[l] # 0 => status[l] = "granted")
  BY <1>1, <1>3 DEF ThreadInv, ThreadOK, Scanning
<1>10. PlainTypes'
  <2>1. pc' \in [Lockers -> {"idle", "lock", "convert", "wait", "cancel", "unlock",
                             "conversions", "grants"}]
    BY <1>1, <1>3 DEF PlainTypes
  <2>2. /\ status' \in [Lockers -> {"none", "new", "granted", "waiting", "converting"}]
        /\ mode' \in [Lockers -> Modes \union {NoMode}]
        /\ target' \in [Lockers -> Modes \union {NoMode}]
        /\ partitioned' \in [Lockers -> BOOLEAN] /\ first' \in [Lockers -> BOOLEAN]
        /\ notified' \in [Lockers -> BOOLEAN]
    BY <1>1, <1>6 DEF PlainTypes
  <2> QED BY <1>1, <1>3, <1>5, <2>1, <2>2 DEF PlainTypes
<1>11. /\ status'[l] # "converting"
       /\ count[l] # 0 => mode'[l] = mode[l] /\ first'[l] = first[l]
  BY <1>1, <1>6, <1>9 DEF PlainTypes
<1>12. Quiet
  BY <1>3, <1>4, <1>7, <1>8, <1>9, <1>11 DEF Quiet
<1>13. \A k \in Lockers \ {l} : SameRequest(k)
  BY <1>3, <1>7 DEF SameRequest
<1>14. \A k \in Lockers : ~Scanning(k)'
  BY <1>3, <1>7, OneScan DEF Scanning
<1>15. BucketInv'
  <2>1. ASSUME NEW k \in Lockers, pc'[k] = "unlock", status'[k] = "converting"
        PROVE  bucket' = k
    <3>1. k # l /\ pc[k] = "unlock" /\ status[k] = "converting"
      BY <1>7, <2>1
    <3>2. bucket = k /\ bucket = l
      BY <1>1, <1>3, <3>1 DEF BucketInv, Scanning
    <3> QED BY <3>1, <3>2
  <2> QED BY <1>3, <1>14, <2>1 DEF BucketInv, NoScan
<1>16. WakeupInv'
  <2>1. /\ FrontWaits' <=> FrontWaits
        /\ \A k \in Lockers : ConversionWaits(k)' <=> ConversionWaits(k)
    BY <1>12, QuietFacts
  <2>2. FrontWaits
    <3>1. CASE ~scan.check
      BY <1>1, <1>3, <3>1 DEF WakeupInv
    <3>2. CASE scan.check /\ conflictList # <<>>
      <4>1. scan.cursor > 1
        BY <1>1, <1>3, <3>2 DEF PlainTypes, BucketInv
      <4> QED BY <1>1, <1>3, <3>2, <4>1 DEF WakeupInv, FrontConflicts, FrontWaits
    <3> QED BY <3>1, <3>2 DEF FrontWaits
  <2>3. \A k \in Lockers : ConversionWaits(k)
    BY <1>1, <1>3 DEF WakeupInv
  <2> QED BY <1>14, <2>1, <2>2, <2>3 DEF WakeupInv, Scanning
<1>17. ThreadOK(l)'
  BY <1>1, <1>3, <1>6, <1>7, <1>9 DEF ThreadOK, Scanning, PlainTypes
<1>18. ModeOK(l)'
  BY <1>1, <1>3, <1>6, <1>7, <1>9 DEF ModeInv, ModeOK, PlainTypes
<1>19. PlaceOK(l)'
  <2>1. /\ OnPartition(l)' <=> OnPartition(l)
        /\ OnLockHead(l)' <=> OnLockHead(l)
        /\ Queued(l)' <=> Queued(l)
    BY <1>3, <1>5 DEF OnPartition, OnLockHead, Queued
  <2>2. CASE count[l] = 0
    BY <1>1, <1>3, <1>6, <1>7, <1>8, <2>1, <2>2 DEF PlaceOK, Released, Scanning, PlainTypes
  <2>3. CASE count[l] # 0
    BY <1>1, <1>3, <1>6, <1>7, <1>9, <2>1, <2>3 DEF ListInv, PlaceOK, Released, Scanning
  <2> QED BY <2>2, <2>3
<1>20. (bucket' = bucket \/ bucket' # Cleaner) /\ (OnPartition(l) => mode'[l] = mode[l])
  BY <1>3, <1>8, <1>11, LockerAssumption
<1> QED
  BY <1>3, <1>10, <1>12, <1>13, <1>15, <1>16, <1>17, <1>18, <1>19, <1>20, LocalKeeps

\* The cleaner is done.
LEMMA EndCleanUpKeeps ==
    ASSUME LockInv, EndCleanUp
    PROVE  LockInv'
<1>1. /\ PlainTypes /\ NeverFails /\ ThreadInv /\ ModeInv /\ ListInv
      /\ PartitionInv /\ BucketInv /\ HeldInv /\ WakeupInv /\ ModesShown
  BY InvParts
<1>2. ASSUME GrantedModes = {}
      PROVE  grantedList = <<>> /\ conflictList = <<>> /\ conversions = 0 /\ firsts = 0
  <2>1. grantedList = <<>>
    BY <1>2, EmptyLists
  <2>2. conflictList = <<>>
    BY <1>1, EmptyLists DEF EndCleanUp, PartitionInv
  <2>3. \A k \in Lockers : ~OnLockHead(k)
    BY <2>1 DEF OnLockHead, Range
  <2>4. \A k \in Lockers : status[k] # "converting"
    BY <2>3, ConvertersOnLockHead
  <2> QED BY <1>1, <2>1, <2>2, <2>3, <2>4 DEF ModesShown
<1>3. /\ bucket = Cleaner /\ bucket' = "free"
      /\ UNCHANGED <<global, request, notified, pc, fastPath, lockHead, scan, failed>>
  BY <1>2 DEF EndCleanUp
<1>4. /\ global' = global /\ status' = status /\ mode' = mode /\ convertMode' = convertMode
      /\ target' = target /\ count' = count /\ partitioned' = partitioned
      /\ first' = first /\ notified' = notified /\ pc' = pc
      /\ heads' = heads /\ existing' = existing /\ partitions' = partitions
      /\ grantedList' = grantedList /\ conflictList' = conflictList
      /\ grantedCounts' = grantedCounts /\ conflictCounts' = conflictCounts
      /\ scan' = scan /\ failed' = failed
  BY <1>3 DEF request, fastPath, lockHead, queues, counters
<1>5. Quiet
  BY <1>3, <1>4 DEF Quiet, lockHead
<1>6. /\ CountInv'
      /\ GrantedModes' = GrantedModes /\ ConflictModes' = ConflictModes
      /\ \A k \in Lockers : (OnLockHead(k)' <=> OnLockHead(k)) /\ (Queued(k)' <=> Queued(k))
  BY <1>5, QuietFacts
<1>7. PlainTypes'
  BY <1>1, <1>3, <1>4 DEF PlainTypes
<1>8. \A k \in Lockers : SameRequest(k) /\ SamePlace(k)
  BY <1>4, <1>6 DEF SameRequest, SamePlace, OnPartition
<1>9. ThreadInv' /\ ModeInv' /\ ListInv'
  BY <1>1, <1>4, <1>8, OthersKeep DEF ThreadInv, ModeInv, ListInv
<1>10. PartitionInv'
  BY <1>1, <1>3, <1>4, <1>6 DEF PartitionInv
<1>11. BucketInv'
  <2>1. \A k \in Lockers : ~Scanning(k) /\ ~(pc[k] = "unlock" /\ status[k] = "converting")
    BY <1>1, <1>3, LockerAssumption DEF BucketInv
  <2> QED BY <1>1, <1>4, <2>1 DEF BucketInv, Scanning
<1>12. HeldInv'
  BY <1>4, <1>8, SameHeld DEF Held, SamePlace
<1>13. WakeupInv'
  BY <1>4, <1>5, QuietWakeup
<1>14. NeverFails'
  BY <1>1, <1>4 DEF NeverFails
<1>15. LockInv'
  BY <1>6, <1>7, <1>9, <1>10, <1>11, <1>12, <1>13, <1>14, PartsInv, PTL
<1> QED BY <1>15

-----------------------------------------------------------------------------
(* Steps that change one request on the lock head. *)

One(b) == IF b THEN 1 ELSE 0

\* What incrementing and decrementing a counter does to the counters.
LEMMA CounterFacts ==
    ASSUME NEW c \in [Modes -> Int], NEW m \in Modes
    PROVE  /\ Inc(c, m) \in [Modes -> Int] /\ Dec(c, m) \in [Modes -> Int]
           /\ \A x \in Modes : /\ Inc(c, m)[x] = IF m = x THEN c[x] + 1 ELSE c[x]
                              /\ Dec(c, m)[x] = IF m = x THEN c[x] - 1 ELSE c[x]
<1>1. Inc(c, m) \in [Modes -> Int] /\ Dec(c, m) \in [Modes -> Int]
  BY DEF Inc, Dec
<1> QED BY <1>1 DEF Inc, Dec

\* A set that changes for one locker at most.
LEMMA OneChanges ==
    ASSUME NEW S \in SUBSET Lockers, NEW T \in SUBSET Lockers, NEW l \in Lockers,
           \A k \in Lockers \ {l} : k \in T <=> k \in S
    PROVE  Cardinality(T) = Cardinality(S) + One(l \in T) - One(l \in S)
<1>1. Cardinality(S) \in Nat /\ Cardinality(T) \in Nat
  BY LockerSets
<1>2. CASE l \in T /\ l \notin S
  <2>1. T = S \union {l}
    BY <1>2
  <2> QED BY <1>1, <1>2, <2>1, LockerSets DEF One
<1>3. CASE l \notin T /\ l \in S
  <2>1. T = S \ {l}
    BY <1>3
  <2> QED BY <1>1, <1>3, <2>1, LockerSets DEF One
<1>4. CASE l \in T <=> l \in S
  <2>1. T = S
    BY <1>4
  <2> QED BY <1>1, <1>4, <2>1 DEF One
<1> QED BY <1>2, <1>3, <1>4

\* The counters keep up with the lists when they change as the one request does.
LEMMA CountStep ==
    ASSUME LockInv, NEW l \in Lockers,
           \A k \in Lockers \ {l} : SameRequest(k) /\ SamePlace(k),
           \A m \in Modes :
              /\ grantedCounts'[m] =
                    grantedCounts[m] + One(OnLockHead(l)' /\ mode'[l] = m)
                        - One(OnLockHead(l) /\ mode[l] = m)
                        + One(convertMode'[l] = m) - One(convertMode[l] = m)
              /\ conflictCounts'[m] =
                    conflictCounts[m] + One(Queued(l)' /\ mode'[l] = m)
                        - One(Queued(l) /\ mode[l] = m),
           conversions' = conversions + One(status'[l] = "converting")
                            - One(status[l] = "converting"),
           firsts' = firsts + One(OnLockHead(l)' /\ first'[l]) - One(OnLockHead(l) /\ first[l])
    PROVE  CountInv'
<1>1. CountInv
  BY InvParts
<1>2. ASSUME NEW m \in Modes
      PROVE  /\ grantedCounts'[m] = Cardinality(HoldersIn(m)') + Cardinality(ConvertersTo(m)')
             /\ conflictCounts'[m] = Cardinality(QueuedIn(m)')
  <2>1. /\ HoldersIn(m) \in SUBSET Lockers /\ HoldersIn(m)' \in SUBSET Lockers
        /\ ConvertersTo(m) \in SUBSET Lockers /\ ConvertersTo(m)' \in SUBSET Lockers
        /\ QueuedIn(m) \in SUBSET Lockers /\ QueuedIn(m)' \in SUBSET Lockers
    BY DEF HoldersIn, ConvertersTo, QueuedIn
  <2>2. \A k \in Lockers \ {l} : /\ k \in HoldersIn(m)' <=> k \in HoldersIn(m)
                                 /\ k \in ConvertersTo(m)' <=> k \in ConvertersTo(m)
                                 /\ k \in QueuedIn(m)' <=> k \in QueuedIn(m)
    BY DEF HoldersIn, ConvertersTo, QueuedIn, SameRequest, SamePlace
  <2>3. /\ l \in HoldersIn(m) <=> OnLockHead(l) /\ mode[l] = m
        /\ l \in HoldersIn(m)' <=> OnLockHead(l)' /\ mode'[l] = m
        /\ l \in ConvertersTo(m) <=> convertMode[l] = m
        /\ l \in ConvertersTo(m)' <=> convertMode'[l] = m
        /\ l \in QueuedIn(m) <=> Queued(l) /\ mode[l] = m
        /\ l \in QueuedIn(m)' <=> Queued(l)' /\ mode'[l] = m
    BY DEF HoldersIn, ConvertersTo, QueuedIn
  <2>4. /\ Cardinality(HoldersIn(m)) \in Nat /\ Cardinality(ConvertersTo(m)) \in Nat
        /\ Cardinality(QueuedIn(m)) \in Nat
    BY <2>1, LockerSets
  <2>5. Cardinality(HoldersIn(m)') = Cardinality(HoldersIn(m))
            + One(l \in HoldersIn(m)') - One(l \in HoldersIn(m))
    BY <2>1, <2>2, OneChanges
  <2>6. Cardinality(ConvertersTo(m)') = Cardinality(ConvertersTo(m))
            + One(l \in ConvertersTo(m)') - One(l \in ConvertersTo(m))
    BY <2>1, <2>2, OneChanges
  <2>7. Cardinality(QueuedIn(m)') = Cardinality(QueuedIn(m))
            + One(l \in QueuedIn(m)') - One(l \in QueuedIn(m))
    BY <2>1, <2>2, OneChanges
  <2>8. /\ grantedCounts[m] = Cardinality(HoldersIn(m)) + Cardinality(ConvertersTo(m))
        /\ conflictCounts[m] = Cardinality(QueuedIn(m))
    BY <1>1 DEF CountInv
  <2> QED BY <2>3, <2>4, <2>5, <2>6, <2>7, <2>8 DEF One
<1>3. conversions' = Cardinality({k \in Lockers : status'[k] = "converting"})
  <2> DEFINE S == {k \in Lockers : status[k] = "converting"}
             T == {k \in Lockers : status'[k] = "converting"}
  <2>1. /\ S \in SUBSET Lockers /\ T \in SUBSET Lockers
        /\ \A k \in Lockers \ {l} : k \in T <=> k \in S
        /\ l \in S <=> status[l] = "converting"
        /\ l \in T <=> status'[l] = "converting"
        /\ conversions = Cardinality(S)
    BY <1>1 DEF SameRequest, CountInv
  <2> HIDE DEF S, T
  <2>2. Cardinality(T) = Cardinality(S) + One(l \in T) - One(l \in S)
    BY <2>1, OneChanges
  <2>3. conversions' = Cardinality(T)
    BY <2>1, <2>2 DEF One
  <2> QED BY <2>3 DEF T
<1>4. firsts' = Cardinality({k \in Lockers : OnLockHead(k)' /\ first'[k]})
  <2> DEFINE S == {k \in Lockers : OnLockHead(k) /\ first[k]}
             T == {k \in Lockers : OnLockHead(k)' /\ first'[k]}
  <2>1. /\ S \in SUBSET Lockers /\ T \in SUBSET Lockers
        /\ \A k \in Lockers \ {l} : k \in T <=> k \in S
        /\ l \in S <=> OnLockHead(l) /\ first[l]
        /\ l \in T <=> OnLockHead(l)' /\ first'[l]
        /\ firsts = Cardinality(S)
    BY <1>1 DEF SameRequest, SamePlace, CountInv
  <2> HIDE DEF S, T
  <2>2. Cardinality(T) = Cardinality(S) + One(l \in T) - One(l \in S)
    BY <2>1, OneChanges
  <2>3. firsts' = Cardinality(T)
    BY <2>1, <2>2 DEF One
  <2> QED BY <2>3 DEF T
<1> QED BY <1>2, <1>3, <1>4 DEF CountInv

\* What is held stays compatible when the one request is compatible with all others.
LEMMA HeldStep ==
    ASSUME LockInv, NEW l \in Lockers,
           \A k \in Lockers \ {l} : SameRequest(k) /\ SamePlace(k),
           ASSUME Held(l)', NEW k \in Lockers \ {l}, Held(k)
           PROVE  mode'[l] \in Modes /\ mode[k] \notin Conflicting[mode'[l]]
    PROVE  HeldInv'
<1>1. PlainTypes /\ ModeInv /\ ListInv /\ HeldInv
  BY InvParts
<1>2. ASSUME NEW k \in Lockers \ {l}
      PROVE  (Held(k)' <=> Held(k)) /\ mode'[k] = mode[k] /\ (Held(k) => mode[k] \in Modes)
  <2>1. (Held(k)' <=> Held(k)) /\ mode'[k] = mode[k]
    BY DEF Held, SamePlace, SameRequest
  <2>2. Held(k) => mode[k] \in Modes
    BY <1>1 DEF Held, ListInv, PlaceOK, ModeInv, ModeOK, PlainTypes
  <2> QED BY <2>1, <2>2
<1> SUFFICES ASSUME NEW j \in Lockers, NEW k \in Lockers, j # k, Held(j)', Held(k)'
             PROVE  mode'[k] \notin Conflicting[mode'[j]]
  BY DEF HeldInv
<1>3. CASE j = l
  BY <1>2, <1>3
<1>4. CASE k = l
  BY <1>2, <1>4, ConflictFacts
<1>5. CASE j # l /\ k # l
  BY <1>1, <1>2, <1>5 DEF HeldInv
<1> QED BY <1>3, <1>4, <1>5

\* The parts of the invariant add up.
LEMMA OneKeeps ==
    ASSUME LockInv, NEW l \in Lockers, global' = global, heads' = heads, failed' = failed,
           PlainTypes', CountInv', PartitionInv', BucketInv', HeldInv', WakeupInv',
           \A k \in Lockers \ {l} : SameRequest(k) /\ SamePlace(k),
           ThreadOK(l)', ModeOK(l)', PlaceOK(l)'
    PROVE  LockInv'
<1>1. NeverFails /\ ListInv
  BY InvParts
<1>2. \A k \in Lockers : ThreadOK(k)' /\ ModeOK(k)' /\ PlaceOK(k)'
  BY OthersKeep
<1>3. ThreadInv' /\ ModeInv' /\ ListInv'
  BY <1>1, <1>2 DEF ThreadInv, ModeInv, ListInv
<1>4. NeverFails'
  BY <1>1 DEF NeverFails
<1>5. LockInv'
  BY <1>3, <1>4, PartsInv, PTL
<1> QED BY <1>5

\* Nobody scans while a thread has the bucket that does not scan itself.
LEMMA NoScanner ==
    ASSUME LockInv, NEW b \in Lockers \union {Cleaner}, Acquires(b),
           b \in Lockers => ~Scanning(b)
    PROVE  \A k \in Lockers : ~Scanning(k)
BY InvParts, LockerAssumption DEF BucketInv, Acquires

\* A request shows in a mode that it holds or waits to be converted to.
Shows(j, m) == (OnLockHead(j) /\ mode[j] = m) \/ convertMode[j] = m

\* What conflicts with the modes shown still does when no request shows weaker ones.
LEMMA ConflictStays ==
    ASSUME LockInv, ModesShown', NEW x \in Modes, Conflicts(x, GrantedModes),
           \A j \in Lockers : \A m \in Modes :
              Shows(j, m) => \E n \in Modes : Shows(j, n)' /\ Covers(n, m)
    PROVE  Conflicts(x, GrantedModes')
<1>1. ModesShown
  BY InvParts
<1>2. PICK m \in Modes : m \in Conflicting[x] /\ m \in GrantedModes
  BY DEF Conflicts, GrantedModes
<1>3. PICK j \in Lockers : Shows(j, m)
  BY <1>1, <1>2 DEF ModesShown, Shows
<1>4. PICK n \in Modes : Shows(j, n)' /\ Covers(n, m)
  BY <1>3
<1>5. n \in GrantedModes'
  BY <1>4 DEF ModesShown, Shows
<1>6. n \in Conflicting[x]
  BY <1>2, <1>4, CoverFacts
<1> QED BY <1>5, <1>6 DEF Conflicts

\* The same for a conversion and the modes that others show.
LEMMA ConversionStays ==
    ASSUME LockInv, ModesShown', NEW k \in Lockers, status[k] = "converting",
           ConversionWaits(k), OnLockHead(k)', convertMode'[k] = convertMode[k],
           \A j \in Lockers \ {k} : \A m \in Modes :
              Shows(j, m) => \E n \in Modes : Shows(j, n)' /\ Covers(n, m)
    PROVE  Conflicts(convertMode'[k], GrantedWithout(k)')
<1>1. PlainTypes /\ ModeInv /\ ModesShown /\ OnLockHead(k)
  BY InvParts, ConvertersOnLockHead
<1>2. convertMode[k] \in Modes
  BY <1>1 DEF PlainTypes, ModeInv, ModeOK
<1>3. PICK m \in Modes : m \in Conflicting[convertMode[k]] /\ m \in GrantedWithout(k)
  BY DEF ConversionWaits, Conflicts, GrantedWithout
<1>4. PICK j \in Lockers \ {k} : Shows(j, m)
  BY <1>1, <1>3 DEF ModesShown, Shows
<1>5. PICK n \in Modes : Shows(j, n)' /\ Covers(n, m)
  BY <1>4
<1>6. n \in GrantedWithout(k)'
  BY <1>5 DEF ModesShown, Shows
<1>7. n \in Conflicting[convertMode[k]]
  BY <1>2, <1>3, <1>5, CoverFacts
<1> QED BY <1>6, <1>7 DEF Conflicts

\* The front of the queue is a request in some mode.
LEMMA FrontMode ==
    ASSUME LockInv, conflictList # <<>>
    PROVE  /\ conflictList[1] \in Lockers /\ Queued(conflictList[1])
           /\ mode[conflictList[1]] \in Modes
<1>1. PlainTypes /\ ModeInv /\ ListInv
  BY InvParts
<1>2. conflictList[1] \in Lockers /\ Queued(conflictList[1])
  BY <1>1, EmptyFacts DEF PlainTypes, Queued
<1> QED BY <1>1, <1>2 DEF PlainTypes, ModeInv, ModeOK, ListInv, PlaceOK

\* Nobody leaves the queue.
QueueStays == \A k \in Lockers : Queued(k) => Queued(k)' /\ mode'[k] = mode[k]

\* A front that waits still does when no request shows weaker modes.
LEMMA FrontStays ==
    ASSUME LockInv, ModesShown',
           conflictList # <<>>, conflictList' # <<>>, conflictList'[1] = conflictList[1],
           SameRequest(conflictList[1]),
           \A j \in Lockers : \A m \in Modes :
              Shows(j, m) => \E n \in Modes : Shows(j, n)' /\ Covers(n, m)
    PROVE  /\ FrontConflicts => FrontConflicts'
           /\ QueueOK' /\ QueueStays /\ FrontWaits => FrontWaits'
<1>1. mode[conflictList[1]] \in Modes
  BY FrontMode
<1>2. mode'[conflictList[1]] = mode[conflictList[1]]
         /\ first'[conflictList[1]] = first[conflictList[1]]
  BY DEF SameRequest
<1>3. Conflicts(mode[conflictList[1]], GrantedModes)
        => Conflicts(mode[conflictList[1]], GrantedModes')
  BY <1>1, ConflictStays
<1>4. FrontConflicts => FrontConflicts'
  BY <1>2, <1>3 DEF FrontConflicts
<1>5. ASSUME QueueOK', QueueStays, FrontWaits
      PROVE  FrontWaits'
  <2>1. PICK f \in Lockers : f = conflictList[1]
    BY FrontMode
  <2>2. ASSUME PutBefore(f)
        PROVE  PutBefore(f)'
    <3>1. first[f] /\ GrantedModes # {} /\ QueuedConflict(f)
      <4>1. conflictList \in Seq(Lockers)
        BY DEF LockInv, TypeOK
      <4> QED BY <2>2, <4>1, PutBeforeFacts DEF QueueOK, PutBeforeIs
    <3>2. QueuedConflict(f)'
      BY <1>2, <1>5, <2>1, <3>1 DEF QueuedConflict, QueueStays, Conflicts
    <3>3. GrantedModes' # {}
      <4>1. PICK m \in Modes : m \in GrantedModes
        BY <3>1 DEF GrantedModes
      <4>2. PICK j \in Lockers : Shows(j, m)
        BY <4>1, InvParts DEF ModesShown, Shows
      <4>3. PICK n \in Modes : Shows(j, n)'
        BY <4>2
      <4> QED BY <4>3 DEF ModesShown, Shows
    <3>4. PutBefore(f)' <=> first'[f] /\ GrantedModes' # {} /\ QueuedConflict(f)'
      <4>1. PutBeforeIs'
        BY <1>5, PutBeforeFacts, PTL
      <4> QED BY <4>1 DEF PutBeforeIs
    <3> QED BY <1>2, <2>1, <3>1, <3>2, <3>3, <3>4
  <2> QED BY <1>2, <1>3, <1>5, <2>1, <2>2 DEF FrontWaits
<1> QED BY <1>4, <1>5

\* Without partitions all that is held is on the lock head.
LEMMA NoPartitions ==
    ASSUME LockInv, partitions = <<>>, NEW k \in Lockers
    PROVE  ~OnPartition(k)
<1>1. PartitionInv /\ PartitionOf[k] \in Partitions
  BY InvParts, PartitionAssumption
<1>2. heads[PartitionOf[k]] = <<>>
  BY <1>1 DEF PartitionInv, Range
<1> QED BY <1>2 DEF OnPartition, Range

\* What is held on the lock head is shown, and shown as another's.
LEMMA HeldShown ==
    ASSUME LockInv, NEW k \in Lockers, OnLockHead(k)
    PROVE  /\ mode[k] \in Modes /\ mode[k] \in GrantedModes
           /\ \A l \in Lockers \ {k} : OnLockHead(l) => mode[k] \in GrantedWithout(l)
<1>1. PlainTypes /\ ModeInv /\ ListInv /\ ModesShown
  BY InvParts
<1>2. mode[k] \in Modes
  BY <1>1 DEF ModeInv, ModeOK, ListInv, PlaceOK, PlainTypes
<1> QED BY <1>1, <1>2 DEF ModesShown

\* A new request that cannot be partitioned is granted, or waits.
LEMMA NewRequestCases ==
    ASSUME LockInv, NEW l \in Lockers, NewRequest(l)
    PROVE  /\ pc[l] = "lock" /\ status[l] = "new" /\ count[l] = 1
           /\ mode[l] \in Modes /\ convertMode[l] = NoMode /\ ~notified[l]
           /\ ~OnPartition(l) /\ ~OnLockHead(l) /\ ~Queued(l)
           /\ partitions = <<>> /\ bucket \in {"free", l} /\ bucket' = "free"
           /\ partitioned' = [partitioned EXCEPT ![l] = FALSE]
           /\ global' = global /\ mode' = mode /\ convertMode' = convertMode
           /\ target' = target /\ count' = count /\ first' = first /\ notified' = notified
           /\ heads' = heads /\ existing' = existing /\ partitions' = partitions
           /\ conversions' = conversions /\ scan' = scan /\ failed' = failed
           /\ \A k \in Lockers : ~Scanning(k)
           /\ \A k \in Lockers : OnPartition(k)' <=> OnPartition(k)
<1>1. PlainTypes /\ ThreadInv /\ ModeInv /\ ListInv
  BY InvParts
<1>2. /\ pc[l] = "lock" /\ partitions = <<>> /\ bucket \in {"free", l} /\ bucket' = "free"
      /\ partitioned' = [partitioned EXCEPT ![l] = FALSE]
      /\ global' = global /\ mode' = mode /\ convertMode' = convertMode
      /\ target' = target /\ count' = count /\ first' = first /\ notified' = notified
      /\ heads' = heads /\ existing' = existing /\ partitions' = partitions
      /\ conversions' = conversions /\ scan' = scan /\ failed' = failed
  BY DEF NewRequest, Acquires, fastPath
<1>3. status[l] = "new" /\ count[l] = 1
  BY <1>1, <1>2 DEF ThreadInv, ThreadOK
<1>4. /\ mode[l] \in Modes /\ convertMode[l] = NoMode /\ ~notified[l]
      /\ ~OnPartition(l) /\ ~OnLockHead(l) /\ ~Queued(l)
  BY <1>1, <1>3 DEF ModeInv, ModeOK, ListInv, PlaceOK, PlainTypes
<1>5. \A k \in Lockers : ~Scanning(k)
  BY <1>2, NoScanner DEF Acquires, Scanning
<1>6. \A k \in Lockers : OnPartition(k)' <=> OnPartition(k)
  BY <1>2 DEF OnPartition
<1> QED BY <1>2, <1>3, <1>4, <1>5, <1>6

\* A new request that conflicts with nothing is granted on the lock head.
LEMMA NewRequestGranted ==
    ASSUME LockInv, NEW l \in Lockers, NewRequest(l), ~MustWait(l)
    PROVE  LockInv'
<1>1. /\ PlainTypes /\ ModeInv /\ ListInv /\ PartitionInv /\ BucketInv /\ WakeupInv
      /\ ModesShown
  BY InvParts
<1>2. /\ pc[l] = "lock" /\ status[l] = "new" /\ count[l] = 1
      /\ mode[l] \in Modes /\ convertMode[l] = NoMode /\ ~notified[l]
      /\ ~OnPartition(l) /\ ~OnLockHead(l) /\ ~Queued(l)
      /\ partitions = <<>> /\ bucket \in {"free", l} /\ bucket' = "free"
      /\ partitioned' = [partitioned EXCEPT ![l] = FALSE]
      /\ global' = global /\ mode' = mode /\ convertMode' = convertMode
      /\ target' = target /\ count' = count /\ first' = first /\ notified' = notified
      /\ heads' = heads /\ existing' = existing /\ partitions' = partitions
      /\ conversions' = conversions /\ scan' = scan /\ failed' = failed
      /\ \A k \in Lockers : ~Scanning(k)
      /\ \A k \in Lockers : OnPartition(k)' <=> OnPartition(k)
  BY NewRequestCases
<1>3. /\ status' = [status EXCEPT ![l] = "granted"]
      /\ grantedList' = Append(grantedList, l)
      /\ grantedCounts' = [grantedCounts EXCEPT ![mode[l]] = @ + 1]
      /\ firsts' = IF first[l] THEN firsts + 1 ELSE firsts
      /\ pc' = [pc EXCEPT ![l] = "idle"]
      /\ conflictList' = conflictList /\ conflictCounts' = conflictCounts
  BY DEF NewRequest, Inc, Go
<1>4. /\ grantedList' \in Seq(Lockers) /\ IsInjective(grantedList')
      /\ Range(grantedList') = Range(grantedList) \union {l}
  BY <1>1, <1>2, <1>3, AppendFacts DEF PlainTypes, OnLockHead
<1>5. \A k \in Lockers : /\ status'[k] = IF k = l THEN "granted" ELSE status[k]
                         /\ pc'[k] = IF k = l THEN "idle" ELSE pc[k]
                         /\ partitioned'[k] = IF k = l THEN FALSE ELSE partitioned[k]
                         /\ OnLockHead(k)' <=> OnLockHead(k) \/ k = l
                         /\ Queued(k)' <=> Queued(k)
  BY <1>1, <1>2, <1>3, <1>4 DEF PlainTypes, OnLockHead, Queued
<1>6. PlainTypes'
  <2>1. /\ status' \in [Lockers -> {"none", "new", "granted", "waiting", "converting"}]
        /\ partitioned' \in [Lockers -> BOOLEAN]
        /\ pc' \in [Lockers -> {"idle", "lock", "convert", "wait", "cancel", "unlock",
                                "conversions", "grants"}]
        /\ grantedCounts' \in [Modes -> Int]
    BY <1>1, <1>2, <1>3 DEF PlainTypes
  <2> QED BY <1>1, <1>2, <1>3, <1>4, <2>1 DEF PlainTypes
<1>7. \A k \in Lockers \ {l} : SameRequest(k) /\ SamePlace(k)
  BY <1>2, <1>5 DEF SameRequest, SamePlace
<1>8. CountInv'
  <2>1. \A m \in Modes : grantedCounts'[m] = grantedCounts[m] + One(mode[l] = m)
    BY <1>1, <1>2, <1>3 DEF PlainTypes, One
  <2>2. conversions \in Int /\ firsts \in Int
    BY DEF LockInv, TypeOK
  <2>3. \A m \in Modes : grantedCounts[m] \in Int /\ conflictCounts[m] \in Int
    BY <1>1 DEF PlainTypes
  <2>a. /\ OnLockHead(l)' /\ ~OnLockHead(l) /\ ~Queued(l)' /\ ~Queued(l)
        /\ mode'[l] = mode[l] /\ convertMode'[l] = NoMode /\ convertMode[l] = NoMode
        /\ status'[l] = "granted" /\ status[l] = "new" /\ first'[l] = first[l]
        /\ conversions' = conversions /\ conflictCounts' = conflictCounts
        /\ firsts' = IF first[l] THEN firsts + 1 ELSE firsts
    BY <1>2, <1>3, <1>5
  <2>4. \A m \in Modes :
          /\ grantedCounts'[m] =
                grantedCounts[m] + One(OnLockHead(l)' /\ mode'[l] = m)
                    - One(OnLockHead(l) /\ mode[l] = m)
                    + One(convertMode'[l] = m) - One(convertMode[l] = m)
          /\ conflictCounts'[m] =
                conflictCounts[m] + One(Queued(l)' /\ mode'[l] = m)
                    - One(Queued(l) /\ mode[l] = m)
    BY <2>a, <2>1, <2>3 DEF One
  <2>5. conversions' = conversions + One(status'[l] = "converting")
                         - One(status[l] = "converting")
    BY <2>a, <2>2 DEF One
  <2>6. firsts' = firsts + One(OnLockHead(l)' /\ first'[l]) - One(OnLockHead(l) /\ first[l])
    BY <2>a, <2>2 DEF One
  <2> QED BY <1>7, <2>4, <2>5, <2>6, CountStep
<1>9. ModesShown'
  BY <1>8, CountersShowModes, PTL
<1>10. \A j \in Lockers : \A m \in Modes :
          Shows(j, m) => \E n \in Modes : Shows(j, n)' /\ Covers(n, m)
  BY <1>2, <1>5 DEF Shows, Covers
<1>11. PartitionInv'
  BY <1>1, <1>2, LockerAssumption DEF PartitionInv
<1>12. BucketInv'
  <2>1. \A k \in Lockers : ~(pc'[k] = "unlock" /\ status'[k] = "converting")
    <3>1. \A k \in Lockers : bucket = k => k = l
      BY <1>2, LockerAssumption
    <3> QED BY <1>1, <1>2, <1>5, <3>1 DEF BucketInv
  <2> QED BY <1>1, <1>2, <1>5, <2>1 DEF BucketInv, Scanning
<1>13. HeldInv'
  <2>1. ASSUME NEW k \in Lockers \ {l}, Held(k)
        PROVE  mode'[l] \in Modes /\ mode[k] \notin Conflicting[mode'[l]]
    <3>1. OnLockHead(k)
      BY <1>2, <2>1, NoPartitions DEF Held
    <3>2. mode[k] \in GrantedModes
      BY <3>1, HeldShown
    <3> QED BY <1>2, <3>2 DEF MustWait, Conflicts
  <2> QED BY <1>7, <2>1, HeldStep
<1>14. WakeupInv'
  <2>1. FrontWaits /\ \A k \in Lockers : ConversionWaits(k)
    BY <1>1, <1>2 DEF WakeupInv
  <2>2. FrontWaits'
    <3>1. QueueOK' /\ QueueStays
      BY <1>1, <1>2, <1>3 DEF PlainTypes, QueueOK, QueueStays, Queued
    <3>2. CASE conflictList # <<>>
      <4>1. SameRequest(conflictList[1])
        BY <1>2, <1>7, <3>2, FrontMode
      <4> QED BY <1>3, <1>9, <1>10, <2>1, <3>1, <3>2, <4>1, FrontStays
    <3> QED BY <1>3, <3>2 DEF FrontWaits
  <2>3. ASSUME NEW k \in Lockers
        PROVE  ConversionWaits(k)'
    <3>1. CASE status'[k] = "converting"
      <4>1. status[k] = "converting" /\ OnLockHead(k)'
        BY <1>5, <3>1, ConvertersOnLockHead
      <4>2. Conflicts(convertMode'[k], GrantedWithout(k)')
        BY <1>2, <1>9, <1>10, <2>1, <4>1, ConversionStays
      <4> QED BY <4>2 DEF ConversionWaits
    <3> QED BY <3>1 DEF ConversionWaits
  <2>4. \A k \in Lockers : ~Scanning(k)'
    BY <1>2, <1>5 DEF Scanning
  <2> QED BY <2>2, <2>3, <2>4 DEF WakeupInv, Scanning
<1>15. ThreadOK(l)'
  <2>1. pc'[l] = "idle" /\ count'[l] = 1 /\ status'[l] = "granted"
    BY <1>2, <1>5
  <2> QED BY <2>1 DEF ThreadOK, Scanning
<1>16. ModeOK(l)'
  BY <1>1, <1>2, <1>5 DEF ModeInv, ModeOK
<1>17. PlaceOK(l)'
  BY <1>2, <1>5 DEF PlaceOK, Released, Scanning
<1> QED
  BY <1>2, <1>6, <1>7, <1>8, <1>11, <1>12, <1>13, <1>14, <1>15, <1>16, <1>17, OneKeeps

\* A new request that conflicts waits in the queue, at its end or at its front.
LEMMA NewRequestQueued ==
    ASSUME LockInv, NEW l \in Lockers, NewRequest(l), MustWait(l)
    PROVE  LockInv'
<1>1. PlainTypes /\ ModeInv /\ PartitionInv /\ BucketInv /\ WakeupInv /\ ModesShown
  BY InvParts
<1>2. /\ pc[l] = "lock" /\ status[l] = "new" /\ count[l] = 1
      /\ mode[l] \in Modes /\ convertMode[l] = NoMode /\ ~notified[l]
      /\ ~OnPartition(l) /\ ~OnLockHead(l) /\ ~Queued(l)
      /\ partitions = <<>> /\ bucket \in {"free", l} /\ bucket' = "free"
      /\ partitioned' = [partitioned EXCEPT ![l] = FALSE]
      /\ global' = global /\ mode' = mode /\ convertMode' = convertMode
      /\ target' = target /\ count' = count /\ first' = first /\ notified' = notified
      /\ heads' = heads /\ existing' = existing /\ partitions' = partitions
      /\ conversions' = conversions /\ scan' = scan /\ failed' = failed
      /\ \A k \in Lockers : ~Scanning(k)
      /\ \A k \in Lockers : OnPartition(k)' <=> OnPartition(k)
  BY NewRequestCases
<1>3. /\ status' = [status EXCEPT ![l] = "waiting"]
      /\ conflictList' = IF first[l] THEN <<l>> \o conflictList ELSE Append(conflictList, l)
      /\ conflictCounts' = [conflictCounts EXCEPT ![mode[l]] = @ + 1]
      /\ pc' = [pc EXCEPT ![l] = "wait"]
      /\ grantedList' = grantedList /\ grantedCounts' = grantedCounts /\ firsts' = firsts
  BY DEF NewRequest, Inc, Go
<1>4. /\ conflictList' \in Seq(Lockers) /\ IsInjective(conflictList')
      /\ Range(conflictList') = Range(conflictList) \union {l}
      /\ conflictList' # <<>>
      /\ conflictList'[1] = IF first[l] \/ conflictList = <<>> THEN l ELSE conflictList[1]
  <2>1. conflictList \in Seq(Lockers) /\ IsInjective(conflictList)
           /\ l \notin Range(conflictList)
    BY <1>1, <1>2 DEF PlainTypes, Queued
  <2>2. CASE first[l]
    <3>1. conflictList' = <<l>> \o conflictList
      BY <1>3, <2>2
    <3> QED BY <2>1, <2>2, <3>1, PrependFacts
  <2>3. CASE ~first[l]
    <3>1. conflictList' = Append(conflictList, l)
      BY <1>3, <2>3
    <3> QED BY <2>1, <2>3, <3>1, AppendFacts
  <2> QED BY <2>2, <2>3
<1>5. \A k \in Lockers : /\ status'[k] = IF k = l THEN "waiting" ELSE status[k]
                         /\ pc'[k] = IF k = l THEN "wait" ELSE pc[k]
                         /\ partitioned'[k] = IF k = l THEN FALSE ELSE partitioned[k]
                         /\ OnLockHead(k)' <=> OnLockHead(k)
                         /\ Queued(k)' <=> Queued(k) \/ k = l
  BY <1>1, <1>2, <1>3, <1>4 DEF PlainTypes, OnLockHead, Queued
<1>6. PlainTypes'
  <2>1. /\ status' \in [Lockers -> {"none", "new", "granted", "waiting", "converting"}]
        /\ partitioned' \in [Lockers -> BOOLEAN]
        /\ pc' \in [Lockers -> {"idle", "lock", "convert", "wait", "cancel", "unlock",
                                "conversions", "grants"}]
        /\ conflictCounts' \in [Modes -> Int]
    BY <1>1, <1>2, <1>3 DEF PlainTypes
  <2> QED BY <1>1, <1>2, <1>3, <1>4, <2>1 DEF PlainTypes
<1>7. \A k \in Lockers \ {l} : SameRequest(k) /\ SamePlace(k)
  BY <1>2, <1>5 DEF SameRequest, SamePlace
<1>8. CountInv'
  <2>1. \A m \in Modes : conflictCounts'[m] = conflictCounts[m] + One(mode[l] = m)
    BY <1>1, <1>2, <1>3 DEF PlainTypes, One
  <2>2. conversions \in Int /\ firsts \in Int
    BY DEF LockInv, TypeOK
  <2>3. \A m \in Modes : grantedCounts[m] \in Int /\ conflictCounts[m] \in Int
    BY <1>1 DEF PlainTypes
  <2>4. /\ ~OnLockHead(l)' /\ ~OnLockHead(l) /\ Queued(l)' /\ ~Queued(l)
        /\ mode'[l] = mode[l] /\ convertMode'[l] = NoMode /\ convertMode[l] = NoMode
        /\ status'[l] = "waiting" /\ status[l] = "new" /\ first'[l] = first[l]
        /\ conversions' = conversions /\ grantedCounts' = grantedCounts /\ firsts' = firsts
    BY <1>2, <1>3, <1>5
  <2>5. \A m \in Modes :
          /\ grantedCounts'[m] =
                grantedCounts[m] + One(OnLockHead(l)' /\ mode'[l] = m)
                    - One(OnLockHead(l) /\ mode[l] = m)
                    + One(convertMode'[l] = m) - One(convertMode[l] = m)
          /\ conflictCounts'[m] =
                conflictCounts[m] + One(Queued(l)' /\ mode'[l] = m)
                    - One(Queued(l) /\ mode[l] = m)
    BY <2>1, <2>3, <2>4 DEF One
  <2>6. conversions' = conversions + One(status'[l] = "converting")
                         - One(status[l] = "converting")
    BY <2>2, <2>4 DEF One
  <2>7. firsts' = firsts + One(OnLockHead(l)' /\ first'[l]) - One(OnLockHead(l) /\ first[l])
    BY <2>2, <2>4 DEF One
  <2> QED BY <1>7, <2>5, <2>6, <2>7, CountStep
<1>9. ModesShown'
  BY <1>8, CountersShowModes, PTL
<1>10. \A j \in Lockers : \A m \in Modes :
          Shows(j, m) => \E n \in Modes : Shows(j, n)' /\ Covers(n, m)
  BY <1>2, <1>5 DEF Shows, Covers
<1>11. PartitionInv'
  BY <1>1, <1>2, LockerAssumption DEF PartitionInv
<1>12. BucketInv'
  <2>1. \A k \in Lockers : ~(pc'[k] = "unlock" /\ status'[k] = "converting")
    <3>1. \A k \in Lockers : bucket = k => k = l
      BY <1>2, LockerAssumption
    <3> QED BY <1>1, <1>2, <1>5, <3>1 DEF BucketInv
  <2> QED BY <1>1, <1>2, <1>5, <2>1 DEF BucketInv, Scanning
<1>13. HeldInv'
  <2>1. \A k \in Lockers : Held(k)' => Held(k) /\ mode'[k] = mode[k]
    BY <1>2, <1>5 DEF Held
  <2> QED BY <2>1, SameHeld
<1>14. WakeupInv'
  <2>1. FrontWaits /\ \A k \in Lockers : ConversionWaits(k)
    BY <1>1, <1>2 DEF WakeupInv
  <2>2. FrontWaits'
    <3>1. GrantedModes' = GrantedModes /\ QueueOK' /\ QueueStays
      BY <1>2, <1>3, <1>4, <1>5 DEF GrantedModes, QueueOK, QueueStays
    <3>2. CASE first[l] /\ Conflicts(mode[l], ConflictModes)
      <4>1. PICK m \in Modes : m \in Conflicting[mode[l]] /\ m \in ConflictModes
        BY <3>2 DEF Conflicts, ConflictModes
      <4>2. PICK k \in Lockers : Queued(k) /\ mode[k] = m
        BY <1>1, <4>1 DEF ModesShown
      <4>3. QueuedConflict(l)'
        BY <1>2, <1>5, <4>1, <4>2 DEF QueuedConflict, Conflicts
      <4>4. GrantedModes # {}
        <5>1. conflictList # <<>>
          BY <4>2 DEF Queued, Range
        <5> QED BY <2>1, <5>1 DEF FrontWaits, PutBefore, Conflicts
      <4>5. PutBefore(l)' <=> first'[l] /\ GrantedModes' # {} /\ QueuedConflict(l)'
        <5>1. QueueOK'
          BY <1>4 DEF QueueOK
        <5>2. PutBeforeIs'
          BY <5>1, PutBeforeFacts, PTL
        <5> QED BY <5>2 DEF PutBeforeIs
      <4> QED BY <1>2, <1>4, <3>1, <3>2, <4>3, <4>4, <4>5 DEF FrontWaits
    <3>5. CASE first[l] /\ ~Conflicts(mode[l], ConflictModes)
      BY <1>2, <1>4, <3>1, <3>5 DEF FrontWaits, MustWait, Conflicts
    <3>3. CASE conflictList = <<>>
      <4>1. ConflictModes = {}
        BY <3>3, EmptyLists
      <4>2. Conflicts(mode[l], GrantedModes)
        BY <4>1 DEF MustWait, Conflicts
      <4> QED BY <1>2, <1>4, <3>1, <3>3, <4>2 DEF FrontWaits, Conflicts
    <3>4. CASE ~first[l] /\ conflictList # <<>>
      <4>1. conflictList[1] \in Lockers \ {l}
        BY <1>2, <3>4, FrontMode
      <4> QED BY <1>4, <1>7, <1>9, <1>10, <2>1, <3>1, <3>4, <4>1, FrontStays
    <3> QED BY <3>2, <3>3, <3>4, <3>5
  <2>3. ASSUME NEW k \in Lockers
        PROVE  ConversionWaits(k)'
    <3>1. CASE status'[k] = "converting"
      <4>1. status[k] = "converting" /\ OnLockHead(k)'
        BY <1>5, <3>1, ConvertersOnLockHead
      <4>2. Conflicts(convertMode'[k], GrantedWithout(k)')
        BY <1>2, <1>9, <1>10, <2>1, <4>1, ConversionStays
      <4> QED BY <4>2 DEF ConversionWaits
    <3> QED BY <3>1 DEF ConversionWaits
  <2>4. \A k \in Lockers : ~Scanning(k)'
    BY <1>2, <1>5 DEF Scanning
  <2> QED BY <2>2, <2>3, <2>4 DEF WakeupInv, Scanning
<1>15. ThreadOK(l)'
  <2>1. pc'[l] = "wait" /\ count'[l] = 1 /\ status'[l] = "waiting"
    BY <1>2, <1>5
  <2> QED BY <2>1 DEF ThreadOK, Scanning
<1>16. ModeOK(l)'
  BY <1>1, <1>2, <1>5 DEF ModeInv, ModeOK
<1>17. PlaceOK(l)'
  BY <1>2, <1>5 DEF PlaceOK, Released, Scanning
<1> QED
  BY <1>2, <1>6, <1>7, <1>8, <1>11, <1>12, <1>13, <1>14, <1>15, <1>16, <1>17, OneKeeps

-----------------------------------------------------------------------------
(* convert() in the bucket *)

\* A conversion in the bucket is of a request on the lock head, to a stronger mode.
LEMMA ConvertInBucketCases ==
    ASSUME LockInv, NEW l \in Lockers, ConvertInBucket(l)
    PROVE  /\ pc[l] = "convert" /\ status[l] = "granted" /\ count[l] > 1
           /\ mode[l] \in Modes /\ target[l] \in Modes /\ Covers(target[l], mode[l])
           /\ convertMode[l] = NoMode /\ ~notified[l]
           /\ ~OnPartition(l) /\ OnLockHead(l) /\ ~Queued(l)
           /\ partitions = <<>> /\ bucket \in {"free", l} /\ bucket' = "free"
           /\ target' = [target EXCEPT ![l] = NoMode]
           /\ global' = global /\ count' = count /\ partitioned' = partitioned
           /\ first' = first /\ notified' = notified /\ heads' = heads
           /\ existing' = existing /\ partitions' = partitions
           /\ grantedList' = grantedList /\ conflictList' = conflictList
           /\ conflictCounts' = conflictCounts /\ firsts' = firsts
           /\ scan' = scan /\ failed' = failed
           /\ \A k \in Lockers : ~Scanning(k)
           /\ \A k \in Lockers : SamePlace(k)
<1>1. PlainTypes /\ ThreadInv /\ ModeInv /\ ListInv
  BY InvParts
<1>2. /\ pc[l] = "convert" /\ partitions = <<>> /\ bucket \in {"free", l} /\ bucket' = "free"
      /\ target' = [target EXCEPT ![l] = NoMode]
      /\ global' = global /\ count' = count /\ partitioned' = partitioned
      /\ first' = first /\ notified' = notified /\ heads' = heads
      /\ existing' = existing /\ partitions' = partitions
      /\ grantedList' = grantedList /\ conflictList' = conflictList
      /\ conflictCounts' = conflictCounts /\ firsts' = firsts
      /\ scan' = scan /\ failed' = failed
  BY DEF ConvertInBucket, Acquires, fastPath
<1>3. status[l] = "granted" /\ count[l] > 1
  BY <1>1, <1>2 DEF ThreadInv, ThreadOK
<1>4. /\ mode[l] \in Modes /\ target[l] \in Modes /\ Covers(target[l], mode[l])
      /\ convertMode[l] = NoMode /\ ~notified[l]
  BY <1>1, <1>2, <1>3 DEF ModeInv, ModeOK, PlainTypes
<1>5. ~OnPartition(l) /\ OnLockHead(l) /\ ~Queued(l)
  BY <1>1, <1>2, <1>3, NoPartitions DEF ListInv, PlaceOK, Released, Scanning
<1>6. \A k \in Lockers : ~Scanning(k)
  BY <1>2, NoScanner DEF Acquires, Scanning
<1>7. \A k \in Lockers : SamePlace(k)
  BY <1>2 DEF SamePlace, OnPartition, OnLockHead, Queued
<1> QED BY <1>2, <1>3, <1>4, <1>5, <1>6, <1>7

\* The conversion must wait.
LEMMA ConversionWaitsKeeps ==
    ASSUME LockInv, NEW l \in Lockers, ConvertInBucket(l),
           Conflicts(target[l], GrantedWithout(l))
    PROVE  LockInv'
<1>1. PlainTypes /\ ModeInv /\ PartitionInv /\ BucketInv /\ WakeupInv /\ ModesShown
  BY InvParts
<1>2. /\ pc[l] = "convert" /\ status[l] = "granted" /\ count[l] > 1
      /\ mode[l] \in Modes /\ target[l] \in Modes /\ Covers(target[l], mode[l])
      /\ convertMode[l] = NoMode /\ ~notified[l]
      /\ ~OnPartition(l) /\ OnLockHead(l) /\ ~Queued(l)
      /\ partitions = <<>> /\ bucket \in {"free", l} /\ bucket' = "free"
      /\ target' = [target EXCEPT ![l] = NoMode]
      /\ global' = global /\ count' = count /\ partitioned' = partitioned
      /\ first' = first /\ notified' = notified /\ heads' = heads
      /\ existing' = existing /\ partitions' = partitions
      /\ grantedList' = grantedList /\ conflictList' = conflictList
      /\ conflictCounts' = conflictCounts /\ firsts' = firsts
      /\ scan' = scan /\ failed' = failed
      /\ \A k \in Lockers : ~Scanning(k)
      /\ \A k \in Lockers : SamePlace(k)
  BY ConvertInBucketCases
<1>3. /\ status' = [status EXCEPT ![l] = "converting"]
      /\ convertMode' = [convertMode EXCEPT ![l] = target[l]]
      /\ conversions' = conversions + 1
      /\ grantedCounts' = [grantedCounts EXCEPT ![target[l]] = @ + 1]
      /\ pc' = [pc EXCEPT ![l] = "wait"] /\ mode' = mode
  BY DEF ConvertInBucket, Inc, Go
<1>4. \A k \in Lockers : /\ status'[k] = IF k = l THEN "converting" ELSE status[k]
                         /\ convertMode'[k] = IF k = l THEN target[l] ELSE convertMode[k]
                         /\ pc'[k] = IF k = l THEN "wait" ELSE pc[k]
                         /\ target'[k] = IF k = l THEN NoMode ELSE target[k]
  BY <1>1, <1>2, <1>3 DEF PlainTypes
<1>5. \A k \in Lockers : /\ OnLockHead(k)' <=> OnLockHead(k)
                         /\ Queued(k)' <=> Queued(k)
                         /\ OnPartition(k)' <=> OnPartition(k)
  BY <1>2 DEF SamePlace
<1>6. PlainTypes'
  <2>1. /\ status' \in [Lockers -> {"none", "new", "granted", "waiting", "converting"}]
        /\ convertMode' \in [Lockers -> Modes \union {NoMode}]
        /\ target' \in [Lockers -> Modes \union {NoMode}]
        /\ pc' \in [Lockers -> {"idle", "lock", "convert", "wait", "cancel", "unlock",
                                "conversions", "grants"}]
        /\ grantedCounts' \in [Modes -> Int]
    BY <1>1, <1>2, <1>3 DEF PlainTypes
  <2> QED BY <1>1, <1>2, <1>3, <2>1 DEF PlainTypes
<1>7. \A k \in Lockers \ {l} : SameRequest(k) /\ SamePlace(k)
  BY <1>2, <1>3, <1>4 DEF SameRequest
<1>8. CountInv'
  <2>1. \A m \in Modes : grantedCounts'[m] = grantedCounts[m] + One(target[l] = m)
    BY <1>1, <1>2, <1>3 DEF PlainTypes, One
  <2>2. conversions \in Int /\ firsts \in Int
    BY DEF LockInv, TypeOK
  <2>3. \A m \in Modes : grantedCounts[m] \in Int /\ conflictCounts[m] \in Int
    BY <1>1 DEF PlainTypes
  <2>4. /\ OnLockHead(l)' /\ OnLockHead(l) /\ ~Queued(l)' /\ ~Queued(l)
        /\ mode'[l] = mode[l] /\ convertMode'[l] = target[l] /\ convertMode[l] = NoMode
        /\ status'[l] = "converting" /\ status[l] = "granted" /\ first'[l] = first[l]
        /\ conversions' = conversions + 1 /\ conflictCounts' = conflictCounts
        /\ firsts' = firsts /\ NoMode \notin Modes
    BY <1>2, <1>3, <1>4, <1>5, ConflictFacts
  <2>5. \A m \in Modes :
          /\ grantedCounts'[m] =
                grantedCounts[m] + One(OnLockHead(l)' /\ mode'[l] = m)
                    - One(OnLockHead(l) /\ mode[l] = m)
                    + One(convertMode'[l] = m) - One(convertMode[l] = m)
          /\ conflictCounts'[m] =
                conflictCounts[m] + One(Queued(l)' /\ mode'[l] = m)
                    - One(Queued(l) /\ mode[l] = m)
    BY <2>1, <2>3, <2>4 DEF One
  <2>6. conversions' = conversions + One(status'[l] = "converting")
                         - One(status[l] = "converting")
    BY <2>2, <2>4 DEF One
  <2>7. firsts' = firsts + One(OnLockHead(l)' /\ first'[l]) - One(OnLockHead(l) /\ first[l])
    BY <2>2, <2>4 DEF One
  <2> QED BY <1>7, <2>5, <2>6, <2>7, CountStep
<1>9. ModesShown'
  BY <1>8, CountersShowModes, PTL
<1>10. \A j \in Lockers : \A m \in Modes :
          Shows(j, m) => \E n \in Modes : Shows(j, n)' /\ Covers(n, m)
  BY <1>2, <1>3, <1>4, <1>5, ConflictFacts DEF Shows, Covers
<1>11. PartitionInv'
  BY <1>1, <1>2, LockerAssumption DEF PartitionInv
<1>12. BucketInv'
  <2>1. \A k \in Lockers : ~(pc'[k] = "unlock" /\ status'[k] = "converting")
    <3>1. \A k \in Lockers : bucket = k => k = l
      BY <1>2, LockerAssumption
    <3> QED BY <1>1, <1>2, <1>4, <3>1 DEF BucketInv
  <2> QED BY <1>1, <1>2, <1>4, <2>1 DEF BucketInv, Scanning
<1>13. HeldInv'
  <2>1. \A k \in Lockers : Held(k)' => Held(k) /\ mode'[k] = mode[k]
    BY <1>3, <1>5 DEF Held
  <2> QED BY <2>1, SameHeld
<1>14. WakeupInv'
  <2>1. FrontWaits /\ \A k \in Lockers : ConversionWaits(k)
    BY <1>1, <1>2 DEF WakeupInv
  <2>2. FrontWaits'
    <3>1. QueueOK' /\ QueueStays
      BY <1>1, <1>2, <1>7 DEF PlainTypes, QueueOK, QueueStays, Queued, SameRequest
    <3>2. CASE conflictList # <<>>
      <4>1. conflictList[1] \in Lockers \ {l}
        BY <1>2, <3>2, FrontMode
      <4> QED BY <1>2, <1>7, <1>9, <1>10, <2>1, <3>1, <3>2, <4>1, FrontStays
    <3> QED BY <1>2, <3>2 DEF FrontWaits
  <2>3. ASSUME NEW k \in Lockers
        PROVE  ConversionWaits(k)'
    <3>1. CASE k # l /\ status'[k] = "converting"
      <4>1. status[k] = "converting" /\ OnLockHead(k)' /\ convertMode'[k] = convertMode[k]
        BY <1>4, <1>5, <3>1, ConvertersOnLockHead
      <4>2. Conflicts(convertMode'[k], GrantedWithout(k)')
        BY <1>9, <1>10, <2>1, <4>1, ConversionStays
      <4> QED BY <4>2 DEF ConversionWaits
    <3>2. CASE k = l
      <4>1. PICK m \in Modes : m \in Conflicting[target[l]] /\ m \in GrantedWithout(l)
        BY DEF Conflicts, GrantedWithout
      <4>2. PICK j \in Lockers \ {l} : (OnLockHead(j) /\ mode[j] = m) \/ convertMode[j] = m
        BY <1>1, <1>2, <4>1 DEF ModesShown
      <4>3. (OnLockHead(j)' /\ mode'[j] = m) \/ convertMode'[j] = m
        BY <1>3, <1>4, <1>5, <4>2
      <4>4. m \in GrantedWithout(l)'
        BY <1>2, <1>5, <1>9, <4>2, <4>3 DEF ModesShown
      <4> QED BY <1>4, <3>2, <4>1, <4>4 DEF ConversionWaits, Conflicts
    <3> QED BY <3>1, <3>2 DEF ConversionWaits
  <2>4. \A k \in Lockers : ~Scanning(k)'
    BY <1>2, <1>4 DEF Scanning
  <2> QED BY <2>2, <2>3, <2>4 DEF WakeupInv, Scanning
<1>15. ThreadOK(l)'
  <2>1. pc'[l] = "wait" /\ count'[l] > 1 /\ status'[l] = "converting" /\ count'[l] \in Int
    BY <1>1, <1>2, <1>4 DEF PlainTypes
  <2> QED BY <2>1 DEF ThreadOK, Scanning
<1>16. ModeOK(l)'
  BY <1>1, <1>2, <1>3, <1>4, ConflictFacts DEF ModeInv, ModeOK
<1>17. PlaceOK(l)'
  BY <1>2, <1>4, <1>5 DEF PlaceOK, Released, Scanning
<1> QED
  BY <1>2, <1>6, <1>7, <1>8, <1>11, <1>12, <1>13, <1>14, <1>15, <1>16, <1>17, OneKeeps

\* The conversion is granted.
LEMMA ConversionGranted ==
    ASSUME LockInv, NEW l \in Lockers, ConvertInBucket(l),
           ~Conflicts(target[l], GrantedWithout(l))
    PROVE  LockInv'
<1>1. PlainTypes /\ ModeInv /\ PartitionInv /\ BucketInv /\ WakeupInv /\ ModesShown
  BY InvParts
<1>2. /\ pc[l] = "convert" /\ status[l] = "granted" /\ count[l] > 1
      /\ mode[l] \in Modes /\ target[l] \in Modes /\ Covers(target[l], mode[l])
      /\ convertMode[l] = NoMode /\ ~notified[l]
      /\ ~OnPartition(l) /\ OnLockHead(l) /\ ~Queued(l)
      /\ partitions = <<>> /\ bucket \in {"free", l} /\ bucket' = "free"
      /\ target' = [target EXCEPT ![l] = NoMode]
      /\ global' = global /\ count' = count /\ partitioned' = partitioned
      /\ first' = first /\ notified' = notified /\ heads' = heads
      /\ existing' = existing /\ partitions' = partitions
      /\ grantedList' = grantedList /\ conflictList' = conflictList
      /\ conflictCounts' = conflictCounts /\ firsts' = firsts
      /\ scan' = scan /\ failed' = failed
      /\ \A k \in Lockers : ~Scanning(k)
      /\ \A k \in Lockers : SamePlace(k)
  BY ConvertInBucketCases
<1>3. /\ mode' = [mode EXCEPT ![l] = target[l]]
      /\ grantedCounts' = Dec(Inc(grantedCounts, target[l]), mode[l])
      /\ pc' = [pc EXCEPT ![l] = "idle"]
      /\ status' = status /\ convertMode' = convertMode /\ conversions' = conversions
  BY DEF ConvertInBucket, Go
<1>4. \A k \in Lockers : /\ mode'[k] = IF k = l THEN target[l] ELSE mode[k]
                         /\ pc'[k] = IF k = l THEN "idle" ELSE pc[k]
                         /\ target'[k] = IF k = l THEN NoMode ELSE target[k]
  BY <1>1, <1>2, <1>3 DEF PlainTypes
<1>5. \A k \in Lockers : /\ OnLockHead(k)' <=> OnLockHead(k)
                         /\ Queued(k)' <=> Queued(k)
                         /\ OnPartition(k)' <=> OnPartition(k)
  BY <1>2 DEF SamePlace
<1>6. PlainTypes'
  <2>1. /\ mode' \in [Lockers -> Modes \union {NoMode}]
        /\ target' \in [Lockers -> Modes \union {NoMode}]
        /\ pc' \in [Lockers -> {"idle", "lock", "convert", "wait", "cancel", "unlock",
                                "conversions", "grants"}]
    BY <1>1, <1>2, <1>3 DEF PlainTypes
  <2>2. grantedCounts' \in [Modes -> Int]
    BY <1>1, <1>2, <1>3 DEF PlainTypes, Inc, Dec
  <2> QED BY <1>1, <1>2, <1>3, <2>1, <2>2 DEF PlainTypes
<1>7. \A k \in Lockers \ {l} : SameRequest(k) /\ SamePlace(k)
  BY <1>2, <1>3, <1>4 DEF SameRequest
<1>8. CountInv'
  <2>1. \A m \in Modes :
          grantedCounts'[m] = grantedCounts[m] + One(target[l] = m) - One(mode[l] = m)
    BY <1>1, <1>2, <1>3 DEF PlainTypes, One, Inc, Dec
  <2>2. conversions \in Int /\ firsts \in Int
    BY DEF LockInv, TypeOK
  <2>3. \A m \in Modes : grantedCounts[m] \in Int /\ conflictCounts[m] \in Int
    BY <1>1 DEF PlainTypes
  <2>4. /\ OnLockHead(l)' /\ OnLockHead(l) /\ ~Queued(l)' /\ ~Queued(l)
        /\ mode'[l] = target[l] /\ convertMode'[l] = NoMode /\ convertMode[l] = NoMode
        /\ status'[l] = "granted" /\ status[l] = "granted" /\ first'[l] = first[l]
        /\ conversions' = conversions /\ conflictCounts' = conflictCounts
        /\ firsts' = firsts /\ NoMode \notin Modes
    BY <1>2, <1>3, <1>4, <1>5, ConflictFacts
  <2>5. \A m \in Modes :
          /\ grantedCounts'[m] =
                grantedCounts[m] + One(OnLockHead(l)' /\ mode'[l] = m)
                    - One(OnLockHead(l) /\ mode[l] = m)
                    + One(convertMode'[l] = m) - One(convertMode[l] = m)
          /\ conflictCounts'[m] =
                conflictCounts[m] + One(Queued(l)' /\ mode'[l] = m)
                    - One(Queued(l) /\ mode[l] = m)
    BY <2>1, <2>3, <2>4 DEF One
  <2>6. conversions' = conversions + One(status'[l] = "converting")
                         - One(status[l] = "converting")
    BY <2>2, <2>4 DEF One
  <2>7. firsts' = firsts + One(OnLockHead(l)' /\ first'[l]) - One(OnLockHead(l) /\ first[l])
    BY <2>2, <2>4 DEF One
  <2> QED BY <1>7, <2>5, <2>6, <2>7, CountStep
<1>9. ModesShown'
  BY <1>8, CountersShowModes, PTL
<1>10. ASSUME NEW j \in Lockers, NEW m \in Modes, Shows(j, m)
       PROVE  \E n \in Modes : Shows(j, n)' /\ Covers(n, m)
  <2>1. CASE j = l
    <3>1. m = mode[l] /\ OnLockHead(l)' /\ mode'[l] = target[l]
      BY <1>2, <1>4, <1>5, <1>10, <2>1, ConflictFacts DEF Shows
    <3> QED BY <1>2, <2>1, <3>1 DEF Shows
  <2>2. CASE j # l
    BY <1>3, <1>4, <1>5, <1>10, <2>2 DEF Shows, Covers
  <2> QED BY <2>1, <2>2
<1>11. PartitionInv'
  BY <1>1, <1>2, LockerAssumption DEF PartitionInv
<1>12. BucketInv'
  <2>1. \A k \in Lockers : ~(pc'[k] = "unlock" /\ status'[k] = "converting")
    <3>1. \A k \in Lockers : bucket = k => k = l
      BY <1>2, LockerAssumption
    <3> QED BY <1>1, <1>2, <1>3, <1>4, <3>1 DEF BucketInv
  <2> QED BY <1>1, <1>2, <1>4, <2>1 DEF BucketInv, Scanning
<1>13. HeldInv'
  <2>1. ASSUME NEW k \in Lockers \ {l}, Held(k)
        PROVE  mode'[l] \in Modes /\ mode[k] \notin Conflicting[mode'[l]]
    <3>1. OnLockHead(k)
      BY <1>2, <2>1, NoPartitions DEF Held
    <3>2. mode[k] \in GrantedWithout(l)
      BY <1>2, <3>1, HeldShown
    <3> QED BY <1>2, <1>4, <3>2 DEF Conflicts
  <2> QED BY <1>7, <2>1, HeldStep
<1>14. WakeupInv'
  <2>1. FrontWaits /\ \A k \in Lockers : ConversionWaits(k)
    BY <1>1, <1>2 DEF WakeupInv
  <2>2. FrontWaits'
    <3>1. QueueOK' /\ QueueStays
      BY <1>1, <1>2, <1>7 DEF PlainTypes, QueueOK, QueueStays, Queued, SameRequest
    <3>2. CASE conflictList # <<>>
      <4>1. conflictList[1] \in Lockers \ {l}
        BY <1>2, <3>2, FrontMode
      <4> QED BY <1>2, <1>7, <1>9, <1>10, <2>1, <3>1, <3>2, <4>1, FrontStays
    <3> QED BY <1>2, <3>2 DEF FrontWaits
  <2>3. ASSUME NEW k \in Lockers, status'[k] = "converting"
        PROVE  Conflicts(convertMode'[k], GrantedWithout(k)')
    <3>1. status[k] = "converting" /\ OnLockHead(k)' /\ convertMode'[k] = convertMode[k]
      BY <1>3, <1>5, <2>3, ConvertersOnLockHead
    <3> QED BY <1>9, <1>10, <2>1, <3>1, ConversionStays
  <2>4. \A k \in Lockers : ~Scanning(k)'
    BY <1>2, <1>4 DEF Scanning
  <2> QED BY <2>2, <2>3, <2>4 DEF WakeupInv, Scanning, ConversionWaits
<1>15. ThreadOK(l)'
  <2>1. pc'[l] = "idle" /\ count'[l] > 1 /\ status'[l] = "granted" /\ count'[l] \in Int
    BY <1>1, <1>2, <1>3, <1>4 DEF PlainTypes
  <2> QED BY <2>1 DEF ThreadOK, Scanning
<1>16. ModeOK(l)'
  BY <1>1, <1>2, <1>3, <1>4, ConflictFacts DEF ModeInv, ModeOK
<1>17. PlaceOK(l)'
  BY <1>2, <1>3, <1>4, <1>5 DEF PlaceOK, Released, Scanning
<1> QED
  BY <1>2, <1>6, <1>7, <1>8, <1>11, <1>12, <1>13, <1>14, <1>15, <1>16, <1>17, OneKeeps

\* A conversion in the bucket keeps the invariant.
LEMMA ConvertInBucketKeeps ==
    ASSUME LockInv, NEW l \in Lockers, ConvertInBucket(l)
    PROVE  LockInv'
BY ConversionWaitsKeeps, ConversionGranted

-----------------------------------------------------------------------------
(* Steps that start a scan. *)

\* A scan begins with all conversions ahead of it, and with the queue ahead of it
\* unless the front of the queue must wait.
LEMMA ScanStarts ==
    ASSUME LockInv, NEW l \in Lockers, NEW c \in BOOLEAN, Acquires(l), ~Scanning(l),
           StartScan(l, c), \A k \in Lockers \ {l} : status'[k] = status[k],
           grantedList' \in Seq(Lockers), c \/ FrontWaits'
    PROVE  /\ bucket' \in Lockers \union {Cleaner, "free"} /\ bucket' # Cleaner
           /\ pc' \in [Lockers -> {"idle", "lock", "convert", "wait", "cancel", "unlock",
                                   "conversions", "grants"}]
           /\ \A k \in Lockers : pc'[k] = IF k = l THEN "conversions" ELSE pc[k]
           /\ BucketInv' /\ WakeupInv'
<1>1. PlainTypes /\ BucketInv
  BY InvParts
<1>2. /\ bucket' = l /\ pc' = [pc EXCEPT ![l] = "conversions"]
      /\ scan' = [cursor |-> 1, check |-> c, newly |-> FALSE]
  BY DEF StartScan, Go
<1>3. /\ bucket' \in Lockers \union {Cleaner, "free"} /\ bucket' # Cleaner
      /\ pc' \in [Lockers -> {"idle", "lock", "convert", "wait", "cancel", "unlock",
                              "conversions", "grants"}]
      /\ \A k \in Lockers : pc'[k] = IF k = l THEN "conversions" ELSE pc[k]
  BY <1>1, <1>2, LockerAssumption DEF PlainTypes
<1>4. \A k \in Lockers : ~Scanning(k)
  BY NoScanner
<1>5. \A k \in Lockers \ {l} : ~Scanning(k)' /\ pc'[k] \notin {"conversions", "grants"}
  BY <1>3, <1>4 DEF Scanning
<1>6. BucketInv'
  <2>1. ASSUME NEW k \in Lockers \ {l}, pc'[k] = "unlock", status'[k] = "converting"
        PROVE  FALSE
    <3>1. bucket = k
      BY <1>1, <1>3, <2>1 DEF BucketInv
    <3> QED BY <3>1, LockerAssumption DEF Acquires
  <2>2. scan' \in [cursor : Nat, check : BOOLEAN, newly : BOOLEAN] /\ scan'.cursor > 0
    BY <1>2
  <2> QED BY <1>2, <1>5, <2>1, <2>2 DEF BucketInv
<1>7. WakeupInv'
  <2>1. pc'[l] = "conversions" /\ Scanning(l)'
    BY <1>3 DEF Scanning
  <2>2. scan'.check = c /\ \A i \in DOMAIN grantedList' : ~(i < scan'.cursor)
    BY <1>2
  <2> QED BY <1>5, <2>1, <2>2 DEF WakeupInv
<1> QED BY <1>3, <1>6, <1>7

\* What a granted request is that is about to leave the lock head.
LEMMA ReleaseCases ==
    ASSUME LockInv, NEW l \in Lockers, ReleaseGranted(l)
    PROVE  /\ pc[l] = "unlock" /\ status[l] = "granted" /\ count[l] = 0 /\ Acquires(l)
           /\ mode[l] \in Modes /\ convertMode[l] = NoMode
           /\ ~OnPartition(l) /\ OnLockHead(l) /\ ~Queued(l)
           /\ grantedList' = Without(grantedList, l)
           /\ grantedCounts' = Dec(grantedCounts, mode[l])
           /\ firsts' = IF first[l] THEN firsts - 1 ELSE firsts
           /\ StartScan(l, FreedMode(mode[l]))
           /\ UNCHANGED <<global, request, notified, fastPath, partitions>>
           /\ UNCHANGED <<conflictList, conflictCounts, conversions, failed>>
<1>1. PlainTypes /\ ThreadInv /\ ModeInv /\ ListInv /\ CountInv /\ ModesShown
  BY InvParts
<1>2. pc[l] = "unlock" /\ status[l] = "granted" /\ Acquires(l)
  BY DEF ReleaseGranted
<1>3. count[l] = 0
  BY <1>1, <1>2 DEF ThreadInv, ThreadOK
<1>4. ~OnPartition(l) /\ OnLockHead(l) /\ ~Queued(l)
  BY <1>1, <1>2 DEF ListInv, PlaceOK, Released, Scanning
<1>5. mode[l] \in Modes /\ convertMode[l] = NoMode
  BY <1>1, <1>2 DEF ModeInv, ModeOK, PlainTypes
<1>6. ASSUME first[l]
      PROVE  ~(firsts = 0 \/ (firsts > 1 /\ Len(grantedList) = 1))
  <2>1. firsts # 0
    BY <1>1, <1>4, <1>6 DEF ModesShown
  <2>2. ASSUME Len(grantedList) = 1
        PROVE  firsts = 1
    <3>1. Range(grantedList) = {grantedList[1]}
      BY <1>1, <2>2 DEF PlainTypes, Range
    <3>2. {k \in Lockers : OnLockHead(k) /\ first[k]} = {l}
      BY <1>4, <1>6, <3>1 DEF OnLockHead
    <3>3. firsts = Cardinality({l})
      BY <1>1, <3>2 DEF CountInv
    <3> QED BY <3>3, FS_Singleton
  <2> QED BY <2>1, <2>2
<1> QED BY <1>2, <1>3, <1>4, <1>5, <1>6 DEF ReleaseGranted

\* A granted request is released.
LEMMA ReleaseGrantedKeeps ==
    ASSUME LockInv, NEW l \in Lockers, ReleaseGranted(l)
    PROVE  LockInv'
<1>1. PlainTypes /\ ModeInv /\ PartitionInv /\ WakeupInv /\ ModesShown
  BY InvParts
<1>2. /\ pc[l] = "unlock" /\ status[l] = "granted" /\ count[l] = 0 /\ Acquires(l)
      /\ mode[l] \in Modes /\ convertMode[l] = NoMode
      /\ ~OnPartition(l) /\ OnLockHead(l) /\ ~Queued(l)
      /\ grantedList' = Without(grantedList, l)
      /\ grantedCounts' = Dec(grantedCounts, mode[l])
      /\ firsts' = IF first[l] THEN firsts - 1 ELSE firsts
      /\ StartScan(l, FreedMode(mode[l]))
      /\ UNCHANGED <<global, request, notified, fastPath, partitions>>
      /\ UNCHANGED <<conflictList, conflictCounts, conversions, failed>>
  BY ReleaseCases
<1>3. /\ global' = global /\ status' = status /\ mode' = mode /\ convertMode' = convertMode
      /\ target' = target /\ count' = count /\ partitioned' = partitioned
      /\ first' = first /\ notified' = notified
      /\ heads' = heads /\ existing' = existing /\ partitions' = partitions
      /\ conflictList' = conflictList /\ conflictCounts' = conflictCounts
      /\ conversions' = conversions /\ failed' = failed
  BY <1>2 DEF request, fastPath
<1>4. /\ grantedList' \in Seq(Lockers) /\ IsInjective(grantedList')
      /\ Range(grantedList') = Range(grantedList) \ {l}
  BY <1>1, <1>2, WithoutFacts DEF PlainTypes, OnLockHead
<1>5. \A m \in Modes : grantedCounts'[m] = grantedCounts[m] - One(mode[l] = m)
  BY <1>1, <1>2 DEF PlainTypes, One, Dec
<1>6. FreedMode(mode[l]) \/ FrontWaits'
  <2>1. FrontWaits
    <3>1. \A k \in Lockers : ~Scanning(k)
      BY <1>2, NoScanner DEF Scanning
    <3> QED BY <1>1, <3>1 DEF WakeupInv
  <2>2. grantedCounts \in [Modes -> Nat] /\ grantedCounts[mode[l]] > 0
    <3>1. mode[l] \in GrantedModes
      BY <1>2, HeldShown
    <3> QED BY <3>1 DEF LockInv, TypeOK, GrantedModes
  <2>3. CASE ~FreedMode(mode[l])
    <3>1. \A m \in Modes : grantedCounts'[m] > 0 <=> grantedCounts[m] > 0
      BY <1>2, <1>5, <2>2, <2>3 DEF FreedMode, One
    <3>2. GrantedModes' = GrantedModes /\ ConflictModes' = ConflictModes
      BY <1>3, <3>1 DEF GrantedModes, ConflictModes
    <3> QED BY <1>3, <2>1, <3>2 DEF FrontWaits, PutBefore, Conflicts
  <2> QED BY <2>3
<1>7. /\ bucket' \in Lockers \union {Cleaner, "free"} /\ bucket' # Cleaner
      /\ pc' \in [Lockers -> {"idle", "lock", "convert", "wait", "cancel", "unlock",
                              "conversions", "grants"}]
      /\ \A k \in Lockers : pc'[k] = IF k = l THEN "conversions" ELSE pc[k]
      /\ BucketInv' /\ WakeupInv'
  <2>1. FreedMode(mode[l]) \in BOOLEAN /\ ~Scanning(l)
    BY <1>2 DEF FreedMode, Scanning
  <2> QED BY <1>2, <1>3, <1>4, <1>6, <2>1, ScanStarts
<1>8. \A k \in Lockers : /\ OnLockHead(k)' <=> OnLockHead(k) /\ k # l
                         /\ Queued(k)' <=> Queued(k)
                         /\ OnPartition(k)' <=> OnPartition(k)
  BY <1>3, <1>4 DEF OnLockHead, Queued, OnPartition
<1>9. PlainTypes'
  <2>1. grantedCounts' \in [Modes -> Int]
    BY <1>1, <1>2 DEF PlainTypes, Dec
  <2> QED BY <1>1, <1>3, <1>4, <1>7, <2>1 DEF PlainTypes
<1>10. \A k \in Lockers \ {l} : SameRequest(k) /\ SamePlace(k)
  BY <1>3, <1>7, <1>8 DEF SameRequest, SamePlace
<1>11. CountInv'
  <2>1. conversions \in Int /\ firsts \in Int
    BY DEF LockInv, TypeOK
  <2>2. \A m \in Modes : grantedCounts[m] \in Int /\ conflictCounts[m] \in Int
    BY <1>1 DEF PlainTypes
  <2>3. /\ ~OnLockHead(l)' /\ OnLockHead(l) /\ ~Queued(l)' /\ ~Queued(l)
        /\ convertMode'[l] = convertMode[l] /\ status'[l] = status[l]
        /\ first'[l] = first[l] /\ firsts' = IF first[l] THEN firsts - 1 ELSE firsts
        /\ conversions' = conversions /\ conflictCounts' = conflictCounts
    BY <1>2, <1>3, <1>8
  <2>4. \A m \in Modes :
          /\ grantedCounts'[m] =
                grantedCounts[m] + One(OnLockHead(l)' /\ mode'[l] = m)
                    - One(OnLockHead(l) /\ mode[l] = m)
                    + One(convertMode'[l] = m) - One(convertMode[l] = m)
          /\ conflictCounts'[m] =
                conflictCounts[m] + One(Queued(l)' /\ mode'[l] = m)
                    - One(Queued(l) /\ mode[l] = m)
    BY <1>5, <2>2, <2>3 DEF One
  <2>5. conversions' = conversions + One(status'[l] = "converting")
                         - One(status[l] = "converting")
    BY <2>1, <2>3 DEF One
  <2>6. firsts' = firsts + One(OnLockHead(l)' /\ first'[l]) - One(OnLockHead(l) /\ first[l])
    BY <2>1, <2>3 DEF One
  <2> QED BY <1>10, <2>4, <2>5, <2>6, CountStep
<1>12. PartitionInv'
  <2>1. \A m \in Modes : grantedCounts'[m] > 0 => grantedCounts[m] > 0
    <3>1. \A m \in Modes : grantedCounts[m] \in Int
      BY <1>1 DEF PlainTypes
    <3> QED BY <1>5, <3>1 DEF One
  <2>2. GrantedModes' \subseteq GrantedModes /\ ConflictModes' = ConflictModes
    BY <1>3, <2>1 DEF GrantedModes, ConflictModes
  <2> QED BY <1>1, <1>3, <1>7, <2>2 DEF PartitionInv
<1>13. HeldInv'
  <2>1. \A k \in Lockers : Held(k)' => Held(k) /\ mode'[k] = mode[k]
    BY <1>3, <1>8 DEF Held
  <2> QED BY <2>1, SameHeld
<1>14. ThreadOK(l)'
  <2>1. pc'[l] = "conversions" /\ count'[l] = 0 /\ status'[l] = "granted"
    BY <1>2, <1>3, <1>7
  <2> QED BY <2>1 DEF ThreadOK, Scanning
<1>15. ModeOK(l)'
  BY <1>1, <1>2, <1>3, <1>7 DEF ModeInv, ModeOK
<1>16. PlaceOK(l)'
  BY <1>2, <1>3, <1>7, <1>8 DEF PlaceOK, Released, Scanning
<1> QED
  BY <1>3, <1>7, <1>9, <1>10, <1>11, <1>12, <1>13, <1>14, <1>15, <1>16, OneKeeps

\* A request that waits is given up.
LEMMA CancelWaitingKeeps ==
    ASSUME LockInv, NEW l \in Lockers, CancelWaiting(l)
    PROVE  LockInv'
<1>1. PlainTypes /\ ThreadInv /\ ModeInv /\ ListInv /\ PartitionInv
  BY InvParts
<1>2. /\ pc[l] = "unlock" /\ Acquires(l) /\ status[l] = "waiting"
      /\ conflictList' = Without(conflictList, l)
      /\ conflictCounts' = Dec(conflictCounts, mode[l])
      /\ StartScan(l, TRUE)
      /\ global' = global /\ status' = status /\ mode' = mode /\ convertMode' = convertMode
      /\ target' = target /\ count' = count /\ partitioned' = partitioned
      /\ first' = first /\ notified' = notified
      /\ heads' = heads /\ existing' = existing /\ partitions' = partitions
      /\ grantedList' = grantedList /\ grantedCounts' = grantedCounts
      /\ conversions' = conversions /\ firsts' = firsts /\ failed' = failed
  BY DEF CancelWaiting, request, fastPath
<1>3. /\ count[l] = 0 /\ mode[l] \in Modes /\ convertMode[l] = NoMode
      /\ ~OnPartition(l) /\ ~OnLockHead(l) /\ Queued(l)
  <2>1. count[l] = 0
    BY <1>1, <1>2 DEF ThreadInv, ThreadOK
  <2>2. ~OnPartition(l) /\ ~OnLockHead(l) /\ Queued(l)
    BY <1>1, <1>2 DEF ListInv, PlaceOK, Released, Scanning
  <2>3. mode[l] \in Modes /\ convertMode[l] = NoMode
    BY <1>1, <1>2 DEF ModeInv, ModeOK, PlainTypes
  <2> QED BY <2>1, <2>2, <2>3
<1>4. /\ conflictList' \in Seq(Lockers) /\ IsInjective(conflictList')
      /\ Range(conflictList') = Range(conflictList) \ {l}
  BY <1>1, <1>2, <1>3, WithoutFacts DEF PlainTypes, Queued
<1>5. \A m \in Modes : conflictCounts'[m] = conflictCounts[m] - One(mode[l] = m)
  BY <1>1, <1>2, <1>3 DEF PlainTypes, One, Dec
<1>6. /\ bucket' \in Lockers \union {Cleaner, "free"} /\ bucket' # Cleaner
      /\ pc' \in [Lockers -> {"idle", "lock", "convert", "wait", "cancel", "unlock",
                              "conversions", "grants"}]
      /\ \A k \in Lockers : pc'[k] = IF k = l THEN "conversions" ELSE pc[k]
      /\ BucketInv' /\ WakeupInv'
  <2>1. ~Scanning(l) /\ grantedList' \in Seq(Lockers)
    BY <1>1, <1>2 DEF Scanning, PlainTypes
  <2> QED BY <1>2, <2>1, ScanStarts
<1>7. \A k \in Lockers : /\ OnLockHead(k)' <=> OnLockHead(k)
                         /\ Queued(k)' <=> Queued(k) /\ k # l
                         /\ OnPartition(k)' <=> OnPartition(k)
  BY <1>2, <1>4 DEF OnLockHead, Queued, OnPartition
<1>8. PlainTypes'
  <2>1. conflictCounts' \in [Modes -> Int]
    BY <1>1, <1>2, <1>3 DEF PlainTypes, Dec
  <2> QED BY <1>1, <1>2, <1>4, <1>6, <2>1 DEF PlainTypes
<1>9. \A k \in Lockers \ {l} : SameRequest(k) /\ SamePlace(k)
  BY <1>2, <1>6, <1>7 DEF SameRequest, SamePlace
<1>10. CountInv'
  <2>1. conversions \in Int /\ firsts \in Int
    BY DEF LockInv, TypeOK
  <2>2. \A m \in Modes : grantedCounts[m] \in Int /\ conflictCounts[m] \in Int
    BY <1>1 DEF PlainTypes
  <2>3. /\ ~OnLockHead(l)' /\ ~OnLockHead(l) /\ ~Queued(l)' /\ Queued(l)
        /\ convertMode'[l] = convertMode[l] /\ status'[l] = status[l]
        /\ first'[l] = first[l] /\ firsts' = firsts
        /\ conversions' = conversions /\ grantedCounts' = grantedCounts
    BY <1>2, <1>3, <1>7
  <2>4. \A m \in Modes :
          /\ grantedCounts'[m] =
                grantedCounts[m] + One(OnLockHead(l)' /\ mode'[l] = m)
                    - One(OnLockHead(l) /\ mode[l] = m)
                    + One(convertMode'[l] = m) - One(convertMode[l] = m)
          /\ conflictCounts'[m] =
                conflictCounts[m] + One(Queued(l)' /\ mode'[l] = m)
                    - One(Queued(l) /\ mode[l] = m)
    BY <1>5, <2>2, <2>3 DEF One
  <2>5. conversions' = conversions + One(status'[l] = "converting")
                         - One(status[l] = "converting")
    BY <2>1, <2>3 DEF One
  <2>6. firsts' = firsts + One(OnLockHead(l)' /\ first'[l]) - One(OnLockHead(l) /\ first[l])
    BY <2>1, <2>3 DEF One
  <2> QED BY <1>9, <2>4, <2>5, <2>6, CountStep
<1>11. PartitionInv'
  <2>1. \A m \in Modes : conflictCounts'[m] > 0 => conflictCounts[m] > 0
    <3>1. \A m \in Modes : conflictCounts[m] \in Int
      BY <1>1 DEF PlainTypes
    <3> QED BY <1>5, <3>1 DEF One
  <2>2. GrantedModes' = GrantedModes /\ ConflictModes' \subseteq ConflictModes
    BY <1>2, <2>1 DEF GrantedModes, ConflictModes
  <2> QED BY <1>1, <1>2, <1>6, <2>2 DEF PartitionInv
<1>12. HeldInv'
  <2>1. \A k \in Lockers : Held(k)' => Held(k) /\ mode'[k] = mode[k]
    BY <1>2, <1>7 DEF Held
  <2> QED BY <2>1, SameHeld
<1>13. ThreadOK(l)'
  <2>1. pc'[l] = "conversions" /\ count'[l] = 0 /\ status'[l] = "waiting"
    BY <1>2, <1>3, <1>6
  <2> QED BY <2>1 DEF ThreadOK, Scanning
<1>14. ModeOK(l)'
  BY <1>1, <1>2, <1>6 DEF ModeInv, ModeOK
<1>15. PlaceOK(l)'
  BY <1>2, <1>3, <1>6, <1>7 DEF PlaceOK, Released, Scanning
<1> QED
  BY <1>2, <1>6, <1>8, <1>9, <1>10, <1>11, <1>12, <1>13, <1>14, <1>15, OneKeeps

\* A conversion is given up.
LEMMA CancelConversionKeeps ==
    ASSUME LockInv, NEW l \in Lockers, CancelConversion(l)
    PROVE  LockInv'
<1>1. PlainTypes /\ ThreadInv /\ ModeInv /\ PartitionInv
  BY InvParts
<1>2. /\ pc[l] = "unlock" /\ Acquires(l) /\ status[l] = "converting"
      /\ status' = [status EXCEPT ![l] = "granted"]
      /\ conversions' = conversions - 1
      /\ grantedCounts' = Dec(grantedCounts, convertMode[l])
      /\ convertMode' = [convertMode EXCEPT ![l] = NoMode]
      /\ StartScan(l, TRUE)
      /\ global' = global /\ mode' = mode
      /\ target' = target /\ count' = count /\ partitioned' = partitioned
      /\ first' = first /\ notified' = notified
      /\ heads' = heads /\ existing' = existing /\ partitions' = partitions
      /\ grantedList' = grantedList /\ conflictList' = conflictList
      /\ conflictCounts' = conflictCounts /\ firsts' = firsts /\ failed' = failed
  BY DEF CancelConversion, fastPath
<1>3. /\ count[l] # 0 /\ mode[l] \in Modes /\ convertMode[l] \in Modes /\ ~notified[l]
      /\ ~OnPartition(l) /\ OnLockHead(l) /\ ~Queued(l)
  <2>1. count[l] # 0
    BY <1>1, <1>2 DEF ThreadInv, ThreadOK
  <2>2. ~OnPartition(l) /\ OnLockHead(l) /\ ~Queued(l)
    BY <1>2, ConvertersOnLockHead
  <2>3. mode[l] \in Modes /\ convertMode[l] \in Modes /\ ~notified[l]
    BY <1>1, <1>2 DEF ModeInv, ModeOK, PlainTypes
  <2> QED BY <2>1, <2>2, <2>3
<1>4. \A k \in Lockers : /\ status'[k] = IF k = l THEN "granted" ELSE status[k]
                         /\ convertMode'[k] = IF k = l THEN NoMode ELSE convertMode[k]
  BY <1>1, <1>2 DEF PlainTypes
<1>5. \A m \in Modes : grantedCounts'[m] = grantedCounts[m] - One(convertMode[l] = m)
  BY <1>1, <1>2, <1>3 DEF PlainTypes, One, Dec
<1>6. /\ bucket' \in Lockers \union {Cleaner, "free"} /\ bucket' # Cleaner
      /\ pc' \in [Lockers -> {"idle", "lock", "convert", "wait", "cancel", "unlock",
                              "conversions", "grants"}]
      /\ \A k \in Lockers : pc'[k] = IF k = l THEN "conversions" ELSE pc[k]
      /\ BucketInv' /\ WakeupInv'
  <2>1. ~Scanning(l) /\ grantedList' \in Seq(Lockers)
    BY <1>1, <1>2 DEF Scanning, PlainTypes
  <2> QED BY <1>2, <1>4, <2>1, ScanStarts
<1>7. \A k \in Lockers : /\ OnLockHead(k)' <=> OnLockHead(k)
                         /\ Queued(k)' <=> Queued(k)
                         /\ OnPartition(k)' <=> OnPartition(k)
  BY <1>2 DEF OnLockHead, Queued, OnPartition
<1>8. PlainTypes'
  <2>1. /\ status' \in [Lockers -> {"none", "new", "granted", "waiting", "converting"}]
        /\ convertMode' \in [Lockers -> Modes \union {NoMode}]
    BY <1>1, <1>2 DEF PlainTypes
  <2>2. grantedCounts' \in [Modes -> Int]
    BY <1>1, <1>2, <1>3 DEF PlainTypes, Dec
  <2> QED BY <1>1, <1>2, <1>6, <2>1, <2>2 DEF PlainTypes
<1>9. \A k \in Lockers \ {l} : SameRequest(k) /\ SamePlace(k)
  BY <1>2, <1>4, <1>6, <1>7 DEF SameRequest, SamePlace
<1>10. CountInv'
  <2>1. conversions \in Int /\ firsts \in Int
    BY DEF LockInv, TypeOK
  <2>2. \A m \in Modes : grantedCounts[m] \in Int /\ conflictCounts[m] \in Int
    BY <1>1 DEF PlainTypes
  <2>3. /\ OnLockHead(l)' /\ OnLockHead(l) /\ ~Queued(l)' /\ ~Queued(l)
        /\ convertMode'[l] = NoMode /\ status'[l] = "granted" /\ status[l] = "converting"
        /\ mode'[l] = mode[l] /\ first'[l] = first[l] /\ firsts' = firsts
        /\ conversions' = conversions - 1 /\ conflictCounts' = conflictCounts
        /\ NoMode \notin Modes
    BY <1>2, <1>3, <1>4, <1>7, ConflictFacts
  <2>4. \A m \in Modes :
          /\ grantedCounts'[m] =
                grantedCounts[m] + One(OnLockHead(l)' /\ mode'[l] = m)
                    - One(OnLockHead(l) /\ mode[l] = m)
                    + One(convertMode'[l] = m) - One(convertMode[l] = m)
          /\ conflictCounts'[m] =
                conflictCounts[m] + One(Queued(l)' /\ mode'[l] = m)
                    - One(Queued(l) /\ mode[l] = m)
    BY <1>5, <2>2, <2>3 DEF One
  <2>5. conversions' = conversions + One(status'[l] = "converting")
                         - One(status[l] = "converting")
    BY <2>1, <2>3 DEF One
  <2>6. firsts' = firsts + One(OnLockHead(l)' /\ first'[l]) - One(OnLockHead(l) /\ first[l])
    BY <2>1, <2>3 DEF One
  <2> QED BY <1>9, <2>4, <2>5, <2>6, CountStep
<1>11. PartitionInv'
  <2>1. \A m \in Modes : grantedCounts'[m] > 0 => grantedCounts[m] > 0
    <3>1. \A m \in Modes : grantedCounts[m] \in Int
      BY <1>1 DEF PlainTypes
    <3> QED BY <1>5, <3>1 DEF One
  <2>2. GrantedModes' \subseteq GrantedModes /\ ConflictModes' = ConflictModes
    BY <1>2, <2>1 DEF GrantedModes, ConflictModes
  <2> QED BY <1>1, <1>2, <1>6, <2>2 DEF PartitionInv
<1>12. HeldInv'
  <2>1. \A k \in Lockers : Held(k)' => Held(k) /\ mode'[k] = mode[k]
    BY <1>2, <1>7 DEF Held
  <2> QED BY <2>1, SameHeld
<1>13. ThreadOK(l)'
  <2>1. pc'[l] = "conversions" /\ count'[l] # 0 /\ status'[l] = "granted"
    BY <1>2, <1>3, <1>4, <1>6
  <2> QED BY <2>1 DEF ThreadOK, Scanning
<1>14. ModeOK(l)'
  BY <1>1, <1>2, <1>3, <1>4, <1>6, ConflictFacts DEF ModeInv, ModeOK
<1>15. PlaceOK(l)'
  BY <1>2, <1>3, <1>4, <1>6, <1>7 DEF PlaceOK, Released, Scanning
<1> QED
  BY <1>2, <1>6, <1>8, <1>9, <1>10, <1>11, <1>12, <1>13, <1>14, <1>15, OneKeeps

\* A request in X, which nobody else holds, goes down to another mode.
LEMMA DowngradeKeeps ==
    ASSUME LockInv, NEW l \in Lockers, NEW n \in RequestModes, Downgrade(l, n)
    PROVE  LockInv'
<1>1. PlainTypes /\ ThreadInv /\ ModeInv /\ ListInv /\ PartitionInv /\ HeldInv
  BY InvParts
<1>2. /\ pc[l] = "idle" /\ status[l] = "granted" /\ bucket = "free" /\ mode[l] = "X"
      /\ grantedCounts' = Dec(Inc(grantedCounts, n), mode[l])
      /\ mode' = [mode EXCEPT ![l] = n]
      /\ StartScan(l, TRUE)
      /\ global' = global /\ status' = status /\ convertMode' = convertMode
      /\ target' = target /\ count' = count /\ partitioned' = partitioned
      /\ first' = first /\ notified' = notified
      /\ heads' = heads /\ existing' = existing /\ partitions' = partitions
      /\ grantedList' = grantedList /\ conflictList' = conflictList
      /\ conversions' = conversions /\ firsts' = firsts
      /\ conflictCounts' = conflictCounts /\ failed' = failed
  BY DEF Downgrade, fastPath, queues
<1>3. /\ n \in Modes /\ mode[l] \in Modes /\ n # NoMode /\ count[l] # 0
      /\ convertMode[l] = NoMode
      /\ ~OnPartition(l) /\ OnLockHead(l) /\ ~Queued(l)
  <2>1. count[l] # 0
    BY <1>1, <1>2 DEF ThreadInv, ThreadOK
  <2>2. ~OnPartition(l) /\ OnLockHead(l) /\ ~Queued(l)
    BY <1>1, <1>2 DEF ListInv, PlaceOK, Released, Scanning, IntentModes
  <2>3. n \in Modes /\ mode[l] \in Modes /\ n # NoMode /\ convertMode[l] = NoMode
    BY <1>1, <1>2, ModeAssumption, ConflictFacts DEF ModeInv, ModeOK, PlainTypes
  <2> QED BY <2>1, <2>2, <2>3
<1>4. partitions = <<>>
  BY <1>1, <1>2, <1>3, HeldShown DEF PartitionInv, IntentModes
<1>5. \A m \in Modes :
        grantedCounts'[m] = grantedCounts[m] + One(n = m) - One(mode[l] = m)
  BY <1>1, <1>2, <1>3 DEF PlainTypes, One, Inc, Dec
<1>6. /\ bucket' \in Lockers \union {Cleaner, "free"} /\ bucket' # Cleaner
      /\ pc' \in [Lockers -> {"idle", "lock", "convert", "wait", "cancel", "unlock",
                              "conversions", "grants"}]
      /\ \A k \in Lockers : pc'[k] = IF k = l THEN "conversions" ELSE pc[k]
      /\ BucketInv' /\ WakeupInv'
  <2>1. ~Scanning(l) /\ grantedList' \in Seq(Lockers) /\ Acquires(l)
    BY <1>1, <1>2 DEF Scanning, PlainTypes, Acquires
  <2> QED BY <1>2, <2>1, ScanStarts
<1>7. \A k \in Lockers : /\ OnLockHead(k)' <=> OnLockHead(k)
                         /\ Queued(k)' <=> Queued(k)
                         /\ OnPartition(k)' <=> OnPartition(k)
                         /\ mode'[k] = IF k = l THEN n ELSE mode[k]
  BY <1>1, <1>2 DEF OnLockHead, Queued, OnPartition, PlainTypes
<1>8. PlainTypes'
  <2>1. mode' \in [Lockers -> Modes \union {NoMode}]
    BY <1>1, <1>2, <1>3 DEF PlainTypes
  <2>2. grantedCounts' \in [Modes -> Int]
    BY <1>1, <1>2, <1>3 DEF PlainTypes, Inc, Dec
  <2> QED BY <1>1, <1>2, <1>6, <2>1, <2>2 DEF PlainTypes
<1>9. \A k \in Lockers \ {l} : SameRequest(k) /\ SamePlace(k)
  BY <1>2, <1>6, <1>7 DEF SameRequest, SamePlace
<1>10. CountInv'
  <2>1. conversions \in Int /\ firsts \in Int
    BY DEF LockInv, TypeOK
  <2>2. \A m \in Modes : grantedCounts[m] \in Int /\ conflictCounts[m] \in Int
    BY <1>1 DEF PlainTypes
  <2>3. /\ OnLockHead(l)' /\ OnLockHead(l) /\ ~Queued(l)' /\ ~Queued(l)
        /\ convertMode'[l] = convertMode[l] /\ status'[l] = status[l]
        /\ mode'[l] = n /\ first'[l] = first[l] /\ firsts' = firsts
        /\ conversions' = conversions /\ conflictCounts' = conflictCounts
    BY <1>2, <1>3, <1>7
  <2>4. \A m \in Modes :
          /\ grantedCounts'[m] =
                grantedCounts[m] + One(OnLockHead(l)' /\ mode'[l] = m)
                    - One(OnLockHead(l) /\ mode[l] = m)
                    + One(convertMode'[l] = m) - One(convertMode[l] = m)
          /\ conflictCounts'[m] =
                conflictCounts[m] + One(Queued(l)' /\ mode'[l] = m)
                    - One(Queued(l) /\ mode[l] = m)
    BY <1>5, <2>2, <2>3 DEF One
  <2>5. conversions' = conversions + One(status'[l] = "converting")
                         - One(status[l] = "converting")
    BY <2>1, <2>3 DEF One
  <2>6. firsts' = firsts + One(OnLockHead(l)' /\ first'[l]) - One(OnLockHead(l) /\ first[l])
    BY <2>1, <2>3 DEF One
  <2> QED BY <1>9, <2>4, <2>5, <2>6, CountStep
<1>11. PartitionInv'
  BY <1>1, <1>2, <1>4, <1>6 DEF PartitionInv
<1>12. HeldInv'
  <2>1. ASSUME NEW k \in Lockers \ {l}, Held(k)
        PROVE  FALSE
    <3>1. OnLockHead(k)
      BY <1>4, <2>1, NoPartitions DEF Held
    <3>2. mode[k] \in Modes
      BY <3>1, HeldShown
    <3> QED BY <1>1, <1>2, <1>3, <2>1, <3>2, ConflictFacts DEF HeldInv, Held
  <2> QED BY <1>9, <2>1, HeldStep
<1>13. ThreadOK(l)'
  <2>1. pc'[l] = "conversions" /\ count'[l] # 0 /\ status'[l] = "granted"
    BY <1>2, <1>3, <1>6
  <2> QED BY <2>1 DEF ThreadOK, Scanning
<1>14. ModeOK(l)'
  BY <1>1, <1>2, <1>3, <1>6, <1>7 DEF ModeInv, ModeOK
<1>15. PlaceOK(l)'
  BY <1>2, <1>3, <1>6, <1>7 DEF PlaceOK, Released, Scanning
<1> QED
  BY <1>2, <1>6, <1>8, <1>9, <1>10, <1>11, <1>12, <1>13, <1>14, <1>15, OneKeeps

-----------------------------------------------------------------------------
(* Scans that look at one request. *)

\* The scan goes on past a request, and changes nothing else.
LEMMA ScanMoves ==
    ASSUME LockInv, NEW l \in Lockers, Scanning(l),
           UNCHANGED <<global, request, notified, pc, fastPath, lockHead, bucket, failed>>,
           scan' \in [cursor : Nat, check : BOOLEAN, newly : BOOLEAN], scan'.cursor > 0,
           pc[l] = "conversions" =>
              /\ scan'.check \/ FrontWaits
              /\ \A i \in DOMAIN grantedList :
                    i < scan'.cursor => ConversionWaits(grantedList[i]),
           pc[l] = "grants" =>
              IF ~scan'.check THEN FrontWaits ELSE scan'.cursor > 1 => FrontConflicts
    PROVE  LockInv'
<1>1. PlainTypes /\ ThreadInv /\ ModeInv /\ ListInv /\ BucketInv /\ WakeupInv
  BY InvParts
<1>2. /\ global' = global /\ status' = status /\ mode' = mode /\ convertMode' = convertMode
      /\ target' = target /\ count' = count /\ partitioned' = partitioned
      /\ first' = first /\ notified' = notified /\ pc' = pc
      /\ heads' = heads /\ existing' = existing /\ partitions' = partitions
      /\ grantedList' = grantedList /\ conflictList' = conflictList
      /\ grantedCounts' = grantedCounts /\ conflictCounts' = conflictCounts
      /\ conversions' = conversions /\ firsts' = firsts
      /\ bucket' = bucket /\ failed' = failed
  BY DEF request, fastPath, lockHead, queues, counters
<1>3. PlainTypes'
  BY <1>1, <1>2 DEF PlainTypes
<1>4. Quiet
  BY <1>2 DEF Quiet, queues, counters
<1>5. \A k \in Lockers : SameRequest(k) /\ SamePlace(k)
  BY <1>2 DEF SameRequest, SamePlace, OnPartition, OnLockHead, Queued
<1>6. BucketInv'
  BY <1>1, <1>2 DEF BucketInv, Scanning
<1>7. WakeupInv'
  <2>1. /\ FrontWaits' <=> FrontWaits
        /\ FrontConflicts' <=> FrontConflicts
        /\ \A k \in Lockers : ConversionWaits(k)' <=> ConversionWaits(k)
    BY <1>4, QuietFacts
  <2>2. \A i \in DOMAIN grantedList :
          ConversionWaits(grantedList[i])' <=> ConversionWaits(grantedList[i])
    BY <1>2 DEF ConversionWaits, Conflicts, GrantedWithout
  <2>3. \A k \in Lockers : Scanning(k)' => k = l
    BY <1>2, OneScan DEF Scanning
  <2>4. Scanning(l)'
    BY <1>2 DEF Scanning
  <2>5. pc[l] = "grants" => \A k \in Lockers : ConversionWaits(k)
    BY <1>1 DEF WakeupInv
  <2> QED BY <1>2, <2>1, <2>2, <2>3, <2>4, <2>5 DEF WakeupInv, Scanning
<1>8. ThreadOK(l)' /\ ModeOK(l)' /\ PlaceOK(l)'
  BY <1>2, <1>5, OthersKeep
<1> QED BY <1>2, <1>3, <1>4, <1>5, <1>6, <1>7, <1>8, LocalKeeps

\* The request that a scan of the granted list looks at.
LEMMA ScannedConversion ==
    ASSUME LockInv, NEW l \in Lockers, pc[l] = "conversions",
           scan.cursor <= Len(grantedList)
    PROVE  /\ scan.cursor \in DOMAIN grantedList
           /\ grantedList[scan.cursor] \in Lockers
           /\ OnLockHead(grantedList[scan.cursor])
<1>1. PlainTypes /\ BucketInv
  BY InvParts
<1>2. scan.cursor \in Nat /\ scan.cursor > 0
  BY <1>1 DEF BucketInv, Scanning
<1>3. scan.cursor \in DOMAIN grantedList
  BY <1>1, <1>2 DEF PlainTypes
<1> QED BY <1>1, <1>3 DEF PlainTypes, OnLockHead, Range

\* A conversion that has become possible is granted.
LEMMA TryConversionGrants ==
    ASSUME LockInv, NEW l \in Lockers, TryConversion(l),
           NEW r \in Lockers, r = grantedList[scan.cursor],
           status[r] = "converting", ~Conflicts(convertMode[r], GrantedWithout(r))
    PROVE  LockInv'
<1>1. /\ PlainTypes /\ ThreadInv /\ ModeInv /\ PartitionInv /\ BucketInv /\ WakeupInv
      /\ ModesShown
  BY InvParts
<1>2. /\ pc[l] = "conversions" /\ scan.cursor <= Len(grantedList)
      /\ scan' = [scan EXCEPT !.cursor = @ + 1]
      /\ conversions' = conversions - 1
      /\ grantedCounts' = Dec(grantedCounts, mode[r])
      /\ status' = [status EXCEPT ![r] = "granted"]
      /\ mode' = [mode EXCEPT ![r] = convertMode[r]]
      /\ convertMode' = [convertMode EXCEPT ![r] = NoMode]
      /\ notified' = [notified EXCEPT ![r] = TRUE]
      /\ global' = global /\ target' = target /\ count' = count
      /\ partitioned' = partitioned /\ first' = first /\ pc' = pc
      /\ heads' = heads /\ existing' = existing /\ partitions' = partitions
      /\ grantedList' = grantedList /\ conflictList' = conflictList
      /\ conflictCounts' = conflictCounts /\ firsts' = firsts
      /\ bucket' = bucket /\ failed' = failed
  BY DEF TryConversion, Notify, fastPath
<1>3. /\ OnLockHead(r) /\ ~OnPartition(r) /\ ~Queued(r) /\ ~Scanning(r) /\ r # l
      /\ mode[r] \in Modes /\ convertMode[r] \in Modes
      /\ Covers(convertMode[r], mode[r]) /\ pc[r] \in {"wait", "cancel"} /\ count[r] > 1
  <2>1. OnLockHead(r) /\ ~OnPartition(r) /\ ~Queued(r) /\ ~Scanning(r)
    BY ConvertersOnLockHead
  <2>2. r # l
    BY <1>2, <2>1 DEF Scanning
  <2>3. mode[r] \in Modes /\ convertMode[r] \in Modes /\ Covers(convertMode[r], mode[r])
    BY <1>1 DEF ModeInv, ModeOK, PlainTypes
  <2>4. pc[r] # "unlock"
    BY <1>1, <1>2, <2>2 DEF BucketInv, Scanning
  <2>5. pc[r] \in {"wait", "cancel"} /\ count[r] # 1 /\ count[r] > 0 /\ count[r] \in Int
    <3>1. /\ pc[r] \in {"idle", "lock", "convert", "wait", "cancel", "unlock",
                       "conversions", "grants"}
          /\ count[r] \in Int /\ ThreadOK(r)
      BY <1>1 DEF PlainTypes, ThreadInv
    <3>2. pc[r] \in {"wait", "cancel"}
      BY <2>1, <2>4, <3>1 DEF ThreadOK, Scanning
    <3> QED BY <3>1, <3>2 DEF ThreadOK
  <2> QED BY <2>1, <2>2, <2>3, <2>5
<1>4. \A k \in Lockers : /\ status'[k] = IF k = r THEN "granted" ELSE status[k]
                         /\ mode'[k] = IF k = r THEN convertMode[r] ELSE mode[k]
                         /\ convertMode'[k] = IF k = r THEN NoMode ELSE convertMode[k]
                         /\ notified'[k] = IF k = r THEN TRUE ELSE notified[k]
  BY <1>1, <1>2 DEF PlainTypes
<1>5. \A k \in Lockers : /\ OnLockHead(k)' <=> OnLockHead(k)
                         /\ Queued(k)' <=> Queued(k)
                         /\ OnPartition(k)' <=> OnPartition(k)
  BY <1>2 DEF OnLockHead, Queued, OnPartition
<1>6. PlainTypes'
  <2>1. /\ status' \in [Lockers -> {"none", "new", "granted", "waiting", "converting"}]
        /\ mode' \in [Lockers -> Modes \union {NoMode}]
        /\ convertMode' \in [Lockers -> Modes \union {NoMode}]
        /\ notified' \in [Lockers -> BOOLEAN]
    BY <1>1, <1>2, <1>3 DEF PlainTypes
  <2>2. grantedCounts' \in [Modes -> Int]
    BY <1>1, <1>2, <1>3, CounterFacts DEF PlainTypes
  <2> QED BY <1>1, <1>2, <2>1, <2>2 DEF PlainTypes
<1>7. \A k \in Lockers \ {r} : SameRequest(k) /\ SamePlace(k)
  BY <1>2, <1>4, <1>5 DEF SameRequest, SamePlace
<1>8. \A m \in Modes : grantedCounts'[m] = grantedCounts[m] - One(mode[r] = m)
  <2>1. /\ mode[r] \in Modes /\ grantedCounts \in [Modes -> Int]
        /\ grantedCounts' = Dec(grantedCounts, mode[r])
    BY <1>1, <1>2, <1>3 DEF PlainTypes
  <2> QED BY <2>1, CounterFacts DEF One
<1>9. CountInv'
  <2>1. conversions \in Int /\ firsts \in Int
    BY DEF LockInv, TypeOK
  <2>2. \A m \in Modes : grantedCounts[m] \in Int /\ conflictCounts[m] \in Int
    BY <1>1 DEF PlainTypes
  <2>3. /\ OnLockHead(r)' /\ OnLockHead(r) /\ ~Queued(r)' /\ ~Queued(r)
        /\ convertMode'[r] = NoMode /\ status'[r] = "granted" /\ status[r] = "converting"
        /\ mode'[r] = convertMode[r] /\ first'[r] = first[r] /\ firsts' = firsts
        /\ conversions' = conversions - 1 /\ conflictCounts' = conflictCounts
        /\ NoMode \notin Modes
    <3>1. NoMode \notin Modes
      BY ConflictFacts
    <3>2. /\ status'[r] = "granted" /\ mode'[r] = convertMode[r] /\ convertMode'[r] = NoMode
          /\ OnLockHead(r)' /\ ~Queued(r)'
      BY <1>3, <1>4, <1>5
    <3> QED BY <1>2, <1>3, <3>1, <3>2
  <2>4. \A m \in Modes :
          /\ grantedCounts'[m] =
                grantedCounts[m] + One(OnLockHead(r)' /\ mode'[r] = m)
                    - One(OnLockHead(r) /\ mode[r] = m)
                    + One(convertMode'[r] = m) - One(convertMode[r] = m)
          /\ conflictCounts'[m] =
                conflictCounts[m] + One(Queued(r)' /\ mode'[r] = m)
                    - One(Queued(r) /\ mode[r] = m)
    BY <1>8, <2>2, <2>3 DEF One
  <2>5. conversions' = conversions + One(status'[r] = "converting")
                         - One(status[r] = "converting")
    BY <2>1, <2>3 DEF One
  <2>6. firsts' = firsts + One(OnLockHead(r)' /\ first'[r]) - One(OnLockHead(r) /\ first[r])
    BY <2>1, <2>3 DEF One
  <2> QED BY <1>7, <2>4, <2>5, <2>6, CountStep
<1>10. ModesShown'
  BY <1>9, CountersShowModes, PTL
<1>11. ASSUME NEW j \in Lockers, NEW m \in Modes, Shows(j, m)
       PROVE  \E n \in Modes : Shows(j, n)' /\ Covers(n, m)
  <2>1. CASE j = r
    <3>1. /\ m = mode[r] \/ m = convertMode[r]
          /\ OnLockHead(r)' /\ mode'[r] = convertMode[r]
      BY <1>3, <1>4, <1>5, <1>11, <2>1 DEF Shows
    <3>2. Covers(convertMode[r], m)
      BY <1>3, <3>1 DEF Covers
    <3> QED BY <1>3, <2>1, <3>1, <3>2 DEF Shows
  <2>2. CASE j # r
    BY <1>4, <1>5, <1>11, <2>2 DEF Shows, Covers
  <2> QED BY <2>1, <2>2
<1>12. PartitionInv'
  <2>1. \A m \in Modes : grantedCounts'[m] > 0 => grantedCounts[m] > 0
    <3>1. \A m \in Modes : grantedCounts[m] \in Int
      BY <1>1 DEF PlainTypes
    <3> QED BY <1>8, <3>1 DEF One
  <2>2. GrantedModes' \subseteq GrantedModes /\ ConflictModes' = ConflictModes
    BY <1>2, <2>1 DEF GrantedModes, ConflictModes
  <2> QED BY <1>1, <1>2, <2>2 DEF PartitionInv
<1>13. scan.cursor \in Nat /\ scan.cursor > 0 /\ scan'.cursor = scan.cursor + 1
          /\ scan'.check = scan.check
          /\ scan' \in [cursor : Nat, check : BOOLEAN, newly : BOOLEAN]
  BY <1>1, <1>2 DEF BucketInv, Scanning
<1>14. BucketInv'
  <2>1. \A k \in Lockers : status'[k] = "converting" => status[k] = "converting"
    BY <1>4
  <2> QED BY <1>1, <1>2, <1>13, <2>1 DEF BucketInv, Scanning
<1>15. HeldInv'
  <2>1. ASSUME NEW k \in Lockers \ {r}, Held(k)
        PROVE  mode'[r] \in Modes /\ mode[k] \notin Conflicting[mode'[r]]
    <3>1. CASE OnLockHead(k)
      <4>1. mode[k] \in GrantedWithout(r)
        BY <1>3, <3>1, HeldShown
      <4> QED BY <1>3, <1>4, <4>1 DEF Conflicts
    <3>2. CASE OnPartition(k)
      <4>1. GrantedModes \subseteq IntentModes
        BY <1>1, <3>2, NoPartitions DEF PartitionInv
      <4>2. convertMode[r] \in IntentModes
        BY <1>1, <1>3, <4>1 DEF ModesShown
      <4>3. mode[k] \in IntentModes
        BY <2>1, <4>1, IntentsHeld
      <4> QED BY <1>3, <1>4, <4>2, <4>3, ConflictFacts
    <3> QED BY <2>1, <3>1, <3>2 DEF Held
  <2> QED BY <1>7, <2>1, HeldStep
<1>16. WakeupInv'
  <2>1. \A k \in Lockers : Scanning(k)' => k = l
    BY <1>2, OneScan DEF Scanning
  <2>2. pc'[l] = "conversions" /\ Scanning(l)'
    BY <1>2 DEF Scanning
  <2>3. FrontWaits => FrontWaits'
    <3>1. QueueOK' /\ QueueStays
      BY <1>1, <1>2, <1>3, <1>7 DEF PlainTypes, QueueOK, QueueStays, Queued, SameRequest
    <3>2. CASE conflictList # <<>>
      <4>1. conflictList[1] \in Lockers \ {r}
        BY <1>3, <3>2, FrontMode
      <4> QED BY <1>2, <1>7, <1>10, <1>11, <3>1, <3>2, <4>1, FrontStays
    <3> QED BY <1>2, <3>2 DEF FrontWaits
  <2>4. ASSUME NEW k \in Lockers, k = r \/ ConversionWaits(k)
        PROVE  status'[k] = "converting" => Conflicts(convertMode'[k], GrantedWithout(k)')
    <3> SUFFICES ASSUME status'[k] = "converting"
                 PROVE  Conflicts(convertMode'[k], GrantedWithout(k)')
      OBVIOUS
    <3>1. k # r /\ status[k] = "converting" /\ ConversionWaits(k)
      BY <1>4, <2>4
    <3>2. OnLockHead(k)' /\ convertMode'[k] = convertMode[k]
      BY <1>4, <1>5, <3>1, ConvertersOnLockHead
    <3> QED BY <1>10, <1>11, <3>1, <3>2, ConversionStays
  <2>a. ASSUME NEW i \in DOMAIN grantedList, i < scan'.cursor
        PROVE  ConversionWaits(grantedList[i])'
    <3>1. i \in Nat /\ grantedList[i] \in Lockers
      BY <1>1 DEF PlainTypes
    <3>2. i < scan.cursor \/ i = scan.cursor
      BY <1>13, <2>a, <3>1
    <3>3. grantedList[i] = r \/ ConversionWaits(grantedList[i])
      BY <1>1, <1>2, <3>2 DEF WakeupInv
    <3>4. PICK k \in Lockers : k = grantedList[i]
      BY <3>1
    <3>5. status'[k] = "converting" => Conflicts(convertMode'[k], GrantedWithout(k)')
      BY <2>4, <3>3, <3>4
    <3>6. grantedList'[i] = k
      BY <1>2, <3>4
    <3> QED BY <3>5, <3>6 DEF ConversionWaits, Conflicts, GrantedWithout
  <2>5. scan'.check \/ FrontWaits'
    BY <1>1, <1>2, <1>13, <2>3 DEF WakeupInv
  <2>6. \A i \in DOMAIN grantedList' :
          i < scan'.cursor => ConversionWaits(grantedList[i])'
    BY <1>2, <2>a
  <2> QED BY <2>1, <2>2, <2>5, <2>6 DEF WakeupInv, Scanning
<1>17. ThreadOK(r)'
  <2>1. pc'[r] \in {"wait", "cancel"} /\ count'[r] > 1 /\ status'[r] = "granted"
           /\ count'[r] \in Int
    BY <1>1, <1>2, <1>3, <1>4 DEF PlainTypes
  <2> QED BY <2>1 DEF ThreadOK, Scanning
<1>18. ModeOK(r)'
  <2>1. /\ mode'[r] # NoMode /\ convertMode'[r] = NoMode /\ status'[r] = "granted"
        /\ pc'[r] \in {"wait", "cancel"}
    <3>1. NoMode \notin Modes
      BY ConflictFacts
    <3>2. mode'[r] = convertMode[r] /\ convertMode'[r] = NoMode /\ status'[r] = "granted"
      BY <1>4
    <3> QED BY <1>2, <1>3, <3>1, <3>2
  <2>2. (partitioned'[r] => ~first'[r]) /\ (first'[r] => global')
    BY <1>1, <1>2 DEF ModeInv, ModeOK
  <2> QED BY <2>1, <2>2 DEF ModeOK
<1>19. PlaceOK(r)'
  BY <1>2, <1>3, <1>4, <1>5 DEF PlaceOK, Released, Scanning
<1> QED
  BY <1>2, <1>6, <1>7, <1>9, <1>12, <1>14, <1>15, <1>16, <1>17, <1>18, <1>19, OneKeeps

\* One request of the granted list is looked at.
LEMMA TryConversionKeeps ==
    ASSUME LockInv, NEW l \in Lockers, TryConversion(l)
    PROVE  LockInv'
<1> DEFINE r == grantedList[scan.cursor]
<1>1. BucketInv /\ WakeupInv
  BY InvParts
<1>2. pc[l] = "conversions" /\ scan.cursor <= Len(grantedList)
         /\ scan' = [scan EXCEPT !.cursor = @ + 1]
  BY DEF TryConversion
<1>3. scan.cursor \in DOMAIN grantedList /\ r \in Lockers /\ OnLockHead(r)
  BY <1>2, ScannedConversion
<1>4. CASE status[r] = "converting" /\ ~Conflicts(convertMode[r], GrantedWithout(r))
  BY <1>3, <1>4, TryConversionGrants
<1>5. CASE ~(status[r] = "converting" /\ ~Conflicts(convertMode[r], GrantedWithout(r)))
  <2>1. UNCHANGED <<global, request, notified, pc, fastPath, lockHead, bucket, failed>>
    BY <1>5 DEF TryConversion, request, fastPath, lockHead, queues, counters
  <2>2. /\ scan.cursor \in Nat /\ scan'.cursor = scan.cursor + 1
        /\ scan'.check = scan.check
        /\ scan' \in [cursor : Nat, check : BOOLEAN, newly : BOOLEAN]
    BY <1>1, <1>2 DEF BucketInv, Scanning
  <2>3. ConversionWaits(r)
    BY <1>5 DEF ConversionWaits
  <2> HIDE DEF r
  <2>4. scan.check \/ FrontWaits
    BY <1>1, <1>2 DEF WakeupInv
  <2>5. ASSUME NEW i \in DOMAIN grantedList, i < scan'.cursor
        PROVE  ConversionWaits(grantedList[i])
    <3>1. i < scan.cursor \/ i = scan.cursor
      <4>1. i \in Nat
        BY InvParts DEF PlainTypes
      <4> QED BY <2>2, <2>5, <4>1
    <3> QED BY <1>1, <1>2, <2>3, <3>1 DEF WakeupInv, r
  <2> QED BY <1>2, <2>1, <2>2, <2>4, <2>5, ScanMoves DEF Scanning
<1> QED BY <1>4, <1>5

\* The request that a scan of the conflict queue looks at.
LEMMA ScannedRequest ==
    ASSUME LockInv, NEW l \in Lockers, pc[l] = "grants", scan.cursor <= Len(conflictList)
    PROVE  /\ scan.cursor \in DOMAIN conflictList /\ conflictList # <<>>
           /\ conflictList[scan.cursor] \in Lockers
           /\ Queued(conflictList[scan.cursor])
<1>1. PlainTypes /\ BucketInv
  BY InvParts
<1>2. scan.cursor \in Nat /\ scan.cursor > 0
  BY <1>1 DEF BucketInv, Scanning
<1>3. scan.cursor \in DOMAIN conflictList /\ conflictList # <<>>
  BY <1>1, <1>2 DEF PlainTypes
<1> QED BY <1>1, <1>3 DEF PlainTypes, Queued, Range

\* What a request of the conflict queue is.
LEMMA QueuedRequest ==
    ASSUME LockInv, NEW r \in Lockers, Queued(r)
    PROVE  /\ status[r] = "waiting" /\ ~Scanning(r) /\ ~OnPartition(r) /\ ~OnLockHead(r)
           /\ mode[r] \in Modes /\ convertMode[r] = NoMode
           /\ \/ pc[r] \in {"wait", "cancel"} /\ count[r] = 1
              \/ pc[r] = "unlock" /\ count[r] = 0
<1>1. PlainTypes /\ ThreadInv /\ ModeInv /\ ListInv
  BY InvParts
<1>2. ThreadOK(r) /\ ModeOK(r) /\ PlaceOK(r)
  BY <1>1 DEF ThreadInv, ModeInv, ListInv
<1>3. status[r] = "waiting" /\ ~Released(r)
  BY <1>2 DEF PlaceOK
<1>4. ~Scanning(r)
  BY <1>2, <1>3 DEF ThreadOK, Released
<1>5. ~OnPartition(r) /\ ~OnLockHead(r)
  BY <1>2, <1>3 DEF PlaceOK
<1>6. mode[r] \in Modes /\ convertMode[r] = NoMode
  BY <1>1, <1>2, <1>3 DEF ModeOK, PlainTypes
<1>7. pc[r] \in {"idle", "lock", "convert", "wait", "cancel", "unlock",
                 "conversions", "grants"}
  BY <1>1 DEF PlainTypes
<1>8. \/ pc[r] \in {"wait", "cancel"} /\ count[r] = 1
      \/ pc[r] = "unlock" /\ count[r] = 0
  BY <1>2, <1>3, <1>4, <1>7 DEF ThreadOK, Scanning
<1> QED BY <1>3, <1>4, <1>5, <1>6, <1>8

\* A request of the queue that conflicts with no granted mode is granted.
LEMMA TryGrantGrants ==
    ASSUME LockInv, NEW l \in Lockers, TryGrant(l),
           NEW r \in Lockers, r = conflictList[scan.cursor],
           ~Conflicts(mode[r], GrantedModes)
    PROVE  LockInv'
<1>1. PlainTypes /\ ModeInv /\ PartitionInv /\ BucketInv /\ WakeupInv /\ ModesShown
  BY InvParts
<1>2. /\ pc[l] = "grants" /\ scan.check /\ scan.cursor <= Len(conflictList)
      /\ status' = [status EXCEPT ![r] = "granted"]
      /\ conflictList' = Without(conflictList, r)
      /\ conflictCounts' = Dec(conflictCounts, mode[r])
      /\ grantedList' = Append(grantedList, r)
      /\ grantedCounts' = Inc(grantedCounts, mode[r])
      /\ firsts' = IF first[r] THEN firsts + 1 ELSE firsts
      /\ scan' = [scan EXCEPT !.check = mode[r] # "X",
                              !.newly = @ \/ (first[r] /\ firsts = 0)]
      /\ notified' = [notified EXCEPT ![r] = TRUE]
      /\ global' = global /\ mode' = mode /\ convertMode' = convertMode
      /\ target' = target /\ count' = count
      /\ partitioned' = partitioned /\ first' = first /\ pc' = pc
      /\ heads' = heads /\ existing' = existing /\ partitions' = partitions
      /\ conversions' = conversions /\ bucket' = bucket /\ failed' = failed
  BY DEF TryGrant, Notify, fastPath
<1>3. scan.cursor \in DOMAIN conflictList /\ conflictList # <<>> /\ Queued(r)
  BY <1>2, ScannedRequest
<1>4. /\ status[r] = "waiting" /\ ~Scanning(r) /\ ~OnPartition(r) /\ ~OnLockHead(r)
      /\ mode[r] \in Modes /\ convertMode[r] = NoMode
      /\ \/ pc[r] \in {"wait", "cancel"} /\ count[r] = 1
         \/ pc[r] = "unlock" /\ count[r] = 0
  BY <1>3, QueuedRequest
<1>5. partitions = <<>> /\ bucket # Cleaner
  BY <1>1, <1>3, EmptyLists DEF PartitionInv
<1>6. /\ conflictList' \in Seq(Lockers) /\ IsInjective(conflictList')
      /\ Range(conflictList') = Range(conflictList) \ {r}
      /\ conflictList[1] # r => conflictList' # <<>> /\ conflictList'[1] = conflictList[1]
  BY <1>1, <1>2, <1>3, WithoutFacts DEF PlainTypes, Queued
<1>7. /\ grantedList' \in Seq(Lockers) /\ IsInjective(grantedList')
      /\ Range(grantedList') = Range(grantedList) \union {r}
  BY <1>1, <1>2, <1>4, AppendFacts DEF PlainTypes, OnLockHead
<1>8. \A k \in Lockers : /\ status'[k] = IF k = r THEN "granted" ELSE status[k]
                         /\ notified'[k] = IF k = r THEN TRUE ELSE notified[k]
                         /\ OnLockHead(k)' <=> OnLockHead(k) \/ k = r
                         /\ Queued(k)' <=> Queued(k) /\ k # r
                         /\ OnPartition(k)' <=> OnPartition(k)
  BY <1>1, <1>2, <1>6, <1>7 DEF PlainTypes, OnLockHead, Queued, OnPartition
<1>9. PlainTypes'
  <2>1. /\ status' \in [Lockers -> {"none", "new", "granted", "waiting", "converting"}]
        /\ notified' \in [Lockers -> BOOLEAN]
    BY <1>1, <1>2 DEF PlainTypes
  <2>2. grantedCounts' \in [Modes -> Int] /\ conflictCounts' \in [Modes -> Int]
    BY <1>1, <1>2, <1>4, CounterFacts DEF PlainTypes
  <2> QED BY <1>1, <1>2, <1>6, <1>7, <2>1, <2>2 DEF PlainTypes
<1>10. \A k \in Lockers \ {r} : SameRequest(k) /\ SamePlace(k)
  BY <1>2, <1>8 DEF SameRequest, SamePlace
<1>11. CountInv'
  <2>1. conversions \in Int /\ firsts \in Int
    BY DEF LockInv, TypeOK
  <2>2. \A m \in Modes : grantedCounts[m] \in Int /\ conflictCounts[m] \in Int
    BY <1>1 DEF PlainTypes
  <2>3. \A m \in Modes : /\ grantedCounts'[m] = grantedCounts[m] + One(mode[r] = m)
                         /\ conflictCounts'[m] = conflictCounts[m] - One(mode[r] = m)
    <3>1. /\ mode[r] \in Modes
          /\ grantedCounts \in [Modes -> Int] /\ conflictCounts \in [Modes -> Int]
          /\ grantedCounts' = Inc(grantedCounts, mode[r])
          /\ conflictCounts' = Dec(conflictCounts, mode[r])
      BY <1>1, <1>2, <1>4 DEF PlainTypes
    <3> QED BY <3>1, CounterFacts DEF One
  <2>4. /\ OnLockHead(r)' /\ ~OnLockHead(r) /\ ~Queued(r)' /\ Queued(r)
        /\ convertMode'[r] = convertMode[r] /\ status'[r] = "granted"
        /\ status[r] = "waiting" /\ mode'[r] = mode[r] /\ first'[r] = first[r]
        /\ firsts' = IF first[r] THEN firsts + 1 ELSE firsts
        /\ conversions' = conversions
    BY <1>2, <1>3, <1>4, <1>8
  <2>5. \A m \in Modes :
          /\ grantedCounts'[m] =
                grantedCounts[m] + One(OnLockHead(r)' /\ mode'[r] = m)
                    - One(OnLockHead(r) /\ mode[r] = m)
                    + One(convertMode'[r] = m) - One(convertMode[r] = m)
          /\ conflictCounts'[m] =
                conflictCounts[m] + One(Queued(r)' /\ mode'[r] = m)
                    - One(Queued(r) /\ mode[r] = m)
    BY <2>2, <2>3, <2>4 DEF One
  <2>6. conversions' = conversions + One(status'[r] = "converting")
                         - One(status[r] = "converting")
    BY <2>1, <2>4 DEF One
  <2>7. firsts' = firsts + One(OnLockHead(r)' /\ first'[r]) - One(OnLockHead(r) /\ first[r])
    BY <2>1, <2>4 DEF One
  <2> QED BY <1>10, <2>5, <2>6, <2>7, CountStep
<1>12. ModesShown'
  BY <1>11, CountersShowModes, PTL
<1>13. \A j \in Lockers : \A m \in Modes :
          Shows(j, m) => \E n \in Modes : Shows(j, n)' /\ Covers(n, m)
  BY <1>2, <1>8 DEF Shows, Covers
<1>14. PartitionInv'
  BY <1>1, <1>2, <1>5 DEF PartitionInv
<1>15. /\ scan.cursor \in Nat /\ scan.cursor > 0 /\ scan'.cursor = scan.cursor
       /\ scan'.check <=> mode[r] # "X"
       /\ scan' \in [cursor : Nat, check : BOOLEAN, newly : BOOLEAN]
  <2> DEFINE c == mode[r] # "X"
             n == scan.newly \/ (first[r] /\ firsts = 0)
  <2>1. c \in BOOLEAN /\ n \in BOOLEAN
    OBVIOUS
  <2>2. scan' = [scan EXCEPT !.check = c, !.newly = n]
    BY <1>2
  <2>3. scan \in [cursor : Nat, check : BOOLEAN, newly : BOOLEAN] /\ scan.cursor > 0
    BY <1>1, <1>2 DEF BucketInv, Scanning
  <2> HIDE DEF c, n
  <2>4. scan'.cursor = scan.cursor /\ scan'.check = c
            /\ scan' \in [cursor : Nat, check : BOOLEAN, newly : BOOLEAN]
    BY <2>1, <2>2, <2>3
  <2> QED BY <2>3, <2>4 DEF c
<1>16. BucketInv'
  <2>1. \A k \in Lockers : status'[k] = "converting" => status[k] = "converting"
    BY <1>8
  <2> QED BY <1>1, <1>2, <1>15, <2>1 DEF BucketInv, Scanning
<1>17. HeldInv'
  <2>1. ASSUME NEW k \in Lockers \ {r}, Held(k)
        PROVE  mode'[r] \in Modes /\ mode[k] \notin Conflicting[mode'[r]]
    <3>1. OnLockHead(k)
      BY <1>5, <2>1, NoPartitions DEF Held
    <3>2. mode[k] \in GrantedModes
      BY <3>1, HeldShown
    <3> QED BY <1>2, <1>4, <3>2 DEF Conflicts
  <2> QED BY <1>10, <2>1, HeldStep
<1>18. WakeupInv'
  <2>1. \A k \in Lockers : Scanning(k)' => k = l
    BY <1>2, OneScan DEF Scanning
  <2>2. pc'[l] = "grants" /\ Scanning(l)'
    BY <1>2 DEF Scanning
  <2>3. ASSUME NEW k \in Lockers, status'[k] = "converting"
        PROVE  Conflicts(convertMode'[k], GrantedWithout(k)')
    <3>1. status[k] = "converting" /\ ConversionWaits(k)
      BY <1>1, <1>2, <1>8, <2>3 DEF WakeupInv
    <3>2. OnLockHead(k)' /\ convertMode'[k] = convertMode[k]
      BY <1>2, <1>8, <3>1, ConvertersOnLockHead
    <3> QED BY <1>12, <1>13, <3>1, <3>2, ConversionStays
  <2>4. ASSUME mode[r] = "X"
        PROVE  FrontWaits'
    <3>1. CASE conflictList' # <<>>
      <4>1. PICK k \in Lockers : k = conflictList'[1] /\ Queued(k)'
        BY <1>6, <3>1, EmptyFacts DEF Queued
      <4>2. mode'[k] \in Modes
        BY <1>2, <1>8, <4>1, QueuedRequest
      <4>3. "X" \in GrantedModes'
        <5>1. OnLockHead(r)' /\ mode'[r] = "X" /\ "X" \in Modes
          BY <1>2, <1>4, <1>8, <2>4
        <5>2. \A m \in Modes : (\E j \in Lockers : OnLockHead(j)' /\ mode'[j] = m)
                                => m \in GrantedModes'
          BY <1>12 DEF ModesShown
        <5> QED BY <5>1, <5>2
      <4>4. Conflicts(mode'[k], GrantedModes')
        BY <4>2, <4>3, ConflictFacts DEF Conflicts
      <4> QED BY <4>1, <4>4 DEF FrontWaits, Conflicts
    <3> QED BY <3>1 DEF FrontWaits
  <2>5. ASSUME scan.cursor > 1
        PROVE  FrontConflicts'
    <3>1. conflictList[1] # r
      BY <1>1, <1>3, <2>5 DEF PlainTypes, IsInjective
    <3>2. conflictList[1] \in Lockers \ {r} /\ FrontConflicts
      BY <1>1, <1>2, <1>3, <2>5, <3>1, FrontMode DEF WakeupInv
    <3> QED BY <1>3, <1>6, <1>10, <1>12, <1>13, <3>1, <3>2, FrontStays
  <2> QED
    BY <1>15, <2>1, <2>2, <2>3, <2>4, <2>5 DEF WakeupInv, Scanning, ConversionWaits
<1>19. ThreadOK(r)'
  <2>1. /\ status'[r] = "granted"
        /\ \/ pc'[r] \in {"wait", "cancel"} /\ count'[r] = 1
           \/ pc'[r] = "unlock" /\ count'[r] = 0
    BY <1>2, <1>4, <1>8
  <2> QED BY <2>1 DEF ThreadOK, Scanning
<1>20. ModeOK(r)'
  <2>1. /\ mode'[r] # NoMode /\ convertMode'[r] = NoMode /\ status'[r] = "granted"
        /\ pc'[r] \in {"wait", "cancel", "unlock"}
    <3>1. NoMode \notin Modes
      BY ConflictFacts
    <3> QED BY <1>2, <1>4, <1>8, <3>1
  <2>2. (partitioned'[r] => ~first'[r]) /\ (first'[r] => global')
    BY <1>1, <1>2 DEF ModeInv, ModeOK
  <2> QED BY <2>1, <2>2 DEF ModeOK
<1>21. PlaceOK(r)'
  <2>1. /\ ~Queued(r)' /\ OnLockHead(r)' /\ ~OnPartition(r)' /\ status'[r] = "granted"
        /\ pc'[r] \in {"wait", "cancel", "unlock"}
    BY <1>2, <1>4, <1>8
  <2> QED BY <2>1 DEF PlaceOK, Released, Scanning
<1> QED
  BY <1>2, <1>9, <1>10, <1>11, <1>14, <1>16, <1>17, <1>18, <1>19, <1>20, <1>21, OneKeeps

\* One request of the queue is looked at.
LEMMA TryGrantKeeps ==
    ASSUME LockInv, NEW l \in Lockers, TryGrant(l)
    PROVE  LockInv'
<1> DEFINE r == conflictList[scan.cursor]
<1>1. BucketInv /\ WakeupInv
  BY InvParts
<1>2. pc[l] = "grants" /\ scan.check /\ scan.cursor <= Len(conflictList)
  BY DEF TryGrant
<1>3. r \in Lockers
  BY <1>2, ScannedRequest
<1>4. CASE ~Conflicts(mode[r], GrantedModes)
  BY <1>3, <1>4, TryGrantGrants
<1>5. CASE Conflicts(mode[r], GrantedModes)
  <2>1. UNCHANGED <<global, request, notified, pc, fastPath, lockHead, bucket, failed>>
    BY <1>5 DEF TryGrant, request, fastPath, lockHead, queues, counters
  <2>2. scan' = IF StopsAt THEN [scan EXCEPT !.check = FALSE]
                ELSE [scan EXCEPT !.cursor = @ + 1]
    BY <1>5 DEF TryGrant
  <2>3. scan \in [cursor : Nat, check : BOOLEAN, newly : BOOLEAN] /\ scan.cursor > 0
    BY <1>1, <1>2 DEF BucketInv, Scanning
  <2>4. FrontConflicts
    <3>1. CASE scan.cursor = 1
      BY <1>5, <3>1 DEF FrontConflicts
    <3>2. CASE scan.cursor > 1
      BY <1>1, <1>2, <3>2 DEF WakeupInv
    <3> QED BY <2>3, <3>1, <3>2
  <2>5. FrontWaits
    BY <2>4 DEF FrontConflicts, FrontWaits
  <2>6. scan' \in [cursor : Nat, check : BOOLEAN, newly : BOOLEAN] /\ scan'.cursor > 0
    <3>1. CASE StopsAt
      <4>1. scan' = [scan EXCEPT !.check = FALSE]
        BY <2>2, <3>1
      <4> QED BY <2>3, <4>1
    <3>2. CASE ~StopsAt
      <4>1. scan' = [scan EXCEPT !.cursor = @ + 1]
        BY <2>2, <3>2
      <4> QED BY <2>3, <4>1
    <3> QED BY <3>1, <3>2
  <2> QED BY <1>2, <2>1, <2>4, <2>5, <2>6, ScanMoves DEF Scanning
<1> QED BY <1>4, <1>5

-----------------------------------------------------------------------------
(* Migration *)

\* The requests of a partition are compatible with all that is granted and with one
\* another, so that migratePartitionedLockHeads does not fail.
LEMMA MigrateCases ==
    ASSUME LockInv, partitions # <<>>, Migrate, NEW p, p = Last(partitions)
    PROVE  /\ p \in Partitions /\ heads[p] \in Seq(Lockers) /\ IsInjective(heads[p])
           /\ \A k \in Lockers : k \in Range(heads[p]) <=> OnPartition(k) /\ PartitionOf[k] = p
           /\ grantedList' = grantedList \o heads[p]
           /\ grantedCounts' = [m \in Modes |-> grantedCounts[m] + Holding(heads[p], m)]
           /\ firsts' = firsts
           /\ heads' = [heads EXCEPT ![p] = <<>>]
           /\ existing' = existing \ {p}
           /\ partitions' = Front(partitions)
           /\ conflictList' = conflictList /\ conflictCounts' = conflictCounts
           /\ conversions' = conversions /\ failed' = failed
<1>1. PlainTypes /\ ModeInv /\ ListInv /\ PartitionInv
  BY InvParts
<1>2. p \in Partitions
  BY <1>1, FrontFacts DEF PlainTypes
<1>3. heads[p] \in Seq(Lockers) /\ IsInjective(heads[p])
         /\ \A k \in Range(heads[p]) : PartitionOf[k] = p
  BY <1>1, <1>2 DEF PlainTypes, ListInv
<1>4. \A k \in Lockers : k \in Range(heads[p]) <=> OnPartition(k) /\ PartitionOf[k] = p
  BY <1>3 DEF OnPartition
<1>5. GrantedModes \subseteq IntentModes /\ ConflictModes = {}
  BY <1>1 DEF PartitionInv
<1>6. ASSUME NEW i \in DOMAIN heads[p]
      PROVE  ~MustWait(heads[p][i])
  <2>1. PICK k \in Lockers : k = heads[p][i] /\ OnPartition(k)
    BY <1>3, <1>4 DEF Range
  <2>2. mode[k] \in IntentModes
    BY <1>1, <2>1 DEF ListInv, PlaceOK
  <2>3. ~Conflicts(mode[k], GrantedModes) /\ ~Conflicts(mode[k], ConflictModes)
    BY <1>5, <2>2, ConflictFacts DEF Conflicts
  <2> QED BY <2>1, <2>3 DEF MustWait
<1>7. /\ grantedList' = grantedList \o heads[p]
      /\ grantedCounts' = [m \in Modes |-> grantedCounts[m] + Holding(heads[p], m)]
      /\ firsts' = firsts + Cardinality({i \in DOMAIN heads[p] : first[heads[p][i]]})
      /\ heads' = [heads EXCEPT ![p] = <<>>]
      /\ existing' = existing \ {p}
      /\ partitions' = Front(partitions)
      /\ conflictList' = conflictList /\ conflictCounts' = conflictCounts
      /\ conversions' = conversions /\ failed' = failed
  BY <1>5, <1>6 DEF Migrate
<1>8. firsts' = firsts
  <2>1. ASSUME NEW i \in DOMAIN heads[p]
        PROVE  ~first[heads[p][i]]
    <3>1. PICK k \in Lockers : k = heads[p][i] /\ OnPartition(k)
      BY <1>3, <1>4 DEF Range
    <3> QED BY <1>1, <3>1 DEF ListInv, PlaceOK, ModeInv, ModeOK
  <2>2. {i \in DOMAIN heads[p] : first[heads[p][i]]} = {}
    BY <2>1
  <2>3. firsts' = firsts + Cardinality({})
    BY <1>7, <2>2
  <2>4. firsts \in Nat
    BY DEF LockInv, TypeOK
  <2> QED BY <2>3, <2>4, FS_EmptySet
<1> QED BY <1>2, <1>3, <1>4, <1>7, <1>8

\* The counters after a migration.
LEMMA MigrateCounts ==
    ASSUME LockInv, partitions # <<>>, Migrate, NEW p, p = Last(partitions),
           mode' = mode, convertMode' = convertMode, status' = status, first' = first,
           \A k \in Lockers : /\ Queued(k)' <=> Queued(k)
                              /\ OnLockHead(k)' <=> OnLockHead(k) \/ k \in Range(heads[p]),
           \A k \in Lockers : ~(OnLockHead(k) /\ k \in Range(heads[p]))
    PROVE  CountInv'
<1> DEFINE h == heads[p]
<1>1. PlainTypes /\ ModeInv /\ ListInv /\ CountInv
  BY InvParts
<1>2. /\ h \in Seq(Lockers) /\ IsInjective(h)
      /\ \A k \in Lockers : k \in Range(h) => OnPartition(k)
      /\ \A m \in Modes : grantedCounts'[m] = grantedCounts[m] + Holding(h, m)
      /\ conflictCounts' = conflictCounts /\ conversions' = conversions
      /\ firsts' = firsts
  BY MigrateCases
<1> HIDE DEF h
<1>3. Range(h) \subseteq Lockers /\ \A i \in DOMAIN h : h[i] \in Range(h)
  BY <1>2 DEF Range
<1>4. ASSUME NEW m \in Modes
      PROVE  /\ grantedCounts'[m] = Cardinality(HoldersIn(m)') + Cardinality(ConvertersTo(m)')
             /\ conflictCounts'[m] = Cardinality(QueuedIn(m)')
  <2> DEFINE M == {k \in Range(h) : mode[k] = m}
  <2>1. M \in SUBSET Range(h) /\ M \in SUBSET Lockers /\ HoldersIn(m) \in SUBSET Lockers
           /\ ConvertersTo(m) \in SUBSET Lockers
    BY <1>3 DEF HoldersIn, ConvertersTo
  <2>2. HoldersIn(m) \intersect M = {}
    BY DEF HoldersIn, h
  <2>3. HoldersIn(m)' = HoldersIn(m) \union M
    BY <1>3 DEF HoldersIn, h
  <2>4. ConvertersTo(m)' = ConvertersTo(m) /\ QueuedIn(m)' = QueuedIn(m)
    BY DEF ConvertersTo, QueuedIn
  <2>5. {i \in DOMAIN h : mode[h[i]] = m} = {i \in DOMAIN h : h[i] \in M}
    BY <1>3
  <2>6. Holding(h, m) = Cardinality({i \in DOMAIN h : h[i] \in M})
    BY <2>5 DEF Holding
  <2> HIDE DEF M
  <2>7. Holding(h, m) = Cardinality(M)
    BY <1>2, <2>1, <2>6, PositionsCount
  <2>8. Cardinality(HoldersIn(m)') = Cardinality(HoldersIn(m)) + Cardinality(M)
    BY <2>1, <2>2, <2>3, LockerUnion
  <2>9. Cardinality(M) \in Nat /\ Cardinality(HoldersIn(m)) \in Nat
           /\ Cardinality(ConvertersTo(m)) \in Nat
    BY <2>1, LockerSets
  <2>10. /\ grantedCounts[m] = Cardinality(HoldersIn(m)) + Cardinality(ConvertersTo(m))
         /\ conflictCounts[m] = Cardinality(QueuedIn(m))
    BY <1>1 DEF CountInv
  <2> QED BY <1>2, <2>4, <2>7, <2>8, <2>9, <2>10
<1>5. conversions' = Cardinality({k \in Lockers : status'[k] = "converting"})
  BY <1>1, <1>2 DEF CountInv
<1>6. firsts' = Cardinality({k \in Lockers : OnLockHead(k)' /\ first'[k]})
  <2>1. \A k \in Lockers : k \in Range(h) => ~first[k]
    BY <1>1, <1>2 DEF ListInv, PlaceOK, ModeInv, ModeOK
  <2> DEFINE S == {k \in Lockers : OnLockHead(k) /\ first[k]}
             T == {k \in Lockers : OnLockHead(k)' /\ first'[k]}
  <2>2. T = S
    BY <2>1 DEF h
  <2>3. firsts = Cardinality(S)
    BY <1>1 DEF CountInv
  <2> HIDE DEF S
  <2> QED BY <1>2, <2>2, <2>3
<1> QED BY <1>4, <1>5, <1>6 DEF CountInv

\* The requests of a partition move to the lock head.
LEMMA MigrateKeeps ==
    ASSUME LockInv, partitions # <<>>, Migrate, NEW b \in Lockers \union {Cleaner},
           Acquires(b), b \in Lockers => ~Scanning(b),
           bucket' = IF failed' = "none" THEN b ELSE bucket,
           UNCHANGED <<global, request, notified, pc, scan>>
    PROVE  LockInv'
<1> DEFINE p == Last(partitions)
<1>1. /\ PlainTypes /\ NeverFails /\ ThreadInv /\ ModeInv /\ ListInv /\ PartitionInv
      /\ BucketInv /\ WakeupInv /\ ModesShown
  BY InvParts
<1>2. /\ p \in Partitions /\ heads[p] \in Seq(Lockers) /\ IsInjective(heads[p])
      /\ \A k \in Lockers : k \in Range(heads[p]) <=> OnPartition(k) /\ PartitionOf[k] = p
      /\ grantedList' = grantedList \o heads[p]
      /\ grantedCounts' = [m \in Modes |-> grantedCounts[m] + Holding(heads[p], m)]
      /\ heads' = [heads EXCEPT ![p] = <<>>]
      /\ existing' = existing \ {p}
      /\ partitions' = Front(partitions)
      /\ conflictList' = conflictList /\ conflictCounts' = conflictCounts
      /\ conversions' = conversions /\ failed' = failed
  BY MigrateCases
<1>3. /\ global' = global /\ status' = status /\ mode' = mode /\ convertMode' = convertMode
      /\ target' = target /\ count' = count /\ partitioned' = partitioned
      /\ first' = first /\ notified' = notified /\ pc' = pc /\ scan' = scan
      /\ bucket' = b
  BY <1>1, <1>2 DEF request, NeverFails
<1>4. GrantedModes \subseteq IntentModes /\ ConflictModes = {} /\ conflictList = <<>>
  BY <1>1, EmptyLists DEF PartitionInv
<1>5. \A k \in Lockers : ~(OnLockHead(k) /\ k \in Range(heads[p]))
  BY <1>1, <1>2 DEF ListInv, PlaceOK
<1>6. /\ Front(partitions) \in Seq(Partitions)
      /\ Range(partitions) \subseteq Range(Front(partitions)) \union {p}
  BY <1>1, FrontFacts DEF PlainTypes
<1> HIDE DEF p
<1>7. /\ grantedList' \in Seq(Lockers) /\ IsInjective(grantedList')
      /\ Range(grantedList') = Range(grantedList) \union Range(heads[p])
  <2>1. Range(grantedList) \intersect Range(heads[p]) = {}
    BY <1>1, <1>5, EmptyFacts DEF OnLockHead, PlainTypes
  <2> QED BY <1>1, <1>2, <2>1, ConcatFacts DEF PlainTypes
<1>8. \A q \in Partitions : heads'[q] = IF q = p THEN <<>> ELSE heads[q]
  BY <1>1, <1>2 DEF PlainTypes
<1>9. ASSUME NEW k \in Lockers
      PROVE  /\ OnPartition(k)' <=> OnPartition(k) /\ PartitionOf[k] # p
             /\ OnLockHead(k)' <=> OnLockHead(k) \/ k \in Range(heads[p])
             /\ Queued(k)' <=> Queued(k)
  <2>1. PartitionOf[k] \in Partitions
    BY PartitionAssumption
  <2>2. OnPartition(k)' <=> OnPartition(k) /\ PartitionOf[k] # p
    BY <1>8, <2>1 DEF OnPartition, Range
  <2> QED BY <1>2, <1>7, <2>2 DEF OnLockHead, Queued
<1>10. \A k \in Lockers : Held(k)' <=> Held(k)
  BY <1>2, <1>9 DEF Held
<1>11. CountInv'
  BY <1>3, <1>5, <1>9, MigrateCounts DEF p
<1>12. ModesShown'
  BY <1>11, CountersShowModes, PTL
<1>13. PlainTypes'
  <2>1. heads' \in [Partitions -> Seq(Lockers)] /\ existing' \subseteq Partitions
           /\ partitions' \in Seq(Partitions)
    BY <1>1, <1>2, <1>6 DEF PlainTypes
  <2>2. grantedCounts' \in [Modes -> Int]
    <3>1. \A m \in Modes : grantedCounts'[m] \in Int
      <4> TAKE m \in Modes
      <4>1. HoldersIn(m)' \in SUBSET Lockers /\ ConvertersTo(m)' \in SUBSET Lockers
        BY DEF HoldersIn, ConvertersTo
      <4>2. Cardinality(HoldersIn(m)') \in Nat /\ Cardinality(ConvertersTo(m)') \in Nat
        BY <4>1, LockerSets
      <4>3. grantedCounts'[m] = Cardinality(HoldersIn(m)') + Cardinality(ConvertersTo(m)')
        BY <1>11 DEF CountInv
      <4> QED BY <4>2, <4>3
    <3> QED BY <1>2, <3>1
  <2> QED BY <1>1, <1>2, <1>3, <1>7, <2>1, <2>2 DEF PlainTypes
<1>14. ThreadInv' /\ ModeInv'
  BY <1>1, <1>3 DEF ThreadInv, ThreadOK, ModeInv, ModeOK, Scanning
<1>15. ListInv'
  <2>1. ASSUME NEW q \in Partitions
        PROVE  IsInjective(heads'[q]) /\ \A k \in Range(heads'[q]) : PartitionOf[k] = q
    <3>1. CASE q = p
      BY <1>8, <3>1 DEF IsInjective, Range
    <3>2. CASE q # p
      BY <1>1, <1>8, <3>2 DEF ListInv
    <3> QED BY <3>1, <3>2
  <2>2. ASSUME NEW k \in Lockers
        PROVE  PlaceOK(k)'
    <3>1. PlaceOK(k)
      BY <1>1 DEF ListInv
    <3>2. /\ OnPartition(k)' \/ OnLockHead(k)' <=> OnPartition(k) \/ OnLockHead(k)
          /\ OnPartition(k)' => OnPartition(k) /\ ~OnLockHead(k)'
          /\ Queued(k)' <=> Queued(k)
      BY <1>2, <1>9, <3>1 DEF PlaceOK
    <3> QED BY <1>3, <3>1, <3>2 DEF PlaceOK, Released, Scanning
  <2> QED BY <2>1, <2>2 DEF ListInv
<1>16. PartitionInv'
  <2>1. existing' \subseteq Range(partitions')
    BY <1>1, <1>2, <1>6 DEF PartitionInv
  <2>2. \A q \in Partitions : heads'[q] # <<>> => q \in existing'
    BY <1>1, <1>2, <1>8 DEF PartitionInv
  <2>3. ASSUME NEW m \in GrantedModes'
        PROVE  m \in IntentModes
    <3>1. m \in Modes
      BY DEF GrantedModes
    <3>2. PICK k \in Lockers : (OnLockHead(k)' /\ mode[k] = m) \/ convertMode[k] = m
      BY <1>3, <1>12, <3>1 DEF ModesShown
    <3>3. CASE OnLockHead(k)' /\ mode[k] = m
      BY <1>4, <1>10, <3>3, IntentsHeld DEF Held
    <3>4. CASE convertMode[k] = m
      BY <1>1, <1>4, <3>1, <3>4 DEF ModesShown
    <3> QED BY <3>2, <3>3, <3>4
  <2>4. ConflictModes' = {}
    BY <1>2, <1>4 DEF ConflictModes
  <2> QED BY <2>1, <2>2, <2>3, <2>4 DEF PartitionInv
<1>17. \A k \in Lockers : ~Scanning(k)
  BY NoScanner
<1>18. BucketInv'
  <2>1. ASSUME NEW k \in Lockers, pc[k] = "unlock", status[k] = "converting"
        PROVE  b = k
    BY <1>1, <2>1, LockerAssumption DEF BucketInv, Acquires
  <2> QED BY <1>1, <1>3, <1>17, <2>1 DEF BucketInv, Scanning
<1>19. HeldInv'
  BY <1>3, <1>10, SameHeld
<1>20. WakeupInv'
  <2>1. FrontWaits'
    BY <1>2, <1>4 DEF FrontWaits
  <2>2. \A j \in Lockers : \A m \in Modes :
          Shows(j, m) => \E n \in Modes : Shows(j, n)' /\ Covers(n, m)
    BY <1>3, <1>9 DEF Shows, Covers
  <2>3. ASSUME NEW k \in Lockers, status'[k] = "converting"
        PROVE  Conflicts(convertMode'[k], GrantedWithout(k)')
    <3>1. status[k] = "converting" /\ ConversionWaits(k)
      BY <1>1, <1>3, <1>17, <2>3 DEF WakeupInv
    <3>2. OnLockHead(k)' /\ convertMode'[k] = convertMode[k]
      BY <1>3, <1>9, <3>1, ConvertersOnLockHead
    <3> QED BY <1>12, <2>2, <3>1, <3>2, ConversionStays
  <2>4. \A k \in Lockers : ~Scanning(k)'
    BY <1>3, <1>17 DEF Scanning
  <2> QED BY <2>1, <2>3, <2>4 DEF WakeupInv, Scanning, ConversionWaits
<1>21. NeverFails'
  BY <1>1, <1>2 DEF NeverFails
<1>22. LockInv'
  BY <1>11, <1>13, <1>14, <1>15, <1>16, <1>18, <1>19, <1>20, <1>21, PartsInv, PTL
<1> QED BY <1>22

-----------------------------------------------------------------------------
(* The theorems *)

\* The invariant holds at the start.
LEMMA InitKeeps == Init => LockInv
<1> SUFFICES ASSUME Init
             PROVE  LockInv
  OBVIOUS
<1>1. PlainTypes
  <2>1. /\ status = [l \in Lockers |-> "none"] /\ pc = [l \in Lockers |-> "idle"]
        /\ mode = [l \in Lockers |-> NoMode] /\ convertMode = [l \in Lockers |-> NoMode]
        /\ target = [l \in Lockers |-> NoMode] /\ count = [l \in Lockers |-> 0]
        /\ partitioned = [l \in Lockers |-> FALSE] /\ first = [l \in Lockers |-> FALSE]
        /\ notified = [l \in Lockers |-> FALSE]
    BY DEF Init
  <2>2. /\ global \in BOOLEAN /\ heads = [p \in Partitions |-> <<>>] /\ existing = {}
        /\ partitions = <<>> /\ grantedList = <<>> /\ conflictList = <<>>
        /\ grantedCounts = [m \in Modes |-> 0] /\ conflictCounts = [m \in Modes |-> 0]
        /\ bucket = "free"
    BY GlobalAssumption DEF Init
  <2>3. IsInjective(<<>>)
    BY DEF IsInjective
  <2>4. count \in [Lockers -> 0..MaxRecursion]
    BY <2>1, RecursionAssumption
  <2>5. /\ status \in [Lockers -> {"none", "new", "granted", "waiting", "converting"}]
        /\ mode \in [Lockers -> Modes \union {NoMode}]
        /\ convertMode \in [Lockers -> Modes \union {NoMode}]
        /\ target \in [Lockers -> Modes \union {NoMode}]
        /\ partitioned \in [Lockers -> BOOLEAN] /\ first \in [Lockers -> BOOLEAN]
        /\ notified \in [Lockers -> BOOLEAN]
        /\ pc \in [Lockers -> {"idle", "lock", "convert", "wait", "cancel", "unlock",
                               "conversions", "grants"}]
    BY <2>1
  <2>6. /\ heads \in [Partitions -> Seq(Lockers)] /\ existing \subseteq Partitions
        /\ partitions \in Seq(Partitions)
        /\ grantedList \in Seq(Lockers) /\ conflictList \in Seq(Lockers)
        /\ grantedCounts \in [Modes -> Int] /\ conflictCounts \in [Modes -> Int]
        /\ bucket \in Lockers \union {Cleaner, "free"}
    BY <2>2
  <2> QED BY <2>2, <2>3, <2>4, <2>5, <2>6 DEF PlainTypes
<1>2. \A l \in Lockers : ~OnPartition(l) /\ ~OnLockHead(l) /\ ~Queued(l) /\ ~Scanning(l)
  <2>1. \A p \in Partitions : heads[p] = <<>>
    BY DEF Init
  <2>2. grantedList = <<>> /\ conflictList = <<>> /\ Range(<<>>) = {}
    BY DEF Init, Range
  <2>3. \A l \in Lockers : pc[l] = "idle"
    BY DEF Init
  <2> QED BY <2>1, <2>2, <2>3, PartitionAssumption DEF OnPartition, OnLockHead, Queued, Scanning
<1>3. \A l \in Lockers : /\ pc[l] = "idle" /\ status[l] = "none" /\ count[l] = 0
                         /\ mode[l] = NoMode /\ convertMode[l] = NoMode
                         /\ ~notified[l] /\ ~partitioned[l] /\ ~first[l]
  BY DEF Init
<1>4. ThreadInv
  BY <1>3 DEF ThreadInv, ThreadOK, Scanning
<1>5. ModeInv
  BY <1>3 DEF ModeInv, ModeOK
<1>6. ListInv
  <2>1. \A p \in Partitions : heads[p] = <<>>
    BY DEF Init
  <2>2. IsInjective(<<>>) /\ Range(<<>>) = {}
    BY DEF IsInjective, Range
  <2>3. \A l \in Lockers : PlaceOK(l)
    BY <1>2, <1>3 DEF PlaceOK
  <2> QED BY <2>1, <2>2, <2>3 DEF ListInv
<1>7. CountInv
  <2>1. Cardinality({}) = 0
    BY FS_EmptySet
  <2>2. ASSUME NEW m \in Modes
        PROVE  HoldersIn(m) = {} /\ ConvertersTo(m) = {} /\ QueuedIn(m) = {}
    BY <1>2, <1>3, ConflictFacts DEF HoldersIn, ConvertersTo, QueuedIn
  <2>3. /\ \A m \in Modes : grantedCounts[m] = 0 /\ conflictCounts[m] = 0
        /\ conversions = 0 /\ firsts = 0
    BY DEF Init
  <2>4. /\ {l \in Lockers : status[l] = "converting"} = {}
        /\ {l \in Lockers : OnLockHead(l) /\ first[l]} = {}
    BY <1>2, <1>3
  <2> QED BY <2>1, <2>2, <2>3, <2>4 DEF CountInv
<1>8. PartitionInv
  BY LockerAssumption DEF Init, PartitionInv, Range
<1>9. BucketInv
  BY <1>2, <1>3 DEF Init, BucketInv, NoScan
<1>10. HeldInv
  BY <1>2 DEF HeldInv, Held
<1>11. WakeupInv
  BY <1>2, <1>3 DEF Init, WakeupInv, FrontWaits, ConversionWaits, Scanning
<1>12. NeverFails
  BY DEF Init, NeverFails
<1> QED
  BY <1>1, <1>4, <1>5, <1>6, <1>7, <1>8, <1>9, <1>10, <1>11, <1>12, PartsInv

\* A step that changes nothing keeps it.
LEMMA UnchangedKeeps ==
    ASSUME LockInv, UNCHANGED vars
    PROVE  LockInv'
<1>1. /\ global' = global /\ status' = status /\ mode' = mode /\ convertMode' = convertMode
      /\ target' = target /\ count' = count /\ partitioned' = partitioned
      /\ first' = first /\ notified' = notified /\ pc' = pc
      /\ heads' = heads /\ existing' = existing /\ partitions' = partitions
      /\ grantedList' = grantedList /\ conflictList' = conflictList
      /\ grantedCounts' = grantedCounts /\ conflictCounts' = conflictCounts
      /\ conversions' = conversions /\ firsts' = firsts
      /\ bucket' = bucket /\ scan' = scan /\ failed' = failed
  BY DEF vars, request, fastPath, lockHead, queues, counters
<1>2. /\ PlainTypes /\ NeverFails /\ ThreadInv /\ ModeInv /\ ListInv
      /\ PartitionInv /\ BucketInv
  BY InvParts
<1>3. Quiet
  BY <1>1 DEF Quiet, queues, counters
<1>4. CountInv' /\ GrantedModes' = GrantedModes /\ ConflictModes' = ConflictModes
  BY <1>3, QuietFacts
<1>5. WakeupInv'
  BY <1>1, <1>3, QuietWakeup
<1>6. \A k \in Lockers : SameRequest(k) /\ SamePlace(k)
  BY <1>1 DEF SameRequest, SamePlace, OnPartition, OnLockHead, Queued
<1>7. ThreadInv' /\ ModeInv' /\ ListInv'
  BY <1>1, <1>2, <1>6, OthersKeep DEF ThreadInv, ModeInv, ListInv
<1>8. HeldInv'
  BY <1>1, <1>6, SameHeld DEF Held, SamePlace
<1>9. PlainTypes' /\ NeverFails'
  BY <1>1, <1>2 DEF PlainTypes, NeverFails
<1>10. PartitionInv' /\ BucketInv'
  BY <1>1, <1>2, <1>4 DEF PartitionInv, BucketInv, Scanning
<1>11. LockInv'
  BY <1>4, <1>5, <1>7, <1>8, <1>9, <1>10, PartsInv, PTL
<1> QED BY <1>11

\* Every step keeps it.
LEMMA StepKeeps ==
    ASSUME Faults = {}, LockInv, [Next]_vars
    PROVE  LockInv'
<1>1. ASSUME NEW l \in Lockers, NEW m \in RequestModes,
             Lock(l, m) \/ Convert(l, m) \/ Downgrade(l, m)
      PROVE  LockInv'
  BY <1>1, LockKeeps, ConvertKeeps, DowngradeKeeps
<1>2. ASSUME NEW l \in Lockers, MigrateForRequest(l)
      PROVE  LockInv'
  <2>1. /\ Acquires(l) /\ partitions # <<>> /\ ~Scanning(l) /\ Migrate
        /\ bucket' = IF failed' = "none" THEN l ELSE bucket
        /\ UNCHANGED <<global, request, notified, pc, scan>>
    BY <1>2 DEF MigrateForRequest, Scanning
  <2> QED BY <2>1, MigrateKeeps
<1>3. ASSUME NEW l \in Lockers, InBucket(l)
      PROVE  LockInv'
  <2>1. CASE NewRequest(l)
    BY <2>1, NewRequestGranted, NewRequestQueued
  <2> QED
    BY <1>2, <1>3, <2>1, StartPartitionKeeps, ConvertInBucketKeeps, ReleaseGrantedKeeps,
       CancelWaitingKeeps, CancelConversionKeeps DEF InBucket
<1>4. ASSUME NEW l \in Lockers, Scan(l)
      PROVE  LockInv'
  BY <1>4, TryConversionKeeps, ConversionsDoneKeeps, TryGrantKeeps, EndScanKeeps DEF Scan
<1>5. ASSUME NEW l \in Lockers, Granted(l) \/ TimeOut(l) \/ Unlock(l)
      PROVE  LockInv'
  BY <1>5, WaitKeeps, UnlockKeeps
<1>6. ASSUME CleanUp
      PROVE  LockInv'
  <2>1. /\ Acquires(Cleaner) /\ partitions # <<>> /\ Migrate
        /\ bucket' = IF failed' = "none" THEN Cleaner ELSE bucket
        /\ UNCHANGED <<global, request, notified, pc, scan>>
    BY <1>6 DEF CleanUp
  <2> QED BY <2>1, MigrateKeeps, LockerAssumption
<1>7. ASSUME UNCHANGED vars
      PROVE  LockInv'
  BY <1>7, UnchangedKeeps
<1> QED
  BY <1>1, <1>3, <1>4, <1>5, <1>6, <1>7, EndCleanUpKeeps DEF Next

\* The inductive invariant holds in every state, whatever the lockers ask for and in
\* whatever order their threads, the scans and the cleaner run.
THEOREM LockInvariant ==
    ASSUME Faults = {}
    PROVE  Spec => []LockInv
<1>1. Init => LockInv
  BY InitKeeps
<1>2. LockInv /\ [Next]_vars => LockInv'
  BY StepKeeps
<1> QED BY <1>1, <1>2, PTL DEF Spec

\* The counters of the lock head never go below zero, and a request is never twice on a
\* list (LockHead::newRequest, LockManager::unlock, _onLockModeChanged and migration).
THEOREM LockTypes ==
    ASSUME Faults = {}
    PROVE  Spec => []TypeOK
<1>1. LockInv => TypeOK
  BY DEF LockInv
<1> QED BY <1>1, LockInvariant, PTL

\* Two lockers never hold the resource in conflicting modes, be they on partitions, on
\* the lock head, granted by a scan or converted.
THEOREM LocksExclude ==
    ASSUME Faults = {}
    PROVE  Spec => []MutualExclusion
<1>1. ASSUME LockInv
      PROVE  MutualExclusion
  <2>1. HeldInv /\ ListInv
    BY <1>1, InvParts
  <2>2. ASSUME NEW l \in Lockers, Holds(l)
        PROVE  Held(l)
    <3>1. status[l] \in {"granted", "converting"} /\ ~Released(l)
      BY <2>2 DEF Holds, Released
    <3> QED BY <2>1, <3>1 DEF ListInv, PlaceOK, Held
  <2> QED BY <2>1, <2>2 DEF MutualExclusion, HeldInv, Conflicts
<1> QED BY <1>1, LockInvariant, PTL

\* No invariant() fails: migration never meets a conflict, compatibleFirstCount goes with
\* the list, and the queues are empty when the modes are.
THEOREM LockManagerNeverFails ==
    ASSUME Faults = {}
    PROVE  Spec => []NeverFails
<1>1. LockInv => NeverFails
  BY DEF LockInv
<1> QED BY <1>1, LockInvariant, PTL

\* When the bucket's mutex is free, whoever waits must: the scan that unlock(),
\* downgrade() and the cancelled waits start has granted all that could be granted.
THEOREM NoWakeupIsLost ==
    ASSUME Faults = {}
    PROVE  Spec => []NoLostWakeup
<1>1. ASSUME LockInv
      PROVE  NoLostWakeup
  <2> SUFFICES ASSUME bucket = "free"
               PROVE  FrontWaits /\ \A l \in Lockers : ConversionWaits(l)
    BY DEF NoLostWakeup
  <2>1. BucketInv /\ WakeupInv
    BY <1>1, InvParts
  <2>2. \A l \in Lockers : ~Scanning(l)
    BY <2>1, LockerAssumption DEF BucketInv
  <2> QED BY <2>1, <2>2 DEF WakeupInv
<1> QED BY <1>1, LockInvariant, PTL

=============================================================================
