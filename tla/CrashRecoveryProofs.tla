------------------------ MODULE CrashRecoveryProofs ------------------------
(***************************************************************************)
(* Proofs about CrashRecovery: its types with any of the faults, and,       *)
(* without them, that a crash at any moment leaves a member whose data is   *)
(* what its oplog says and that has lost nothing it had reported.           *)
(***************************************************************************)
EXTENDS CrashRecovery, SequenceTheorems, WellFoundedInduction, TLAPS

-----------------------------------------------------------------------------
(* Timestamps, optimes and tables. *)

\* The bounds.
LEMMA Bounds ==
    /\ MaxTimestamp \in Nat /\ 1 <= MaxTimestamp /\ MaxTerm \in Nat /\ 1 <= MaxTerm
    /\ MaxBatch \in Nat /\ 1 <= MaxBatch /\ MaxCrashes \in Nat
    /\ Timestamps = 1..MaxTimestamp /\ Terms = 1..MaxTerm
    /\ 1 \in Timestamps /\ MaxTimestamp \in Timestamps
    /\ \A t : t \in Timestamps <=> t \in Nat /\ 1 <= t /\ t <= MaxTimestamp
    /\ \A t : t \in Terms <=> t \in Nat /\ 1 <= t /\ t <= MaxTerm
BY BoundAssumption DEF Timestamps, Terms

\* A set of numbers that is bounded and not empty has a greatest element.
LEMMA MaxFacts ==
    ASSUME NEW N \in Nat, NEW S \in SUBSET (0..N), S # {}
    PROVE  Max(S) \in S /\ \A y \in S : y <= Max(S)
<1> DEFINE R == OpToRel(<, Nat)
           D == {N - x : x \in S}
<1>1. IsWellFoundedOn(R, Nat)
  BY NatLessThanWellFounded
<1>2. \A x, y \in Nat : x < y => <<x, y>> \in R
  BY Zenon DEF OpToRel
<1>3. D \subseteq Nat /\ D # {}
  OBVIOUS
<1> HIDE DEF R
<1>4. PICK d \in D : \A y \in D : ~(<<y, d>> \in R)
  <2> HIDE DEF D
  <2> QED BY <1>1, <1>3, WFMin
<1>5. PICK x \in S : d = N - x
  OBVIOUS
<1>6. \A y \in S : x >= y
  <2> TAKE y \in S
  <2>1. N - y \in D /\ N - y \in Nat /\ N - x \in Nat
    BY <1>3, <1>5
  <2>2. ~(N - y < N - x)
    BY <1>2, <1>4, <1>5, <2>1
  <2> QED BY <2>1, <2>2
<1>7. Max(S) \in S /\ \A y \in S : Max(S) >= y
  BY <1>5, <1>6, Zenon DEF Max
<1>8. Max(S) \in 0..N
  BY <1>7, Zenon
<1> QED BY <1>7, <1>8

\* The greater of two numbers.
LEMMA MaxOfTwo ==
    ASSUME NEW a \in Nat, NEW b \in Nat
    PROVE  Max({a, b}) \in {a, b} /\ a <= Max({a, b}) /\ b <= Max({a, b})
<1>1. {a, b} \in SUBSET (0..(a + b)) /\ {a, b} # {} /\ a + b \in Nat
  OBVIOUS
<1>2. Max({a, b}) \in {a, b} /\ \A y \in {a, b} : y <= Max({a, b})
  BY <1>1, MaxFacts, Zenon
<1> QED BY <1>2, Zenon

\* Optimes.
LEMMA OpTimeFacts ==
    /\ Null \in OpTimes /\ Null[1] = 0 /\ Null[2] = 0
    /\ \A x \in Terms, t \in Timestamps : <<x, t>> \in OpTimes /\ <<x, t>> # Null
    /\ \A e \in OpTimes :
        /\ e[1] \in 0..MaxTerm /\ e[2] \in 0..MaxTimestamp /\ e[1] \in Nat /\ e[2] \in Nat
        /\ e = <<e[1], e[2]>>
        /\ e # Null => e[1] \in Terms /\ e[2] \in Timestamps
BY Bounds DEF OpTimes, Null

\* The order of optimes is total.
LEMMA LeqFacts ==
    /\ \A a \in OpTimes : Leq(a, a) /\ Leq(Null, a)
    /\ \A a, b \in OpTimes : Leq(a, b) \/ Leq(b, a)
    /\ \A a, b \in OpTimes : Leq(a, b) /\ Leq(b, a) => a = b
    /\ \A a, b, c \in OpTimes : Leq(a, b) /\ Leq(b, c) => Leq(a, c)
<1>1. \A a \in OpTimes : a[1] \in Nat /\ a[2] \in Nat /\ a = <<a[1], a[2]>>
  BY OpTimeFacts
<1>2. Null[1] = 0 /\ Null[2] = 0
  BY DEF Null
<1>3. \A a \in OpTimes : Leq(a, a) /\ Leq(Null, a)
  BY <1>1, <1>2 DEF Leq
<1>4. \A a, b \in OpTimes : Leq(a, b) \/ Leq(b, a)
  BY <1>1 DEF Leq
<1>5. \A a, b \in OpTimes : Leq(a, b) /\ Leq(b, a) => a = b
  <2> TAKE a, b \in OpTimes
  <2> HAVE Leq(a, b) /\ Leq(b, a)
  <2>1. a[1] = b[1] /\ a[2] = b[2]
    BY <1>1 DEF Leq
  <2> QED BY <1>1, <2>1, Zenon
<1>6. \A a, b, c \in OpTimes : Leq(a, b) /\ Leq(b, c) => Leq(a, c)
  BY <1>1 DEF Leq
<1> QED BY <1>3, <1>4, <1>5, <1>6

\* The later of two optimes.
LEMMA LaterFacts ==
    ASSUME NEW a \in OpTimes, NEW b \in OpTimes
    PROVE  Later(a, b) \in {a, b} /\ Leq(a, Later(a, b)) /\ Leq(b, Later(a, b))
BY LeqFacts DEF Later

\* The last entry of an oplog.
TopOf(o) == Max({t \in Timestamps : o[t] > 0} \union {0})

\* The top of an oplog is its last entry, or 0.
LEMMA TopFacts ==
    ASSUME NEW o \in Table
    PROVE  /\ TopOf(o) \in 0..MaxTimestamp /\ TopOf(o) \in Nat
           /\ TopOf(o) # 0 => TopOf(o) \in Timestamps /\ o[TopOf(o)] > 0
           /\ \A t \in Timestamps : o[t] > 0 => t <= TopOf(o)
<1> DEFINE S == {t \in Timestamps : o[t] > 0} \union {0}
<1>1. S \in SUBSET (0..MaxTimestamp) /\ S # {} /\ MaxTimestamp \in Nat
  BY Bounds
<1>2. Max(S) \in S /\ \A y \in S : y <= Max(S)
  <2> HIDE DEF S
  <2> QED BY <1>1, MaxFacts
<1>3. TopOf(o) = Max(S)
  BY DEF TopOf
<1>4. TopOf(o) \in S /\ \A y \in S : y <= TopOf(o)
  BY <1>2, <1>3
<1> HIDE DEF TopOf
<1> QED BY <1>1, <1>4

\* What is the last entry of an oplog.
LEMMA TopIs ==
    ASSUME NEW o \in Table, NEW n \in Timestamps, o[n] > 0,
           \A t \in Timestamps : o[t] > 0 => t <= n
    PROVE  TopOf(o) = n
<1>1. n <= TopOf(o) /\ TopOf(o) \in Nat /\ n \in Nat /\ 1 <= n
  BY TopFacts, Bounds
<1>2. TopOf(o) \in Timestamps /\ o[TopOf(o)] > 0
  BY <1>1, TopFacts
<1> QED BY <1>1, <1>2

\* A whole oplog has exactly the entries up to its top, in the order of their terms.
LEMMA WholeFacts ==
    ASSUME NEW o \in Table, Whole(o)
    PROVE  /\ TopOf(o) \in Timestamps /\ TopOf(o) \in Nat /\ 1 <= TopOf(o)
           /\ o[TopOf(o)] \in Terms
           /\ \A t \in Timestamps : o[t] > 0 <=> t <= TopOf(o)
           /\ \A t \in Timestamps : t <= TopOf(o) => o[t] \in Terms /\ o[t] <= o[TopOf(o)]
<1>1. \A t \in Timestamps : o[t] \in 0..MaxTerm /\ t \in Nat
  BY Bounds DEF Table
<1>2. o[1] = 1 /\ \A t, u \in Timestamps : t <= u /\ o[u] > 0 => 0 < o[t] /\ o[t] <= o[u]
  BY DEF Whole
<1>3. 1 <= TopOf(o) /\ TopOf(o) \in Nat
  BY <1>2, TopFacts, Bounds
<1>4. TopOf(o) \in Timestamps /\ o[TopOf(o)] > 0
  BY <1>3, TopFacts
<1>5. \A t \in Timestamps : o[t] > 0 <=> t <= TopOf(o)
  BY <1>2, <1>4, TopFacts
<1> QED BY <1>1, <1>2, <1>3, <1>4, <1>5, Bounds

\* A truncated oplog.
LEMMA KeptFacts ==
    ASSUME NEW o \in Table, NEW k \in 0..MaxTimestamp
    PROVE  /\ Kept(o, k) \in Table
           /\ \A t \in Timestamps : Kept(o, k)[t] = IF k = 0 \/ t < k THEN o[t] ELSE 0
           /\ Kept(o, 0) = o
BY Bounds DEF Kept, UpTo, Table

\* Tables are equal if their entries are.
LEMMA TableEqual ==
    ASSUME NEW o \in Table, NEW p \in Table, \A t \in Timestamps : o[t] = p[t]
    PROVE  o = p
BY DEF Table

\* A table as of a timestamp.
LEMMA UpToFacts ==
    ASSUME NEW o \in Table, NEW s \in Nat
    PROVE  /\ UpTo(o, s) \in Table
           /\ \A t \in Timestamps : UpTo(o, s)[t] = IF t <= s THEN o[t] ELSE 0
BY Bounds DEF UpTo, Table

\* A truncation at or after the second entry leaves a whole oplog whole.
LEMMA WholePrefix ==
    ASSUME NEW o \in Table, Whole(o), NEW k \in 0..MaxTimestamp, k # 1
    PROVE  Whole(Kept(o, k))
<1>1. \A t \in Timestamps : Kept(o, k)[t] = IF k = 0 \/ t < k THEN o[t] ELSE 0
  BY KeptFacts
<1> QED BY <1>1, Bounds DEF Whole, Table

\* There is a greatest among optimes.
LEMMA GreatestFacts ==
    ASSUME NEW S \in SUBSET OpTimes, S # {}
    PROVE  Greatest(S) \in S /\ \A x \in S : Leq(x, Greatest(S))
<1> DEFINE A == {x[1] : x \in S}
<1>1. \A x \in S : x[1] \in 0..MaxTerm /\ x[2] \in 0..MaxTimestamp
  BY OpTimeFacts
<1>2. A \in SUBSET (0..MaxTerm) /\ A # {} /\ MaxTerm \in Nat
  BY <1>1, Bounds
<1>3. Max(A) \in A /\ \A y \in A : y <= Max(A)
  <2> HIDE DEF A
  <2> QED BY <1>2, MaxFacts
<1>4. PICK a \in S : \A x \in S : x[1] <= a[1]
  <2>1. PICK a \in S : a[1] = Max(A)
    BY <1>3
  <2> QED BY <1>3, <2>1
<1> HIDE DEF A
<1> DEFINE B == {x[2] : x \in {y \in S : y[1] = a[1]}}
<1>5. B \in SUBSET (0..MaxTimestamp) /\ B # {} /\ MaxTimestamp \in Nat
  BY <1>1, Bounds
<1>6. Max(B) \in B /\ \A y \in B : y <= Max(B)
  <2> HIDE DEF B
  <2> QED BY <1>5, MaxFacts
<1>7. PICK b \in S : b[1] = a[1] /\ b[2] = Max(B)
  BY <1>6
<1>8. \A x \in S : x[1] = a[1] => x[2] <= b[2]
  BY <1>6, <1>7
<1> HIDE DEF B
<1>9. \A x \in S : Leq(x, b)
  BY <1>1, <1>4, <1>7, <1>8 DEF Leq
<1> QED BY <1>7, <1>9, Zenon DEF Greatest

\* The first n entries of a sequence and one more.
LEMMA CutFacts ==
    ASSUME NEW s \in Seq(Terms), NEW n \in 0..Len(s), NEW x \in Terms
    PROVE  /\ Append(SubSeq(s, 1, n), x) \in Seq(Terms)
           /\ Len(Append(SubSeq(s, 1, n), x)) = n + 1
           /\ \A t \in 1..n : Append(SubSeq(s, 1, n), x)[t] = s[t]
           /\ Append(SubSeq(s, 1, n), x)[n + 1] = x
<1> DEFINE c == SubSeq(s, 1, n)
<1>1. n \in Nat /\ Len(s) \in Nat /\ n <= Len(s)
  OBVIOUS
<1>2. c \in Seq(Terms) /\ Len(c) = n /\ \A t \in 1..n : c[t] = s[t]
  <2>1. \A i \in 1..n : s[i] \in Terms
    BY <1>1
  <2>2. c \in Seq(Terms) /\ Len(c) = (IF 1 <= n THEN n - 1 + 1 ELSE 0)
        /\ \A t \in 1..(n - 1 + 1) : c[t] = s[1 + t - 1]
    BY <1>1, <2>1, SubSeqProperties
  <2> QED BY <1>1, <2>2
<1> HIDE DEF c
<1>3. Append(c, x) \in Seq(Terms) /\ Len(Append(c, x)) = Len(c) + 1
      /\ \A t \in 1..Len(c) : Append(c, x)[t] = c[t]
      /\ Append(c, x)[Len(c) + 1] = x
  BY <1>2, AppendProperties
<1> QED BY <1>2, <1>3 DEF c

\* A document with one field set.
LEMMA FieldFacts ==
    ASSUME NEW r \in [through : 0..MaxTimestamp, valid : OpTimes], NEW x
    PROVE  /\ [r EXCEPT !.through = x].through = x /\ [r EXCEPT !.through = x].valid = r.valid
           /\ [r EXCEPT !.valid = x].through = r.through /\ [r EXCEPT !.valid = x].valid = x
           /\ x \in 0..MaxTimestamp =>
                [r EXCEPT !.through = x] \in [through : 0..MaxTimestamp, valid : OpTimes]
           /\ x \in OpTimes =>
                [r EXCEPT !.valid = x] \in [through : 0..MaxTimestamp, valid : OpTimes]
OBVIOUS

\* The minValid documents.
LEMMA DocFacts ==
    ASSUME doc \in Documents
    PROVE  /\ \A s \in Nat, x \in 0..MaxTimestamp :
                /\ SetAppliedThrough(s, x) \in Documents
                /\ \A t \in Timestamps :
                    /\ SetAppliedThrough(s, x)[t].through = IF t >= s THEN x ELSE doc[t].through
                    /\ SetAppliedThrough(s, x)[t].valid = doc[t].valid
           /\ \A s \in Nat, v \in OpTimes :
                /\ SetMinValidToAtLeast(s, v) \in Documents
                /\ \A t \in Timestamps :
                    /\ SetMinValidToAtLeast(s, v)[t].through = doc[t].through
                    /\ SetMinValidToAtLeast(s, v)[t].valid =
                        IF t >= s THEN Later(doc[t].valid, v) ELSE doc[t].valid
           /\ \A s \in Timestamps :
                /\ DocUpTo(s) \in Documents
                /\ \A t \in Timestamps : DocUpTo(s)[t] = IF t <= s THEN doc[t] ELSE doc[s]
           /\ \A t \in Timestamps :
                /\ doc[t].through \in 0..MaxTimestamp /\ doc[t].valid \in OpTimes
                /\ doc[t] = [through |-> doc[t].through, valid |-> doc[t].valid]
           /\ Document.through \in 0..MaxTimestamp /\ Document.valid \in OpTimes
<1>1. \A t \in Timestamps : /\ doc[t] \in [through : 0..MaxTimestamp, valid : OpTimes]
                            /\ doc[t].through \in 0..MaxTimestamp /\ doc[t].valid \in OpTimes
                            /\ doc[t] = [through |-> doc[t].through, valid |-> doc[t].valid]
  BY DEF Documents
<1>2. ASSUME NEW s \in Nat, NEW x \in 0..MaxTimestamp
      PROVE  /\ SetAppliedThrough(s, x) \in Documents
             /\ \A t \in Timestamps :
                    /\ SetAppliedThrough(s, x)[t].through = IF t >= s THEN x ELSE doc[t].through
                    /\ SetAppliedThrough(s, x)[t].valid = doc[t].valid
  <2>1. \A t \in Timestamps :
            /\ [doc[t] EXCEPT !.through = x].through = x
            /\ [doc[t] EXCEPT !.through = x].valid = doc[t].valid
            /\ [doc[t] EXCEPT !.through = x] \in [through : 0..MaxTimestamp, valid : OpTimes]
    BY <1>1, FieldFacts
  <2>2. \A t \in Timestamps : SetAppliedThrough(s, x)[t] =
            IF t >= s THEN [doc[t] EXCEPT !.through = x] ELSE doc[t]
    BY DEF SetAppliedThrough
  <2>3. SetAppliedThrough(s, x) \in Documents
    BY <1>1, <2>1 DEF SetAppliedThrough, Documents
  <2> QED BY <2>1, <2>2, <2>3
<1>3. ASSUME NEW s \in Nat, NEW v \in OpTimes
      PROVE  /\ SetMinValidToAtLeast(s, v) \in Documents
             /\ \A t \in Timestamps :
                    /\ SetMinValidToAtLeast(s, v)[t].through = doc[t].through
                    /\ SetMinValidToAtLeast(s, v)[t].valid =
                        IF t >= s THEN Later(doc[t].valid, v) ELSE doc[t].valid
  <2>1. \A t \in Timestamps : Later(doc[t].valid, v) \in OpTimes
    BY <1>1 DEF Later
  <2>2. \A t \in Timestamps :
            /\ [doc[t] EXCEPT !.valid = Later(@, v)].through = doc[t].through
            /\ [doc[t] EXCEPT !.valid = Later(@, v)].valid = Later(doc[t].valid, v)
            /\ [doc[t] EXCEPT !.valid = Later(@, v)] \in
                    [through : 0..MaxTimestamp, valid : OpTimes]
    BY <1>1, <2>1, FieldFacts
  <2>3. \A t \in Timestamps : SetMinValidToAtLeast(s, v)[t] =
            IF t >= s THEN [doc[t] EXCEPT !.valid = Later(@, v)] ELSE doc[t]
    BY DEF SetMinValidToAtLeast
  <2>4. SetMinValidToAtLeast(s, v) \in Documents
    BY <1>1, <2>2 DEF SetMinValidToAtLeast, Documents
  <2> QED BY <2>2, <2>3, <2>4
<1>4. ASSUME NEW s \in Timestamps
      PROVE  /\ DocUpTo(s) \in Documents
             /\ \A t \in Timestamps : DocUpTo(s)[t] = IF t <= s THEN doc[t] ELSE doc[s]
  BY <1>1 DEF DocUpTo, Documents
<1>5. Document.through \in 0..MaxTimestamp /\ Document.valid \in OpTimes
  BY <1>1, Bounds DEF Document
<1> QED BY <1>1, <1>2, <1>3, <1>4, <1>5

\* The stable timestamp goes to the greatest candidate at or below the commit point.
LEMMA StableFacts ==
    ASSUME NEW cands \in SUBSET OpTimes, NEW point \in OpTimes, stable \in Timestamps,
           SetStable(cands, point)
    PROVE  /\ stable' \in Timestamps /\ candidates' \subseteq cands /\ stable <= stable'
           /\ ~majority => stable' = stable
           /\ stable' # stable =>
                \E c \in cands : Leq(c, point) /\ stable' = c[2] /\ stable < c[2]
<1>1. CASE Below(cands, point) = {}
  BY <1>1, Bounds DEF SetStable
<1>2. CASE Below(cands, point) # {}
  <2> DEFINE c == Greatest(Below(cands, point))
  <2>1. c \in Below(cands, point)
    BY <1>2, GreatestFacts DEF Below
  <2>2. c \in cands /\ Leq(c, point)
    BY <2>1 DEF Below
  <2>3. /\ stable' = IF majority THEN Max({stable, c[2]}) ELSE stable
        /\ candidates' = {x \in cands : Leq(c, x)}
    BY <1>2 DEF SetStable
  <2> HIDE DEF c
  <2>4. c[2] \in Nat /\ c[2] <= MaxTimestamp
    BY <2>2, OpTimeFacts
  <2>5. /\ Max({stable, c[2]}) \in {stable, c[2]} /\ stable <= Max({stable, c[2]})
        /\ c[2] <= Max({stable, c[2]})
    BY <2>4, MaxOfTwo, Bounds
  <2> DEFINE m == Max({stable, c[2]})
  <2>6. m \in {stable, c[2]} /\ stable <= m /\ stable' = IF majority THEN m ELSE stable
    BY <2>3, <2>5
  <2> HIDE DEF m
  <2>7. stable' \in Timestamps /\ stable <= stable' /\ (stable' = stable \/ stable' = c[2])
    BY <2>4, <2>6, Bounds
  <2>8. stable' # stable => stable < c[2] /\ stable' = c[2]
    BY <2>4, <2>7, Bounds
  <2> QED BY <2>2, <2>3, <2>7, <2>8
<1> QED BY <1>1, <1>2

\* The last applied optime becomes a candidate if the data is consistent at it.
LEMMA AppliedFacts ==
    ASSUME candidates \in SUBSET OpTimes, commit \in OpTimes, stable \in Timestamps,
           NEW optime \in OpTimes, NEW consistent \in BOOLEAN,
           SetLastApplied(optime, consistent)
    PROVE  /\ lastApplied' = optime /\ commit' = commit
           /\ stable' \in Timestamps /\ candidates' \subseteq candidates \union {optime}
           /\ stable <= stable' /\ (~majority => stable' = stable)
           /\ ~consistent => stable' = stable /\ candidates' = candidates
           /\ stable' # stable =>
                \E c \in candidates \union {optime} :
                    Leq(c, commit) /\ stable' = c[2] /\ stable < c[2]
<1>1. CASE consistent /\ Leq(optime, commit)
  <2>1. SetStable(candidates \union {optime}, commit) /\ lastApplied' = optime /\ commit' = commit
    BY <1>1 DEF SetLastApplied
  <2>2. candidates \union {optime} \in SUBSET OpTimes
    OBVIOUS
  <2>3. /\ stable' \in Timestamps /\ candidates' \subseteq candidates \union {optime}
        /\ stable <= stable' /\ (~majority => stable' = stable)
        /\ stable' # stable =>
                \E c \in candidates \union {optime} :
                    Leq(c, commit) /\ stable' = c[2] /\ stable < c[2]
    BY <2>1, <2>2, StableFacts
  <2> QED BY <1>1, <2>1, <2>3
<1>2. CASE ~(consistent /\ Leq(optime, commit))
  BY <1>2, Bounds DEF SetLastApplied
<1> QED BY <1>1, <1>2

-----------------------------------------------------------------------------
(* What the invariant says of a state. *)

\* The tables and the source.
LEMMA StateFacts ==
    ASSUME TypeInv
    PROVE  /\ oplog \in Table /\ data \in Table /\ doc \in Documents
           /\ Top = TopOf(oplog) /\ Top' = TopOf(oplog')
           /\ truncate \in 0..MaxTimestamp /\ truncate \in Nat
           /\ \A t \in Timestamps : oplog[t] \in 0..MaxTerm /\ data[t] \in 0..MaxTerm
           /\ Top \in 0..MaxTimestamp /\ Top \in Nat
           /\ source \in Seq(Terms) /\ Len(source) \in Nat /\ Len(source) <= MaxTimestamp
           /\ committed \in Nat /\ 1 <= committed /\ committed <= Len(source)
           /\ \A t \in 1..Len(source) : source[t] \in Terms /\ t \in Timestamps
           /\ source[1] = 1 /\ term \in Terms /\ term \in Nat
           /\ Whole(Kept(oplog, truncate)) /\ truncate # 1
<1>1. /\ oplog \in Table /\ data \in Table /\ doc \in Documents
      /\ truncate \in 0..MaxTimestamp
      /\ source \in Seq(Terms) /\ Len(source) <= MaxTimestamp /\ term \in Terms
      /\ committed \in 0..Len(source)
  BY DEF TypeInv, TypeOK, Table, Documents
<1>2. Top = TopOf(oplog) /\ Top' = TopOf(oplog')
  BY DEF Top, TopOf
<1>3. 1 <= committed /\ source[1] = 1 /\ Whole(Kept(oplog, truncate)) /\ truncate # 1
  BY DEF TypeInv, SourceInv, LogInv
<1>4. Top \in 0..MaxTimestamp /\ Top \in Nat
  BY <1>1, <1>2, TopFacts
<1>5. \A t \in Timestamps : oplog[t] \in 0..MaxTerm /\ data[t] \in 0..MaxTerm
  BY <1>1 DEF Table
<1>6. Len(source) \in Nat /\ \A t \in 1..Len(source) : source[t] \in Terms
  BY <1>1
<1> QED BY <1>1, <1>2, <1>3, <1>4, <1>5, <1>6, Bounds

\* An oplog that is not to be truncated.
LEMMA WholeLog ==
    ASSUME TypeInv, truncate = 0
    PROVE  /\ Whole(oplog) /\ Top \in Timestamps /\ 1 <= Top /\ oplog[Top] \in Terms
           /\ \A t \in Timestamps : oplog[t] > 0 <=> t <= Top
           /\ \A t \in Timestamps : t <= Top => oplog[t] \in Terms /\ oplog[t] <= oplog[Top]
           /\ oplog[Top] <= term
           /\ OpTime(Top) = <<oplog[Top], Top>> /\ OpTime(Top) \in OpTimes
<1>1. oplog \in Table /\ Top = TopOf(oplog) /\ Whole(Kept(oplog, truncate))
  BY StateFacts
<1>2. Whole(oplog)
  BY <1>1 DEF Kept
<1>3. /\ Top \in Timestamps /\ 1 <= Top /\ oplog[Top] \in Terms
      /\ \A t \in Timestamps : oplog[t] > 0 <=> t <= Top
      /\ \A t \in Timestamps : t <= Top => oplog[t] \in Terms /\ oplog[t] <= oplog[Top]
  BY <1>1, <1>2, WholeFacts
<1>4. oplog[Top] <= term
  BY <1>3 DEF TypeInv, LogInv
<1>5. OpTime(Top) = <<oplog[Top], Top>>
  BY <1>3, Bounds DEF OpTime
<1> QED BY <1>2, <1>3, <1>4, <1>5, OpTimeFacts

\* The common point is the last one up to which source and oplog match.
LEMMA CommonPointFacts ==
    ASSUME TypeInv, truncate = 0
    PROVE  /\ CommonPoint \in 1..Top /\ CommonPoint \in Timestamps
           /\ CommonPoint <= Len(source) /\ \A t \in 1..CommonPoint : oplog[t] = source[t]
           /\ \A n \in 0..Top : Matches(n) => n <= CommonPoint
<1> DEFINE S == {n \in 0..MaxTimestamp : n <= Top /\ Matches(n)}
<1>1. Top \in Timestamps /\ 1 <= Top /\ Whole(oplog)
  BY WholeLog
<1>2. 1 <= Len(source) /\ source[1] = 1 /\ oplog[1] = 1
  BY <1>1, StateFacts DEF Whole
<1>3. Matches(1)
  BY <1>2 DEF Matches
<1>4. S \in SUBSET (0..MaxTimestamp) /\ 1 \in S /\ MaxTimestamp \in Nat
  BY <1>1, <1>3, Bounds
<1>5. Max(S) \in S /\ \A y \in S : y <= Max(S)
  <2> HIDE DEF S
  <2> QED BY <1>4, MaxFacts
<1>6. CommonPoint = Max(S)
  BY DEF CommonPoint
<1>7. CommonPoint \in S /\ \A y \in S : y <= CommonPoint
  BY <1>5, <1>6
<1> HIDE DEF CommonPoint
<1>8. CommonPoint \in 1..Top /\ Matches(CommonPoint)
  BY <1>1, <1>4, <1>7, Bounds
<1>9. \A n \in 0..Top : Matches(n) => n <= CommonPoint
  BY <1>1, <1>7, Bounds
<1> QED BY <1>1, <1>8, <1>9, Bounds DEF Matches

\* What a step may leave in the journal: what was there, or what it has written.
Journaled ==
    \A j \in journal' :
        \/ j \in journal
        \/ /\ j.oplog = oplog' /\ j.truncate = truncate'
           /\ ~majority => j.data = data' /\ j.doc = doc'

\* Each way of writing to the journal.
LEMMA LogFacts ==
    /\ Log => Journaled /\ checkpoint' = checkpoint
    /\ LogAndFlush =>
        /\ Journaled /\ checkpoint' = checkpoint
        /\ \A j \in journal' : j.oplog = oplog' /\ j.truncate = truncate'
    /\ \A j \in Flushed : /\ j.oplog = oplog /\ j.truncate = truncate
                          /\ ~majority => j.data = data /\ j.doc = doc
    /\ UNCHANGED journal => Journaled
BY DEF Log, LogAndFlush, Logged, Journaled, Flushed

\* A step that writes whole oplogs keeps the disk as it must be.
LEMMA JournalStep ==
    ASSUME TypeInv, Journaled, majority' = majority, term' \in Nat, term <= term',
           oplog' \in Table, truncate' \in 0..MaxTimestamp, truncate' # 1,
           data' \in Table, doc' \in Documents,
           checkpoint' \in [at : Timestamps, data : Table, doc : Documents],
           Whole(Kept(oplog', truncate')), \A t \in Timestamps : oplog'[t] <= term'
    PROVE  DiskOK' /\ LogInv'
<1>1. \A j \in journal :
        /\ j.oplog \in Table /\ j.truncate \in 0..MaxTimestamp
        /\ ~majority => j.data \in Table /\ j.doc \in Documents
        /\ j.truncate # 1 /\ Whole(Kept(j.oplog, j.truncate))
        /\ \A t \in Timestamps : j.oplog[t] <= term'
  <2>1. \A j \in journal :
        /\ j.oplog \in Table /\ j.truncate \in 0..MaxTimestamp
        /\ ~majority => j.data \in Table /\ j.doc \in Documents
        /\ j.truncate # 1 /\ Whole(Kept(j.oplog, j.truncate))
        /\ \A t \in Timestamps : j.oplog[t] <= term
    BY DEF TypeInv, DiskOK, LogInv
  <2>2. \A j \in journal : \A t \in Timestamps : j.oplog[t] \in Nat
    BY <2>1, Bounds DEF Table
  <2> QED BY <2>1, <2>2, StateFacts
<1>2. ASSUME NEW j \in journal'
      PROVE  /\ j.oplog \in Table /\ j.truncate \in 0..MaxTimestamp
             /\ ~majority => j.data \in Table /\ j.doc \in Documents
             /\ j.truncate # 1 /\ Whole(Kept(j.oplog, j.truncate))
             /\ \A t \in Timestamps : j.oplog[t] <= term'
  <2>1. CASE j \in journal
    BY <1>1, <2>1
  <2>2. CASE j \notin journal
    BY <2>2 DEF Journaled
  <2> QED BY <2>1, <2>2
<1> QED BY <1>2 DEF DiskOK, LogInv

-----------------------------------------------------------------------------
(* The types: the other members. *)

\* A failed invariant() changes nothing else.
LEMMA TypeFail ==
    ASSUME TypeInv, NEW x, Fail(x)
    PROVE  TypeInv'
<1>1. UNCHANGED <<source, committed, leader, term, majority, oplog, truncate, data, doc,
                  journal, checkpoint, stable, role, pc, recovering, batch, last, lastApplied,
                  lastDurable, token, commit, candidates, producer, crashes, kept>>
  BY DEF Fail, others, markers, tables, disk, applier, progress, stability, memory
<1>2. TypeOK'
  BY <1>1 DEF TypeInv, TypeOK
<1>3. DiskOK' /\ SourceInv' /\ BatchInv' /\ LeaderInv'
  BY <1>1 DEF TypeInv, DiskOK, SourceInv, BatchInv, LeaderInv
<1>4. LogInv' /\ StepInv'
  BY <1>1 DEF TypeInv, LogInv, StepInv, Top
<1> QED BY <1>2, <1>3, <1>4 DEF TypeInv

\* A step that the source takes leaves the member as it is.
LEMMA TypeOthers ==
    ASSUME TypeInv, UNCHANGED <<majority, oplog, truncate, data, doc, journal, checkpoint,
                                stable, role, pc, recovering, batch, last, lastApplied,
                                lastDurable, token, commit, candidates, producer, crashes,
                                kept, failed>>,
           term' \in Terms, term <= term', leader' \in {"member", "other"},
           source' \in Seq(Terms), Len(source') <= MaxTimestamp,
           committed' \in 0..Len(source'), SourceInv', LeaderInv'
    PROVE  TypeInv'
<1>1. TypeOK'
  BY DEF TypeInv, TypeOK
<1>2. term' \in Nat /\ Journaled
  BY LogFacts, Bounds
<1>3. /\ oplog' \in Table /\ truncate' \in 0..MaxTimestamp /\ truncate' # 1
      /\ data' \in Table /\ doc' \in Documents /\ Whole(Kept(oplog', truncate'))
  BY StateFacts
<1>4. \A t \in Timestamps : oplog'[t] <= term'
  <2>1. \A t \in Timestamps : oplog[t] <= term /\ oplog[t] \in Nat
    BY StateFacts, Bounds DEF TypeInv, LogInv
  <2> QED BY <1>2, <2>1, StateFacts
<1>5. DiskOK' /\ LogInv'
  <2>1. checkpoint' \in [at : Timestamps, data : Table, doc : Documents]
    BY DEF TypeInv, DiskOK
  <2> QED BY <1>2, <1>3, <1>4, <2>1, JournalStep
<1>6. StepInv'
  BY DEF TypeInv, StepInv, Top
<1>7. BatchInv'
  <2>1. \A e \in batch : e[1] \in Nat
    BY OpTimeFacts DEF TypeInv, TypeOK
  <2>2. pc = "writeOplog" => \A e \in batch : e[1] <= term'
    BY <1>2, <2>1, StateFacts DEF TypeInv, BatchInv
  <2> QED BY <2>2 DEF TypeInv, BatchInv
<1> QED BY <1>1, <1>5, <1>6, <1>7 DEF TypeInv

\* The source's next entry has the latest term.
LEMMA TypeSourceWrites ==
    ASSUME TypeInv, SourceWrites
    PROVE  TypeInv'
<1>1. /\ UNCHANGED <<committed, leader, term, majority, oplog, truncate, data, doc, journal,
                     checkpoint, stable, role, pc, recovering, batch, last, lastApplied,
                     lastDurable, token, commit, candidates, producer, crashes, kept, failed>>
      /\ leader = "other" /\ Len(source) < MaxTimestamp /\ source' = Append(source, term)
  BY DEF SourceWrites, others, markers, tables, disk, applier, progress, stability,
         memory
<1>2. /\ source' \in Seq(Terms) /\ Len(source') = Len(source) + 1
      /\ \A t \in 1..Len(source) : source'[t] = source[t]
      /\ source'[Len(source) + 1] = term
  BY <1>1, StateFacts, AppendProperties
<1>3. SourceInv'
  <2>1. /\ 1 <= committed /\ source[1] = 1 /\ 1 <= Len(source) /\ Len(source) \in Nat
        /\ \A t, u \in 1..Len(source) : t <= u => source[t] <= source[u]
        /\ \A t \in 1..Len(source) : source[t] <= term
        /\ term \in Nat /\ \A t \in 1..Len(source) : source[t] \in Nat
    BY StateFacts, Bounds DEF TypeInv, SourceInv
  <2>2. \A t \in 1..Len(source') : source'[t] <= term
    BY <1>2, <2>1
  <2>3. \A t, u \in 1..Len(source') : t <= u => source'[t] <= source'[u]
    <3> TAKE t, u \in 1..Len(source')
    <3> HAVE t <= u
    <3>1. CASE u <= Len(source)
      <4>1. t \in 1..Len(source) /\ u \in 1..Len(source)
        BY <1>2, <2>1, <3>1
      <4> QED BY <1>2, <2>1, <4>1
    <3>2. CASE u > Len(source)
      <4>1. u = Len(source) + 1
        BY <1>2, <2>1, <3>2
      <4> QED BY <1>2, <2>2, <4>1
    <3> QED BY <2>1, <3>1, <3>2
  <2>4. source'[1] = 1
    BY <1>2, <2>1
  <2> QED BY <1>1, <2>1, <2>2, <2>3, <2>4 DEF SourceInv
<1>4. LeaderInv'
  BY <1>1 DEF LeaderInv
<1>5. /\ term' \in Terms /\ term <= term' /\ leader' \in {"member", "other"}
      /\ Len(source') <= MaxTimestamp /\ committed' \in 0..Len(source')
  BY <1>1, <1>2, StateFacts, Bounds
<1> QED BY <1>1, <1>2, <1>3, <1>4, <1>5, TypeOthers

\* A new leader of the others keeps what is committed and adds an entry of a later term.
LEMMA TypeSourceElects ==
    ASSUME TypeInv, SourceElects
    PROVE  TypeInv'
<1>1. /\ UNCHANGED <<committed, majority, oplog, truncate, data, doc, journal, checkpoint,
                     stable, role, pc, recovering, batch, last, lastApplied, lastDurable, token,
                     commit, candidates, producer, crashes, kept, failed>>
      /\ term < MaxTerm /\ term' = term + 1 /\ leader' = "other"
  BY DEF SourceElects, others, markers, tables, disk, applier, progress, stability,
         memory
<1>2. PICK n \in committed..Len(source) :
        n < MaxTimestamp /\ source' = Append(SubSeq(source, 1, n), term + 1)
  BY DEF SourceElects
<1>3. n \in 0..Len(source) /\ n \in Nat /\ 1 <= n /\ term + 1 \in Terms /\ term \in Nat
  <2>1. /\ Len(source) \in Nat /\ committed \in Nat /\ 1 <= committed
        /\ term \in Terms /\ term \in Nat
    BY StateFacts
  <2> QED BY <1>1, <1>2, <2>1, Bounds
<1>4. /\ source' \in Seq(Terms) /\ Len(source') = n + 1
      /\ \A t \in 1..n : source'[t] = source[t]
      /\ source'[n + 1] = term + 1
  BY <1>2, <1>3, StateFacts, CutFacts
<1>5. SourceInv'
  <2>1. /\ 1 <= committed /\ source[1] = 1
        /\ \A t, u \in 1..n : t <= u => source[t] <= source[u]
        /\ \A t \in 1..n : source[t] <= term
        /\ \A t \in 1..n : source[t] \in Nat
    <3>1. \A t \in 1..n : t \in 1..Len(source)
      BY <1>3, StateFacts
    <3>2. /\ 1 <= committed /\ source[1] = 1
          /\ \A t, u \in 1..Len(source) : t <= u => source[t] <= source[u]
          /\ \A t \in 1..Len(source) : source[t] <= term /\ source[t] \in Nat
      BY StateFacts, Bounds DEF TypeInv, SourceInv
    <3> QED BY <3>1, <3>2
  <2>2. \A t \in 1..Len(source') : source'[t] <= term + 1
    BY <1>3, <1>4, <2>1
  <2>3. \A t, u \in 1..Len(source') : t <= u => source'[t] <= source'[u]
    <3> TAKE t, u \in 1..Len(source')
    <3> HAVE t <= u
    <3>1. CASE u <= n
      <4>1. t \in 1..n /\ u \in 1..n
        BY <1>3, <1>4, <3>1
      <4> QED BY <1>4, <2>1, <4>1
    <3>2. CASE u > n
      <4>1. u = n + 1
        BY <1>3, <1>4, <3>2
      <4> QED BY <1>4, <2>2, <4>1
    <3> QED BY <1>3, <3>1, <3>2
  <2>4. source'[1] = 1
    BY <1>3, <1>4, <2>1
  <2> QED BY <1>1, <2>1, <2>2, <2>3, <2>4 DEF SourceInv
<1>6. LeaderInv'
  BY <1>1 DEF LeaderInv
<1>7. /\ term' \in Terms /\ term <= term' /\ leader' \in {"member", "other"}
      /\ Len(source') <= MaxTimestamp /\ committed' \in 0..Len(source')
  BY <1>1, <1>2, <1>3, <1>4, StateFacts, Bounds
<1> QED BY <1>1, <1>4, <1>5, <1>6, <1>7, TypeOthers

\* The others take over the entry after the common point, which has a term of the member's.
LEMMA TypeSourceFollows ==
    ASSUME TypeInv, SourceFollows
    PROVE  TypeInv'
<1>1. /\ UNCHANGED <<committed, leader, term, majority, oplog, truncate, data, doc, journal,
                     checkpoint, stable, role, pc, recovering, batch, last, lastApplied,
                     lastDurable, token, commit, candidates, producer, crashes, kept, failed>>
      /\ role = "primary" /\ leader = "member" /\ CommonPoint < Top
      /\ source' = Append(SubSeq(source, 1, CommonPoint), oplog[CommonPoint + 1])
  BY DEF SourceFollows, others, markers, tables, disk, applier, progress, stability,
         memory
<1>2. pc = "idle" /\ truncate = 0
  BY <1>1 DEF TypeInv, StepInv, TypeOK
<1>3. /\ CommonPoint \in 0..Len(source) /\ CommonPoint \in Nat /\ 1 <= CommonPoint
      /\ \A t \in 1..CommonPoint : oplog[t] = source[t]
      /\ \A n \in 0..Top : Matches(n) => n <= CommonPoint
      /\ Top \in Nat /\ Top <= MaxTimestamp
  BY <1>2, CommonPointFacts, StateFacts, Bounds
<1>4. Whole(oplog) /\ \A t \in Timestamps : t <= Top => oplog[t] \in Terms
  BY <1>2, WholeLog
<1> DEFINE n == CommonPoint + 1
<1>5. /\ n \in Timestamps /\ n <= Top /\ n - 1 = CommonPoint /\ oplog[n] \in Terms
      /\ \A t \in 1..n : t \in Timestamps /\ t <= Top
  BY <1>1, <1>3, <1>4, Bounds
<1>6. /\ source' \in Seq(Terms) /\ Len(source') = n
      /\ \A t \in 1..CommonPoint : source'[t] = source[t]
      /\ source'[n] = oplog[n]
  BY <1>1, <1>3, <1>5, StateFacts, CutFacts
<1>7. \A t \in 1..n : source'[t] = oplog[t]
  BY <1>3, <1>6
<1>8. committed <= CommonPoint
  <2>1. \A t \in 1..committed : oplog[t] = source[t]
    BY <1>1 DEF TypeInv, LeaderInv
  <2>2. oplog[committed] > 0 /\ committed \in Timestamps
    BY <2>1, StateFacts, Bounds
  <2>3. committed <= Top
    BY <1>2, <2>2, WholeLog
  <2>4. Matches(committed)
    BY <2>1, StateFacts DEF Matches
  <2> QED BY <1>3, <2>3, <2>4, StateFacts
<1> HIDE DEF n
<1>9. SourceInv'
  <2>1. \A t, u \in 1..n : t <= u => oplog[t] <= oplog[u]
    <3>1. \A u \in 1..n : oplog[u] > 0
      BY <1>4, <1>5, Bounds
    <3> QED BY <1>4, <1>5, <3>1 DEF Whole
  <2>2. \A t \in 1..n : oplog[t] <= term
    BY <1>5 DEF TypeInv, LogInv
  <2>3. oplog[1] = 1 /\ 1 \in 1..n
    BY <1>4, <1>5, Bounds DEF Whole
  <2>4. 1 <= committed'
    BY <1>1, StateFacts
  <2> QED BY <1>1, <1>6, <1>7, <2>1, <2>2, <2>3, <2>4 DEF SourceInv
<1>10. LeaderInv'
  <2>1. \A t \in 1..committed : t \in 1..n
    BY <1>3, <1>5, <1>8, StateFacts, Bounds
  <2>2. \A m \in 1..n : \A t \in 1..m : t \in 1..n
    BY <1>5, Bounds
  <2> QED BY <1>1, <1>6, <1>7, <2>1, <2>2 DEF LeaderInv
<1>11. /\ term' \in Terms /\ term <= term' /\ leader' \in {"member", "other"}
       /\ Len(source') <= MaxTimestamp /\ committed' \in 0..Len(source')
  BY <1>1, <1>3, <1>5, <1>6, <1>8, StateFacts, Bounds
<1> QED BY <1>1, <1>6, <1>9, <1>10, <1>11, TypeOthers

\* A commit of an entry of the latest term: a member that leads has it and all before it.
LEMMA TypeEntryCommits ==
    ASSUME TypeInv, EntryCommits
    PROVE  TypeInv'
<1>1. /\ UNCHANGED <<source, leader, term, majority, oplog, truncate, data, doc, journal,
                     checkpoint, stable, role, pc, recovering, batch, last, lastApplied,
                     lastDurable, token, commit, candidates, producer, crashes, kept, failed>>
      /\ leader = "other" \/ role = "primary"
  BY DEF EntryCommits, others, markers, tables, disk, applier, progress, stability,
         memory
<1>2. PICK n \in committed + 1..Len(source) : source[n] = term /\ committed' = n
  BY DEF EntryCommits
<1>3. n \in 1..Len(source) /\ n \in Nat /\ 1 <= n
  BY <1>2, StateFacts
<1>4. SourceInv'
  BY <1>1, <1>2, <1>3 DEF TypeInv, SourceInv
<1>5. LeaderInv'
  BY <1>1, <1>2, <1>3 DEF TypeInv, LeaderInv
<1>6. /\ term' \in Terms /\ term <= term' /\ leader' \in {"member", "other"}
      /\ Len(source') <= MaxTimestamp /\ committed' \in 0..Len(source')
  BY <1>1, <1>2, <1>3, StateFacts DEF TypeInv, TypeOK
<1> QED BY <1>1, <1>4, <1>5, <1>6, StateFacts, TypeOthers

-----------------------------------------------------------------------------
(* The types: steps that leave the oplog as it is. *)

\* A step that leaves oplog, truncate point and terms as they are.
LEMMA TypeSameOplog ==
    ASSUME TypeInv, UNCHANGED <<source, committed, term, majority, oplog, truncate>>,
           TypeOK', Journaled,
           checkpoint' \in [at : Timestamps, data : Table, doc : Documents],
           StepInv', BatchInv', LeaderInv'
    PROVE  TypeInv'
<1>1. /\ oplog' \in Table /\ truncate' \in 0..MaxTimestamp /\ truncate' # 1
      /\ Whole(Kept(oplog', truncate')) /\ term' \in Nat /\ term <= term'
  BY StateFacts
<1>2. data' \in Table /\ doc' \in Documents
  BY DEF TypeOK, Table, Documents
<1>3. \A t \in Timestamps : oplog'[t] <= term'
  BY DEF TypeInv, LogInv
<1>4. DiskOK' /\ LogInv'
  BY <1>1, <1>2, <1>3, JournalStep
<1>5. SourceInv'
  BY DEF TypeInv, SourceInv
<1> QED BY <1>4, <1>5 DEF TypeInv

\* The step changes documents, data and memory only.
LEMMA TypeSameStep ==
    ASSUME TypeInv,
           UNCHANGED <<source, committed, leader, term, majority, oplog, truncate, role, pc,
                       recovering, batch, last>>,
           TypeOK', Journaled,
           checkpoint' \in [at : Timestamps, data : Table, doc : Documents]
    PROVE  TypeInv'
<1>1. StepInv'
  BY DEF TypeInv, StepInv, Top
<1>2. BatchInv'
  BY DEF TypeInv, BatchInv
<1>3. LeaderInv'
  BY DEF TypeInv, LeaderInv
<1> QED BY <1>1, <1>2, <1>3, TypeSameOplog

\* The commit point and the stable timestamp move to optimes of the source and of candidates.
LEMMA TypeLearnCommitPoint ==
    ASSUME TypeInv, NEW n \in 1..committed, LearnCommitPoint(n)
    PROVE  TypeInv'
<1>1. /\ UNCHANGED <<source, committed, leader, term, majority, oplog, truncate, data, doc,
                     journal, checkpoint, role, pc, recovering, batch, last, lastApplied,
                     lastDurable, token, producer, crashes, kept, failed>>
      /\ commit' = SourceOpTime(n) /\ SetStable(candidates, SourceOpTime(n))
  BY DEF LearnCommitPoint, others, markers, tables, disk, applier, progress, stability,
         memory
<1>2. SourceOpTime(n) \in OpTimes
  <2>1. source[n] \in Terms /\ n \in Timestamps
    BY StateFacts, Bounds
  <2> QED BY <2>1, OpTimeFacts DEF SourceOpTime
<1>3. stable' \in Timestamps /\ candidates' \subseteq OpTimes
  BY <1>1, <1>2, StableFacts DEF TypeInv, TypeOK
<1>4. TypeOK'
  BY <1>1, <1>2, <1>3 DEF TypeInv, TypeOK
<1>5. checkpoint' \in [at : Timestamps, data : Table, doc : Documents] /\ Journaled
  BY <1>1, LogFacts DEF TypeInv, DiskOK
<1> QED BY <1>1, <1>4, <1>5, TypeSameStep

\* Only the state of the producer changes.
LEMMA TypeProducerStarts ==
    ASSUME TypeInv, ProducerStarts
    PROVE  TypeInv'
<1>1. UNCHANGED <<source, committed, leader, term, majority, oplog, truncate, data, doc,
                  journal, checkpoint, stable, role, pc, recovering, batch, last, lastApplied,
                  lastDurable, token, commit, candidates, crashes, kept, failed>> /\ producer' = "chosen"
  BY DEF ProducerStarts, others, markers, tables, disk, applier, progress, stability,
         memory
<1>2. TypeOK'
  BY <1>1 DEF TypeInv, TypeOK
<1>3. checkpoint' \in [at : Timestamps, data : Table, doc : Documents] /\ Journaled
  BY <1>1, LogFacts DEF TypeInv, DiskOK
<1> QED BY <1>1, <1>2, <1>3, TypeSameStep

\* The applied point is set in the document.
LEMMA TypeMarkAppliedThrough ==
    ASSUME TypeInv, MarkAppliedThrough
    PROVE  TypeInv'
<1>1. /\ UNCHANGED <<source, committed, leader, term, majority, oplog, truncate, data, stable,
                     role, pc, recovering, batch, last, lastApplied, lastDurable, token, commit,
                     candidates, crashes, kept, failed>>
      /\ doc' = IF Document.through = 0
              THEN SetAppliedThrough(lastApplied[2], lastApplied[2]) ELSE doc
      /\ producer' \in {"stopped", "running"} /\ Log
  BY DEF MarkAppliedThrough, others, markers, tables, disk, applier, progress, stability,
         memory
<1>2. lastApplied[2] \in 0..MaxTimestamp /\ lastApplied[2] \in Nat
  BY OpTimeFacts DEF TypeInv, TypeOK
<1>3. doc' \in Documents
  BY <1>1, <1>2, StateFacts, DocFacts
<1>4. checkpoint' \in [at : Timestamps, data : Table, doc : Documents] /\ Journaled
  BY <1>1, LogFacts DEF TypeInv, DiskOK
<1>5. TypeOK'
  BY <1>1, <1>3, <1>4 DEF TypeInv, TypeOK, Documents
<1> QED BY <1>1, <1>4, <1>5, TypeSameStep

\* The minValid document is written.
LEMMA TypeSetMinValid ==
    ASSUME TypeInv, SetMinValid
    PROVE  TypeInv'
<1>1. /\ UNCHANGED <<source, committed, leader, term, majority, oplog, truncate, data, stable,
                     role, recovering, batch, last, lastApplied, lastDurable, token, commit,
                     candidates, producer, crashes, kept, failed>>
      /\ pc = "setMinValid" /\ pc' = "apply" /\ Log
      /\ doc' = SetMinValidToAtLeast(last, <<oplog[last], last>>)
  BY DEF SetMinValid, others, markers, tables, disk, applier, progress, stability,
         memory
<1>2. truncate = 0 /\ last = Top
  BY <1>1 DEF TypeInv, StepInv
<1>3. <<oplog[last], last>> \in OpTimes /\ last \in Nat
  BY <1>2, WholeLog, StateFacts, OpTimeFacts
<1>4. doc' \in Documents
  BY <1>1, <1>3, StateFacts, DocFacts
<1>5. checkpoint' \in [at : Timestamps, data : Table, doc : Documents] /\ Journaled
  BY <1>1, LogFacts DEF TypeInv, DiskOK
<1>6. TypeOK'
  BY <1>1, <1>4, <1>5 DEF TypeInv, TypeOK, Documents
<1>7. StepInv'
  BY <1>1, <1>2 DEF TypeInv, StepInv, Top
<1>8. BatchInv' /\ LeaderInv'
  BY <1>1 DEF TypeInv, BatchInv, LeaderInv, StepInv
<1> QED BY <1>1, <1>5, <1>6, <1>7, <1>8, TypeSameOplog

\* An entry is applied to the data.
LEMMA TypeApplyEntry ==
    ASSUME TypeInv, NEW e \in batch, ApplyEntry(e)
    PROVE  TypeInv'
<1>1. /\ UNCHANGED <<source, committed, leader, term, majority, oplog, truncate, doc, stable,
                     role, pc, recovering, last, lastApplied, lastDurable, token, commit,
                     candidates, producer, crashes, kept, failed>>
      /\ pc = "apply" /\ data' = [data EXCEPT ![e[2]] = e[1]] /\ batch' = batch \ {e} /\ Log
  BY DEF ApplyEntry, others, markers, tables, disk, applier, progress, stability,
         memory
<1>2. e[1] \in 0..MaxTerm
  BY OpTimeFacts DEF TypeInv, TypeOK
<1>3. data' \in Table
  BY <1>1, <1>2, StateFacts DEF Table
<1>4. checkpoint' \in [at : Timestamps, data : Table, doc : Documents] /\ Journaled
  BY <1>1, LogFacts DEF TypeInv, DiskOK
<1>5. TypeOK'
  BY <1>1, <1>3, <1>4 DEF TypeInv, TypeOK, Table
<1>6. StepInv' /\ BatchInv' /\ LeaderInv'
  BY <1>1 DEF TypeInv, StepInv, BatchInv, LeaderInv, Top
<1> QED BY <1>1, <1>4, <1>5, <1>6, TypeSameOplog

\* The applied point of the batch is written.
LEMMA TypePersistAppliedThrough ==
    ASSUME TypeInv, PersistAppliedThrough
    PROVE  TypeInv'
<1>1. /\ UNCHANGED <<source, committed, leader, term, majority, oplog, truncate, data, stable,
                     role, recovering, batch, last, lastApplied, lastDurable, token, commit,
                     candidates, producer, crashes, kept, failed>>
      /\ pc = "apply" /\ pc' = "record" /\ recovering = "no" /\ Log
      /\ doc' = SetAppliedThrough(last, last)
  BY DEF PersistAppliedThrough, others, markers, tables, disk, applier, progress, stability,
         memory
<1>2. last \in 0..MaxTimestamp /\ last \in Nat
  BY DEF TypeInv, TypeOK
<1>3. doc' \in Documents
  BY <1>1, <1>2, StateFacts, DocFacts
<1>4. checkpoint' \in [at : Timestamps, data : Table, doc : Documents] /\ Journaled
  BY <1>1, LogFacts DEF TypeInv, DiskOK
<1>5. TypeOK'
  BY <1>1, <1>3, <1>4 DEF TypeInv, TypeOK, Documents
<1>6. StepInv' /\ BatchInv' /\ LeaderInv'
  BY <1>1 DEF TypeInv, StepInv, BatchInv, LeaderInv, Top
<1> QED BY <1>1, <1>4, <1>5, <1>6, TypeSameOplog

\* The last applied optime is the top of the oplog.
LEMMA TypeRecordApplied ==
    ASSUME TypeInv, RecordApplied
    PROVE  TypeInv'
<1>1. /\ UNCHANGED <<source, committed, leader, term, majority, oplog, truncate, data, doc,
                     journal, checkpoint, role, recovering, batch, last, lastDurable, token,
                     producer, crashes, kept, failed>>
      /\ pc = "record" /\ pc' = "idle"
      /\ SetLastApplied(OpTime(last), Leq(Document.valid, OpTime(last)))
  BY DEF RecordApplied, SetLastApplied, others, markers, tables, disk, applier, progress, stability,
         memory
<1>2. truncate = 0 /\ last = Top
  BY <1>1 DEF TypeInv, StepInv
<1>3. OpTime(last) \in OpTimes
  BY <1>2, WholeLog
<1>4. Leq(Document.valid, OpTime(last)) \in BOOLEAN
  BY DEF Leq
<1>5. /\ lastApplied' \in OpTimes /\ commit' = commit /\ stable' \in Timestamps
      /\ candidates' \subseteq OpTimes
  BY <1>1, <1>3, <1>4, AppliedFacts DEF TypeInv, TypeOK
<1>6. checkpoint' \in [at : Timestamps, data : Table, doc : Documents] /\ Journaled
  BY <1>1, LogFacts DEF TypeInv, DiskOK
<1>7. TypeOK'
  BY <1>1, <1>5 DEF TypeInv, TypeOK
<1>8. StepInv' /\ BatchInv' /\ LeaderInv'
  BY <1>1, <1>2 DEF TypeInv, StepInv, BatchInv, LeaderInv
<1> QED BY <1>1, <1>6, <1>7, <1>8, TypeSameOplog

\* The member has all committed entries when it takes over a new term.
LEMMA TypeClearAppliedThrough ==
    ASSUME TypeInv, ClearAppliedThrough
    PROVE  TypeInv'
<1>1. CASE truncate # 0
  BY <1>1, TypeFail, Zenon DEF ClearAppliedThrough
<1>2. CASE truncate = 0
  <2>1. /\ UNCHANGED <<source, committed, majority, oplog, truncate, data, stable, role,
                       recovering, batch, last, lastApplied, lastDurable, token, commit,
                       candidates, crashes, kept, failed>>
        /\ pc = "idle" /\ role = "secondary" /\ recovering = "no" /\ term < MaxTerm
        /\ Matches(committed) /\ term' = term + 1 /\ leader' = "member"
        /\ doc' = SetAppliedThrough(lastApplied[2], 0) /\ pc' = "newPrimary"
        /\ producer' = IF producer = "running" THEN "stopped" ELSE producer
        /\ Log
    BY <1>2 DEF ClearAppliedThrough, ClearedAppliedThrough,
          others, markers, tables, disk, applier, progress, stability,
         memory
  <2>2. lastApplied[2] \in Nat /\ 0 \in 0..MaxTimestamp
    BY OpTimeFacts, Bounds DEF TypeInv, TypeOK
  <2>3. doc' \in Documents
    BY <2>1, <2>2, StateFacts, DocFacts
  <2>4. checkpoint' \in [at : Timestamps, data : Table, doc : Documents] /\ Journaled
    BY <2>1, LogFacts DEF TypeInv, DiskOK
  <2>5. term' \in Terms /\ term' \in Nat /\ term <= term' /\ term < term'
    BY <2>1, StateFacts, Bounds
  <2>6. TypeOK'
    BY <2>1, <2>3, <2>4, <2>5 DEF TypeInv, TypeOK, Documents
  <2>7. \A t \in Timestamps : oplog'[t] <= term'
    <3>1. \A t \in Timestamps : oplog[t] <= term /\ oplog[t] \in Nat
      BY StateFacts, Bounds DEF TypeInv, LogInv
    <3> QED BY <2>1, <2>5, <3>1, StateFacts
  <2>8. DiskOK' /\ LogInv'
    <3>1. /\ oplog' \in Table /\ truncate' \in 0..MaxTimestamp /\ truncate' # 1
          /\ data' \in Table /\ Whole(Kept(oplog', truncate'))
      BY <2>1, StateFacts
    <3> QED BY <2>1, <2>3, <2>4, <2>5, <2>7, <3>1, JournalStep
  <2>9. \A n \in 1..Len(source) : source[n] < term' /\ source[n] <= term'
    <3>1. \A n \in 1..Len(source) : source[n] <= term /\ source[n] \in Nat
      BY StateFacts, Bounds DEF TypeInv, SourceInv
    <3> QED BY <2>5, <3>1, StateFacts
  <2>10. SourceInv'
    BY <2>1, <2>9 DEF TypeInv, SourceInv
  <2>11. StepInv' /\ BatchInv'
    BY <2>1, <1>2 DEF TypeInv, StepInv, BatchInv
  <2>12. LeaderInv'
    <3>1. \A n \in 1..Len(source) : source[n] # term'
      BY <2>5, <2>9, StateFacts, Bounds
    <3> QED BY <2>1, <3>1 DEF LeaderInv, Matches
  <2> QED BY <2>6, <2>8, <2>10, <2>11, <2>12 DEF TypeInv
<1> QED BY <1>1, <1>2

\* A member that does not lead has nothing to keep of its term.
LEMMA TypeStepDown ==
    ASSUME TypeInv, StepDown
    PROVE  TypeInv'
<1>1. /\ UNCHANGED <<source, committed, leader, term, majority, oplog, truncate, data, doc,
                     journal, checkpoint, stable, recovering, batch, last, lastApplied,
                     lastDurable, token, commit, candidates, producer, crashes, kept, failed>>
      /\ pc \in {"idle", "newPrimary"} /\ role' = "secondary" /\ pc' = "idle"
  BY DEF StepDown, others, markers, tables, disk, applier, progress, stability,
         memory
<1>2. TypeOK'
  BY <1>1 DEF TypeInv, TypeOK
<1>3. checkpoint' \in [at : Timestamps, data : Table, doc : Documents] /\ Journaled
  BY <1>1, LogFacts DEF TypeInv, DiskOK
<1>4. StepInv' /\ BatchInv' /\ LeaderInv'
  BY <1>1 DEF TypeInv, StepInv, BatchInv, LeaderInv
<1> QED BY <1>1, <1>2, <1>3, <1>4, TypeSameOplog

\* The token is an applied optime.
LEMMA TypeTakeToken ==
    ASSUME TypeInv, TakeToken
    PROVE  TypeInv'
<1>1. /\ UNCHANGED <<source, committed, leader, term, majority, oplog, truncate, data, doc,
                     journal, checkpoint, stable, role, pc, recovering, batch, last, lastApplied,
                     lastDurable, commit, candidates, producer, crashes, kept, failed>>
      /\ token' = lastApplied
  BY DEF TakeToken, others, markers, tables, disk, applier, progress, stability,
         memory
<1>2. TypeOK'
  BY <1>1 DEF TypeInv, TypeOK
<1>3. checkpoint' \in [at : Timestamps, data : Table, doc : Documents] /\ Journaled
  BY <1>1, LogFacts DEF TypeInv, DiskOK
<1> QED BY <1>1, <1>2, <1>3, TypeSameStep

\* The journal holds the present tables.
LEMMA TypeFlushJournal ==
    ASSUME TypeInv, FlushJournal
    PROVE  TypeInv'
<1>1. /\ UNCHANGED <<source, committed, leader, term, majority, oplog, truncate, data, doc,
                     checkpoint, stable, role, pc, recovering, batch, last, lastApplied, commit,
                     candidates, producer, crashes, kept, failed>>
      /\ journal' = Flushed /\ token' = Null
      /\ lastDurable' = IF Leq(token, lastApplied) THEN Later(lastDurable, token)
                        ELSE lastDurable
  BY DEF FlushJournal, others, markers, tables, disk, applier, progress, stability,
         memory
<1>2. lastDurable' \in OpTimes
  BY <1>1 DEF TypeInv, TypeOK, Later
<1>3. TypeOK'
  BY <1>1, <1>2, OpTimeFacts DEF TypeInv, TypeOK
<1>4. checkpoint' \in [at : Timestamps, data : Table, doc : Documents] /\ Journaled
  BY <1>1, LogFacts DEF TypeInv, DiskOK, Journaled
<1> QED BY <1>1, <1>3, <1>4, TypeSameStep

\* A stable checkpoint has tables.
LEMMA CheckpointFacts ==
    ASSUME TypeInv
    PROVE  /\ StableCheckpoint \in [at : Timestamps, data : Table, doc : Documents]
           /\ StableCheckpoint.at = stable
           /\ StableCheckpoint.data = UpTo(data, stable) /\ StableCheckpoint.doc = DocUpTo(stable)
<1>1. stable \in Timestamps /\ stable \in Nat
  BY Bounds DEF TypeInv, TypeOK
<1>2. UpTo(data, stable) \in Table /\ DocUpTo(stable) \in Documents
  BY <1>1, StateFacts, UpToFacts, DocFacts
<1> QED BY <1>1, <1>2 DEF StableCheckpoint

\* The checkpoint has the tables as of the stable timestamp.
LEMMA TypeTakeCheckpoint ==
    ASSUME TypeInv, TakeCheckpoint
    PROVE  TypeInv'
<1>1. /\ UNCHANGED <<source, committed, leader, term, majority, oplog, truncate, data, doc, stable,
                     role, pc, recovering, batch, last, lastApplied, lastDurable, token, commit,
                     candidates, producer, crashes, kept, failed>>
      /\ journal' = Flushed /\ checkpoint' = StableCheckpoint
  BY DEF TakeCheckpoint, others, markers, tables, disk, applier, progress, stability,
         memory
<1>2. checkpoint' \in [at : Timestamps, data : Table, doc : Documents] /\ Journaled
  BY <1>1, LogFacts, CheckpointFacts DEF Journaled
<1>3. checkpoint'.at \in Timestamps
  BY <1>2
<1>4. TypeOK'
  BY <1>1, <1>3 DEF TypeInv, TypeOK
<1> QED BY <1>1, <1>2, <1>4, TypeSameStep

\* The applied point is cleared, or left as it is.
LEMMA TypeStopReplication ==
    ASSUME TypeInv, StopReplication
    PROVE  TypeInv'
<1>1. /\ UNCHANGED <<source, committed, leader, term, majority, oplog, truncate, data, stable,
                     role, recovering, batch, last, lastApplied, lastDurable, token, commit,
                     candidates, crashes, kept, failed>>
      /\ pc = "idle" /\ role = "secondary" /\ pc' = "closing" /\ producer' = "stopped" /\ Log
      /\ doc' = doc \/ doc' = SetAppliedThrough(lastApplied[2], 0)
  BY DEF StopReplication, ClearedAppliedThrough,
        others, markers, tables, disk, applier, progress, stability,
         memory
<1>2. lastApplied[2] \in Nat /\ 0 \in 0..MaxTimestamp
  BY OpTimeFacts, Bounds DEF TypeInv, TypeOK
<1>3. doc' \in Documents
  BY <1>1, <1>2, StateFacts, DocFacts
<1>4. checkpoint' \in [at : Timestamps, data : Table, doc : Documents] /\ Journaled
  BY <1>1, LogFacts DEF TypeInv, DiskOK
<1>5. TypeOK'
  BY <1>1, <1>3, <1>4 DEF TypeInv, TypeOK, Documents
<1>6. StepInv' /\ BatchInv' /\ LeaderInv'
  BY <1>1 DEF TypeInv, StepInv, BatchInv, LeaderInv
<1> QED BY <1>1, <1>4, <1>5, <1>6, TypeSameOplog

\* The tables return to the stable timestamp; the common point is an entry of the oplog.
LEMMA TypeStartRollback ==
    ASSUME TypeInv, StartRollback
    PROVE  TypeInv'
<1>1. CASE ~Leq(commit, OpTime(CommonPoint))
  BY <1>1, TypeFail, Zenon DEF StartRollback
<1>2. CASE Leq(commit, OpTime(CommonPoint))
  <2>1. /\ UNCHANGED <<source, committed, leader, term, majority, oplog, truncate, journal,
                       checkpoint, stable, role, batch, lastApplied, lastDurable, token, commit,
                       candidates, crashes, failed>>
        /\ kept' \in BOOLEAN
        /\ pc = "idle" /\ role = "secondary" /\ CommonPoint < Top
        /\ data' = UpTo(data, stable) /\ doc' = DocUpTo(stable)
        /\ recovering' = "rollback" /\ pc' = "setTruncate" /\ last' = CommonPoint
        /\ producer' = "stopped"
    BY <1>2 DEF StartRollback, others, markers, tables, disk, applier, progress, stability,
         memory
  <2>2. truncate = 0
    BY <2>1 DEF TypeInv, StepInv
  <2>3. 1 <= CommonPoint /\ CommonPoint < MaxTimestamp /\ CommonPoint \in 0..MaxTimestamp
    BY <2>1, <2>2, CommonPointFacts, StateFacts, Bounds
  <2>4. stable \in Timestamps /\ stable \in Nat
    BY Bounds DEF TypeInv, TypeOK
  <2>5. data' \in Table /\ doc' \in Documents
    BY <2>1, <2>4, StateFacts, UpToFacts, DocFacts
  <2>6. TypeOK'
    BY <2>1, <2>3, <2>5 DEF TypeInv, TypeOK, Table, Documents
  <2>7. checkpoint' \in [at : Timestamps, data : Table, doc : Documents] /\ Journaled
    BY <2>1, LogFacts DEF TypeInv, DiskOK
  <2>8. StepInv' /\ BatchInv' /\ LeaderInv'
    BY <2>1, <2>2, <2>3 DEF TypeInv, StepInv, BatchInv, LeaderInv
  <2> QED BY <2>1, <2>6, <2>7, <2>8, TypeSameOplog
<1> QED BY <1>1, <1>2

\* The batch of recovery has entries of the oplog.
LEMMA TypeStartRecovery ==
    ASSUME TypeInv, StartRecovery
    PROVE  TypeInv'
<1>1. CASE \E x : Fail(x)
  BY <1>1, TypeFail, Zenon
<1>2. CASE ~\E x : Fail(x)
  <2>1. /\ UNCHANGED <<source, committed, leader, term, majority, oplog, truncate, data, doc,
                       journal, checkpoint, stable, role, recovering, lastApplied, lastDurable,
                       token, commit, candidates, producer, crashes, kept, failed>>
        /\ pc = "start" /\ pc' = "apply" /\ last' = Top
        /\ batch' = {OpTime(t) : t \in {t \in StartPoint + 1..Top : oplog[t] > 0}}
    BY <1>2 DEF StartRecovery, others, markers, tables, disk, applier, progress, stability,
         memory
  <2>2. truncate = 0 /\ recovering # "no"
    BY <2>1 DEF TypeInv, StepInv
  <2>3. \A t \in Nat : t \in 1..Top => OpTime(t) = <<oplog[t], t>> /\ OpTime(t) \in OpTimes
    <3>1. \A t \in Nat : t \in 1..Top => t \in Timestamps /\ oplog[t] \in Terms
      BY <2>2, WholeLog, StateFacts, Bounds
    <3>2. \A t \in Nat : t \in 1..Top => OpTime(t) = <<oplog[t], t>>
      BY StateFacts DEF OpTime
    <3> QED BY <3>1, <3>2, OpTimeFacts
  <2>4. StartPoint \in Nat
    <3>1. stable \in Nat /\ Top \in Nat
      BY StateFacts, Bounds DEF TypeInv, TypeOK
    <3>2. Document.through \in Nat
      BY StateFacts, DocFacts, Bounds
    <3>3. StartPoint \in {stable, Document.through, Top}
      BY DEF StartPoint
    <3> QED BY <3>1, <3>2, <3>3
  <2>5. batch' \subseteq OpTimes
    <3> HIDE DEF StartPoint
    <3>1. \A t \in StartPoint + 1..Top : t \in Nat /\ t \in 1..Top
      BY <2>4, StateFacts
    <3> QED BY <2>1, <2>3, <3>1
  <2>6. TypeOK'
    BY <2>1, <2>5, StateFacts DEF TypeInv, TypeOK
  <2>7. checkpoint' \in [at : Timestamps, data : Table, doc : Documents] /\ Journaled
    BY <2>1, LogFacts DEF TypeInv, DiskOK
  <2>8. StepInv' /\ BatchInv' /\ LeaderInv'
    BY <2>1, <2>2 DEF TypeInv, StepInv, BatchInv, LeaderInv, Top
  <2> QED BY <2>1, <2>6, <2>7, <2>8, TypeSameOplog
<1> QED BY <1>1, <1>2

\* The applied point is set at the top of the oplog.
LEMMA TypeFinishApplying ==
    ASSUME TypeInv, FinishApplying
    PROVE  TypeInv'
<1>1. /\ UNCHANGED <<source, committed, leader, term, majority, oplog, truncate, data, stable,
                     role, recovering, batch, last, lastApplied, lastDurable, token, commit,
                     candidates, producer, crashes, kept, failed>>
      /\ pc = "apply" /\ recovering # "no" /\ pc' = "finish"
      /\ doc' = doc \/ doc' = SetAppliedThrough(Top, Top)
      /\ Log \/ LogAndFlush
  BY DEF FinishApplying, others, markers, tables, disk, applier, progress, stability,
         memory
<1>2. doc' \in Documents
  BY <1>1, StateFacts, DocFacts
<1>3. checkpoint' \in [at : Timestamps, data : Table, doc : Documents] /\ Journaled
  BY <1>1, LogFacts DEF TypeInv, DiskOK
<1>4. TypeOK'
  BY <1>1, <1>2, <1>3 DEF TypeInv, TypeOK, Documents
<1>5. StepInv' /\ BatchInv' /\ LeaderInv'
  BY <1>1 DEF TypeInv, StepInv, BatchInv, LeaderInv
<1> QED BY <1>1, <1>3, <1>4, <1>5, TypeSameOplog

\* The optimes are set from the top of the oplog.
LEMMA TypeFinishRecovery ==
    ASSUME TypeInv, FinishRecovery
    PROVE  TypeInv'
<1>1. /\ UNCHANGED <<source, committed, leader, term, majority, oplog, truncate, data, doc,
                     journal, checkpoint, role, batch, last, token, producer, crashes, kept, failed>>
      /\ pc = "finish" /\ pc' = "idle" /\ recovering' = "no" /\ lastDurable' = OpTime(Top)
  BY DEF FinishRecovery, SetLastApplied,
        others, markers, tables, disk, applier, progress, stability,
         memory
<1>2. truncate = 0
  BY <1>1 DEF TypeInv, StepInv
<1>3. OpTime(Top) \in OpTimes
  BY <1>2, WholeLog
<1>4. /\ lastApplied' \in OpTimes /\ commit' = commit /\ stable' \in Timestamps
      /\ candidates' \subseteq OpTimes
  <2>1. CASE recovering = "startup"
    <3>1. SetLastApplied(OpTime(Top), Leq(Document.valid, OpTime(Top)))
      BY <2>1 DEF FinishRecovery
    <3>2. Leq(Document.valid, OpTime(Top)) \in BOOLEAN
      BY DEF Leq
    <3> QED BY <1>3, <3>1, <3>2, AppliedFacts DEF TypeInv, TypeOK
  <2>2. CASE recovering # "startup"
    BY <1>3, <2>2 DEF FinishRecovery, RemainingCandidates, TypeInv, TypeOK
  <2> QED BY <2>1, <2>2
<1>5. TypeOK'
  BY <1>1, <1>3, <1>4 DEF TypeInv, TypeOK
<1>6. checkpoint' \in [at : Timestamps, data : Table, doc : Documents] /\ Journaled
  BY <1>1, LogFacts DEF TypeInv, DiskOK
<1>7. StepInv' /\ BatchInv' /\ LeaderInv'
  BY <1>1, <1>2 DEF TypeInv, StepInv, BatchInv, LeaderInv
<1> QED BY <1>1, <1>5, <1>6, <1>7, TypeSameOplog

-----------------------------------------------------------------------------
(* The types: steps that change the oplog or the truncate point. *)

\* A step that writes the oplog or the truncate point and leaves the others as they are.
LEMMA TypeNewOplog ==
    ASSUME TypeInv, UNCHANGED <<source, committed, leader, term, majority>>,
           TypeOK', Journaled,
           checkpoint' \in [at : Timestamps, data : Table, doc : Documents],
           truncate' # 1, Whole(Kept(oplog', truncate')),
           \A t \in Timestamps : oplog'[t] <= term,
           StepInv', BatchInv', LeaderInv'
    PROVE  TypeInv'
<1>1. /\ oplog' \in Table /\ truncate' \in 0..MaxTimestamp
      /\ data' \in Table /\ doc' \in Documents
  BY DEF TypeOK, Table, Documents
<1>2. term' \in Nat /\ term <= term'
  BY StateFacts
<1>3. DiskOK' /\ LogInv'
  BY <1>1, <1>2, JournalStep
<1>4. SourceInv'
  BY DEF TypeInv, SourceInv
<1> QED BY <1>3, <1>4 DEF TypeInv

\* The batch follows the member's oplog: its terms go up from there.
LEMMA TypeStartBatch ==
    ASSUME TypeInv, StartBatch
    PROVE  TypeInv'
<1>1. /\ UNCHANGED <<source, committed, leader, term, majority, oplog, data, doc, stable, role,
                     recovering, lastApplied, lastDurable, token, commit, candidates, producer,
                     crashes, kept, failed>>
      /\ pc = "idle" /\ role = "secondary" /\ Matches(Top) /\ truncate' = Top + 1
      /\ pc' = "writeOplog" /\ Log
  BY DEF StartBatch, others, markers, tables, disk, applier, progress, stability,
         memory
<1>2. PICK n \in Top + 1..Top + MaxBatch :
        n <= Len(source) /\ batch' = {SourceOpTime(t) : t \in Top + 1..n} /\ last' = n
  BY DEF StartBatch
<1>3. truncate = 0 /\ recovering = "no"
  BY <1>1 DEF TypeInv, StepInv
<1>4. /\ Whole(oplog) /\ Top \in Timestamps /\ 1 <= Top
      /\ \A t \in Timestamps : oplog[t] > 0 <=> t <= Top
  BY <1>3, WholeLog
<1>5. /\ n \in Nat /\ Top \in Nat /\ n \in 0..MaxTimestamp /\ Top + 1 \in Timestamps
      /\ Top + 1 <= n /\ truncate' \in 0..MaxTimestamp /\ truncate' # 1 /\ truncate' # 0
      /\ truncate' - 1 = Top
  <2>1. Top \in Nat /\ Len(source) \in Nat /\ Len(source) <= MaxTimestamp
    BY StateFacts
  <2> QED BY <1>1, <1>2, <1>4, <2>1, Bounds
<1>6. \A t \in Top + 1..n : source[t] \in Terms /\ t \in 1..Len(source) /\ t \in Timestamps
  BY <1>2, <1>5, StateFacts
<1>7. batch' \subseteq OpTimes
  BY <1>2, <1>6, OpTimeFacts DEF SourceOpTime
<1>8. TypeOK'
  BY <1>1, <1>2, <1>5, <1>7, LogFacts DEF TypeInv, TypeOK
<1>9. checkpoint' \in [at : Timestamps, data : Table, doc : Documents] /\ Journaled
  BY <1>1, LogFacts DEF TypeInv, DiskOK
<1>10. Whole(Kept(oplog', truncate'))
  BY <1>1, <1>4, <1>5, StateFacts, WholePrefix
<1>11. \A t \in Timestamps : oplog'[t] <= term
  BY <1>1 DEF TypeInv, LogInv
<1>12. StepInv' /\ LeaderInv'
  BY <1>1, <1>3 DEF TypeInv, StepInv, LeaderInv
<1>13. BatchInv'
  <2>1. \A e \in batch' : \E t \in Top + 1..n : e[1] = source[t] /\ e[2] = t
    BY <1>2 DEF SourceOpTime
  <2>2. \A t, u \in 1..Len(source) : t <= u => source[t] <= source[u]
    BY DEF TypeInv, SourceInv
  <2>3. \A t \in 1..Len(source) : source[t] <= term
    BY DEF TypeInv, SourceInv
  <2>4. Top \in 1..Len(source) /\ oplog[Top] = source[Top] /\ 0 < oplog[Top]
    BY <1>1, <1>4, <1>5, StateFacts DEF Matches
  <2>5. \A t \in Top + 1..n : \E e \in batch' : e[2] = t
    <3> TAKE t \in Top + 1..n
    <3>1. SourceOpTime(t) \in batch' /\ SourceOpTime(t)[2] = t
      BY <1>2 DEF SourceOpTime
    <3> QED BY <3>1
  <2>6. \A e \in batch' : /\ e # Null /\ Top + 1 <= e[2] /\ e[2] <= n
                          /\ oplog[Top] <= e[1] /\ e[1] <= term
    <3> TAKE e \in batch'
    <3>1. PICK t \in Top + 1..n : e[1] = source[t] /\ e[2] = t
      BY <2>1
    <3>2. Top <= t /\ Top + 1 <= t /\ t <= n
      BY <1>5
    <3>3. source[Top] <= source[t] /\ source[t] <= term
      BY <1>6, <2>2, <2>3, <2>4, <3>2
    <3>4. e # Null
      BY <1>5, <3>1, <3>2, OpTimeFacts
    <3> QED BY <2>4, <3>1, <3>2, <3>3, <3>4
  <2>7. \A e, f \in batch' : e[2] <= f[2] => e[1] <= f[1]
    BY <1>6, <2>1, <2>2
  <2>8. \A t \in Timestamps : Top + 1 <= t /\ oplog[t] > 0 => <<oplog[t], t>> \in batch'
    BY <1>4, <1>5, Bounds
  <2> QED BY <1>1, <1>2, <1>5, <2>4, <2>5, <2>6, <2>7, <2>8 DEF BatchInv
<1> QED BY <1>1, <1>5, <1>8, <1>9, <1>10, <1>11, <1>12, <1>13, TypeNewOplog

\* What the truncated oplog has, entry by entry.
LEMMA KeptLog ==
    ASSUME TypeInv
    PROVE  /\ \A t \in Timestamps : Kept(oplog, truncate)[t] =
                IF truncate = 0 \/ t < truncate THEN oplog[t] ELSE 0
           /\ Kept(oplog, truncate) \in Table /\ oplog[1] = 1
           /\ truncate = 0 => Kept(oplog, truncate) = oplog
<1>1. oplog \in Table /\ truncate \in 0..MaxTimestamp /\ truncate # 1 /\ truncate \in Nat
  BY StateFacts
<1>2. /\ \A t \in Timestamps : Kept(oplog, truncate)[t] =
                IF truncate = 0 \/ t < truncate THEN oplog[t] ELSE 0
      /\ Kept(oplog, truncate) \in Table
  BY <1>1, KeptFacts
<1>3. Kept(oplog, truncate)[1] = 1
  BY StateFacts DEF Whole
<1>4. oplog[1] = 1
  BY <1>1, <1>2, <1>3, Bounds
<1> QED BY <1>2, <1>4 DEF Kept

\* An entry of the batch is written above the truncate point.
LEMMA TypeWriteOplogEntry ==
    ASSUME TypeInv, NEW e \in batch, WriteOplogEntry(e)
    PROVE  TypeInv'
<1>1. /\ UNCHANGED <<source, committed, leader, term, majority, truncate, data, doc, stable,
                     role, pc, recovering, batch, last, lastApplied, lastDurable, token, commit,
                     candidates, producer, crashes, kept, failed>>
      /\ pc = "writeOplog" /\ oplog[e[2]] = 0
      /\ oplog' = [oplog EXCEPT ![e[2]] = e[1]] /\ Log
  BY DEF WriteOplogEntry, others, markers, tables, disk, applier, progress, stability,
         memory
<1>2. /\ e \in OpTimes /\ e # Null /\ truncate <= e[2] /\ e[1] <= term
      /\ truncate # 0 /\ role = "secondary"
  BY <1>1 DEF TypeInv, TypeOK, BatchInv, StepInv
<1>3. e[1] \in Terms /\ e[2] \in Timestamps /\ e[1] \in 0..MaxTerm /\ e = <<e[1], e[2]>>
      /\ e[1] \in Nat /\ e[2] \in Nat
  BY <1>2, OpTimeFacts
<1>4. /\ oplog' \in Table
      /\ \A t \in Timestamps : oplog'[t] = IF t = e[2] THEN e[1] ELSE oplog[t]
  BY <1>1, <1>3, StateFacts DEF Table
<1>5. checkpoint' \in [at : Timestamps, data : Table, doc : Documents] /\ Journaled
  BY <1>1, LogFacts DEF TypeInv, DiskOK
<1>6. TypeOK'
  BY <1>1, <1>4, <1>5 DEF TypeInv, TypeOK, Table
<1>7. Kept(oplog', truncate') = Kept(oplog, truncate)
  <2>1. \A t \in Timestamps : Kept(oplog', truncate)[t] =
                IF truncate = 0 \/ t < truncate THEN oplog'[t] ELSE 0
    BY <1>4, StateFacts, KeptFacts
  <2>2. \A t \in Timestamps : Kept(oplog', truncate)[t] = Kept(oplog, truncate)[t]
    BY <1>2, <1>3, <1>4, <2>1, KeptLog, StateFacts, Bounds
  <2>3. Kept(oplog', truncate) \in Table
    BY <1>4, StateFacts, KeptFacts
  <2> QED BY <1>1, <2>2, <2>3, KeptLog, TableEqual
<1>8. truncate' # 1 /\ Whole(Kept(oplog', truncate'))
  BY <1>1, <1>7, StateFacts
<1>9. \A t \in Timestamps : oplog'[t] <= term
  BY <1>2, <1>4 DEF TypeInv, LogInv
<1>10. StepInv' /\ LeaderInv'
  BY <1>1, <1>2 DEF TypeInv, StepInv, LeaderInv
<1>11. BatchInv'
  <2>1. truncate - 1 \in Timestamps /\ truncate - 1 # e[2]
    <3>1. truncate \in Nat /\ truncate <= MaxTimestamp /\ 2 <= truncate
      BY <1>2, StateFacts
    <3> QED BY <1>2, <1>3, <3>1, Bounds
  <2>2. oplog'[truncate - 1] = oplog[truncate - 1]
    BY <1>4, <2>1
  <2>3. \A t \in Timestamps : truncate <= t /\ oplog'[t] > 0 => <<oplog'[t], t>> \in batch
    <3> TAKE t \in Timestamps
    <3>1. CASE t = e[2]
      BY <1>3, <1>4, <3>1
    <3>2. CASE t # e[2]
      BY <1>1, <1>4, <3>2 DEF TypeInv, BatchInv
    <3> QED BY <3>1, <3>2
  <2>4. /\ truncate <= last /\ 0 < oplog[truncate - 1]
        /\ \A f \in batch : /\ f # Null /\ truncate <= f[2] /\ f[2] <= last
                            /\ oplog[truncate - 1] <= f[1] /\ f[1] <= term
        /\ \A f, g \in batch : f[2] <= g[2] => f[1] <= g[1]
        /\ \A t \in truncate..last : \E f \in batch : f[2] = t
    BY <1>1 DEF TypeInv, BatchInv
  <2> QED BY <1>1, <1>2, <2>2, <2>3, <2>4 DEF BatchInv
<1> QED BY <1>1, <1>5, <1>6, <1>8, <1>9, <1>10, <1>11, TypeNewOplog

\* A batch whose entries are all in the oplog makes it whole.
LEMMA WrittenBatch ==
    ASSUME TypeInv, pc = "writeOplog", OplogIsWritten
    PROVE  Whole(oplog) /\ Top = last
<1>1. /\ truncate # 0 /\ truncate <= last /\ 0 < oplog[truncate - 1]
      /\ \A e \in batch : /\ e # Null /\ truncate <= e[2] /\ e[2] <= last
                          /\ oplog[truncate - 1] <= e[1] /\ e[1] <= term
      /\ \A e, f \in batch : e[2] <= f[2] => e[1] <= f[1]
      /\ \A t \in truncate..last : \E e \in batch : e[2] = t
      /\ \A t \in Timestamps : truncate <= t /\ oplog[t] > 0 => <<oplog[t], t>> \in batch
  BY DEF TypeInv, BatchInv
<1>2. /\ truncate \in Nat /\ truncate <= MaxTimestamp /\ 2 <= truncate
      /\ truncate - 1 \in Timestamps /\ last \in Nat /\ last <= MaxTimestamp
  BY <1>1, StateFacts, Bounds DEF TypeInv, TypeOK
<1>3. \A t \in Timestamps : t \in Nat /\ oplog[t] \in Nat
  BY StateFacts, Bounds
<1>4. \A t \in Timestamps : truncate <= t /\ oplog[t] > 0 => t <= last
  <2> TAKE t \in Timestamps
  <2> HAVE truncate <= t /\ oplog[t] > 0
  <2>1. <<oplog[t], t>> \in batch
    BY <1>1
  <2>2. <<oplog[t], t>>[2] <= last
    BY <1>1, <2>1
  <2> QED BY <2>2
<1>5. \A t \in Timestamps : truncate <= t /\ t <= last => oplog[t] > 0
  <2> TAKE t \in Timestamps
  <2> HAVE truncate <= t /\ t <= last
  <2>1. t \in truncate..last
    BY <1>2, <1>3
  <2>2. PICK e \in batch : e[2] = t
    BY <1>1, <2>1
  <2> QED BY <2>2 DEF OplogIsWritten
<1>6. \A t, u \in Timestamps : t <= u /\ u < truncate /\ oplog[u] > 0
            => 0 < oplog[t] /\ oplog[t] <= oplog[u]
  <2> TAKE t, u \in Timestamps
  <2> HAVE t <= u /\ u < truncate /\ oplog[u] > 0
  <2>1. Kept(oplog, truncate)[u] = oplog[u] /\ Kept(oplog, truncate)[t] = oplog[t]
    BY <1>2, <1>3, KeptLog
  <2> QED BY <2>1, StateFacts DEF Whole
<1>7. \A t, u \in Timestamps : truncate <= t /\ t <= u /\ oplog[u] > 0
            => 0 < oplog[t] /\ oplog[t] <= oplog[u]
  <2> TAKE t, u \in Timestamps
  <2> HAVE truncate <= t /\ t <= u /\ oplog[u] > 0
  <2>1. truncate <= u /\ u <= last /\ t <= last
    BY <1>2, <1>3, <1>4
  <2>2. oplog[t] > 0
    BY <1>5, <2>1
  <2>3. <<oplog[t], t>> \in batch /\ <<oplog[u], u>> \in batch
    BY <1>1, <2>1, <2>2
  <2>4. <<oplog[t], t>>[2] <= <<oplog[u], u>>[2] => <<oplog[t], t>>[1] <= <<oplog[u], u>>[1]
    BY <1>1, <2>3
  <2> QED BY <2>2, <2>4
<1>8. \A t, u \in Timestamps : t < truncate /\ truncate <= u /\ oplog[u] > 0
            => 0 < oplog[t] /\ oplog[t] <= oplog[u]
  <2> TAKE t, u \in Timestamps
  <2> HAVE t < truncate /\ truncate <= u /\ oplog[u] > 0
  <2>1. t <= truncate - 1 /\ truncate - 1 < truncate
    BY <1>2, <1>3
  <2>2. 0 < oplog[t] /\ oplog[t] <= oplog[truncate - 1]
    BY <1>1, <1>2, <1>6, <2>1
  <2>3. <<oplog[u], u>> \in batch
    BY <1>1
  <2>4. oplog[truncate - 1] <= <<oplog[u], u>>[1]
    BY <1>1, <2>3
  <2> QED BY <1>2, <1>3, <2>2, <2>4
<1>9. Whole(oplog)
  <2>1. oplog[1] = 1
    BY KeptLog
  <2>2. ASSUME NEW t \in Timestamps, NEW u \in Timestamps, t <= u, oplog[u] > 0
        PROVE  0 < oplog[t] /\ oplog[t] <= oplog[u]
    <3>1. CASE u < truncate
      BY <1>6, <2>2, <3>1
    <3>2. CASE truncate <= t
      BY <1>7, <2>2, <3>2
    <3>3. CASE t < truncate /\ truncate <= u
      BY <1>8, <2>2, <3>3
    <3> QED BY <1>2, <1>3, <3>1, <3>2, <3>3
  <2> QED BY <2>1, <2>2 DEF Whole
<1>10. last \in Timestamps /\ oplog[last] > 0
  BY <1>1, <1>2, <1>5, Bounds
<1>11. \A t \in Timestamps : oplog[t] > 0 => t <= last
  BY <1>1, <1>2, <1>3, <1>4
<1> QED BY <1>9, <1>10, <1>11, StateFacts, TopIs

\* Once the batch is written the oplog is whole without the truncate point.
LEMMA TypeClearTruncatePoint ==
    ASSUME TypeInv, ClearTruncatePoint
    PROVE  TypeInv'
<1>1. /\ UNCHANGED <<source, committed, leader, term, majority, oplog, data, doc, stable, role,
                     recovering, batch, last, lastApplied, lastDurable, token, commit,
                     candidates, producer, crashes, kept, failed>>
      /\ pc = "writeOplog" /\ OplogIsWritten /\ truncate' = 0 /\ pc' = "setMinValid" /\ Log
  BY DEF ClearTruncatePoint, others, markers, tables, disk, applier, progress, stability,
         memory
<1>2. Whole(oplog) /\ Top = last
  BY <1>1, WrittenBatch
<1>3. TypeOK'
  <2>1. 0 \in 0..MaxTimestamp /\ checkpoint' = checkpoint
    BY <1>1, Bounds, LogFacts
  <2> QED BY <1>1, <2>1 DEF TypeInv, TypeOK
<1>4. checkpoint' \in [at : Timestamps, data : Table, doc : Documents] /\ Journaled
  BY <1>1, LogFacts DEF TypeInv, DiskOK
<1>5. truncate' # 1 /\ Whole(Kept(oplog', truncate'))
  BY <1>1, <1>2 DEF Kept
<1>6. \A t \in Timestamps : oplog'[t] <= term
  BY <1>1 DEF TypeInv, LogInv
<1>7. StepInv' /\ BatchInv' /\ LeaderInv'
  BY <1>1, <1>2 DEF TypeInv, StepInv, BatchInv, LeaderInv, Top
<1> QED BY <1>1, <1>3, <1>4, <1>5, <1>6, <1>7, TypeNewOplog

\* What is kept below the common point is whole.
LEMMA TypeSetTruncatePoint ==
    ASSUME TypeInv, SetTruncatePoint
    PROVE  TypeInv'
<1>1. /\ UNCHANGED <<source, committed, leader, term, majority, oplog, data, doc, stable, role,
                     recovering, batch, last, lastApplied, lastDurable, token, commit,
                     candidates, producer, crashes, kept, failed>>
      /\ pc = "setTruncate" /\ truncate' = last + 1 /\ pc' = "truncate" /\ Log
  BY DEF SetTruncatePoint, others, markers, tables, disk, applier, progress, stability,
         memory
<1>2. truncate = 0 /\ recovering # "no" /\ 1 <= last /\ last < MaxTimestamp
  BY <1>1 DEF TypeInv, StepInv
<1>3. truncate' \in 0..MaxTimestamp /\ truncate' # 1
  BY <1>1, <1>2, Bounds DEF TypeInv, TypeOK
<1>4. checkpoint' \in [at : Timestamps, data : Table, doc : Documents] /\ Journaled
      /\ checkpoint' = checkpoint
  BY <1>1, LogFacts DEF TypeInv, DiskOK
<1>5. TypeOK'
  BY <1>1, <1>3, <1>4 DEF TypeInv, TypeOK
<1>6. Whole(Kept(oplog', truncate'))
  BY <1>1, <1>2, <1>3, WholeLog, StateFacts, WholePrefix
<1>7. \A t \in Timestamps : oplog'[t] <= term
  BY <1>1 DEF TypeInv, LogInv
<1>8. StepInv' /\ BatchInv' /\ LeaderInv'
  BY <1>1, <1>2 DEF TypeInv, StepInv, BatchInv, LeaderInv
<1> QED BY <1>1, <1>3, <1>4, <1>5, <1>6, <1>7, <1>8, TypeNewOplog

\* A truncated oplog stays as it is when it is truncated again.
LEMMA KeptAgain ==
    ASSUME NEW o \in Table, NEW k \in 0..MaxTimestamp
    PROVE  Kept(Kept(o, k), k) = Kept(o, k)
<1>1. /\ Kept(o, k) \in Table
      /\ \A t \in Timestamps : Kept(o, k)[t] = IF k = 0 \/ t < k THEN o[t] ELSE 0
  BY KeptFacts
<1>2. /\ Kept(Kept(o, k), k) \in Table
      /\ \A t \in Timestamps : Kept(Kept(o, k), k)[t] =
            IF k = 0 \/ t < k THEN Kept(o, k)[t] ELSE 0
  BY <1>1, KeptFacts
<1>3. \A t \in Timestamps : Kept(Kept(o, k), k)[t] = Kept(o, k)[t]
  BY <1>1, <1>2
<1> QED BY <1>1, <1>2, <1>3, TableEqual

\* The truncated oplog is what was kept of it.
LEMMA TypeTruncateOplog ==
    ASSUME TypeInv, TruncateOplog
    PROVE  TypeInv'
<1>1. CASE \E x : Fail(x)
  BY <1>1, TypeFail, Zenon
<1>2. CASE ~\E x : Fail(x)
  <2>1. /\ UNCHANGED <<source, committed, leader, term, majority, truncate, data, doc, stable,
                       role, recovering, batch, last, lastApplied, lastDurable, token, commit,
                       candidates, producer, crashes, kept, failed>>
        /\ pc = "truncate" /\ oplog' = Kept(oplog, truncate) /\ pc' = "clear" /\ Log
    BY <1>2 DEF TruncateOplog, Kept, others, markers, tables, disk, applier, progress, stability,
         memory
  <2>2. recovering # "no" /\ role = "secondary"
    BY <2>1 DEF TypeInv, StepInv
  <2>3. oplog' \in Table /\ Kept(oplog', truncate') = oplog'
    BY <2>1, StateFacts, KeptFacts, KeptAgain
  <2>4. checkpoint' \in [at : Timestamps, data : Table, doc : Documents] /\ Journaled
        /\ checkpoint' = checkpoint
    BY <2>1, LogFacts DEF TypeInv, DiskOK
  <2>5. TypeOK'
    BY <2>1, <2>3, <2>4 DEF TypeInv, TypeOK, Table
  <2>6. truncate' # 1 /\ Whole(Kept(oplog', truncate'))
    BY <2>1, <2>3, StateFacts
  <2>7. \A t \in Timestamps : oplog'[t] <= term
    <3>1. \A t \in Timestamps : oplog[t] <= term
      BY DEF TypeInv, LogInv
    <3> QED BY <2>1, <3>1, KeptLog, StateFacts
  <2>8. StepInv' /\ BatchInv' /\ LeaderInv'
    <3>1. pc' = "clear" => oplog' = Kept(oplog', truncate')
      BY <2>3
    <3> QED BY <2>1, <2>2, <3>1 DEF TypeInv, StepInv, BatchInv, LeaderInv
  <2> QED BY <2>1, <2>4, <2>5, <2>6, <2>7, <2>8, TypeNewOplog
<1> QED BY <1>1, <1>2

\* After the truncation nothing lies above the truncate point.
LEMMA TypeClearAfterTruncation ==
    ASSUME TypeInv, ClearAfterTruncation
    PROVE  TypeInv'
<1>1. /\ UNCHANGED <<source, committed, leader, term, majority, oplog, data, doc, stable, role,
                     recovering, batch, last, lastApplied, lastDurable, token, commit,
                     candidates, producer, crashes, kept, failed>>
      /\ pc = "clear" /\ pc' = "start"
      /\ truncate = 0 => UNCHANGED <<truncate, journal, checkpoint>>
      /\ truncate # 0 => truncate' = 0 /\ LogAndFlush
  BY DEF ClearAfterTruncation, others, markers, tables, disk, applier, progress, stability,
         memory
<1>2. recovering # "no" /\ role = "secondary" /\ oplog = Kept(oplog, truncate) /\ truncate' = 0
  BY <1>1 DEF TypeInv, StepInv
<1>3. checkpoint' \in [at : Timestamps, data : Table, doc : Documents] /\ Journaled
      /\ checkpoint' = checkpoint
  BY <1>1, LogFacts DEF TypeInv, DiskOK
<1>4. TypeOK'
  <2>1. 0 \in 0..MaxTimestamp
    BY Bounds
  <2> QED BY <1>1, <1>2, <1>3, <2>1 DEF TypeInv, TypeOK
<1>5. truncate' # 1 /\ Whole(Kept(oplog', truncate'))
  <2>1. Whole(oplog)
    BY <1>2, StateFacts
  <2> QED BY <1>1, <1>2, <2>1 DEF Kept
<1>6. \A t \in Timestamps : oplog'[t] <= term
  BY <1>1 DEF TypeInv, LogInv
<1>7. StepInv' /\ BatchInv' /\ LeaderInv'
  BY <1>1, <1>2 DEF TypeInv, StepInv, BatchInv, LeaderInv
<1> QED BY <1>1, <1>3, <1>4, <1>5, <1>6, <1>7, TypeNewOplog

\* The process starts again from what is on the disk.
LEMMA TypeStartUp ==
    ASSUME TypeInv, StartUp, \A j \in journal' : j \in journal \/ j \in Flushed,
           checkpoint' \in [at : Timestamps, data : Table, doc : Documents]
    PROVE  TypeInv'
<1>1. /\ UNCHANGED <<source, committed, leader, term, majority, kept, failed>>
      /\ role' = "secondary" /\ pc' = "truncate" /\ recovering' = "startup"
      /\ batch' = {} /\ last' = 0
      /\ lastApplied' = Null /\ lastDurable' = Null /\ token' = Null
      /\ commit' = Null /\ candidates' = {}
      /\ stable' = IF majority THEN checkpoint'.at ELSE 1
      /\ producer' = "stopped"
  BY DEF StartUp, others
<1>2. PICK j \in journal' :
        /\ oplog' = j.oplog /\ truncate' = j.truncate
        /\ data' = IF majority THEN checkpoint'.data ELSE j.data
        /\ doc' = IF majority THEN checkpoint'.doc ELSE j.doc
  BY DEF StartUp
<1>3. ASSUME NEW i \in journal'
      PROVE  /\ i.oplog \in Table /\ i.truncate \in 0..MaxTimestamp
             /\ ~majority => i.data \in Table /\ i.doc \in Documents
             /\ i.truncate # 1 /\ Whole(Kept(i.oplog, i.truncate))
             /\ \A t \in Timestamps : i.oplog[t] <= term
  <2>1. CASE i \in journal
    BY <2>1 DEF TypeInv, DiskOK, LogInv
  <2>2. CASE i \in Flushed
    <3>1. i.oplog = oplog /\ i.truncate = truncate /\ (~majority => i.data = data /\ i.doc = doc)
      BY <2>2, LogFacts
    <3>2. \A t \in Timestamps : oplog[t] <= term
      BY DEF TypeInv, LogInv
    <3> QED BY <3>1, <3>2, StateFacts
  <2> QED BY <2>1, <2>2
<1>4. DiskOK' /\ LogInv'
  <2>1. truncate' # 1 /\ Whole(Kept(oplog', truncate')) /\ \A t \in Timestamps : oplog'[t] <= term
    BY <1>2, <1>3
  <2> QED BY <1>1, <1>3, <2>1 DEF DiskOK, LogInv
<1>5. checkpoint'.at \in Timestamps /\ checkpoint'.data \in Table /\ checkpoint'.doc \in Documents
  OBVIOUS
<1>6. TypeOK'
  <2>1. stable' \in Timestamps /\ 0 \in 0..MaxTimestamp /\ Null \in OpTimes
    BY <1>1, <1>5, Bounds, OpTimeFacts
  <2>2. /\ oplog' \in Table /\ data' \in Table /\ doc' \in Documents
        /\ truncate' \in 0..MaxTimestamp
    BY <1>2, <1>3, <1>5 DEF TypeInv, TypeOK
  <2> QED BY <1>1, <1>5, <2>1, <2>2 DEF TypeInv, TypeOK, Table, Documents
<1>7. SourceInv' /\ StepInv' /\ BatchInv' /\ LeaderInv'
  BY <1>1 DEF TypeInv, SourceInv, StepInv, BatchInv, LeaderInv
<1> QED BY <1>4, <1>6, <1>7 DEF TypeInv

\* A crash leaves one of the states of the journal.
LEMMA TypeCrash ==
    ASSUME TypeInv, Crash
    PROVE  TypeInv'
<1>1. /\ checkpoint' \in [at : Timestamps, data : Table, doc : Documents]
      /\ \A j \in journal' : j \in journal \/ j \in Flushed
  BY DEF TypeInv, DiskOK, Crash
<1> QED BY <1>1, TypeStartUp DEF Crash

\* A clean shutdown leaves the present tables.
LEMMA TypeCleanShutdown ==
    ASSUME TypeInv, CleanShutdown
    PROVE  TypeInv'
<1>1. /\ checkpoint' \in [at : Timestamps, data : Table, doc : Documents]
      /\ \A j \in journal' : j \in journal \/ j \in Flushed
  <2>1. checkpoint \in [at : Timestamps, data : Table, doc : Documents]
    BY DEF TypeInv, DiskOK
  <2> QED BY <2>1, CheckpointFacts DEF CleanShutdown
<1> QED BY <1>1, TypeStartUp DEF CleanShutdown

\* A primary writes an entry after its last one.
LEMMA PrimaryWritesFacts ==
    ASSUME TypeInv, PrimaryWrites, pc \in {"idle", "newPrimary"}
    PROVE  /\ UNCHANGED <<source, committed, leader, term, majority, truncate, doc, checkpoint,
                          recovering, batch, last, lastDurable, token, commit, producer,
                          crashes, kept, failed>>
           /\ truncate = 0 /\ Whole(oplog) /\ Top + 1 \in Timestamps /\ Log /\ Journaled
           /\ oplog' \in Table /\ data' \in Table /\ Whole(oplog') /\ Top' = Top + 1
           /\ \A t \in Timestamps : oplog'[t] <= term
           /\ oplog'[Top + 1] = IF pc = "newPrimary" THEN term ELSE oplog[Top]
           /\ oplog'[Top + 1] \in Terms
           /\ \A t \in Timestamps : t # Top + 1 => oplog'[t] = oplog[t] /\ data'[t] = data[t]
           /\ data'[Top + 1] = oplog'[Top + 1]
           /\ SetLastApplied(<<oplog'[Top + 1], Top + 1>>, TRUE)
           /\ lastApplied' = <<oplog'[Top + 1], Top + 1>> /\ lastApplied' \in OpTimes
           /\ stable' \in Timestamps /\ candidates' \subseteq OpTimes
<1> DEFINE x == IF pc = "newPrimary" THEN term ELSE oplog[Top]
           e == <<oplog'[Top + 1], Top + 1>>
<1>1. /\ UNCHANGED <<source, committed, leader, term, majority, truncate, doc, checkpoint,
                     recovering, batch, last, lastDurable, token, commit, producer,
                     crashes, kept, failed>>
      /\ Top < MaxTimestamp /\ Log
      /\ oplog' = [oplog EXCEPT ![Top + 1] = x]
      /\ data' = [data EXCEPT ![Top + 1] = oplog'[Top + 1]]
      /\ SetLastApplied(e, TRUE)
  BY DEF PrimaryWrites, SetLastApplied, Log, others, markers
<1>2. truncate = 0
  BY DEF TypeInv, StepInv
<1>3. /\ Whole(oplog) /\ Top \in Timestamps /\ oplog[Top] \in Terms /\ oplog[Top] <= term
      /\ \A t \in Timestamps : oplog[t] > 0 <=> t <= Top
      /\ \A t \in Timestamps : t <= Top => oplog[t] \in Terms /\ oplog[t] <= oplog[Top]
  BY <1>2, WholeLog
<1>4. Top + 1 \in Timestamps /\ Top \in Nat
  BY <1>1, <1>3, Bounds
<1>5. x \in Terms /\ oplog[Top] <= x /\ x <= term
  BY <1>3, StateFacts, Bounds
<1> HIDE DEF x
<1>6. /\ oplog' \in Table /\ oplog'[Top + 1] = x
      /\ \A t \in Timestamps : t # Top + 1 => oplog'[t] = oplog[t]
  <2>1. x \in 0..MaxTerm
    BY <1>5, Bounds
  <2>2. oplog \in [Timestamps -> 0..MaxTerm] /\ Table = [Timestamps -> 0..MaxTerm]
    BY StateFacts DEF Table
  <2> QED BY <1>1, <1>4, <2>1, <2>2
<1>7. /\ data' \in Table /\ data'[Top + 1] = x
      /\ \A t \in Timestamps : t # Top + 1 => data'[t] = data[t]
  BY <1>1, <1>4, <1>5, <1>6, StateFacts, Bounds DEF Table
<1>8. \A t \in Timestamps : t \in Nat /\ oplog[t] \in Nat
  BY StateFacts, Bounds
<1>9. Whole(oplog')
  <2>1. oplog'[1] = 1
    BY <1>3, <1>4, <1>6, Bounds DEF Whole
  <2>2. ASSUME NEW t \in Timestamps, NEW u \in Timestamps, t <= u, oplog'[u] > 0
        PROVE  0 < oplog'[t] /\ oplog'[t] <= oplog'[u]
    <3>1. CASE u = Top + 1
      <4>1. CASE t = u
        BY <1>5, <1>6, <3>1, <4>1, Bounds
      <4>2. CASE t # u
        <5>1. t <= Top /\ oplog'[t] = oplog[t]
          BY <1>4, <1>6, <1>8, <2>2, <3>1, <4>2
        <5>2. oplog[t] \in Terms /\ oplog[t] <= oplog[Top]
          BY <1>3, <5>1
        <5>3. oplog[t] \in Nat /\ oplog[Top] \in Nat /\ x \in Nat /\ 0 < oplog[t]
          BY <1>3, <1>5, <5>2, Bounds
        <5> QED BY <1>5, <1>6, <3>1, <5>1, <5>2, <5>3
      <4> QED BY <4>1, <4>2
    <3>2. CASE u # Top + 1
      <4>1. oplog[u] > 0 /\ u <= Top /\ t # Top + 1
        BY <1>3, <1>4, <1>6, <1>8, <2>2, <3>2
      <4> QED BY <1>3, <1>6, <2>2, <3>2, <4>1 DEF Whole
    <3> QED BY <3>1, <3>2
  <2> QED BY <2>1, <2>2 DEF Whole
<1>10. Top' = Top + 1
  <2>1. oplog'[Top + 1] > 0
    BY <1>5, <1>6, Bounds
  <2>2. \A t \in Timestamps : oplog'[t] > 0 => t <= Top + 1
    BY <1>3, <1>4, <1>6, <1>8
  <2>3. TopOf(oplog') = Top + 1
    BY <1>4, <1>6, <2>1, <2>2, TopIs
  <2> QED BY <2>3, StateFacts
<1>11. \A t \in Timestamps : oplog'[t] <= term
  BY <1>5, <1>6 DEF TypeInv, LogInv
<1>12. e \in OpTimes
  BY <1>4, <1>5, <1>6, OpTimeFacts
<1> HIDE DEF e
<1>13. lastApplied' = e /\ stable' \in Timestamps /\ candidates' \subseteq OpTimes
  BY <1>1, <1>12, AppliedFacts DEF TypeInv, TypeOK
<1> QED BY <1>1, <1>2, <1>3, <1>4, <1>5, <1>6, <1>7, <1>9, <1>10, <1>11, <1>12, <1>13, LogFacts
         DEF e, x

\* A primary writes an entry of its term after the top of its oplog.
LEMMA TypePrimaryWrites ==
    ASSUME TypeInv, PrimaryWrites, pc' = "idle", role' = "primary",
           (pc = "newPrimary" /\ leader = "member") \/ (pc = "idle" /\ role = "primary")
    PROVE  TypeInv'
<1>1. pc \in {"idle", "newPrimary"} /\ pc \in {"idle", "newPrimary"} => recovering = "no"
  BY DEF TypeInv, StepInv
<1>2. /\ UNCHANGED <<source, committed, leader, term, majority, truncate, doc, checkpoint,
                     recovering, batch, last, lastDurable, token, commit, kept, producer>>
      /\ truncate = 0 /\ Journaled /\ Top + 1 \in Timestamps
      /\ oplog' \in Table /\ data' \in Table /\ Whole(oplog')
      /\ \A t \in Timestamps : oplog'[t] <= term
      /\ \A t \in Timestamps : t # Top + 1 => oplog'[t] = oplog[t]
      /\ lastApplied' \in OpTimes
      /\ stable' \in Timestamps /\ candidates' \subseteq OpTimes
  BY <1>1, PrimaryWritesFacts
<1>3. TypeOK'
  BY <1>2 DEF TypeInv, TypeOK, Table
<1>4. checkpoint' \in [at : Timestamps, data : Table, doc : Documents]
  BY <1>2 DEF TypeInv, DiskOK
<1>5. truncate' # 1 /\ Whole(Kept(oplog', truncate'))
  BY <1>2 DEF Kept
<1>6. StepInv' /\ BatchInv'
  BY <1>1, <1>2 DEF TypeInv, StepInv, BatchInv
<1>7. LeaderInv'
  <2>1. \A t \in 1..Len(source) : oplog[t] = source[t] => oplog'[t] = source[t]
    <3> TAKE t \in 1..Len(source)
    <3> HAVE oplog[t] = source[t]
    <3>1. t \in Timestamps /\ oplog[t] > 0
      BY StateFacts, Bounds
    <3>2. t <= Top /\ Top \in Nat
      BY <1>2, <3>1, WholeLog, StateFacts
    <3> QED BY <1>2, <3>1, <3>2, Bounds
  <2>2. SUFFICES ASSUME leader = "member" PROVE LeaderInv'
    BY <1>2 DEF LeaderInv
  <2>3. \A t \in 1..committed : oplog[t] = source[t]
    BY <2>2 DEF TypeInv, LeaderInv
  <2>4. \A n \in 1..Len(source) : source[n] = term => \A t \in 1..n : oplog[t] = source[t]
    BY <2>2 DEF TypeInv, LeaderInv
  <2>5. \A t \in 1..committed : t \in 1..Len(source)
    BY StateFacts
  <2>6. \A n \in 1..Len(source) : \A t \in 1..n : t \in 1..Len(source)
    BY StateFacts
  <2> QED BY <1>2, <2>1, <2>3, <2>4, <2>5, <2>6 DEF LeaderInv
<1> QED BY <1>2, <1>3, <1>4, <1>5, <1>6, <1>7, TypeNewOplog

-----------------------------------------------------------------------------
(* The types hold in every state. *)

\* The invariant of the types holds initially.
LEMMA TypeInit ==
    Init => TypeInv
<1> SUFFICES ASSUME Init PROVE TypeInv
  OBVIOUS
<1>1. /\ source = <<1>> /\ committed = 1 /\ leader = "other" /\ term = 1
      /\ majority \in BOOLEAN /\ truncate = 0 /\ data = oplog
      /\ oplog = [t \in Timestamps |-> IF t = 1 THEN 1 ELSE 0]
      /\ doc = [t \in Timestamps |-> [through |-> 1, valid |-> <<1, 1>>]]
      /\ checkpoint = [at |-> 1, data |-> data, doc |-> doc]
      /\ stable = 1 /\ role = "secondary" /\ pc = "idle" /\ recovering = "no"
      /\ batch = {} /\ last = 1
      /\ lastApplied = <<1, 1>> /\ lastDurable = <<1, 1>> /\ token = Null
      /\ commit = <<1, 1>> /\ candidates = {<<1, 1>>} /\ kept = FALSE /\ producer = "stopped"
  BY ModeAssumption DEF Init
<1>2. \A j \in journal : /\ j.oplog = oplog /\ j.truncate = 0
                         /\ ~majority => j.data = data /\ j.doc = doc
  BY DEF Init
<1>3. 1 \in Terms /\ 1 \in Timestamps /\ <<1, 1>> \in OpTimes /\ Null \in OpTimes
      /\ 0 \in 0..MaxTimestamp /\ 1 \in 0..MaxTimestamp
  BY Bounds, OpTimeFacts
<1>4. oplog \in Table /\ doc \in Documents /\ oplog[1] = 1
      /\ \A t \in Timestamps : oplog[t] = IF t = 1 THEN 1 ELSE 0
  BY <1>1, <1>3, Bounds DEF Table, Documents
<1>5. checkpoint \in [at : Timestamps, data : Table, doc : Documents]
  BY <1>1, <1>3, <1>4
<1>6. source \in Seq(Terms) /\ Len(source) = 1 /\ source[1] = 1
  BY <1>1, <1>3
<1>7. TypeOK
  <2>1. Len(source) <= MaxTimestamp /\ committed \in 0..Len(source) /\ last \in 0..MaxTimestamp
    BY <1>1, <1>6, Bounds
  <2>2. checkpoint.at \in Timestamps
    BY <1>5
  <2> QED BY <1>1, <1>3, <1>4, <1>6, <2>1, <2>2 DEF TypeOK, Table, Documents
<1>8. Whole(oplog) /\ Kept(oplog, 0) = oplog
  BY <1>4, Bounds DEF Whole, Kept
<1>9. \A t \in Timestamps : oplog[t] <= 1
  BY <1>4
<1>10. DiskOK /\ LogInv
  <2>1. DiskOK
    BY <1>1, <1>2, <1>3, <1>4, <1>5 DEF DiskOK
  <2>2. LogInv
    <3>1. Whole(Kept(oplog, 0)) /\ \A t \in Timestamps : oplog[t] <= term
      BY <1>1, <1>8, <1>9
    <3>2. ASSUME NEW j \in journal
          PROVE  /\ j.truncate # 1 /\ Whole(Kept(j.oplog, j.truncate))
                 /\ \A t \in Timestamps : j.oplog[t] <= term
      <4>1. j.oplog = oplog /\ j.truncate = 0
        BY <1>2
      <4> QED BY <3>1, <4>1
    <3> QED BY <1>1, <3>1, <3>2 DEF LogInv
  <2> QED BY <2>1, <2>2
<1>11. SourceInv /\ StepInv /\ BatchInv /\ LeaderInv
  BY <1>1, <1>6 DEF SourceInv, StepInv, BatchInv, LeaderInv
<1> QED BY <1>7, <1>10, <1>11 DEF TypeInv

\* Every step, with any of the faults, keeps the invariant of the types.
LEMMA TypeNext ==
    TypeInv /\ [Next]_vars => TypeInv'
<1> SUFFICES ASSUME TypeInv, [Next]_vars PROVE TypeInv'
  OBVIOUS
<1>1. CASE Others
  BY <1>1, TypeSourceWrites, TypeSourceElects, TypeSourceFollows, TypeEntryCommits DEF Others
<1>2. CASE \E n \in 1..committed : LearnCommitPoint(n)
  BY <1>2, TypeLearnCommitPoint
<1>3. CASE ProducerStarts
  BY <1>3, TypeProducerStarts
<1>4. CASE MarkAppliedThrough
  BY <1>4, TypeMarkAppliedThrough
<1>5. CASE Batch
  BY <1>5, TypeStartBatch, TypeWriteOplogEntry, TypeApplyEntry, TypeClearTruncatePoint,
     TypeSetMinValid, TypePersistAppliedThrough, TypeRecordApplied DEF Batch
<1>6. CASE Primary
  <2>1. CASE WriteNewPrimary
    BY <2>1, TypePrimaryWrites DEF WriteNewPrimary
  <2>2. CASE WriteAsPrimary
    BY <2>2, TypePrimaryWrites DEF WriteAsPrimary
  <2> QED BY <1>6, <2>1, <2>2, TypeClearAppliedThrough, TypeStepDown DEF Primary
<1>7. CASE Storage
  BY <1>7, TypeTakeToken, TypeFlushJournal, TypeTakeCheckpoint, TypeCrash,
     TypeStopReplication, TypeCleanShutdown DEF Storage
<1>8. CASE Recovery
  BY <1>8, TypeStartRollback, TypeSetTruncatePoint, TypeTruncateOplog,
     TypeClearAfterTruncation, TypeStartRecovery, TypeFinishApplying, TypeFinishRecovery
     DEF Recovery
<1>9. CASE UNCHANGED vars
  <2>1. UNCHANGED <<source, committed, leader, term, majority, oplog, truncate, data, doc,
                    journal, checkpoint, stable, role, pc, recovering, batch, last, lastApplied,
                    lastDurable, token, commit, candidates, producer, crashes, kept, failed>>
    BY <1>9 DEF vars, others, markers, tables, disk, applier, progress, stability, memory
  <2>2. TypeOK'
    BY <2>1 DEF TypeInv, TypeOK
  <2>3. DiskOK' /\ SourceInv' /\ BatchInv' /\ LeaderInv'
    BY <2>1 DEF TypeInv, DiskOK, SourceInv, BatchInv, LeaderInv
  <2>4. LogInv' /\ StepInv'
    BY <2>1 DEF TypeInv, LogInv, StepInv, Top
  <2> QED BY <2>2, <2>3, <2>4 DEF TypeInv
<1> QED BY <1>1, <1>2, <1>3, <1>4, <1>5, <1>6, <1>7, <1>8, <1>9 DEF Next

\* In every state the variables have their types (TypeOK), with any of the faults.
THEOREM TypeCorrect == Spec => []TypeOK
<1>1. Spec => []TypeInv
  BY TypeInit, TypeNext, PTL DEF Spec
<1>2. TypeInv => TypeOK
  BY DEF TypeInv
<1> QED BY <1>1, <1>2, PTL

-----------------------------------------------------------------------------
(* Recovery: what the invariant says of a state. *)

\* Up to an entry that a truncation keeps, the oplog is as the truncation leaves it.
LEMMA KeptPrefix ==
    ASSUME NEW o \in Table, NEW k \in 0..MaxTimestamp, Whole(Kept(o, k)),
           NEW n \in Timestamps, Kept(o, k)[n] > 0
    PROVE  /\ k = 0 \/ n < k
           /\ \A t \in 1..n : /\ t \in Timestamps /\ Kept(o, k)[t] = o[t] /\ o[t] \in Terms
                              /\ k = 0 \/ t < k
           /\ \A t, u \in 1..n : t <= u => o[t] <= o[u]
<1>1. \A t \in Timestamps : Kept(o, k)[t] = IF k = 0 \/ t < k THEN o[t] ELSE 0
  BY KeptFacts
<1>2. k = 0 \/ n < k
  BY <1>1
<1>3. \A t \in 1..n : t \in Timestamps /\ t \in Nat /\ t <= n
  BY Bounds
<1>4. \A t \in 1..n : Kept(o, k)[t] = o[t] /\ (k = 0 \/ t < k)
  BY <1>1, <1>2, <1>3, Bounds
<1>5. \A t, u \in Timestamps : t <= u /\ Kept(o, k)[u] > 0 =>
            0 < Kept(o, k)[t] /\ Kept(o, k)[t] <= Kept(o, k)[u]
  BY DEF Whole
<1>6. \A t \in 1..n : o[t] \in Terms
  <2> TAKE t \in 1..n
  <2>1. 0 < Kept(o, k)[t]
    BY <1>3, <1>5
  <2>2. o[t] \in 0..MaxTerm
    BY <1>3 DEF Table
  <2> QED BY <1>4, <2>1, <2>2, Bounds
<1>7. \A t, u \in 1..n : t <= u => o[t] <= o[u]
  <2> TAKE t, u \in 1..n
  <2> HAVE t <= u
  <2>1. 0 < Kept(o, k)[u]
    BY <1>3, <1>5
  <2>2. Kept(o, k)[t] <= Kept(o, k)[u]
    BY <1>3, <1>5, <2>1
  <2> QED BY <1>4, <2>2
<1> QED BY <1>2, <1>3, <1>4, <1>6, <1>7

\* The oplog up to the last applied optime.
LEMMA AppliedLog ==
    ASSUME RecoveryInv, recovering = "no"
    PROVE  /\ lastApplied \in OpTimes /\ lastApplied[2] \in Timestamps /\ lastApplied[2] \in Nat
           /\ lastApplied[1] \in Terms /\ oplog[lastApplied[2]] = lastApplied[1]
           /\ Kept(oplog, truncate)[lastApplied[2]] > 0
           /\ \A t \in 1..lastApplied[2] :
                /\ t \in Timestamps /\ Kept(oplog, truncate)[t] = oplog[t] /\ oplog[t] \in Terms
                /\ truncate = 0 \/ t < truncate
                /\ oplog[t] = data[t]
           /\ \A t, u \in 1..lastApplied[2] : t <= u => oplog[t] <= oplog[u]
           /\ lastApplied[2] <= Top
           /\ lastDurable[2] \in 1..lastApplied[2] /\ oplog[lastDurable[2]] = lastDurable[1]
<1> DEFINE la == lastApplied[2]
<1>1. TypeInv /\ ProgressInv /\ DataInv
  BY DEF RecoveryInv
<1>2. /\ lastApplied \in OpTimes /\ la \in Timestamps
      /\ Kept(oplog, truncate)[la] = lastApplied[1]
      /\ \A e \in batch : la < e[2]
      /\ lastDurable[2] \in 1..la /\ oplog[lastDurable[2]] = lastDurable[1]
  BY <1>1 DEF TypeInv, TypeOK, ProgressInv
<1>3. la \in Nat /\ 1 <= la
  BY <1>2, Bounds
<1>4. lastApplied[1] \in Terms /\ lastApplied[1] > 0
  BY <1>2, <1>3, OpTimeFacts, Bounds
<1>5. oplog \in Table /\ truncate \in 0..MaxTimestamp /\ Whole(Kept(oplog, truncate))
  BY <1>1, StateFacts
<1>6. /\ truncate = 0 \/ la < truncate
      /\ \A t \in 1..la : /\ t \in Timestamps /\ Kept(oplog, truncate)[t] = oplog[t]
                          /\ oplog[t] \in Terms
                          /\ truncate = 0 \/ t < truncate
      /\ \A t, u \in 1..la : t <= u => oplog[t] <= oplog[u]
  <2> HIDE DEF la
  <2> QED BY <1>2, <1>4, <1>5, KeptPrefix
<1>7. oplog[la] = lastApplied[1]
  BY <1>2, <1>3, <1>6
<1>8. la <= Top
  BY <1>1, <1>2, <1>4, <1>5, <1>7, StateFacts, TopFacts
<1>9. \A t \in 1..la : oplog[t] = data[t]
  <2> TAKE t \in 1..la
  <2> SUFFICES ASSUME data[t] # oplog[t] PROVE FALSE
    OBVIOUS
  <2>1. <<oplog[t], t>> \in batch
    BY <1>1, <1>6 DEF DataInv
  <2>2. la < <<oplog[t], t>>[2]
    BY <1>2, <2>1
  <2> QED BY <1>3, <2>2
<1> QED BY <1>2, <1>3, <1>4, <1>6, <1>7, <1>8, <1>9

\* Without a truncation, documents agree with an oplog if minValid is not beyond an entry in
\* the document as of that entry, and the last entry has the last document.
LEMMA DocumentedFacts ==
    ASSUME NEW o \in Table, Whole(o), NEW m
    PROVE  Documented(o, 0, m) <=>
             /\ \A t \in Timestamps : t <= TopOf(o) => Leq(m[t].valid, <<o[t], t>>)
             /\ \A t \in Timestamps : TopOf(o) <= t => m[t] = m[MaxTimestamp]
<1> DEFINE n == TopOf(o)
<1>1. /\ n \in Timestamps /\ n \in Nat /\ \A t \in Timestamps : o[t] > 0 <=> t <= n
      /\ \A t \in Timestamps : t \in Nat /\ t <= MaxTimestamp /\ o[t] \in Nat
  BY WholeFacts, Bounds DEF Table
<1>2. Kept(o, 0) = o
  BY DEF Kept
<1> HIDE DEF n
<1>3. \A t \in Timestamps : n <= t => t = MaxTimestamp \/ o[t + 1] = 0
  <2> TAKE t \in Timestamps
  <2> HAVE n <= t
  <2>1. t # MaxTimestamp => t + 1 \in Timestamps /\ ~(t + 1 <= n)
    BY <1>1, Bounds
  <2>2. \A u \in Timestamps : ~(u <= n) => o[u] = 0
    BY <1>1
  <2> QED BY <2>1, <2>2
<1>4. \A t \in Timestamps : t = MaxTimestamp \/ o[t + 1] = 0 => n <= t
  <2> TAKE t \in Timestamps
  <2>1. t < n => t + 1 \in Timestamps /\ t + 1 <= n /\ t # MaxTimestamp
    BY <1>1, Bounds
  <2>2. \A u \in Timestamps : u <= n => o[u] # 0
    BY <1>1
  <2>3. t < n => o[t + 1] # 0
    BY <2>1, <2>2
  <2> QED BY <1>1, <2>1, <2>3, Bounds
<1>5. Documented(o, 0, m) <=>
        /\ \A t \in Timestamps : o[t] > 0 => Leq(m[t].valid, <<o[t], t>>)
        /\ \A t \in Timestamps : t = MaxTimestamp \/ o[t + 1] = 0 => m[t] = m[MaxTimestamp]
  BY <1>2 DEF Documented
<1> QED BY <1>1, <1>3, <1>4, <1>5 DEF n

\* The document as of the last entry, when the oplog is not to be truncated.
LEMMA TopDocument ==
    ASSUME RecoveryInv, truncate = 0
    PROVE  /\ \A t \in Timestamps : Top <= t => doc[t] = Document
           /\ \A t \in Timestamps : t <= Top => Leq(doc[t].valid, <<oplog[t], t>>)
           /\ Leq(Document.valid, <<oplog[Top], Top>>)
<1>1. TypeInv /\ Documented(oplog, 0, doc)
  BY DEF RecoveryInv, DocumentInv
<1>2. oplog \in Table /\ Whole(oplog) /\ Top = TopOf(oplog) /\ Top \in Timestamps /\ Top <= Top
  BY <1>1, StateFacts, WholeLog, Bounds
<1>3. /\ \A t \in Timestamps : t <= Top => Leq(doc[t].valid, <<oplog[t], t>>)
      /\ \A t \in Timestamps : Top <= t => doc[t] = Document
  BY <1>1, <1>2, DocumentedFacts DEF Document
<1> QED BY <1>2, <1>3

\* Between batches there is nothing left to truncate or to apply.
LEMMA IdleFacts ==
    ASSUME RecoveryInv, pc \in {"idle", "newPrimary", "closing"}
    PROVE  /\ TypeInv /\ recovering = "no" /\ truncate = 0 /\ batch = {} /\ data = oplog
           /\ Whole(oplog) /\ Top \in Timestamps /\ oplog[Top] \in Terms /\ Top \in Nat
           /\ \A t \in Timestamps : oplog[t] > 0 <=> t <= Top
           /\ \A t \in Timestamps : t <= Top => oplog[t] \in Terms /\ oplog[t] <= oplog[Top]
           /\ lastApplied[2] = Top /\ lastApplied[1] = oplog[Top]
           /\ Document.through \in {0, Top}
           /\ \A t \in Timestamps : Top <= t => doc[t] = Document
           /\ Leq(Document.valid, <<oplog[Top], Top>>)
<1>1. TypeInv /\ ProgressInv /\ DataInv /\ DocumentInv
  BY DEF RecoveryInv
<1>2. recovering = "no" /\ truncate = 0 /\ batch = {}
  BY <1>1 DEF TypeInv, StepInv, DataInv
<1>3. /\ Whole(oplog) /\ Top \in Timestamps /\ oplog[Top] \in Terms
      /\ \A t \in Timestamps : oplog[t] > 0 <=> t <= Top
      /\ \A t \in Timestamps : t <= Top => oplog[t] \in Terms /\ oplog[t] <= oplog[Top]
  BY <1>1, <1>2, WholeLog
<1>4. lastApplied[2] = Top /\ lastApplied[1] = oplog[Top]
  BY <1>1, <1>2, AppliedLog DEF ProgressInv
<1>5. data = oplog
  <2>1. \A t \in Timestamps : data[t] = oplog[t]
    BY <1>1, <1>2 DEF DataInv
  <2> QED BY <1>1, <2>1, StateFacts, TableEqual
<1>6. Document.through \in {0, Top}
  BY <1>1, <1>2, <1>4 DEF DocumentInv
<1>7. /\ \A t \in Timestamps : Top <= t => doc[t] = Document
      /\ Leq(Document.valid, <<oplog[Top], Top>>)
  BY <1>2, TopDocument
<1>8. Top \in Nat
  BY <1>3, Bounds
<1> QED BY <1>1, <1>2, <1>3, <1>4, <1>5, <1>6, <1>7, <1>8

\* A step that leaves checkpoints as they are and what is committed.
LEMMA Assemble ==
    ASSUME RecoveryInv, TypeInv', UNCHANGED <<majority, checkpoint>>, Journaled,
           kept => kept', failed' # failed => failed' = "appliedThrough" /\ kept,
           \A t \in 1..committed : source'[t] = source[t],
           ProgressInv', DataInv', DocumentInv', CommitInv',
           majority => StableInv' /\ CandidateInv',
           ~majority => /\ stable' = stable /\ recovering' # "rollback"
                        /\ Consistent(oplog', truncate', data', doc')
    PROVE  RecoveryInv'
<1>1. ASSUME majority PROVE CheckpointInv'
  <2>1. CheckpointInv /\ StableInv /\ StableInv'
    BY <1>1 DEF RecoveryInv
  <2> DEFINE at == checkpoint.at
  <2>2. at \in Nat /\ 1 <= at /\ at <= committed /\ at <= stable' /\ at \in Timestamps
    <3>1. at <= stable /\ stable <= committed /\ at <= stable'
      BY <2>1 DEF StableInv
    <3>2. at \in Timestamps /\ stable \in Timestamps /\ committed \in Nat
      BY StateFacts DEF RecoveryInv, TypeInv, TypeOK
    <3> QED BY <3>1, <3>2, Bounds
  <2>3. \A t \in 1..at : source'[t] = source[t]
    <3>1. \A t \in 1..at : t \in 1..committed
      BY <2>2, StateFacts DEF RecoveryInv
    <3> QED BY <3>1
  <2>4. \A t \in 1..at : Kept(oplog', truncate')[t] = source'[t]
    <3>1. \A t \in 1..at : t \in 1..stable'
      <4>1. stable' \in Nat
        BY Bounds DEF TypeInv, TypeOK
      <4> QED BY <2>2, <4>1
    <3> QED BY <2>1, <3>1 DEF StableInv
  <2>5. \A j \in journal' : \A t \in 1..at : Kept(j.oplog, j.truncate)[t] = source'[t]
    <3> TAKE j \in journal'
    <3>1. CASE j \in journal
      BY <2>1, <2>3, <3>1 DEF CheckpointInv
    <3>2. CASE j \notin journal
      <4>1. j.oplog = oplog' /\ j.truncate = truncate'
        BY <3>2 DEF Journaled
      <4> QED BY <2>4, <4>1
    <3> QED BY <3>1, <3>2
  <2>6. /\ \A t \in 1..at : /\ checkpoint.data[t] = source'[t]
                            /\ Leq(checkpoint.doc[t].valid, <<source'[t], t>>)
        /\ \A t \in Timestamps : /\ at < t => checkpoint.data[t] = 0
                                 /\ at <= t => checkpoint.doc[t] = checkpoint.doc[at]
        /\ kept' \/ checkpoint.doc[at].through \in {0, at}
    BY <2>1, <2>3 DEF CheckpointInv
  <2> QED BY <2>5, <2>6 DEF CheckpointInv
<1>2. ASSUME ~majority PROVE JournalInv'
  <2>1. JournalInv /\ Documented(oplog', truncate', doc')
    BY <1>2 DEF RecoveryInv, DocumentInv
  <2>2. ASSUME NEW j \in journal'
        PROVE  /\ Documented(j.oplog, j.truncate, j.doc)
               /\ Consistent(j.oplog, j.truncate, j.data, j.doc)
    <3>1. CASE j \in journal
      BY <2>1, <3>1 DEF JournalInv
    <3>2. CASE j \notin journal
      <4>1. /\ j.oplog = oplog' /\ j.truncate = truncate' /\ j.data = data' /\ j.doc = doc'
        BY <1>2, <3>2 DEF Journaled
      <4> QED BY <1>2, <2>1, <4>1
    <3> QED BY <3>1, <3>2
  <2> QED BY <1>2, <2>1, <2>2 DEF JournalInv
<1>3. FailsOnlyAfterKeptCandidate'
  BY DEF RecoveryInv, FailsOnlyAfterKeptCandidate
<1> QED BY <1>1, <1>2, <1>3 DEF RecoveryInv

-----------------------------------------------------------------------------
(* Recovery: the other members. *)

\* A step of the others that keeps what is committed keeps the invariant.
LEMMA RecoveryOthers ==
    ASSUME RecoveryInv, TypeInv', UNCHANGED <<majority, oplog, truncate, data, doc, journal,
                                              checkpoint, stable, role, pc, recovering, batch,
                                              last, lastApplied, lastDurable, token, commit,
                                              candidates, producer, crashes, kept>>,
           failed' # failed => failed' = "appliedThrough" /\ kept,
           committed <= committed', \A t \in 1..committed : source'[t] = source[t]
    PROVE  RecoveryInv'
<1>1. TypeInv /\ ProgressInv /\ DataInv /\ DocumentInv /\ CommitInv /\ FailsOnlyAfterKeptCandidate
  BY DEF RecoveryInv
<1>2. ProgressInv' /\ DataInv' /\ DocumentInv'
  BY <1>1 DEF ProgressInv, DataInv, DocumentInv, Top, Document
<1>3. committed \in Nat /\ committed' \in Nat
  BY <1>1, StateFacts DEF TypeInv, TypeOK
<1>4. CommitInv'
  <2> SUFFICES ASSUME commit # Null PROVE CommitInv'
    BY DEF CommitInv
  <2>1. /\ recovering # "startup"
        /\ commit[2] \in 1..committed /\ source[commit[2]] = commit[1]
        /\ \A t \in 1..commit[2] : oplog[t] > 0 => oplog[t] = source[t]
        /\ \A e \in batch : e[2] \in 1..commit[2] => source[e[2]] = e[1]
        /\ role = "primary" \/ pc = "newPrimary" => commit[2] <= lastApplied[2]
    BY <1>1 DEF CommitInv
  <2>2. \A t \in 1..commit[2] : source'[t] = source[t]
    BY <1>3, <2>1
  <2>3. commit[2] \in 1..committed' /\ commit[2] \in 1..commit[2]
    BY <1>3, <2>1
  <2> QED BY <2>1, <2>2, <2>3 DEF CommitInv
<1>5. ASSUME majority PROVE StableInv' /\ CandidateInv'
  <2>1. StableInv /\ CandidateInv
    BY <1>5 DEF RecoveryInv
  <2>2. stable <= committed /\ stable \in Nat
    BY <1>1, <2>1, Bounds DEF StableInv, TypeInv, TypeOK
  <2>3. stable <= committed' /\ \A t \in 1..stable : source'[t] = source[t]
    BY <1>3, <2>2
  <2>4. StableInv'
    BY <2>1, <2>3 DEF StableInv, Top, Document
  <2> QED BY <2>1, <2>4 DEF CandidateInv
<1>6. ~majority => JournalInv
  BY DEF RecoveryInv
<1>7. Journaled
  BY LogFacts
<1> QED BY <1>1, <1>2, <1>4, <1>5, <1>6, <1>7, Assemble DEF JournalInv

\* The others never change what is committed, and commit only more.
LEMMA RecoverySource ==
    ASSUME RecoveryInv, Others
    PROVE  RecoveryInv'
<1>1. TypeInv
  BY DEF RecoveryInv
<1>2. CASE SourceWrites
  <2>1. /\ UNCHANGED <<committed, leader, term, majority, oplog, truncate, data, doc, journal,
                       checkpoint, stable, role, pc, recovering, batch, last, lastApplied,
                       lastDurable, token, commit, candidates, producer, crashes, kept, failed>>
        /\ source' = Append(source, term)
    BY <1>2 DEF SourceWrites, others, markers, tables, disk, applier, progress, stability,
         memory
  <2>2. \A t \in 1..Len(source) : source'[t] = source[t]
    BY <1>1, <2>1, StateFacts, AppendProperties
  <2>3. committed <= committed' /\ \A t \in 1..committed : source'[t] = source[t]
    BY <1>1, <2>1, <2>2, StateFacts
  <2>4. TypeInv'
    BY <1>1, <1>2, TypeSourceWrites
  <2> QED BY <2>1, <2>3, <2>4, RecoveryOthers
<1>3. CASE SourceElects
  <2>1. /\ UNCHANGED <<committed, majority, oplog, truncate, data, doc, journal, checkpoint,
                       stable, role, pc, recovering, batch, last, lastApplied, lastDurable,
                       token, commit, candidates, producer, crashes, kept, failed>>
        /\ term < MaxTerm
    BY <1>3 DEF SourceElects, others, markers, tables, disk, applier, progress, stability,
         memory
  <2>2. PICK n \in committed..Len(source) : source' = Append(SubSeq(source, 1, n), term + 1)
    BY <1>3 DEF SourceElects
  <2>3. n \in 0..Len(source) /\ term + 1 \in Terms /\ committed <= n
    <3>1. Len(source) \in Nat /\ committed \in Nat /\ term \in Terms
      BY <1>1, StateFacts
    <3> QED BY <2>1, <2>2, <3>1, Bounds
  <2>4. \A t \in 1..n : source'[t] = source[t]
    BY <1>1, <2>2, <2>3, StateFacts, CutFacts
  <2>5. committed <= committed' /\ \A t \in 1..committed : source'[t] = source[t]
    BY <1>1, <2>1, <2>3, <2>4, StateFacts
  <2>6. TypeInv'
    BY <1>1, <1>3, TypeSourceElects
  <2> QED BY <2>1, <2>5, <2>6, RecoveryOthers
<1>4. CASE SourceFollows
  <2>1. /\ UNCHANGED <<committed, leader, term, majority, oplog, truncate, data, doc, journal,
                       checkpoint, stable, role, pc, recovering, batch, last, lastApplied,
                       lastDurable, token, commit, candidates, producer, crashes, kept, failed>>
        /\ role = "primary" /\ leader = "member" /\ CommonPoint < Top
        /\ source' = Append(SubSeq(source, 1, CommonPoint), oplog[CommonPoint + 1])
    BY <1>4 DEF SourceFollows, others, markers, tables, disk, applier, progress, stability,
         memory
  <2>2. truncate = 0
    BY <1>1, <2>1 DEF TypeInv, StepInv, TypeOK
  <2>3. /\ CommonPoint \in 0..Len(source) /\ CommonPoint + 1 \in Timestamps
        /\ CommonPoint + 1 <= Top /\ CommonPoint \in Nat
    <3>1. CommonPoint \in 1..Top /\ CommonPoint \in Timestamps /\ CommonPoint <= Len(source)
      BY <1>1, <2>2, CommonPointFacts
    <3>2. Top \in Nat /\ Top <= MaxTimestamp /\ Len(source) \in Nat
      BY <1>1, StateFacts, Bounds
    <3> QED BY <2>1, <3>1, <3>2, Bounds
  <2>4. oplog[CommonPoint + 1] \in Terms
    BY <1>1, <2>2, <2>3, WholeLog
  <2>5. \A t \in 1..CommonPoint : source'[t] = source[t]
    BY <1>1, <2>1, <2>3, <2>4, StateFacts, CutFacts
  <2>6. committed <= CommonPoint
    <3>1. \A t \in 1..committed : oplog[t] = source[t]
      BY <1>1, <2>1 DEF TypeInv, LeaderInv
    <3>2. oplog[committed] > 0 /\ committed \in Timestamps
      BY <1>1, <3>1, StateFacts, Bounds
    <3>3. committed <= Top
      BY <1>1, <2>2, <3>2, WholeLog
    <3>4. Matches(committed)
      BY <1>1, <3>1, StateFacts DEF Matches
    <3> QED BY <1>1, <2>2, <3>3, <3>4, StateFacts, CommonPointFacts
  <2>7. committed <= committed' /\ \A t \in 1..committed : source'[t] = source[t]
    BY <1>1, <2>1, <2>3, <2>5, <2>6, StateFacts
  <2>8. TypeInv'
    BY <1>1, <1>4, TypeSourceFollows
  <2> QED BY <2>1, <2>7, <2>8, RecoveryOthers
<1>5. CASE EntryCommits
  <2>1. UNCHANGED <<source, leader, term, majority, oplog, truncate, data, doc, journal,
                    checkpoint, stable, role, pc, recovering, batch, last, lastApplied,
                    lastDurable, token, commit, candidates, producer, crashes, kept, failed>>
    BY <1>5 DEF EntryCommits, others, markers, tables, disk, applier, progress, stability,
         memory
  <2>2. committed <= committed'
    BY <1>1, <1>5, StateFacts DEF EntryCommits
  <2>3. TypeInv'
    BY <1>1, <1>5, TypeEntryCommits
  <2> QED BY <2>1, <2>2, <2>3, RecoveryOthers
<1> QED BY <1>2, <1>3, <1>4, <1>5 DEF Others

-----------------------------------------------------------------------------
(* Recovery: the stable timestamp. *)

\* The stable timestamp may go to a candidate at or below the commit point.
LEMMA StableStep ==
    ASSUME RecoveryInv, majority, TypeInv', UNCHANGED <<source, committed, checkpoint>>,
           recovering' = "no", ProgressInv', DataInv', CommitInv',
           \A t \in 1..stable : Kept(oplog', truncate')[t] = source[t] /\ data'[t] = source[t],
           stable <= lastApplied'[2], (kept' \/ doc'[stable].through \in {0, stable}),
           stable <= stable',
           NEW C \in SUBSET OpTimes,
           \A c \in C : /\ c[2] \in 1..lastApplied'[2] /\ oplog'[c[2]] = c[1]
                        /\ (kept' \/ doc'[c[2]].through \in {0, c[2]}),
           stable' # stable => \E c \in C : Leq(c, commit') /\ stable' = c[2]
    PROVE  StableInv'
<1>1. StableInv
  BY DEF RecoveryInv
<1>2. /\ stable' \in Timestamps /\ stable' \in Nat /\ stable \in Nat /\ checkpoint.at \in Nat
      /\ committed \in Nat /\ commit' \in OpTimes
  BY StateFacts, Bounds DEF RecoveryInv, TypeInv, TypeOK
<1>3. pc' \notin {"setTruncate", "truncate", "clear", "start"}
  BY DEF TypeInv, StepInv
<1>4. checkpoint.at <= stable'
  BY <1>1, <1>2 DEF StableInv
<1>5. CASE stable' = stable
  BY <1>1, <1>2, <1>3, <1>4, <1>5 DEF StableInv
<1>6. CASE stable' # stable
  <2>1. PICK c \in C : Leq(c, commit') /\ stable' = c[2]
    BY <1>6
  <2>2. c \in OpTimes /\ c[2] \in 1..lastApplied'[2] /\ oplog'[c[2]] = c[1]
        /\ (kept' \/ doc'[c[2]].through \in {0, c[2]})
    BY <2>1
  <2>3. commit' # Null
    <3>1. c[1] \in Nat /\ c[2] \in Nat /\ 1 <= c[2]
      BY <2>2, OpTimeFacts, <2>1, <1>2, Bounds
    <3> QED BY <2>1, <3>1 DEF Leq, Null
  <2>4. /\ commit'[2] \in 1..committed /\ source[commit'[2]] = commit'[1]
        /\ \A t \in 1..commit'[2] : oplog'[t] > 0 => oplog'[t] = source[t]
    BY <2>3 DEF CommitInv
  <2>5. oplog' \in Table /\ truncate' \in 0..MaxTimestamp /\ Whole(Kept(oplog', truncate'))
    BY DEF TypeInv, TypeOK, Table, LogInv
  <2>6. /\ lastApplied'[2] \in Timestamps /\ lastApplied' \in OpTimes
        /\ Kept(oplog', truncate')[lastApplied'[2]] = lastApplied'[1]
        /\ \A e \in batch' : lastApplied'[2] < e[2]
    BY DEF ProgressInv, TypeInv, TypeOK
  <2>7. Kept(oplog', truncate')[lastApplied'[2]] > 0
    BY <2>6, OpTimeFacts, Bounds
  <2>8. /\ \A t \in 1..lastApplied'[2] :
            t \in Timestamps /\ Kept(oplog', truncate')[t] = oplog'[t] /\ oplog'[t] \in Terms
        /\ \A t, u \in 1..lastApplied'[2] : t <= u => oplog'[t] <= oplog'[u]
    BY <2>5, <2>6, <2>7, KeptPrefix
  <2>9. /\ c[2] <= commit'[2]
        /\ \A t \in 1..c[2] : Kept(oplog', truncate')[t] = source[t]
    <3>1. /\ commit'[1] \in Nat /\ commit'[2] \in Nat /\ 1 <= commit'[2]
          /\ c[1] \in Nat /\ c[2] \in Nat /\ lastApplied'[2] \in Nat
      BY <1>2, <2>2, <2>3, <2>6, OpTimeFacts, Bounds
    <3>2. c[2] <= commit'[2]
      <4> SUFFICES ASSUME commit'[2] < c[2] PROVE FALSE
        BY <3>1
      <4>1. commit'[2] \in 1..lastApplied'[2]
        BY <2>2, <3>1
      <4>2. oplog'[commit'[2]] = commit'[1] /\ oplog'[commit'[2]] <= oplog'[c[2]]
        BY <2>2, <2>4, <2>8, <3>1, <4>1, Bounds
      <4>3. commit'[1] <= c[1]
        BY <2>2, <4>2
      <4> QED BY <2>1, <3>1, <4>3 DEF Leq
    <3>3. ASSUME NEW t \in 1..c[2] PROVE Kept(oplog', truncate')[t] = source[t]
      <4>1. t \in 1..lastApplied'[2] /\ t \in 1..commit'[2]
        BY <2>2, <3>1, <3>2
      <4>2. oplog'[t] > 0 /\ Kept(oplog', truncate')[t] = oplog'[t]
        BY <2>8, <4>1, Bounds
      <4> QED BY <2>4, <4>1, <4>2
    <3> QED BY <3>2, <3>3
  <2>10. \A t \in 1..c[2] : data'[t] = source[t]
    <3> TAKE t \in 1..c[2]
    <3>1. t \in 1..lastApplied'[2] /\ t \in Nat /\ t <= lastApplied'[2]
      BY <2>2, <2>6, Bounds
    <3>2. oplog'[t] = source[t] /\ t \in Timestamps
      BY <2>8, <2>9, <3>1
    <3>3. <<oplog'[t], t>> \notin batch'
      <4>1. <<oplog'[t], t>> \in batch' => lastApplied'[2] < <<oplog'[t], t>>[2]
        BY <2>6
      <4>2. lastApplied'[2] \in Nat
        BY <2>6, Bounds
      <4> QED BY <3>1, <4>1, <4>2
    <3>4. data'[t] = oplog'[t]
      BY <3>2, <3>3 DEF DataInv
    <3> QED BY <3>2, <3>4
  <2>11. stable' <= committed /\ stable' <= lastApplied'[2]
    BY <1>2, <2>1, <2>2, <2>4, <2>6, <2>9, Bounds
  <2> QED BY <1>3, <1>4, <2>1, <2>2, <2>9, <2>10, <2>11 DEF StableInv
<1> QED BY <1>5, <1>6

\* The member has learned of a commit point on the history that it has fetched, or has written.
LEMMA RecoveryLearnCommitPoint ==
    ASSUME RecoveryInv, NEW n \in 1..committed, LearnCommitPoint(n)
    PROVE  RecoveryInv'
<1>1. /\ UNCHANGED <<source, committed, leader, term, majority, oplog, truncate, data, doc,
                     journal, checkpoint, role, pc, recovering, batch, last, lastApplied,
                     lastDurable, token, producer, crashes, kept, failed>>
      /\ commit' = SourceOpTime(n) /\ SetStable(candidates, SourceOpTime(n))
      /\ recovering = "no"
      /\ IF role = "primary" THEN leader = "member" /\ source[n] = term
         ELSE producer = "running" /\ FetchedMatches
  BY DEF LearnCommitPoint, others, markers, tables, disk, applier, progress, stability,
         memory
<1>2. TypeInv /\ ProgressInv /\ DataInv /\ DocumentInv /\ CommitInv /\ FailsOnlyAfterKeptCandidate
  BY DEF RecoveryInv
<1>3. TypeInv'
  BY <1>2, TypeLearnCommitPoint
<1>4. ProgressInv' /\ DataInv' /\ DocumentInv'
  BY <1>1, <1>2 DEF ProgressInv, DataInv, DocumentInv, Top, Document
<1>5. SourceOpTime(n) \in OpTimes /\ commit'[2] = n /\ commit'[1] = source[n] /\ n \in Timestamps
  <2>1. source[n] \in Terms /\ n \in Timestamps
    BY <1>2, StateFacts, Bounds
  <2> QED BY <1>1, <2>1, OpTimeFacts DEF SourceOpTime
<1>6. CommitInv'
  <2>1. CASE role = "primary"
    <3>1. \A t \in 1..n : oplog[t] = source[t]
      <4>1. n \in 1..Len(source)
        BY <1>2, StateFacts
      <4> QED BY <1>1, <1>2, <2>1, <4>1 DEF TypeInv, LeaderInv
    <3>2. pc = "idle"
      BY <1>2, <2>1 DEF TypeInv, StepInv
    <3>3. batch = {} /\ lastApplied[2] = Top /\ (oplog[n] > 0 => n <= Top)
      BY <1>5, <3>2, IdleFacts
    <3>4. oplog[n] > 0
      BY <1>2, <3>1, StateFacts, Bounds
    <3> QED BY <1>1, <1>5, <3>1, <3>3, <3>4 DEF CommitInv
  <2>2. CASE role # "primary"
    <3>1. FetchedMatches /\ producer = "running"
      BY <1>1, <2>2
    <3>2. pc # "newPrimary"
      BY <1>2, <3>1 DEF DocumentInv
    <3>3. \A t \in 1..n : t \in Timestamps
      BY <1>5, Bounds
    <3> QED BY <1>1, <1>5, <2>2, <3>1, <3>2, <3>3 DEF CommitInv, FetchedMatches
  <2> QED BY <2>1, <2>2
<1>7. /\ candidates \in SUBSET OpTimes /\ stable \in Timestamps
      /\ stable <= stable' /\ candidates' \subseteq candidates
      /\ ~majority => stable' = stable
      /\ stable' # stable =>
                \E c \in candidates : Leq(c, commit') /\ stable' = c[2] /\ stable < c[2]
  <2>1. candidates \in SUBSET OpTimes /\ stable \in Timestamps
    BY <1>2 DEF TypeInv, TypeOK
  <2> QED BY <1>1, <1>5, <2>1, StableFacts
<1>8. ASSUME majority PROVE StableInv' /\ CandidateInv'
  <2>1. StableInv /\ CandidateInv
    BY <1>8 DEF RecoveryInv
  <2>2. /\ \A t \in 1..stable : Kept(oplog, truncate)[t] = source[t] /\ data[t] = source[t]
        /\ stable <= lastApplied[2] /\ (kept \/ doc[stable].through \in {0, stable})
    BY <1>1, <2>1 DEF StableInv
  <2>3. \A c \in candidates : /\ c[2] \in 1..lastApplied[2] /\ oplog[c[2]] = c[1]
                              /\ (kept \/ doc[c[2]].through \in {0, c[2]})
    BY <1>1, <2>1 DEF CandidateInv
  <2>4. StableInv'
    BY <1>1, <1>3, <1>4, <1>6, <1>7, <1>8, <2>2, <2>3, StableStep
  <2>5. CandidateInv'
    BY <1>1, <1>7, <2>3 DEF CandidateInv
  <2> QED BY <2>4, <2>5
<1>9. ~majority => JournalInv
  BY DEF RecoveryInv
<1>10. Journaled
  BY <1>1, LogFacts
<1> QED BY <1>1, <1>2, <1>3, <1>4, <1>6, <1>7, <1>8, <1>9, <1>10, Assemble DEF JournalInv

-----------------------------------------------------------------------------
(* Recovery: steps between batches. *)

\* A document is determined by its fields.
LEMMA DocumentEqual ==
    ASSUME NEW m \in Documents, NEW n \in Documents, NEW t \in Timestamps, NEW u \in Timestamps,
           m[t].through = n[u].through, m[t].valid = n[u].valid
    PROVE  m[t] = n[u]
<1>1. /\ m[t] \in [through : 0..MaxTimestamp, valid : OpTimes]
      /\ n[u] \in [through : 0..MaxTimestamp, valid : OpTimes]
  BY DEF Documents
<1> QED BY <1>1

\* What is durable stays in the journal if the oplog is only written after it.
LEMMA DurableStep ==
    ASSUME RecoveryInv, recovering = "no", Journaled, lastDurable' = lastDurable,
           \A t \in 1..lastDurable[2] : oplog'[t] = oplog[t],
           truncate' = 0 \/ lastDurable[2] < truncate', truncate' \in Nat
    PROVE  \A j \in journal' : \A t \in 1..lastDurable'[2] :
                j.oplog[t] = oplog'[t] /\ (j.truncate = 0 \/ t < j.truncate)
<1>1. \A j \in journal : \A t \in 1..lastDurable[2] :
            j.oplog[t] = oplog[t] /\ (j.truncate = 0 \/ t < j.truncate)
  BY DEF RecoveryInv, ProgressInv
<1>2. lastDurable[2] \in Nat
  BY AppliedLog
<1> TAKE j \in journal'
<1> TAKE t \in 1..lastDurable'[2]
<1>3. CASE j \in journal
  BY <1>1, <1>3
<1>4. CASE j \notin journal
  <2>1. j.oplog = oplog' /\ j.truncate = truncate'
    BY <1>4 DEF Journaled
  <2> QED BY <1>2, <2>1
<1> QED BY <1>3, <1>4

\* A step between batches that may set or clear the applied point at the top of the oplog.
LEMMA IdleStep ==
    ASSUME RecoveryInv, TypeInv',
           pc \in {"idle", "newPrimary", "closing"}, pc' \in {"idle", "newPrimary", "closing"},
           UNCHANGED <<source, committed, majority, oplog, truncate, data, checkpoint, stable,
                       recovering, batch, last, lastApplied, lastDurable, token, commit,
                       candidates, crashes, kept, failed>>,
           Journaled,
           doc' \in {doc, SetAppliedThrough(Top, 0), SetAppliedThrough(Top, Top)},
           role' = "primary" \/ pc' = "newPrimary" =>
                Document'.through = 0 /\ (commit # Null => commit[2] <= lastApplied[2]),
           producer' = "running" =>
                role' = "secondary" /\ pc' # "newPrimary" /\ Document'.through # 0
    PROVE  RecoveryInv'
<1>1. TypeInv /\ ProgressInv /\ DataInv /\ DocumentInv /\ CommitInv /\ FailsOnlyAfterKeptCandidate
  BY DEF RecoveryInv
<1>2. /\ recovering = "no" /\ truncate = 0 /\ batch = {} /\ data = oplog
      /\ Top \in Timestamps /\ Top \in Nat /\ oplog[Top] \in Terms
      /\ \A t \in Timestamps : oplog[t] > 0 <=> t <= Top
      /\ lastApplied[2] = Top /\ Document.through \in {0, Top}
      /\ \A t \in Timestamps : Top <= t => doc[t] = Document
  BY IdleFacts
<1>3. doc \in Documents /\ doc' \in Documents
  BY <1>1, StateFacts DEF TypeInv, TypeOK, Documents
<1>4. /\ \A t \in Timestamps : doc'[t].valid = doc[t].valid
      /\ \A t \in Timestamps : t < Top => doc'[t].through = doc[t].through
      /\ \E x \in {0, Top} : \A t \in Timestamps : Top <= t => doc'[t].through = x
  <2>1. CASE doc' = doc
    BY <1>2, <2>1
  <2>2. ASSUME NEW x \in {0, Top}, doc' = SetAppliedThrough(Top, x)
        PROVE  /\ \A t \in Timestamps : doc'[t].valid = doc[t].valid
               /\ \A t \in Timestamps : t < Top => doc'[t].through = doc[t].through
               /\ \A t \in Timestamps : Top <= t => doc'[t].through = x
    <3>1. x \in 0..MaxTimestamp
      BY <1>2, Bounds
    <3>2. \A t \in Timestamps :
            /\ SetAppliedThrough(Top, x)[t].through = IF t >= Top THEN x ELSE doc[t].through
            /\ SetAppliedThrough(Top, x)[t].valid = doc[t].valid
      BY <1>2, <1>3, <3>1, DocFacts
    <3> QED BY <1>2, <2>2, <3>2, Bounds
  <2>3. 0 \in {0, Top} /\ Top \in {0, Top}
    OBVIOUS
  <2> QED BY <2>1, <2>2, <2>3
<1>5. \A t \in Timestamps : Top <= t => doc'[t] = doc'[MaxTimestamp]
  <2> TAKE t \in Timestamps
  <2> HAVE Top <= t
  <2>1. MaxTimestamp \in Timestamps /\ Top <= MaxTimestamp
    BY <1>2, Bounds
  <2>2. doc'[t].through = doc'[MaxTimestamp].through
    BY <1>4, <2>1
  <2>3. doc[t] = doc[MaxTimestamp]
    BY <1>2, <2>1
  <2> QED BY <1>3, <1>4, <2>1, <2>2, <2>3, DocumentEqual
<1>6. Document'.through \in {0, Top} /\ Document' = doc'[MaxTimestamp]
  BY <1>2, <1>4, Bounds DEF Document
<1>7. ProgressInv'
  <2>1. \A j \in journal' : \A t \in 1..lastDurable'[2] :
                j.oplog[t] = oplog'[t] /\ (j.truncate = 0 \/ t < j.truncate)
    <3>1. truncate' = 0
      BY <1>2
    <3> QED BY <1>2, <3>1, DurableStep
  <2> QED BY <1>1, <1>2, <2>1 DEF ProgressInv, Top
<1>8. DataInv'
  BY <1>1, <1>2 DEF DataInv
<1>9. Documented(oplog', truncate', doc')
  <2>1. oplog \in Table /\ Whole(oplog) /\ Top = TopOf(oplog)
    BY <1>1, <1>2, StateFacts, WholeLog
  <2>2. \A t \in Timestamps : t <= Top => Leq(doc'[t].valid, <<oplog[t], t>>)
    BY <1>2, <1>4, TopDocument
  <2>3. Documented(oplog, 0, doc')
    BY <1>5, <2>1, <2>2, DocumentedFacts
  <2> QED BY <1>2, <2>3
<1>10. DocumentInv'
  BY <1>2, <1>6, <1>9 DEF DocumentInv
<1>11. CommitInv'
  BY <1>1 DEF CommitInv
<1>12. ASSUME majority PROVE StableInv' /\ CandidateInv'
  <2>1. StableInv /\ CandidateInv
    BY <1>12 DEF RecoveryInv
  <2>2. \A t \in 1..Top : doc[t].through \in {0, t} => doc'[t].through \in {0, t}
    <3> TAKE t \in 1..Top
    <3>1. t \in Timestamps /\ (t < Top \/ t = Top)
      BY <1>2, Bounds
    <3> QED BY <1>2, <1>4, <3>1
  <2>3. stable \in 1..Top
    BY <1>1, <1>2, <2>1, Bounds DEF StableInv, TypeInv, TypeOK
  <2>4. StableInv'
    BY <1>2, <2>1, <2>2, <2>3 DEF StableInv
  <2>5. CandidateInv'
    BY <1>2, <2>1, <2>2 DEF CandidateInv
  <2> QED BY <2>4, <2>5
<1>13. ASSUME ~majority
       PROVE  /\ stable' = stable /\ recovering' # "rollback"
              /\ Consistent(oplog', truncate', data', doc')
  <2>1. Kept(oplog, truncate) = oplog
    BY <1>1, <1>2, KeptLog
  <2>2. \A x \in {0, Top} : x # 0 => oplog[x] > 0
    BY <1>2, Bounds
  <2> QED BY <1>2, <1>6, <2>1, <2>2 DEF Consistent
<1> QED BY <1>1, <1>7, <1>8, <1>10, <1>11, <1>12, <1>13, Assemble

\* The producer has found its sync source.
LEMMA RecoveryProducerStarts ==
    ASSUME RecoveryInv, ProducerStarts
    PROVE  RecoveryInv'
<1>1. /\ UNCHANGED <<source, committed, leader, term, majority, oplog, truncate, data, doc,
                     journal, checkpoint, stable, role, pc, recovering, batch, last,
                     lastApplied, lastDurable, token, commit, candidates, crashes, kept, failed>>
      /\ producer = "stopped" /\ recovering = "no" /\ producer' = "chosen"
  BY DEF ProducerStarts, others, markers, tables, disk, applier, progress, stability,
         memory
<1>2. TypeInv /\ DocumentInv /\ CommitInv
  BY DEF RecoveryInv
<1>3. pc \in {"idle", "newPrimary", "closing"}
  BY <1>1, <1>2 DEF DocumentInv, TypeInv, TypeOK, StepInv
<1>4. /\ role' = "primary" \/ pc' = "newPrimary" =>
                Document'.through = 0 /\ (commit # Null => commit[2] <= lastApplied[2])
      /\ producer' # "running" /\ doc' = doc
  BY <1>1, <1>2 DEF DocumentInv, CommitInv, Document
<1>5. TypeInv' /\ Journaled
  BY <1>1, <1>2, TypeProducerStarts, LogFacts
<1> QED BY <1>1, <1>3, <1>4, <1>5, IdleStep

\* The producer marks the applied point on a secondary only, without the fault LateMark.
LEMMA RecoveryMarkAppliedThrough ==
    ASSUME RecoveryInv, MarkAppliedThrough, Faults = {}
    PROVE  RecoveryInv'
<1>1. /\ UNCHANGED <<source, committed, leader, term, majority, oplog, truncate, data, stable,
                     role, pc, recovering, batch, last, lastApplied, lastDurable, token, commit,
                     candidates, crashes, kept, failed>>
      /\ producer = "chosen" /\ recovering = "no" /\ role = "secondary" /\ pc # "newPrimary"
      /\ doc' = IF Document.through = 0
              THEN SetAppliedThrough(lastApplied[2], lastApplied[2]) ELSE doc
      /\ producer' = "running" /\ Log
  BY DEF MarkAppliedThrough, others, markers, tables, disk, applier, progress, stability,
         memory
<1>2. TypeInv /\ DocumentInv
  BY DEF RecoveryInv
<1>3. pc \in {"idle", "newPrimary", "closing"}
  BY <1>1, <1>2 DEF DocumentInv, TypeInv, TypeOK, StepInv
<1>4. lastApplied[2] = Top /\ Top \in Timestamps /\ Top \in Nat /\ Top # 0
  BY <1>3, IdleFacts, Bounds
<1>5. doc' \in {doc, SetAppliedThrough(Top, 0), SetAppliedThrough(Top, Top)}
  BY <1>1, <1>4
<1>6. Document'.through # 0
  <2>1. CASE Document.through # 0
    BY <1>1, <2>1 DEF Document
  <2>2. CASE Document.through = 0
    <3>1. doc' = SetAppliedThrough(Top, Top) /\ doc \in Documents
      BY <1>1, <1>2, <1>4, <2>2, StateFacts
    <3>2. Top \in 0..MaxTimestamp /\ MaxTimestamp \in Timestamps /\ MaxTimestamp >= Top
      BY <1>4, Bounds
    <3>3. doc'[MaxTimestamp].through = Top
      BY <1>4, <3>1, <3>2, DocFacts
    <3> QED BY <1>4, <3>3 DEF Document
  <2> QED BY <2>1, <2>2
<1>7. TypeInv' /\ Journaled /\ checkpoint' = checkpoint
  BY <1>1, <1>2, TypeMarkAppliedThrough, LogFacts
<1> QED BY <1>1, <1>3, <1>5, <1>6, <1>7, IdleStep

\* A primary that steps down leaves the applied point unset until the producer sets it.
LEMMA RecoveryStepDown ==
    ASSUME RecoveryInv, StepDown
    PROVE  RecoveryInv'
<1>1. /\ UNCHANGED <<source, committed, leader, term, majority, oplog, truncate, data, doc,
                     journal, checkpoint, stable, recovering, batch, last, lastApplied,
                     lastDurable, token, commit, candidates, producer, crashes, kept, failed>>
      /\ pc \in {"idle", "newPrimary", "closing"}
      /\ pc = "newPrimary" \/ role = "primary"
      /\ role' = "secondary" /\ pc' = "idle"
  BY DEF StepDown, others, markers, tables, disk, applier, progress, stability,
         memory
<1>2. TypeInv /\ DocumentInv
  BY DEF RecoveryInv
<1>3. producer' # "running" /\ doc' = doc
  BY <1>1, <1>2 DEF DocumentInv
<1>4. TypeInv' /\ Journaled
  BY <1>1, <1>2, TypeStepDown, LogFacts
<1> QED BY <1>1, <1>3, <1>4, IdleStep

\* A new primary clears the applied point; the truncate point is not set then.
LEMMA RecoveryClearAppliedThrough ==
    ASSUME RecoveryInv, ClearAppliedThrough
    PROVE  RecoveryInv'
<1>1. TypeInv /\ DocumentInv /\ CommitInv /\ pc = "idle"
  BY DEF RecoveryInv, ClearAppliedThrough
<1>2. /\ truncate = 0 /\ lastApplied[2] = Top /\ Top \in Timestamps /\ Top \in Nat
      /\ \A t \in Timestamps : oplog[t] > 0 <=> t <= Top
  BY <1>1, IdleFacts
<1>3. /\ UNCHANGED <<source, committed, majority, oplog, truncate, data, stable, role,
                     recovering, batch, last, lastApplied, lastDurable, token, commit,
                     candidates, crashes, kept, failed>>
      /\ Matches(committed) /\ role = "secondary"
      /\ doc' = SetAppliedThrough(lastApplied[2], 0) /\ pc' = "newPrimary"
      /\ producer' # "running" /\ Log
  BY <1>2 DEF ClearAppliedThrough, ClearedAppliedThrough,
        others, markers, tables, disk, applier, progress, stability,
         memory
<1>4. doc' = SetAppliedThrough(Top, 0)
  BY <1>2, <1>3
<1>5. Document'.through = 0
  <2>1. 0 \in 0..MaxTimestamp /\ MaxTimestamp \in Timestamps /\ MaxTimestamp >= Top
    BY <1>2, Bounds
  <2>2. doc \in Documents
    BY <1>1, StateFacts
  <2>3. SetAppliedThrough(Top, 0)[MaxTimestamp].through = 0
    <3>1. \A s \in Nat, x \in 0..MaxTimestamp : \A t \in Timestamps :
            SetAppliedThrough(s, x)[t].through = IF t >= s THEN x ELSE doc[t].through
      BY <2>2, DocFacts
    <3> QED BY <1>2, <2>1, <3>1
  <2> QED BY <1>4, <2>3 DEF Document
<1>6. commit # Null => commit[2] <= lastApplied[2]
  <2> HAVE commit # Null
  <2>1. commit[2] \in 1..committed /\ committed <= Len(source)
    BY <1>1, StateFacts DEF CommitInv
  <2>2. oplog[commit[2]] = source[commit[2]]
    BY <1>3, <2>1 DEF Matches
  <2>3. commit[2] \in Timestamps /\ oplog[commit[2]] > 0
    BY <1>1, <2>1, <2>2, StateFacts, Bounds
  <2> QED BY <1>2, <2>3
<1>7. TypeInv' /\ Journaled /\ checkpoint' = checkpoint
  BY <1>1, <1>3, TypeClearAppliedThrough, LogFacts
<1> QED BY <1>1, <1>3, <1>4, <1>5, <1>6, <1>7, IdleStep

\* A secondary that shuts down clears the applied point.
LEMMA RecoveryStopReplication ==
    ASSUME RecoveryInv, StopReplication
    PROVE  RecoveryInv'
<1>1. /\ UNCHANGED <<source, committed, leader, term, majority, oplog, truncate, data, stable,
                     role, recovering, batch, last, lastApplied, lastDurable, token, commit,
                     candidates, crashes, kept, failed>>
      /\ pc = "idle" /\ role = "secondary" /\ pc' = "closing" /\ producer' = "stopped" /\ Log
      /\ doc' = doc \/ doc' = SetAppliedThrough(lastApplied[2], 0)
  BY DEF StopReplication, ClearedAppliedThrough,
        others, markers, tables, disk, applier, progress, stability,
         memory
<1>2. lastApplied[2] = Top
  BY <1>1, IdleFacts
<1>3. TypeInv' /\ Journaled /\ checkpoint' = checkpoint
  BY <1>1, TypeStopReplication, LogFacts DEF RecoveryInv
<1> QED BY <1>1, <1>2, <1>3, IdleStep

-----------------------------------------------------------------------------
(* Recovery: the journal and checkpoints. *)

\* A step that only moves the durable optime.
LEMMA DurableOnly ==
    ASSUME RecoveryInv, TypeInv', UNCHANGED <<source, committed, leader, term, majority, oplog,
                                              truncate, data, doc, checkpoint, stable, role, pc,
                                              recovering, batch, last, lastApplied, commit,
                                              candidates, producer, crashes, kept, failed>>,
           Journaled, ProgressInv'
    PROVE  RecoveryInv'
<1>1. TypeInv /\ DataInv /\ DocumentInv /\ CommitInv /\ FailsOnlyAfterKeptCandidate
  BY DEF RecoveryInv
<1>2. DataInv' /\ DocumentInv' /\ CommitInv'
  BY <1>1 DEF DataInv, DocumentInv, CommitInv, Top, Document
<1>3. majority => StableInv' /\ CandidateInv'
  BY DEF RecoveryInv, StableInv, CandidateInv, Document
<1>4. ~majority => JournalInv
  BY DEF RecoveryInv
<1>5. \A t \in 1..committed : source'[t] = source[t]
  OBVIOUS
<1> QED BY <1>1, <1>2, <1>3, <1>4, <1>5, Assemble DEF JournalInv

\* The token is the last applied optime.
LEMMA RecoveryTakeToken ==
    ASSUME RecoveryInv, TakeToken
    PROVE  RecoveryInv'
<1>1. /\ UNCHANGED <<source, committed, leader, term, majority, oplog, truncate, data, doc,
                     journal, checkpoint, stable, role, pc, recovering, batch, last, lastApplied,
                     lastDurable, commit, candidates, producer, crashes, kept, failed>>
      /\ token' = lastApplied /\ recovering = "no"
  BY DEF TakeToken, others, markers, tables, disk, applier, progress, stability,
         memory
<1>2. TypeInv /\ ProgressInv
  BY DEF RecoveryInv
<1>3. token'[2] \in 1..lastApplied[2] /\ oplog[token'[2]] = token'[1]
  BY <1>1, AppliedLog, Bounds
<1>4. ProgressInv'
  BY <1>1, <1>2, <1>3 DEF ProgressInv, Top
<1> QED BY <1>1, <1>2, <1>4, TypeTakeToken, LogFacts, DurableOnly

\* Once the journal is flushed no crash loses the optime of the token.
LEMMA RecoveryFlushJournal ==
    ASSUME RecoveryInv, FlushJournal
    PROVE  RecoveryInv'
<1>1. /\ UNCHANGED <<source, committed, leader, term, majority, oplog, truncate, data, doc,
                     checkpoint, stable, role, pc, recovering, batch, last, lastApplied, commit,
                     candidates, producer, crashes, kept, failed>>
      /\ journal' = Flushed /\ token # Null /\ token' = Null
      /\ lastDurable' = IF Leq(token, lastApplied) THEN Later(lastDurable, token)
                        ELSE lastDurable
  BY DEF FlushJournal, others, markers, tables, disk, applier, progress, stability,
         memory
<1>2. TypeInv /\ ProgressInv
  BY DEF RecoveryInv
<1>3. recovering = "no"
  BY <1>1, <1>2 DEF ProgressInv
<1>4. token[2] \in 1..lastApplied[2] /\ oplog[token[2]] = token[1]
  BY <1>1, <1>2, <1>3 DEF ProgressInv
<1>5. lastDurable' \in {lastDurable, token}
  BY <1>1 DEF Later
<1>6. /\ lastDurable[2] \in 1..lastApplied[2] /\ oplog[lastDurable[2]] = lastDurable[1]
      /\ lastApplied[2] \in Nat
      /\ \A t \in 1..lastApplied[2] : truncate = 0 \/ t < truncate
  BY <1>3, AppliedLog
<1>7. lastDurable'[2] \in 1..lastApplied[2] /\ oplog[lastDurable'[2]] = lastDurable'[1]
  BY <1>4, <1>5, <1>6
<1>8. \A j \in journal' : \A t \in 1..lastDurable'[2] :
            j.oplog[t] = oplog[t] /\ (j.truncate = 0 \/ t < j.truncate)
  <2> TAKE j \in journal'
  <2> TAKE t \in 1..lastDurable'[2]
  <2>1. j.oplog = oplog /\ j.truncate = truncate
    BY <1>1, LogFacts
  <2>2. t \in 1..lastApplied[2]
    BY <1>6, <1>7
  <2> QED BY <1>6, <2>1, <2>2
<1>9. ProgressInv'
  BY <1>1, <1>2, <1>3, <1>7, <1>8 DEF ProgressInv, Top
<1>10. Journaled
  BY <1>1, LogFacts DEF Journaled
<1> QED BY <1>1, <1>2, <1>9, <1>10, TypeFlushJournal, DurableOnly

\* A stable checkpoint has what a majority has, and its documents agree with it.
LEMMA StableCheckpointFacts ==
    ASSUME RecoveryInv, majority
    PROVE  LET cp == StableCheckpoint IN
           /\ cp.at = stable
           /\ \A t \in 1..stable : /\ cp.data[t] = source[t]
                                   /\ Leq(cp.doc[t].valid, <<source[t], t>>)
           /\ \A t \in Timestamps : /\ stable < t => cp.data[t] = 0
                                    /\ stable <= t => cp.doc[t] = cp.doc[stable]
           /\ (kept \/ cp.doc[stable].through \in {0, stable})
<1>1. TypeInv /\ DocumentInv /\ StableInv
  BY DEF RecoveryInv
<1>2. stable \in Timestamps /\ stable \in Nat
  BY <1>1, Bounds DEF TypeInv, TypeOK
<1>3. \A t \in Timestamps : UpTo(data, stable)[t] = IF t <= stable THEN data[t] ELSE 0
  BY <1>1, <1>2, StateFacts, UpToFacts
<1>4. \A t \in Timestamps : DocUpTo(stable)[t] = IF t <= stable THEN doc[t] ELSE doc[stable]
  BY <1>1, <1>2, StateFacts, DocFacts
<1>5. \A t \in 1..stable : t \in Timestamps /\ t <= stable
  BY <1>2, Bounds
<1>6. \A t \in 1..stable : Kept(oplog, truncate)[t] = source[t] /\ data[t] = source[t]
  BY <1>1 DEF StableInv
<1>7. ASSUME NEW t \in 1..stable PROVE Leq(doc[t].valid, <<source[t], t>>)
  <2>1. t \in 1..Len(source)
    BY <1>1, <1>2, StateFacts DEF StableInv
  <2>2. source[t] > 0 /\ t \in Timestamps
    BY <1>1, <2>1, StateFacts, Bounds
  <2>3. Kept(oplog, truncate)[t] > 0 /\ oplog[t] = source[t]
    BY <1>1, <1>6, <2>2, KeptLog
  <2> QED BY <1>1, <2>2, <2>3 DEF DocumentInv, Documented
<1>8. (kept \/ doc[stable].through \in {0, stable})
  BY <1>1 DEF StableInv
<1>9. /\ \A t \in 1..stable : /\ UpTo(data, stable)[t] = source[t]
                              /\ Leq(DocUpTo(stable)[t].valid, <<source[t], t>>)
      /\ kept \/ DocUpTo(stable)[stable].through \in {0, stable}
  BY <1>2, <1>3, <1>4, <1>5, <1>6, <1>7, <1>8
<1>10. \A t \in Timestamps : /\ stable < t => UpTo(data, stable)[t] = 0
                             /\ stable <= t => DocUpTo(stable)[t] = DocUpTo(stable)[stable]
  BY <1>2, <1>3, <1>4, Bounds
<1> QED BY <1>1, <1>9, <1>10, CheckpointFacts

\* The checkpoint has what a majority has.
LEMMA RecoveryTakeCheckpoint ==
    ASSUME RecoveryInv, TakeCheckpoint
    PROVE  RecoveryInv'
<1>1. /\ UNCHANGED <<source, committed, leader, term, majority, oplog, truncate, data, doc,
                     stable, role, pc, recovering, batch, last, lastApplied, lastDurable, token,
                     commit, candidates, producer, crashes, kept, failed>>
      /\ majority /\ journal' = Flushed /\ checkpoint' = StableCheckpoint
  BY DEF TakeCheckpoint, others, markers, tables, disk, applier, progress, stability,
         memory
<1>2. /\ TypeInv /\ ProgressInv /\ DataInv /\ DocumentInv /\ CommitInv /\ FailsOnlyAfterKeptCandidate
      /\ StableInv /\ CandidateInv
  BY <1>1 DEF RecoveryInv
<1>3. DataInv' /\ DocumentInv' /\ CommitInv' /\ CandidateInv'
  BY <1>1, <1>2 DEF DataInv, DocumentInv, CommitInv, CandidateInv, Top, Document
<1>4. \A j \in journal' : j.oplog = oplog /\ j.truncate = truncate
  BY <1>1, LogFacts
<1>5. ProgressInv'
  <2>1. ASSUME recovering = "no"
        PROVE  \A t \in 1..lastDurable[2] : truncate = 0 \/ t < truncate
    <3>1. /\ lastDurable[2] \in 1..lastApplied[2] /\ lastApplied[2] \in Nat
          /\ \A t \in 1..lastApplied[2] : truncate = 0 \/ t < truncate
      BY <2>1, AppliedLog
    <3>2. \A t \in 1..lastDurable[2] : t \in 1..lastApplied[2]
      BY <3>1
    <3> QED BY <3>1, <3>2
  <2> QED BY <1>1, <1>2, <1>4, <2>1 DEF ProgressInv, Top
<1>6. checkpoint'.at = stable /\ stable \in Timestamps /\ stable <= stable
  BY <1>1, <1>2, StableCheckpointFacts, Bounds DEF TypeInv, TypeOK
<1>7. StableInv'
  BY <1>1, <1>2, <1>6 DEF StableInv, Document
<1>8. CheckpointInv'
  <2>1. \A j \in journal' : \A t \in 1..stable : Kept(j.oplog, j.truncate)[t] = source[t]
    BY <1>2, <1>4 DEF StableInv
  <2>2. /\ \A t \in 1..stable : /\ checkpoint'.data[t] = source[t]
                                /\ Leq(checkpoint'.doc[t].valid, <<source[t], t>>)
        /\ \A t \in Timestamps : /\ stable < t => checkpoint'.data[t] = 0
                                 /\ stable <= t => checkpoint'.doc[t] = checkpoint'.doc[stable]
        /\ kept \/ checkpoint'.doc[stable].through \in {0, stable}
    BY <1>1, StableCheckpointFacts
  <2> QED BY <1>1, <1>6, <2>1, <2>2 DEF CheckpointInv
<1>9. TypeInv'
  BY <1>2, TypeTakeCheckpoint
<1> QED BY <1>1, <1>2, <1>3, <1>5, <1>7, <1>8, <1>9
        DEF RecoveryInv, FailsOnlyAfterKeptCandidate

\* The process starts from a disk that agrees with the source.
LEMMA RecoveryStartUp ==
    ASSUME RecoveryInv, StartUp, TypeInv',
           \A i, j \in journal' : i.oplog = j.oplog /\ i.truncate = j.truncate,
           majority => CheckpointInv' /\ checkpoint'.at <= committed,
           ~majority => /\ checkpoint' = checkpoint
                        /\ \A j \in journal' : /\ Documented(j.oplog, j.truncate, j.doc)
                                               /\ Consistent(j.oplog, j.truncate, j.data, j.doc)
    PROVE  RecoveryInv'
<1>1. /\ UNCHANGED <<source, committed, leader, term, majority, kept, failed>>
      /\ role' = "secondary" /\ pc' = "truncate" /\ recovering' = "startup"
      /\ token' = Null /\ commit' = Null /\ candidates' = {}
      /\ stable' = IF majority THEN checkpoint'.at ELSE 1
      /\ producer' = "stopped"
  BY DEF StartUp, others
<1>2. PICK j \in journal' :
        /\ oplog' = j.oplog /\ truncate' = j.truncate
        /\ data' = IF majority THEN checkpoint'.data ELSE j.data
        /\ doc' = IF majority THEN checkpoint'.doc ELSE j.doc
  BY DEF StartUp
<1>3. ProgressInv' /\ DataInv' /\ CommitInv' /\ CandidateInv'
  BY <1>1, <1>2 DEF ProgressInv, DataInv, CommitInv, CandidateInv
<1>4. TypeInv /\ FailsOnlyAfterKeptCandidate
  BY DEF RecoveryInv
<1>5. /\ oplog' \in Table /\ truncate' \in 0..MaxTimestamp /\ Whole(Kept(oplog', truncate'))
      /\ doc' \in Documents
  BY DEF TypeInv, TypeOK, LogInv, Table, Documents
<1>6. ASSUME majority
      PROVE  Documented(oplog', truncate', doc') /\ StableInv'
  <2> DEFINE at == checkpoint'.at
             rest == Kept(oplog', truncate')
  <2>1. /\ CheckpointInv' /\ data' = checkpoint'.data /\ doc' = checkpoint'.doc /\ stable' = at
        /\ at <= committed
    BY <1>1, <1>2, <1>6
  <2>2. at \in Timestamps /\ at \in Nat /\ committed \in Nat /\ committed <= Len(source)
    BY <1>4, StateFacts, Bounds DEF TypeInv, TypeOK
  <2>3. /\ \A t \in 1..at : /\ data'[t] = source[t] /\ Leq(doc'[t].valid, <<source[t], t>>)
                            /\ rest[t] = source[t]
        /\ \A t \in Timestamps : /\ at < t => data'[t] = 0
                                 /\ at <= t => doc'[t] = doc'[at]
        /\ (kept' \/ doc'[at].through \in {0, at})
    BY <1>1, <1>2, <2>1 DEF CheckpointInv
  <2>4. \A t \in 1..at : source[t] \in Terms /\ t \in Timestamps /\ rest[t] > 0
    <3>1. \A t \in 1..at : t \in 1..Len(source)
      BY <1>4, <2>1, <2>2, StateFacts
    <3>2. \A t \in 1..Len(source) : source[t] \in Terms /\ t \in Timestamps /\ source[t] > 0
      BY <1>4, StateFacts, Bounds
    <3> HIDE DEF at, rest
    <3> QED BY <2>3, <3>1, <3>2
  <2>5. \A t \in Timestamps : rest[t] = IF truncate' = 0 \/ t < truncate' THEN oplog'[t] ELSE 0
    BY <1>5, KeptFacts
  <2>6. \A t, u \in Timestamps : t <= u /\ rest[u] > 0 => 0 < rest[t] /\ rest[t] <= rest[u]
    BY <1>5 DEF Whole
  <2> HIDE DEF at, rest
  <2>7. ASSUME NEW t \in Timestamps, rest[t] > 0
        PROVE  Leq(doc'[t].valid, <<oplog'[t], t>>)
    <3>1. oplog'[t] = rest[t]
      BY <2>5, <2>7
    <3>2. CASE t <= at
      <4>1. t \in 1..at
        BY <2>2, <3>2, Bounds
      <4> QED BY <2>3, <3>1, <4>1
    <3>3. CASE ~(t <= at)
      <4>1. at <= t /\ at \in 1..at
        BY <2>2, <3>3, Bounds
      <4>2. doc'[t] = doc'[at] /\ Leq(doc'[at].valid, <<source[at], at>>) /\ rest[at] = source[at]
        BY <2>3, <4>1
      <4>3. rest[at] <= rest[t]
        BY <2>2, <2>6, <2>7, <4>1
      <4>4. source[at] \in Nat /\ rest[t] \in Nat /\ t \in Nat
        BY <1>5, <2>4, <3>1, <4>1, Bounds DEF Table
      <4>5. doc'[at].valid[1] \in Nat /\ doc'[at].valid[2] \in Nat
        <5>1. doc'[at].valid \in OpTimes
          BY <1>5, <2>2 DEF Documents
        <5> QED BY <5>1, OpTimeFacts
      <4> QED BY <2>2, <3>1, <4>1, <4>2, <4>3, <4>4, <4>5 DEF Leq
    <3> QED BY <3>2, <3>3
  <2>8. ASSUME NEW t \in Timestamps, t = MaxTimestamp \/ rest[t + 1] = 0
        PROVE  doc'[t] = doc'[MaxTimestamp]
    <3>1. at <= t
      <4> SUFFICES ASSUME t < at PROVE FALSE
        BY <2>2, Bounds
      <4>1. t + 1 \in 1..at /\ t # MaxTimestamp
        BY <2>2, Bounds
      <4> QED BY <2>4, <2>8, <4>1
    <3> QED BY <2>2, <2>3, <3>1, Bounds
  <2>9. Documented(oplog', truncate', doc')
    BY <2>7, <2>8 DEF Documented, rest
  <2>10. StableInv'
    <3>1. checkpoint'.at <= stable'
      BY <2>1, <2>2 DEF at
    <3> QED BY <1>1, <2>1, <2>3, <3>1 DEF StableInv, rest
  <2> QED BY <2>9, <2>10
<1>7. Documented(oplog', truncate', doc')
  BY <1>2, <1>6
<1>8. DocumentInv'
  BY <1>1, <1>7 DEF DocumentInv
<1>9. ASSUME ~majority PROVE JournalInv'
  <2>1. JournalInv
    BY <1>9 DEF RecoveryInv
  <2>2. Consistent(oplog', truncate', data', doc')
    BY <1>2, <1>9
  <2> QED BY <1>1, <1>9, <2>1, <2>2 DEF JournalInv
<1> QED BY <1>1, <1>3, <1>4, <1>6, <1>8, <1>9 DEF RecoveryInv, FailsOnlyAfterKeptCandidate

\* A crash leaves one state of the journal, and with majority read concern the checkpoint.
LEMMA RecoveryCrash ==
    ASSUME RecoveryInv, Crash
    PROVE  RecoveryInv'
<1>1. PICK j \in journal : journal' = {j}
  BY DEF Crash
<1>2. checkpoint' = checkpoint /\ StartUp /\ source' = source /\ kept' = kept
  BY DEF Crash, StartUp, others
<1>3. ASSUME majority PROVE CheckpointInv' /\ checkpoint'.at <= committed
  <2>1. CheckpointInv /\ StableInv
    BY <1>3 DEF RecoveryInv
  <2>2. CheckpointInv'
    BY <1>1, <1>2, <2>1 DEF CheckpointInv
  <2>3. checkpoint.at \in Nat /\ stable \in Nat /\ committed \in Nat
    BY StateFacts, Bounds DEF RecoveryInv, TypeInv, TypeOK
  <2> QED BY <1>2, <2>1, <2>2, <2>3 DEF StableInv
<1>4. ~majority => \A i \in journal' : /\ Documented(i.oplog, i.truncate, i.doc)
                                       /\ Consistent(i.oplog, i.truncate, i.data, i.doc)
  BY <1>1 DEF RecoveryInv, JournalInv
<1>5. TypeInv'
  BY TypeCrash DEF RecoveryInv
<1>6. \A a, b \in journal' : a.oplog = b.oplog /\ a.truncate = b.truncate
  BY <1>1
<1> QED BY <1>2, <1>3, <1>4, <1>5, <1>6, RecoveryStartUp

\* A clean shutdown leaves the tables, or with majority read concern a new checkpoint.
LEMMA RecoveryCleanShutdown ==
    ASSUME RecoveryInv, CleanShutdown
    PROVE  RecoveryInv'
<1>1. /\ journal' = Flushed /\ StartUp /\ source' = source /\ kept' = kept
      /\ checkpoint' = IF majority THEN StableCheckpoint ELSE checkpoint
  BY DEF CleanShutdown, StartUp, others
<1>2. \A j \in journal' : /\ j.oplog = oplog /\ j.truncate = truncate
                          /\ ~majority => j.data = data /\ j.doc = doc
  BY <1>1, LogFacts
<1>3. ASSUME majority PROVE CheckpointInv' /\ checkpoint'.at <= committed
  <2>1. StableInv /\ checkpoint' = StableCheckpoint
    BY <1>1, <1>3 DEF RecoveryInv
  <2>2. \A j \in journal' : \A t \in 1..stable : Kept(j.oplog, j.truncate)[t] = source[t]
    BY <1>2, <2>1 DEF StableInv
  <2>3. /\ checkpoint'.at = stable
        /\ \A t \in 1..stable : /\ checkpoint'.data[t] = source[t]
                                /\ Leq(checkpoint'.doc[t].valid, <<source[t], t>>)
        /\ \A t \in Timestamps : /\ stable < t => checkpoint'.data[t] = 0
                                 /\ stable <= t => checkpoint'.doc[t] = checkpoint'.doc[stable]
        /\ kept \/ checkpoint'.doc[stable].through \in {0, stable}
    BY <1>3, <2>1, StableCheckpointFacts
  <2>4. CheckpointInv'
    BY <1>1, <2>2, <2>3 DEF CheckpointInv
  <2> QED BY <2>1, <2>3, <2>4 DEF StableInv
<1>4. ASSUME ~majority
      PROVE  /\ checkpoint' = checkpoint
             /\ \A j \in journal' : /\ Documented(j.oplog, j.truncate, j.doc)
                                    /\ Consistent(j.oplog, j.truncate, j.data, j.doc)
  BY <1>1, <1>2, <1>4 DEF RecoveryInv, JournalInv, DocumentInv
<1>5. TypeInv'
  BY TypeCleanShutdown DEF RecoveryInv
<1>6. \A a, b \in journal' : a.oplog = b.oplog /\ a.truncate = b.truncate
  BY <1>2
<1> QED BY <1>1, <1>3, <1>4, <1>5, <1>6, RecoveryStartUp

-----------------------------------------------------------------------------
(* Recovery: batches. *)

\* Documents and data agree with an oplog as with any that a truncation leaves the same of.
LEMMA SameKept ==
    ASSUME NEW o, NEW k, NEW p, NEW l, Kept(o, k) = Kept(p, l),
           \A t \in Timestamps : Kept(o, k)[t] > 0 => o[t] = p[t]
    PROVE  /\ \A m : Documented(o, k, m) => Documented(p, l, m)
           /\ \A d, m : Consistent(o, k, d, m) => Consistent(p, l, d, m)
BY DEF Documented, Consistent

\* The truncate point is set above the applied optime before the batch is written.
LEMMA RecoveryStartBatch ==
    ASSUME RecoveryInv, StartBatch
    PROVE  RecoveryInv'
<1>1. /\ UNCHANGED <<source, committed, leader, term, majority, oplog, data, doc, stable, role,
                     recovering, lastApplied, lastDurable, token, commit, candidates, producer,
                     crashes, kept, failed>>
      /\ pc = "idle" /\ role = "secondary" /\ producer = "running" /\ truncate' = Top + 1
      /\ pc' = "writeOplog" /\ Log
  BY DEF StartBatch, others, markers, tables, disk, applier, progress, stability,
         memory
<1>2. PICK n \in Top + 1..Top + MaxBatch : batch' = {SourceOpTime(t) : t \in Top + 1..n}
  BY DEF StartBatch
<1>3. TypeInv /\ ProgressInv /\ DataInv /\ DocumentInv /\ CommitInv /\ FailsOnlyAfterKeptCandidate
  BY DEF RecoveryInv
<1>4. /\ recovering = "no" /\ truncate = 0 /\ batch = {} /\ data = oplog
      /\ Top \in Timestamps /\ Top \in Nat /\ lastApplied[2] = Top
      /\ \A t \in Timestamps : oplog[t] > 0 <=> t <= Top
  BY <1>1, IdleFacts
<1>5. TypeInv' /\ Journaled /\ checkpoint' = checkpoint
  BY <1>1, <1>3, TypeStartBatch, LogFacts
<1>6. Kept(oplog, truncate) = oplog /\ Kept(oplog', truncate') = oplog
  <2>1. oplog \in Table /\ Kept(oplog, truncate) = oplog
    BY <1>3, <1>4, StateFacts, KeptLog
  <2>2. truncate' \in 0..MaxTimestamp /\ truncate' # 0
    BY <1>1, <1>4, <1>5 DEF TypeInv, TypeOK
  <2>3. /\ Kept(oplog, truncate') \in Table
        /\ \A t \in Timestamps : Kept(oplog, truncate')[t] =
                IF truncate' = 0 \/ t < truncate' THEN oplog[t] ELSE 0
    BY <2>1, <2>2, KeptFacts
  <2>4. \A t \in Timestamps : Kept(oplog, truncate')[t] = oplog[t]
    <3> TAKE t \in Timestamps
    <3>1. ~(t < truncate') => ~(t <= Top)
      BY <1>1, <1>4, Bounds
    <3>2. oplog[t] \in Nat
      BY <1>3, StateFacts
    <3> QED BY <1>4, <2>3, <3>1, <3>2
  <2> QED BY <1>1, <2>1, <2>3, <2>4, TableEqual
<1>7. \A e \in batch' : \E t \in Top + 1..n : e[1] = source[t] /\ e[2] = t
  BY <1>2 DEF SourceOpTime
<1>8. ProgressInv'
  <2>1. \A e \in batch' : Top < e[2]
    BY <1>4, <1>7
  <2>2. \A j \in journal' : \A t \in 1..lastDurable'[2] :
                j.oplog[t] = oplog'[t] /\ (j.truncate = 0 \/ t < j.truncate)
    <3>1. lastDurable[2] < truncate' /\ truncate' \in Nat
      BY <1>1, <1>4, AppliedLog
    <3> QED BY <1>1, <1>4, <1>5, <3>1, DurableStep
  <2>3. Kept(oplog', truncate')[lastApplied[2]] = lastApplied[1]
    BY <1>3, <1>4, <1>6 DEF ProgressInv
  <2>4. /\ lastApplied[2] \in Timestamps
        /\ lastDurable[2] \in 1..lastApplied[2] /\ oplog[lastDurable[2]] = lastDurable[1]
        /\ token # Null => token[2] \in 1..lastApplied[2] /\ oplog[token[2]] = token[1]
    BY <1>3, <1>4 DEF ProgressInv
  <2> QED BY <1>1, <1>4, <2>1, <2>2, <2>3, <2>4 DEF ProgressInv
<1>9. DataInv'
  BY <1>1, <1>4 DEF DataInv
<1>10. Documented(oplog', truncate', doc')
  BY <1>1, <1>3, <1>6, SameKept DEF DocumentInv
<1>11. DocumentInv'
  BY <1>1, <1>3, <1>4, <1>10 DEF DocumentInv, Document
<1>12. CommitInv'
  BY <1>1, <1>3, <1>7 DEF CommitInv
<1>13. ASSUME majority PROVE StableInv' /\ CandidateInv'
  <2>1. StableInv /\ CandidateInv
    BY <1>13 DEF RecoveryInv
  <2>2. StableInv'
    BY <1>1, <1>4, <1>5, <1>6, <2>1 DEF StableInv
  <2> QED BY <1>1, <1>4, <2>1, <2>2 DEF CandidateInv
<1>14. ASSUME ~majority PROVE Consistent(oplog', truncate', data', doc') /\ recovering' # "rollback"
  <2>1. Consistent(oplog, truncate, data, doc)
    BY <1>14 DEF RecoveryInv, JournalInv
  <2> QED BY <1>1, <1>4, <1>6, <2>1, SameKept
<1>15. \A t \in 1..committed : source'[t] = source[t]
  BY <1>1
<1> QED BY <1>1, <1>3, <1>5, <1>8, <1>9, <1>11, <1>12, <1>13, <1>14, <1>15, Assemble

\* An entry is written above the truncate point, where nothing counts on it yet.
LEMMA RecoveryWriteOplogEntry ==
    ASSUME RecoveryInv, NEW e \in batch, WriteOplogEntry(e)
    PROVE  RecoveryInv'
<1>1. /\ UNCHANGED <<source, committed, leader, term, majority, truncate, data, doc, stable,
                     role, pc, recovering, batch, last, lastApplied, lastDurable, token, commit,
                     candidates, producer, crashes, kept, failed>>
      /\ pc = "writeOplog" /\ oplog[e[2]] = 0
      /\ oplog' = [oplog EXCEPT ![e[2]] = e[1]] /\ Log
  BY DEF WriteOplogEntry, others, markers, tables, disk, applier, progress, stability,
         memory
<1>2. TypeInv /\ ProgressInv /\ DataInv /\ DocumentInv /\ CommitInv /\ FailsOnlyAfterKeptCandidate
  BY DEF RecoveryInv
<1>3. /\ e \in OpTimes /\ e # Null /\ truncate <= e[2] /\ truncate # 0 /\ recovering = "no"
      /\ role = "secondary"
  BY <1>1, <1>2 DEF TypeInv, TypeOK, BatchInv, StepInv
<1>4. e[1] \in Terms /\ e[2] \in Timestamps /\ e = <<e[1], e[2]>> /\ e[2] \in Nat /\ e[1] \in Nat
  BY <1>3, OpTimeFacts
<1>5. TypeInv' /\ Journaled /\ checkpoint' = checkpoint
  BY <1>1, <1>2, TypeWriteOplogEntry, LogFacts
<1>6. /\ oplog' \in Table
      /\ \A t \in Timestamps : oplog'[t] = IF t = e[2] THEN e[1] ELSE oplog[t]
  BY <1>1, <1>2, <1>4, <1>5, StateFacts DEF Table, TypeInv, TypeOK
<1>7. /\ lastApplied[2] \in Nat /\ lastApplied[2] < e[2] /\ lastDurable[2] \in 1..lastApplied[2]
      /\ \A t \in 1..lastApplied[2] : t \in Timestamps
  BY <1>2, <1>3, AppliedLog DEF ProgressInv
<1>8. \A t \in 1..lastApplied[2] : oplog'[t] = oplog[t]
  BY <1>4, <1>6, <1>7
<1>9. /\ Kept(oplog, truncate) = Kept(oplog', truncate')
      /\ \A t \in Timestamps : Kept(oplog, truncate)[t] > 0 => oplog[t] = oplog'[t]
  <2>1. /\ \A t \in Timestamps : Kept(oplog', truncate)[t] =
                IF truncate = 0 \/ t < truncate THEN oplog'[t] ELSE 0
        /\ Kept(oplog', truncate) \in Table
    BY <1>2, <1>6, StateFacts, KeptFacts
  <2>2. \A t \in Timestamps : t < truncate => oplog'[t] = oplog[t]
    BY <1>2, <1>3, <1>4, <1>6, StateFacts, Bounds
  <2>3. \A t \in Timestamps : Kept(oplog', truncate)[t] = Kept(oplog, truncate)[t]
    BY <1>2, <1>3, <2>1, <2>2, KeptLog
  <2>4. \A t \in Timestamps : Kept(oplog, truncate)[t] > 0 => t < truncate
    BY <1>2, <1>3, KeptLog
  <2> QED BY <1>1, <1>2, <2>1, <2>2, <2>3, <2>4, KeptLog, TableEqual
<1>10. ProgressInv'
  <2>1. \A t \in 1..lastDurable[2] : oplog'[t] = oplog[t]
    BY <1>7, <1>8
  <2>2. \A j \in journal' : \A t \in 1..lastDurable'[2] :
                j.oplog[t] = oplog'[t] /\ (j.truncate = 0 \/ t < j.truncate)
    <3>1. lastDurable[2] < truncate' /\ truncate' \in Nat
      <4>1. truncate = lastApplied[2] + 1
        BY <1>2, <1>3 DEF ProgressInv
      <4> QED BY <1>1, <1>7, <4>1
    <3> QED BY <1>1, <1>3, <1>5, <2>1, <3>1, DurableStep
  <2>3. /\ lastApplied[2] \in Timestamps
        /\ Kept(oplog', truncate')[lastApplied[2]] = lastApplied[1]
        /\ truncate = lastApplied[2] + 1
        /\ \A f \in batch : lastApplied[2] < f[2]
    BY <1>2, <1>3, <1>9 DEF ProgressInv
  <2>4. lastDurable[2] \in 1..lastApplied[2] /\ oplog'[lastDurable[2]] = lastDurable[1]
    BY <1>3, <1>7, <1>8, AppliedLog
  <2>5. token # Null => token[2] \in 1..lastApplied[2] /\ oplog'[token[2]] = token[1]
    BY <1>2, <1>3, <1>8 DEF ProgressInv
  <2> QED BY <1>1, <1>3, <2>2, <2>3, <2>4, <2>5 DEF ProgressInv
<1>11. DataInv'
  <2>1. ASSUME NEW t \in Timestamps, data[t] # oplog'[t]
        PROVE  oplog'[t] > 0 /\ <<oplog'[t], t>> \in batch
    <3>1. CASE t = e[2]
      BY <1>4, <1>6, <3>1, Bounds
    <3>2. CASE t # e[2]
      BY <1>2, <1>3, <1>6, <2>1, <3>2 DEF DataInv
    <3> QED BY <3>1, <3>2
  <2> QED BY <1>1, <2>1 DEF DataInv
<1>12. /\ Documented(oplog, truncate, doc) => Documented(oplog', truncate', doc)
       /\ Consistent(oplog, truncate, data, doc) => Consistent(oplog', truncate', data, doc)
  BY <1>9, SameKept
<1>13. DocumentInv'
  <2>1. Documented(oplog', truncate', doc')
    BY <1>1, <1>2, <1>12 DEF DocumentInv
  <2> QED BY <1>1, <1>2, <2>1 DEF DocumentInv, Document
<1>14. CommitInv'
  <2> SUFFICES ASSUME commit # Null PROVE CommitInv'
    BY <1>1 DEF CommitInv
  <2>1. /\ commit[2] \in 1..committed
        /\ \A t \in 1..commit[2] : oplog[t] > 0 => oplog[t] = source[t]
        /\ \A f \in batch : f[2] \in 1..commit[2] => source[f[2]] = f[1]
    BY <1>2 DEF CommitInv
  <2>2. \A t \in 1..commit[2] : t \in Timestamps
    BY <1>2, <2>1, StateFacts, Bounds
  <2>3. \A t \in 1..commit[2] : oplog'[t] > 0 => oplog'[t] = source[t]
    BY <1>6, <2>1, <2>2
  <2> QED BY <1>1, <1>2, <1>3, <2>3 DEF CommitInv
<1>15. ASSUME majority PROVE StableInv' /\ CandidateInv'
  <2>1. StableInv /\ CandidateInv
    BY <1>15 DEF RecoveryInv
  <2>2. StableInv'
    BY <1>1, <1>3, <1>5, <1>9, <2>1 DEF StableInv
  <2>3. \A c \in candidates : /\ c[2] \in 1..lastApplied[2] /\ oplog'[c[2]] = c[1]
                              /\ (kept \/ doc[c[2]].through \in {0, c[2]})
    BY <1>3, <1>8, <2>1 DEF CandidateInv
  <2> QED BY <1>1, <1>3, <2>2, <2>3 DEF CandidateInv
<1>16. ASSUME ~majority PROVE Consistent(oplog', truncate', data', doc') /\ recovering' # "rollback"
  <2>1. Consistent(oplog, truncate, data, doc)
    BY <1>16 DEF RecoveryInv, JournalInv
  <2> QED BY <1>1, <1>3, <1>12, <2>1
<1>17. \A t \in 1..committed : source'[t] = source[t]
  BY <1>1
<1> QED BY <1>1, <1>2, <1>5, <1>10, <1>11, <1>13, <1>14, <1>15, <1>16, <1>17, Assemble

\* The truncate point is cleared once the whole batch is in the oplog.
LEMMA RecoveryClearTruncatePoint ==
    ASSUME RecoveryInv, ClearTruncatePoint
    PROVE  RecoveryInv'
<1>1. /\ UNCHANGED <<source, committed, leader, term, majority, oplog, data, doc, stable, role,
                     recovering, batch, last, lastApplied, lastDurable, token, commit,
                     candidates, producer, crashes, kept, failed>>
      /\ pc = "writeOplog" /\ OplogIsWritten /\ truncate' = 0 /\ pc' = "setMinValid" /\ Log
  BY DEF ClearTruncatePoint, others, markers, tables, disk, applier, progress, stability,
         memory
<1>2. TypeInv /\ ProgressInv /\ DataInv /\ DocumentInv /\ CommitInv /\ FailsOnlyAfterKeptCandidate
  BY DEF RecoveryInv
<1>3. /\ recovering = "no" /\ role = "secondary" /\ truncate # 0
      /\ truncate = lastApplied[2] + 1
  BY <1>1, <1>2 DEF TypeInv, StepInv, BatchInv, ProgressInv
<1>4. TypeInv' /\ Journaled /\ checkpoint' = checkpoint
  BY <1>1, <1>2, TypeClearTruncatePoint, LogFacts
<1>5. Whole(oplog) /\ Top = last /\ oplog \in Table /\ Top = TopOf(oplog) /\ Top \in Nat
  BY <1>1, <1>2, WrittenBatch, StateFacts
<1>6. /\ lastApplied[2] \in Timestamps /\ lastApplied[2] \in Nat
      /\ oplog[lastApplied[2]] = lastApplied[1]
      /\ \A t \in 1..lastApplied[2] : Kept(oplog, truncate)[t] = oplog[t] /\ oplog[t] \in Terms
      /\ lastDurable[2] \in 1..lastApplied[2] /\ oplog[lastDurable[2]] = lastDurable[1]
      /\ lastApplied[2] <= Top
  BY <1>3, AppliedLog
<1>7. Kept(oplog', truncate') = oplog /\ Kept(oplog, 0) = oplog
  <2>1. 0 \in 0..MaxTimestamp
    BY Bounds
  <2> QED BY <1>1, <1>5, <2>1, KeptFacts
<1>8. \A t \in Timestamps : lastApplied[2] <= t => doc[t] = doc[MaxTimestamp]
  <2> TAKE t \in Timestamps
  <2> HAVE lastApplied[2] <= t
  <2>1. t = MaxTimestamp \/ Kept(oplog, truncate)[t + 1] = 0
    <3> SUFFICES ASSUME t # MaxTimestamp PROVE Kept(oplog, truncate)[t + 1] = 0
      OBVIOUS
    <3>1. t + 1 \in Timestamps /\ ~(t + 1 < truncate)
      BY <1>3, <1>6, Bounds
    <3> QED BY <1>2, <1>3, <3>1, KeptLog
  <2> QED BY <1>2, <2>1 DEF DocumentInv, Documented
<1>9. \A t \in Timestamps : t <= Top => Leq(doc[t].valid, <<oplog[t], t>>)
  <2> TAKE t \in Timestamps
  <2> HAVE t <= Top
  <2>1. CASE t <= lastApplied[2]
    <3>1. t \in 1..lastApplied[2]
      BY <1>6, <2>1, Bounds
    <3>2. Kept(oplog, truncate)[t] > 0
      BY <1>6, <3>1, Bounds
    <3> QED BY <1>2, <3>2 DEF DocumentInv, Documented
  <2>2. CASE lastApplied[2] < t
    <3> DEFINE a == lastApplied[2]
    <3>1. doc[t] = doc[a]
      BY <1>6, <1>8, <2>2, Bounds
    <3>2. a \in 1..a
      BY <1>6, Bounds
    <3>3. Kept(oplog, truncate)[a] > 0 /\ oplog[a] \in Terms
      BY <1>6, <3>2, Bounds
    <3>4. Leq(doc[a].valid, <<oplog[a], a>>)
      BY <1>2, <1>6, <3>3 DEF DocumentInv, Documented
    <3>5. oplog[t] \in Terms
      BY <1>5, WholeFacts
    <3>6. oplog[a] <= oplog[t]
      BY <1>5, <1>6, <2>2, <3>5, Bounds DEF Whole
    <3>7. Leq(<<oplog[a], a>>, <<oplog[t], t>>)
      BY <1>6, <2>2, <3>3, <3>5, <3>6, Bounds DEF Leq
    <3>8. <<oplog[a], a>> \in OpTimes /\ <<oplog[t], t>> \in OpTimes
      BY <1>6, <3>3, <3>5, OpTimeFacts
    <3>9. doc[a].valid \in OpTimes
      BY <1>2, <1>6, StateFacts, DocFacts
    <3> HIDE DEF a
    <3> QED BY <3>1, <3>4, <3>7, <3>8, <3>9, LeqFacts
  <2> QED BY <1>6, <2>1, <2>2, Bounds
<1>10. Documented(oplog, 0, doc)
  <2>1. \A t \in Timestamps : Top <= t => doc[t] = doc[MaxTimestamp]
    BY <1>5, <1>6, <1>8, Bounds
  <2> QED BY <1>5, <1>9, <2>1, DocumentedFacts
<1>11. ProgressInv'
  <2>1. \A j \in journal' : \A t \in 1..lastDurable'[2] :
                j.oplog[t] = oplog'[t] /\ (j.truncate = 0 \/ t < j.truncate)
    <3>1. \A t \in 1..lastDurable[2] : oplog'[t] = oplog[t]
      BY <1>1
    <3>2. truncate' \in Nat
      BY <1>1
    <3> QED BY <1>1, <1>3, <1>4, <3>1, <3>2, DurableStep
  <2>2. /\ \A f \in batch : lastApplied[2] < f[2]
        /\ token # Null => token[2] \in 1..lastApplied[2] /\ oplog[token[2]] = token[1]
    BY <1>2, <1>3 DEF ProgressInv
  <2> QED BY <1>1, <1>3, <1>6, <1>7, <2>1, <2>2 DEF ProgressInv
<1>12. ASSUME NEW e \in batch PROVE e[2] \in Timestamps /\ oplog[e[2]] = e[1]
  <2>1. /\ e \in OpTimes /\ e # Null /\ truncate <= e[2] /\ oplog[e[2]] > 0
        /\ \A x, y \in batch : x[2] <= y[2] => x[1] <= y[1]
        /\ \A t \in Timestamps : truncate <= t /\ oplog[t] > 0 => <<oplog[t], t>> \in batch
    BY <1>1, <1>2 DEF TypeInv, TypeOK, BatchInv, OplogIsWritten
  <2>2. e[2] \in Timestamps /\ e[1] \in Nat /\ e[2] \in Nat
    BY <2>1, OpTimeFacts
  <2>3. <<oplog[e[2]], e[2]>> \in batch
    BY <2>1, <2>2
  <2>4. <<oplog[e[2]], e[2]>>[1] <= e[1] /\ e[1] <= <<oplog[e[2]], e[2]>>[1]
    BY <2>1, <2>2, <2>3
  <2>5. oplog[e[2]] \in Nat
    BY <1>2, <2>2, StateFacts
  <2> QED BY <2>2, <2>4, <2>5
<1>13. DataInv'
  BY <1>1, <1>2, <1>3, <1>12 DEF DataInv
<1>14. DocumentInv'
  BY <1>1, <1>2, <1>3, <1>10 DEF DocumentInv, Document
<1>15. CommitInv'
  BY <1>1, <1>2, <1>3 DEF CommitInv
<1>16. ASSUME majority PROVE StableInv' /\ CandidateInv'
  <2>1. StableInv /\ CandidateInv
    BY <1>16 DEF RecoveryInv
  <2>2. \A t \in 1..stable : t \in 1..lastApplied[2]
    BY <1>2, <1>3, <1>6, <2>1 DEF StableInv, TypeInv, TypeOK, Timestamps
  <2>3. \A t \in 1..stable : oplog[t] = source[t]
    BY <1>6, <2>1, <2>2 DEF StableInv
  <2>4. StableInv'
    BY <1>1, <1>3, <1>4, <1>7, <2>1, <2>3 DEF StableInv
  <2> QED BY <1>1, <1>3, <2>1, <2>4 DEF CandidateInv
<1>17. ASSUME ~majority PROVE Consistent(oplog', truncate', data', doc')
  <2>1. Document.through = lastApplied[2]
    BY <1>1, <1>2, <1>3 DEF DocumentInv
  <2>2. \A t \in Timestamps : data[t] # oplog[t] => oplog[t] > 0 /\ lastApplied[2] < t
    BY <1>2, <1>3 DEF DataInv, ProgressInv
  <2>3. lastApplied[2] # 0 /\ oplog[lastApplied[2]] > 0
    <3>1. lastApplied[2] \in 1..lastApplied[2]
      BY <1>6, Bounds
    <3> QED BY <1>6, <3>1, Bounds
  <2> QED BY <1>1, <1>7, <2>1, <2>2, <2>3 DEF Consistent, Document
<1>18. recovering' # "rollback" /\ \A t \in 1..committed : source'[t] = source[t]
  BY <1>1, <1>3
<1> QED BY <1>1, <1>2, <1>4, <1>11, <1>13, <1>14, <1>15, <1>16, <1>17, <1>18, Assemble

\* The minValid document is raised to the end of the batch, as of that end.
LEMMA RecoverySetMinValid ==
    ASSUME RecoveryInv, SetMinValid
    PROVE  RecoveryInv'
<1>1. /\ UNCHANGED <<source, committed, leader, term, majority, oplog, truncate, data, stable,
                     role, recovering, batch, last, lastApplied, lastDurable, token, commit,
                     candidates, producer, crashes, kept, failed>>
      /\ pc = "setMinValid" /\ doc' = SetMinValidToAtLeast(last, <<oplog[last], last>>)
      /\ pc' = "apply" /\ Log
  BY DEF SetMinValid, others, markers, tables, disk, applier, progress, stability,
         memory
<1>2. TypeInv /\ ProgressInv /\ DataInv /\ DocumentInv /\ CommitInv /\ FailsOnlyAfterKeptCandidate
  BY DEF RecoveryInv
<1>3. recovering = "no" /\ role = "secondary" /\ truncate = 0 /\ last = Top
  BY <1>1, <1>2 DEF TypeInv, StepInv
<1>4. TypeInv' /\ Journaled /\ checkpoint' = checkpoint
  BY <1>1, <1>2, TypeSetMinValid, LogFacts
<1>5. /\ Whole(oplog) /\ Top \in Timestamps /\ oplog[Top] \in Terms
      /\ oplog \in Table /\ Top = TopOf(oplog) /\ Top \in Nat
      /\ <<oplog[Top], Top>> \in OpTimes
  BY <1>2, <1>3, WholeLog, StateFacts, OpTimeFacts
<1>6. /\ \A t \in Timestamps : Top <= t => doc[t] = Document
      /\ \A t \in Timestamps : t <= Top => Leq(doc[t].valid, <<oplog[t], t>>)
      /\ Leq(Document.valid, <<oplog[Top], Top>>)
  BY <1>3, TopDocument
<1>7. doc \in Documents /\ doc' \in Documents
  BY <1>2, <1>4, StateFacts DEF TypeInv, TypeOK, Documents
<1>8. /\ \A t \in Timestamps : doc'[t].through = doc[t].through
      /\ \A t \in Timestamps : doc'[t].valid =
            IF t >= Top THEN Later(doc[t].valid, <<oplog[Top], Top>>) ELSE doc[t].valid
  <2>1. \A s \in Nat, v \in OpTimes : \A t \in Timestamps :
            /\ SetMinValidToAtLeast(s, v)[t].through = doc[t].through
            /\ SetMinValidToAtLeast(s, v)[t].valid =
                IF t >= s THEN Later(doc[t].valid, v) ELSE doc[t].valid
    BY <1>7, DocFacts
  <2> QED BY <1>1, <1>3, <1>5, <2>1
<1>9. \A t \in Timestamps : Top <= t => doc'[t].valid = <<oplog[Top], Top>>
  <2> TAKE t \in Timestamps
  <2> HAVE Top <= t
  <2>1. t >= Top
    BY <1>5, Bounds
  <2>2. Leq(doc[t].valid, <<oplog[Top], Top>>)
    BY <1>6
  <2> QED BY <1>8, <2>1, <2>2 DEF Later
<1>10. Documented(oplog, 0, doc')
  <2>1. \A t \in Timestamps : t <= Top => Leq(doc'[t].valid, <<oplog[t], t>>)
    <3> TAKE t \in Timestamps
    <3> HAVE t <= Top
    <3>1. CASE t = Top
      BY <1>5, <1>9, <3>1, LeqFacts
    <3>2. CASE t # Top
      <4>1. ~(t >= Top)
        BY <1>5, <3>2, Bounds
      <4> QED BY <1>6, <1>8, <4>1
    <3> QED BY <3>1, <3>2
  <2>2. \A t \in Timestamps : Top <= t => doc'[t] = doc'[MaxTimestamp]
    <3> TAKE t \in Timestamps
    <3> HAVE Top <= t
    <3>1. MaxTimestamp \in Timestamps /\ Top <= MaxTimestamp
      BY <1>5, Bounds
    <3>2. doc'[t].through = doc'[MaxTimestamp].through
      BY <1>6, <1>8, <3>1
    <3>3. doc'[t].valid = doc'[MaxTimestamp].valid
      BY <1>9, <3>1
    <3> QED BY <1>7, <3>1, <3>2, <3>3, DocumentEqual
  <2> QED BY <1>5, <2>1, <2>2, DocumentedFacts
<1>11. Document'.through = Document.through
  BY <1>8, Bounds DEF Document
<1>12. ProgressInv'
  <2>1. \A j \in journal' : \A t \in 1..lastDurable'[2] :
                j.oplog[t] = oplog'[t] /\ (j.truncate = 0 \/ t < j.truncate)
    <3>1. \A t \in 1..lastDurable[2] : oplog'[t] = oplog[t]
      BY <1>1
    <3>2. truncate' \in Nat /\ truncate' = 0
      BY <1>1, <1>3
    <3> QED BY <1>1, <1>3, <1>4, <3>1, <3>2, DurableStep
  <2> QED BY <1>1, <1>2, <1>3, <2>1 DEF ProgressInv
<1>13. DataInv'
  BY <1>1, <1>2, <1>3 DEF DataInv
<1>14. DocumentInv'
  <2>1. Documented(oplog', truncate', doc')
    BY <1>1, <1>3, <1>10
  <2> QED BY <1>1, <1>2, <1>3, <1>11, <2>1 DEF DocumentInv
<1>15. CommitInv'
  BY <1>1, <1>2, <1>3 DEF CommitInv
<1>16. ASSUME majority PROVE StableInv' /\ CandidateInv'
  <2>1. StableInv /\ CandidateInv /\ stable \in Timestamps
    BY <1>2, <1>16 DEF RecoveryInv, TypeInv, TypeOK
  <2>2. StableInv'
    BY <1>1, <1>3, <1>4, <1>8, <2>1 DEF StableInv
  <2>3. \A c \in candidates : c[2] \in Timestamps
    <3>1. lastApplied[2] \in Timestamps
      BY <1>3, AppliedLog
    <3> QED BY <1>3, <2>1, <3>1, Bounds DEF CandidateInv
  <2> QED BY <1>1, <1>3, <1>8, <2>1, <2>2, <2>3 DEF CandidateInv
<1>17. ASSUME ~majority PROVE Consistent(oplog', truncate', data', doc')
  <2>1. Consistent(oplog, truncate, data, doc)
    BY <1>17 DEF RecoveryInv, JournalInv
  <2>2. doc'[MaxTimestamp].through = doc[MaxTimestamp].through
    BY <1>8, Bounds
  <2> QED BY <1>1, <2>1, <2>2 DEF Consistent
<1>18. recovering' # "rollback" /\ \A t \in 1..committed : source'[t] = source[t]
  BY <1>1, <1>3
<1> QED BY <1>1, <1>2, <1>4, <1>12, <1>13, <1>14, <1>15, <1>16, <1>17, <1>18, Assemble

\* A writer thread brings the data of an entry to what the oplog says.
LEMMA RecoveryApplyEntry ==
    ASSUME RecoveryInv, NEW e \in batch, ApplyEntry(e)
    PROVE  RecoveryInv'
<1>1. /\ UNCHANGED <<source, committed, leader, term, majority, oplog, truncate, doc, stable,
                     role, pc, recovering, last, lastApplied, lastDurable, token, commit,
                     candidates, producer, crashes, kept, failed>>
      /\ pc = "apply" /\ data' = [data EXCEPT ![e[2]] = e[1]] /\ batch' = batch \ {e} /\ Log
  BY DEF ApplyEntry, others, markers, tables, disk, applier, progress, stability,
         memory
<1>2. TypeInv /\ ProgressInv /\ DataInv /\ DocumentInv /\ CommitInv /\ FailsOnlyAfterKeptCandidate
  BY DEF RecoveryInv
<1>3. role = "secondary" /\ truncate = 0
  BY <1>1, <1>2 DEF TypeInv, StepInv
<1>4. TypeInv' /\ Journaled /\ checkpoint' = checkpoint
  BY <1>1, <1>2, TypeApplyEntry, LogFacts
<1>5. e[2] \in Timestamps /\ oplog[e[2]] = e[1]
  BY <1>1, <1>2 DEF DataInv
<1>6. \A t \in Timestamps : data'[t] = IF t = e[2] THEN oplog[t] ELSE data[t]
  BY <1>1, <1>2, <1>5 DEF TypeInv, TypeOK
<1>7. Kept(oplog, truncate) = oplog
  BY <1>2, <1>3, KeptLog
<1>8. ProgressInv'
  <2>1. CASE recovering = "no"
    <3>1. \A j \in journal' : \A t \in 1..lastDurable'[2] :
                j.oplog[t] = oplog'[t] /\ (j.truncate = 0 \/ t < j.truncate)
      <4>1. \A t \in 1..lastDurable[2] : oplog'[t] = oplog[t]
        BY <1>1
      <4>2. truncate' \in Nat /\ truncate' = 0
        BY <1>1, <1>3
      <4> QED BY <1>1, <1>4, <2>1, <4>1, <4>2, DurableStep
    <3> QED BY <1>1, <1>2, <1>3, <2>1, <3>1 DEF ProgressInv
  <2>2. CASE recovering # "no"
    BY <1>1, <1>2, <1>3, <1>4, <2>2 DEF ProgressInv, Journaled
  <2> QED BY <2>1, <2>2
<1>9. DataInv'
  <2>1. ASSUME NEW t \in Timestamps, data'[t] # oplog[t]
        PROVE  oplog[t] > 0 /\ <<oplog[t], t>> \in batch'
    <3>1. t # e[2] /\ data[t] # oplog[t]
      BY <1>6, <2>1
    <3>2. oplog[t] > 0 /\ <<oplog[t], t>> \in batch
      BY <1>1, <1>2, <3>1 DEF DataInv
    <3>3. <<oplog[t], t>> # e
      BY <3>1
    <3> QED BY <1>1, <3>2, <3>3
  <2>2. \A f \in batch' : f[2] \in Timestamps /\ oplog[f[2]] = f[1]
    BY <1>1, <1>2 DEF DataInv
  <2> QED BY <1>1, <2>1, <2>2 DEF DataInv
<1>10. DocumentInv'
  BY <1>1, <1>2 DEF DocumentInv, Document, Top
<1>11. CommitInv'
  BY <1>1, <1>2, <1>3 DEF CommitInv
<1>12. ASSUME majority PROVE StableInv' /\ CandidateInv'
  <2>1. StableInv /\ CandidateInv /\ stable \in Timestamps
    BY <1>2, <1>12 DEF RecoveryInv, TypeInv, TypeOK
  <2>2. \A t \in 1..stable : data'[t] = source[t]
    <3>1. \A t \in 1..stable : t \in Timestamps /\ oplog[t] = source[t] /\ data[t] = source[t]
      BY <1>7, <2>1, Bounds DEF StableInv
    <3> QED BY <1>6, <3>1
  <2>3. StableInv'
    BY <1>1, <1>4, <2>1, <2>2 DEF StableInv, Document
  <2> QED BY <1>1, <2>1, <2>3 DEF CandidateInv
<1>13. ASSUME ~majority PROVE Consistent(oplog', truncate', data', doc') /\ recovering' # "rollback"
  <2>1. Consistent(oplog, truncate, data, doc) /\ recovering # "rollback"
    BY <1>13 DEF RecoveryInv, JournalInv
  <2> QED BY <1>1, <1>6, <1>7, <2>1 DEF Consistent
<1>14. \A t \in 1..committed : source'[t] = source[t]
  BY <1>1
<1> QED BY <1>1, <1>2, <1>4, <1>8, <1>9, <1>10, <1>11, <1>12, <1>13, <1>14, Assemble

\* The applied point is written as of the top of the oplog.
LEMMA ThroughFacts ==
    ASSUME RecoveryInv, truncate = 0, NEW x \in {0, Top}, doc' = SetAppliedThrough(Top, x)
    PROVE  /\ Documented(oplog, 0, doc')
           /\ \A t \in Timestamps : doc'[t].through = IF Top <= t THEN x ELSE doc[t].through
           /\ Document'.through = x
<1>1. TypeInv
  BY DEF RecoveryInv
<1>2. /\ Whole(oplog) /\ Top \in Timestamps /\ oplog \in Table /\ Top = TopOf(oplog)
      /\ Top \in Nat /\ doc \in Documents
  BY <1>1, WholeLog, StateFacts
<1>3. x \in 0..MaxTimestamp
  BY <1>2, Bounds
<1>4. /\ SetAppliedThrough(Top, x) \in Documents
      /\ \A t \in Timestamps :
            /\ SetAppliedThrough(Top, x)[t].through = IF t >= Top THEN x ELSE doc[t].through
            /\ SetAppliedThrough(Top, x)[t].valid = doc[t].valid
  BY <1>2, <1>3, DocFacts
<1>5. \A t \in Timestamps : doc'[t].through = IF Top <= t THEN x ELSE doc[t].through
  BY <1>2, <1>4, Bounds
<1>6. Document'.through = x /\ Document' = doc'[MaxTimestamp]
  BY <1>2, <1>5, Bounds DEF Document
<1>7. \A t \in Timestamps : t <= Top => Leq(doc'[t].valid, <<oplog[t], t>>)
  BY <1>4, TopDocument
<1>8. \A t \in Timestamps : Top <= t => doc'[t] = doc'[MaxTimestamp]
  <2> TAKE t \in Timestamps
  <2> HAVE Top <= t
  <2>1. MaxTimestamp \in Timestamps /\ Top <= MaxTimestamp
    BY <1>2, Bounds
  <2>2. doc'[t].through = doc'[MaxTimestamp].through
    BY <1>5, <2>1
  <2>3. doc[t] = doc[MaxTimestamp]
    BY <2>1, TopDocument DEF Document
  <2>4. doc'[t].valid = doc'[MaxTimestamp].valid
    BY <1>4, <2>1, <2>3
  <2> QED BY <1>4, <2>1, <2>2, <2>4, DocumentEqual
<1> QED BY <1>2, <1>5, <1>6, <1>7, <1>8, DocumentedFacts

\* The applied point of a batch is persisted once all its entries are in the data.
LEMMA RecoveryPersistAppliedThrough ==
    ASSUME RecoveryInv, PersistAppliedThrough
    PROVE  RecoveryInv'
<1>1. /\ UNCHANGED <<source, committed, leader, term, majority, oplog, truncate, data, stable,
                     role, recovering, batch, last, lastApplied, lastDurable, token, commit,
                     candidates, producer, crashes, kept, failed>>
      /\ pc = "apply" /\ batch = {} /\ recovering = "no" /\ doc' = SetAppliedThrough(last, last)
      /\ pc' = "record" /\ Log
  BY DEF PersistAppliedThrough, others, markers, tables, disk, applier, progress, stability,
         memory
<1>2. TypeInv /\ ProgressInv /\ DataInv /\ DocumentInv /\ CommitInv /\ FailsOnlyAfterKeptCandidate
  BY DEF RecoveryInv
<1>3. role = "secondary" /\ truncate = 0 /\ last = Top
  BY <1>1, <1>2 DEF TypeInv, StepInv
<1>4. TypeInv' /\ Journaled /\ checkpoint' = checkpoint
  BY <1>1, <1>2, TypePersistAppliedThrough, LogFacts
<1>5. /\ Documented(oplog, 0, doc') /\ Document'.through = Top
      /\ \A t \in Timestamps : doc'[t].through = IF Top <= t THEN Top ELSE doc[t].through
  BY <1>1, <1>3, ThroughFacts
<1>6. /\ Top \in Timestamps /\ Top \in Nat /\ oplog[Top] > 0 /\ Top # 0
      /\ Kept(oplog, truncate) = oplog
  BY <1>2, <1>3, WholeLog, KeptLog, Bounds
<1>7. lastApplied[2] \in Nat /\ lastApplied[2] <= Top /\ lastApplied[2] \in Timestamps
  BY <1>1, AppliedLog
<1>8. ProgressInv'
  <2>1. \A j \in journal' : \A t \in 1..lastDurable'[2] :
                j.oplog[t] = oplog'[t] /\ (j.truncate = 0 \/ t < j.truncate)
    <3>1. \A t \in 1..lastDurable[2] : oplog'[t] = oplog[t]
      BY <1>1
    <3>2. truncate' \in Nat /\ truncate' = 0
      BY <1>1, <1>3
    <3> QED BY <1>1, <1>4, <3>1, <3>2, DurableStep
  <2> QED BY <1>1, <1>2, <1>3, <2>1 DEF ProgressInv
<1>9. DataInv' /\ \A t \in Timestamps : data[t] = oplog[t]
  BY <1>1, <1>2 DEF DataInv
<1>10. DocumentInv'
  <2>1. Documented(oplog', truncate', doc')
    BY <1>1, <1>3, <1>5
  <2> QED BY <1>1, <1>2, <1>3, <1>5, <1>6, <2>1 DEF DocumentInv
<1>11. CommitInv'
  BY <1>1, <1>2, <1>3 DEF CommitInv
<1>12. ASSUME majority PROVE StableInv' /\ CandidateInv'
  <2>1. StableInv /\ CandidateInv /\ stable \in Timestamps
    BY <1>2, <1>12 DEF RecoveryInv, TypeInv, TypeOK
  <2>2. \A t \in 1..lastApplied[2] : doc[t].through \in {0, t} => doc'[t].through \in {0, t}
    <3> TAKE t \in 1..lastApplied[2]
    <3>1. t \in Timestamps /\ (~(Top <= t) \/ t = Top)
      BY <1>6, <1>7, Bounds
    <3> QED BY <1>5, <3>1
  <2>3. stable \in 1..lastApplied[2]
    BY <1>1, <1>7, <2>1, Bounds DEF StableInv
  <2>4. StableInv'
    BY <1>1, <1>4, <2>1, <2>2, <2>3 DEF StableInv
  <2> QED BY <1>1, <2>1, <2>2, <2>4 DEF CandidateInv
<1>13. ASSUME ~majority PROVE Consistent(oplog', truncate', data', doc')
  BY <1>1, <1>5, <1>6, <1>9 DEF Consistent, Document
<1>14. recovering' # "rollback" /\ \A t \in 1..committed : source'[t] = source[t]
  BY <1>1
<1> QED BY <1>1, <1>2, <1>4, <1>8, <1>9, <1>10, <1>11, <1>12, <1>13, <1>14, Assemble

\* The end of a batch becomes the last applied optime, and may become stable.
LEMMA RecoveryRecordApplied ==
    ASSUME RecoveryInv, RecordApplied
    PROVE  RecoveryInv'
<1>1. /\ UNCHANGED <<source, committed, leader, term, majority, oplog, truncate, data, doc,
                     journal, checkpoint, role, recovering, batch, last, lastDurable, token,
                     producer, crashes, kept, failed>>
      /\ pc = "record" /\ SetLastApplied(OpTime(last), Leq(Document.valid, OpTime(last)))
      /\ pc' = "idle"
  BY DEF RecordApplied, SetLastApplied, others, markers, tables, disk, applier, progress,
         stability, memory
<1>2. TypeInv /\ ProgressInv /\ DataInv /\ DocumentInv /\ CommitInv /\ FailsOnlyAfterKeptCandidate
  BY DEF RecoveryInv
<1>3. recovering = "no" /\ role = "secondary" /\ truncate = 0 /\ last = Top /\ batch = {}
  BY <1>1, <1>2 DEF TypeInv, StepInv, DataInv
<1>4. TypeInv' /\ Journaled
  BY <1>1, <1>2, TypeRecordApplied, LogFacts
<1>5. /\ Top \in Timestamps /\ Top \in Nat /\ oplog[Top] > 0 /\ Top # 0
      /\ OpTime(Top) = <<oplog[Top], Top>> /\ OpTime(Top) \in OpTimes
      /\ Kept(oplog, truncate) = oplog /\ Top' = Top
  BY <1>1, <1>2, <1>3, WholeLog, KeptLog, Bounds DEF Top
<1>6. /\ lastApplied' = OpTime(Top) /\ commit' = commit
      /\ candidates' \subseteq candidates \union {OpTime(Top)}
      /\ stable <= stable' /\ (~majority => stable' = stable)
      /\ stable' # stable => \E c \in candidates \union {OpTime(Top)} :
                                Leq(c, commit) /\ stable' = c[2] /\ stable < c[2]
  <2>1. Leq(Document.valid, OpTime(last)) \in BOOLEAN
    BY DEF Leq
  <2>2. candidates \in SUBSET OpTimes /\ commit \in OpTimes /\ stable \in Timestamps
    BY <1>2 DEF TypeInv, TypeOK
  <2> QED BY <1>1, <1>3, <1>5, <2>1, <2>2, AppliedFacts
<1>7. lastApplied[2] \in Nat /\ lastApplied[2] <= Top /\ lastApplied[2] \in Timestamps
  BY <1>3, AppliedLog
<1>8. \A t \in 1..lastApplied[2] : t \in 1..Top
  BY <1>5, <1>7
<1>9. lastApplied'[2] = Top /\ lastApplied'[1] = oplog[Top]
  BY <1>5, <1>6
<1>10. ProgressInv'
  <2>1. /\ lastDurable[2] \in 1..lastApplied[2] /\ oplog[lastDurable[2]] = lastDurable[1]
        /\ token # Null => token[2] \in 1..lastApplied[2] /\ oplog[token[2]] = token[1]
        /\ \A j \in journal : \A t \in 1..lastDurable[2] :
            j.oplog[t] = oplog[t] /\ (j.truncate = 0 \/ t < j.truncate)
    BY <1>2, <1>3 DEF ProgressInv
  <2> QED BY <1>1, <1>3, <1>5, <1>8, <1>9, <2>1 DEF ProgressInv
<1>11. DataInv'
  BY <1>1, <1>2, <1>3 DEF DataInv
<1>12. DocumentInv'
  BY <1>1, <1>2, <1>3, <1>9 DEF DocumentInv, Document
<1>13. CommitInv'
  BY <1>1, <1>2, <1>3, <1>6 DEF CommitInv
<1>14. ASSUME majority PROVE StableInv' /\ CandidateInv'
  <2>1. StableInv /\ CandidateInv /\ stable \in Timestamps
    BY <1>2, <1>14 DEF RecoveryInv, TypeInv, TypeOK
  <2> DEFINE C == candidates \union {OpTime(Top)}
  <2>2. C \in SUBSET OpTimes
    BY <1>2, <1>5 DEF TypeInv, TypeOK
  <2>3. doc[Top].through = Top
    BY <1>1, <1>2, <1>3, <1>5, TopDocument DEF DocumentInv
  <2>4. \A c \in C : /\ c[2] \in 1..lastApplied'[2] /\ oplog'[c[2]] = c[1]
                     /\ (kept' \/ doc'[c[2]].through \in {0, c[2]})
    <3> TAKE c \in C
    <3>1. CASE c \in candidates
      BY <1>1, <1>3, <1>8, <1>9, <2>1, <3>1 DEF CandidateInv
    <3>2. CASE c = OpTime(Top)
      BY <1>1, <1>5, <1>9, <2>3, <3>2
    <3> QED BY <3>1, <3>2
  <2>5. stable <= lastApplied'[2]
    BY <1>3, <1>5, <1>7, <1>9, <2>1, Bounds DEF StableInv
  <2>6. \A t \in 1..stable : Kept(oplog', truncate')[t] = source[t] /\ data'[t] = source[t]
    BY <1>1, <2>1 DEF StableInv
  <2>7. (kept' \/ doc'[stable].through \in {0, stable})
    BY <1>1, <2>1 DEF StableInv
  <2>8. stable' # stable => \E c \in C : Leq(c, commit') /\ stable' = c[2]
    BY <1>6
  <2>9. candidates' \subseteq C
    BY <1>6
  <2> HIDE DEF C
  <2>10. StableInv'
    BY <1>1, <1>3, <1>4, <1>6, <1>10, <1>11, <1>13, <1>14, <2>2, <2>4, <2>5, <2>6, <2>7, <2>8,
       StableStep
  <2> QED BY <1>1, <1>3, <2>4, <2>9, <2>10 DEF CandidateInv
<1>15. ASSUME ~majority PROVE Consistent(oplog', truncate', data', doc')
  BY <1>1, <1>15 DEF RecoveryInv, JournalInv
<1>16. recovering' # "rollback" /\ \A t \in 1..committed : source'[t] = source[t]
  BY <1>1, <1>3
<1> QED BY <1>1, <1>2, <1>4, <1>6, <1>10, <1>11, <1>12, <1>13, <1>14, <1>15, <1>16, Assemble

-----------------------------------------------------------------------------
(* Recovery: the member as a primary. *)

\* A primary writes an entry after the top of its oplog, to oplog and data at once.
LEMMA RecoveryPrimaryWrites ==
    ASSUME RecoveryInv, WriteNewPrimary \/ WriteAsPrimary
    PROVE  RecoveryInv'
<1> DEFINE n == Top + 1
           x == oplog'[Top + 1]
<1>1. /\ pc \in {"idle", "newPrimary"} /\ pc' = "idle" /\ role' = "primary" /\ PrimaryWrites
      /\ role = "primary" \/ pc = "newPrimary"
  BY DEF WriteNewPrimary, WriteAsPrimary
<1>2. TypeInv /\ ProgressInv /\ DataInv /\ DocumentInv /\ CommitInv /\ FailsOnlyAfterKeptCandidate
  BY DEF RecoveryInv
<1>3. /\ recovering = "no" /\ batch = {} /\ data = oplog /\ truncate = 0
      /\ Top \in Timestamps /\ Top \in Nat /\ oplog[Top] \in Terms
      /\ \A t \in Timestamps : oplog[t] > 0 <=> t <= Top
      /\ lastApplied[2] = Top /\ lastApplied[1] = oplog[Top]
      /\ \A t \in Timestamps : Top <= t => doc[t] = Document
      /\ Leq(Document.valid, <<oplog[Top], Top>>)
  BY <1>1, IdleFacts
<1>4. TypeInv'
  BY <1>2, TypePrimaryWrites DEF WriteNewPrimary, WriteAsPrimary
<1>5. /\ UNCHANGED <<source, committed, leader, term, majority, truncate, doc, checkpoint,
                     recovering, batch, last, lastDurable, token, commit, producer,
                     crashes, kept, failed>>
      /\ n \in Timestamps /\ Journaled
      /\ oplog' \in Table /\ data' \in Table /\ Whole(oplog') /\ Top' = n
      /\ x \in Terms
      /\ \A t \in Timestamps : t # n => oplog'[t] = oplog[t] /\ data'[t] = data[t]
      /\ data'[n] = x
      /\ SetLastApplied(<<x, n>>, TRUE) /\ lastApplied' = <<x, n>>
      /\ <<x, n>> \in OpTimes
  BY <1>1, <1>2, PrimaryWritesFacts
<1>6. Top' = TopOf(oplog')
  BY <1>2, StateFacts
<1>7. \A t \in Timestamps : data'[t] = oplog'[t]
  BY <1>3, <1>5
<1>8. \A t \in 1..Top : t \in Timestamps /\ t # n /\ oplog'[t] = oplog[t] /\ data'[t] = data[t]
  <2> TAKE t \in 1..Top
  <2>1. t \in Timestamps /\ t # n
    BY <1>3, Bounds
  <2> QED BY <1>5, <2>1
<1>9. Kept(oplog', truncate') = oplog' /\ truncate' = 0 /\ Kept(oplog, truncate) = oplog
  <2>1. 0 \in 0..MaxTimestamp
    BY Bounds
  <2> QED BY <1>2, <1>3, <1>5, <2>1, KeptFacts, KeptLog
<1>10. lastApplied'[1] = x /\ lastApplied'[2] = n /\ Top < n /\ n \in Nat
  BY <1>3, <1>5
<1> HIDE DEF n, x
<1>11. ProgressInv'
  <2>1. /\ lastDurable[2] \in 1..Top /\ oplog[lastDurable[2]] = lastDurable[1]
        /\ token # Null => token[2] \in 1..Top /\ oplog[token[2]] = token[1]
    BY <1>2, <1>3 DEF ProgressInv
  <2>2. \A j \in journal' : \A t \in 1..lastDurable'[2] :
                j.oplog[t] = oplog'[t] /\ (j.truncate = 0 \/ t < j.truncate)
    <3>1. \A t \in 1..lastDurable[2] : oplog'[t] = oplog[t]
      BY <1>3, <1>8, <2>1
    <3>2. truncate' \in Nat
      BY <1>9
    <3> QED BY <1>3, <1>5, <1>9, <3>1, <3>2, DurableStep
  <2>3. \A t \in 1..Top : t \in 1..n
    BY <1>3, <1>10
  <2>4. oplog'[n] = x
    BY DEF n, x
  <2>5. lastDurable[2] \in 1..n /\ oplog'[lastDurable[2]] = lastDurable[1]
    BY <1>8, <2>1, <2>3
  <2>6. token # Null => token[2] \in 1..n /\ oplog'[token[2]] = token[1]
    BY <1>8, <2>1, <2>3
  <2> QED BY <1>3, <1>5, <1>9, <1>10, <2>2, <2>4, <2>5, <2>6 DEF ProgressInv
<1>12. DataInv'
  BY <1>1, <1>3, <1>5, <1>7 DEF DataInv
<1>13. Document.through = 0 /\ producer # "running"
  BY <1>1, <1>2 DEF DocumentInv
<1>14. doc[n] = Document
  BY <1>3, <1>5, <1>10
<1>15. Documented(oplog', 0, doc)
  <2>1. \A t \in Timestamps : t <= n => Leq(doc[t].valid, <<oplog'[t], t>>)
    <3> TAKE t \in Timestamps
    <3> HAVE t <= n
    <3>1. CASE t # n
      <4>1. t <= Top /\ t \in 1..Top
        BY <1>3, <3>1, Bounds DEF n
      <4> QED BY <1>3, <1>8, <4>1, TopDocument
    <3>2. CASE t = n
      <4>1. oplog'[Top] = oplog[Top] /\ oplog'[n] = x
        BY <1>3, <1>8, Bounds DEF n, x
      <4>2. oplog[Top] <= x
        BY <1>3, <1>5, <1>10, <4>1, Bounds DEF Whole
      <4>3. Leq(<<oplog[Top], Top>>, <<x, n>>)
        BY <1>3, <1>5, <1>10, <4>2, Bounds DEF Leq
      <4>4. <<oplog[Top], Top>> \in OpTimes /\ Document.valid \in OpTimes
        BY <1>2, <1>3, StateFacts, OpTimeFacts, DocFacts
      <4>5. Leq(Document.valid, <<x, n>>)
        BY <1>3, <1>5, <4>3, <4>4, LeqFacts
      <4> QED BY <1>14, <3>2, <4>1, <4>5
    <3> QED BY <3>1, <3>2
  <2>2. \A t \in Timestamps : n <= t => doc[t] = doc[MaxTimestamp]
    <3> TAKE t \in Timestamps
    <3> HAVE n <= t
    <3>1. Top <= t
      BY <1>3, <1>10, Bounds
    <3> QED BY <1>3, <3>1 DEF Document
  <2> QED BY <1>5, <1>6, <2>1, <2>2, DocumentedFacts
<1>16. DocumentInv'
  <2>1. Documented(oplog', truncate', doc')
    BY <1>5, <1>9, <1>15
  <2> QED BY <1>1, <1>3, <1>5, <1>13, <2>1 DEF DocumentInv, Document
<1>17. CommitInv'
  <2> SUFFICES ASSUME commit # Null PROVE CommitInv'
    BY <1>5 DEF CommitInv
  <2>1. /\ commit[2] \in 1..committed /\ source[commit[2]] = commit[1]
        /\ \A t \in 1..commit[2] : oplog[t] > 0 => oplog[t] = source[t]
        /\ commit[2] <= Top
    BY <1>1, <1>2, <1>3 DEF CommitInv
  <2>2. committed \in Nat
    BY <1>2, StateFacts
  <2>3. commit[2] <= n /\ \A t \in 1..commit[2] : t \in 1..Top
    BY <1>3, <1>10, <2>1, <2>2
  <2>4. \A t \in 1..commit[2] : oplog'[t] > 0 => oplog'[t] = source[t]
    BY <1>8, <2>1, <2>3
  <2> QED BY <1>3, <1>5, <1>10, <2>1, <2>3, <2>4 DEF CommitInv
<1>18. /\ candidates' \subseteq candidates \union {<<x, n>>}
       /\ stable <= stable' /\ (~majority => stable' = stable)
       /\ stable' # stable => \E c \in candidates \union {<<x, n>>} :
                                Leq(c, commit) /\ stable' = c[2] /\ stable < c[2]
  <2>1. candidates \in SUBSET OpTimes /\ commit \in OpTimes /\ stable \in Timestamps
    BY <1>2 DEF TypeInv, TypeOK
  <2> QED BY <1>5, <2>1, AppliedFacts
<1>19. ASSUME majority PROVE StableInv' /\ CandidateInv'
  <2>1. StableInv /\ CandidateInv /\ stable \in Timestamps
    BY <1>2, <1>19 DEF RecoveryInv, TypeInv, TypeOK
  <2> DEFINE C == candidates \union {<<x, n>>}
  <2>2. C \in SUBSET OpTimes
    BY <1>2, <1>5 DEF TypeInv, TypeOK
  <2>3. oplog'[n] = x
    BY DEF n, x
  <2>4. \A c \in C : /\ c[2] \in 1..lastApplied'[2] /\ oplog'[c[2]] = c[1]
                     /\ (kept' \/ doc'[c[2]].through \in {0, c[2]})
    <3> TAKE c \in C
    <3>1. CASE c \in candidates
      <4>1. c[2] \in 1..Top /\ oplog[c[2]] = c[1] /\ (kept \/ doc[c[2]].through \in {0, c[2]})
        BY <1>3, <2>1, <3>1 DEF CandidateInv
      <4>2. c[2] \in 1..n
        BY <1>3, <1>10, <4>1
      <4> QED BY <1>5, <1>8, <1>10, <4>1, <4>2
    <3>2. CASE c = <<x, n>>
      <4>1. n \in 1..n
        BY <1>3, <1>10, Bounds
      <4> QED BY <1>5, <1>10, <1>13, <1>14, <2>3, <3>2, <4>1
    <3> QED BY <3>1, <3>2
  <2>5. stable <= lastApplied'[2] /\ stable <= Top
    BY <1>3, <1>10, <2>1, Bounds DEF StableInv
  <2>6. \A t \in 1..stable : Kept(oplog', truncate')[t] = source[t] /\ data'[t] = source[t]
    <3>1. \A t \in 1..stable : t \in 1..Top
      BY <1>3, <2>1, <2>5, Bounds
    <3> QED BY <1>8, <1>9, <2>1, <3>1 DEF StableInv
  <2>7. (kept' \/ doc'[stable].through \in {0, stable})
    BY <1>5, <2>1 DEF StableInv
  <2>8. stable' # stable => \E c \in C : Leq(c, commit') /\ stable' = c[2]
    BY <1>5, <1>18
  <2>9. candidates' \subseteq C
    BY <1>18
  <2> HIDE DEF C
  <2>10. StableInv'
    BY <1>3, <1>4, <1>5, <1>11, <1>12, <1>17, <1>18, <1>19, <2>2, <2>4, <2>5, <2>6, <2>7, <2>8,
       StableStep
  <2> QED BY <1>3, <1>5, <2>4, <2>9, <2>10 DEF CandidateInv
<1>20. ASSUME ~majority PROVE Consistent(oplog', truncate', data', doc')
  BY <1>5, <1>7, <1>9, <1>13 DEF Consistent, Document
<1>21. recovering' # "rollback" /\ \A t \in 1..committed : source'[t] = source[t]
  BY <1>3, <1>5
<1> QED BY <1>2, <1>4, <1>5, <1>11, <1>12, <1>16, <1>17, <1>18, <1>19, <1>20, <1>21, Assemble

-----------------------------------------------------------------------------
(* Recovery: rollback and recoverFromOplog. *)

\* The document as of the stable timestamp is one of the whole oplog, too.
LEMMA StableDocument ==
    ASSUME NEW o \in Table, Whole(o), NEW m \in Documents, NEW s \in Timestamps,
           s <= TopOf(o),
           \A t \in 1..s : Leq(m[t].valid, <<o[t], t>>),
           \A t \in Timestamps : s <= t => m[t] = m[s]
    PROVE  Documented(o, 0, m)
<1>1. /\ TopOf(o) \in Timestamps /\ TopOf(o) \in Nat
      /\ \A t \in Timestamps : t <= TopOf(o) => o[t] \in Terms
  BY WholeFacts
<1>2. ASSUME NEW t \in Timestamps, t <= TopOf(o) PROVE Leq(m[t].valid, <<o[t], t>>)
  <2>1. CASE t <= s
    <3>1. t \in 1..s
      BY <2>1, Bounds
    <3> QED BY <3>1
  <2>2. CASE s < t
    <3>1. m[t] = m[s] /\ s \in 1..s /\ o[s] \in Terms /\ o[t] \in Terms
      BY <1>1, <1>2, <2>2, Bounds
    <3>2. o[s] <= o[t]
      BY <2>2, <3>1, Bounds DEF Whole
    <3>3. Leq(<<o[s], s>>, <<o[t], t>>)
      BY <2>2, <3>1, <3>2, Bounds DEF Leq
    <3>4. <<o[s], s>> \in OpTimes /\ <<o[t], t>> \in OpTimes /\ m[s].valid \in OpTimes
      BY <3>1, OpTimeFacts DEF Documents
    <3>5. Leq(m[s].valid, <<o[s], s>>)
      BY <3>1
    <3> QED BY <3>1, <3>3, <3>4, <3>5, LeqFacts
  <2> QED BY <2>1, <2>2, Bounds
<1>3. ASSUME NEW t \in Timestamps, TopOf(o) <= t PROVE m[t] = m[MaxTimestamp]
  <2>1. s <= t /\ s <= MaxTimestamp /\ MaxTimestamp \in Timestamps
    BY <1>1, <1>3, Bounds
  <2>2. m[t] = m[s] /\ m[MaxTimestamp] = m[s]
    BY <2>1
  <2> QED BY <2>2
<1> QED BY <1>2, <1>3, DocumentedFacts

\* The common point is not before the commit point, nor before the stable timestamp.
LEMMA CommonPointCovers ==
    ASSUME RecoveryInv, majority, pc = "idle", CommonPoint < Top
    PROVE  /\ Leq(commit, OpTime(CommonPoint)) /\ stable <= CommonPoint
           /\ CommonPoint \in 1..Top /\ CommonPoint \in Timestamps
           /\ OpTime(CommonPoint) = <<oplog[CommonPoint], CommonPoint>>
<1> DEFINE p == CommonPoint
<1>1. TypeInv /\ CommitInv /\ StableInv /\ stable \in Timestamps
  BY DEF RecoveryInv, TypeInv, TypeOK
<1>2. /\ truncate = 0 /\ Top \in Timestamps /\ Top \in Nat /\ recovering = "no"
      /\ \A t \in Timestamps : t <= Top => oplog[t] \in Terms
      /\ lastApplied[2] = Top
  BY IdleFacts
<1>3. /\ p \in 1..Top /\ p \in Timestamps /\ p <= Len(source)
      /\ \A t \in 1..p : oplog[t] = source[t]
      /\ \A n \in 0..Top : Matches(n) => n <= p
  BY <1>1, <1>2, CommonPointFacts
<1>4. OpTime(p) = <<oplog[p], p>> /\ oplog[p] \in Terms
  BY <1>2, <1>3, Bounds DEF OpTime
<1>5. /\ Len(source) \in Nat /\ committed \in Nat /\ committed <= Len(source)
      /\ \A t \in 1..Len(source) : source[t] \in Terms
  BY <1>1, StateFacts
<1> HIDE DEF p
<1>6. stable <= p
  <2>1. stable <= Top /\ stable <= Len(source) /\ stable \in 0..Top
    BY <1>1, <1>2, <1>5, Bounds DEF StableInv
  <2>2. \A t \in 1..stable : oplog[t] = source[t]
    <3>1. Kept(oplog, truncate) = oplog
      BY <1>1, <1>2, KeptLog
    <3> QED BY <1>1, <3>1 DEF StableInv
  <2> QED BY <1>3, <2>1, <2>2 DEF Matches
<1>7. Leq(commit, OpTime(p))
  <2>1. CASE commit = Null
    BY <1>3, <1>4, <2>1, OpTimeFacts, LeqFacts
  <2>2. CASE commit # Null
    <3>1. /\ commit[2] \in 1..committed /\ source[commit[2]] = commit[1]
          /\ \A t \in 1..commit[2] : oplog[t] > 0 => oplog[t] = source[t]
      BY <1>1, <2>2 DEF CommitInv
    <3>2. commit[2] \in Nat /\ commit[2] <= Len(source) /\ 1 <= commit[2]
      BY <1>5, <3>1
    <3>3. ASSUME NEW n \in 1..Top, n <= commit[2] PROVE Matches(n)
      <4>1. ASSUME NEW t \in 1..n PROVE oplog[t] = source[t]
        <5>1. t \in Timestamps /\ t <= Top /\ t \in 1..commit[2]
          BY <1>2, <3>2, <3>3, Bounds
        <5>2. oplog[t] > 0
          BY <1>2, <5>1, Bounds
        <5> QED BY <3>1, <5>1, <5>2
      <4> QED BY <1>2, <1>5, <3>2, <3>3, <4>1 DEF Matches
    <3>4. ~(Top <= commit[2])
      <4> SUFFICES ASSUME Top <= commit[2] PROVE FALSE
        OBVIOUS
      <4>1. Top \in 1..Top /\ Top \in 0..Top
        BY <1>2, Bounds
      <4>2. Top <= p
        BY <1>3, <3>3, <4>1
      <4> QED BY <1>2, <1>3, <4>2 DEF p
    <3>5. commit[2] \in 1..Top /\ commit[2] \in 0..Top
      BY <1>2, <3>2, <3>4
    <3>6. commit[2] <= p
      BY <1>3, <3>2, <3>3, <3>5
    <3>7. commit[1] <= oplog[p]
      <4>1. source[commit[2]] <= source[p] /\ source[p] = oplog[p]
        <5>1. commit[2] \in 1..Len(source) /\ p \in 1..Len(source) /\ p \in 1..p
          BY <1>2, <1>3, <1>5, <3>2
        <5> QED BY <1>1, <1>3, <3>6, <5>1 DEF TypeInv, SourceInv
      <4> QED BY <3>1, <4>1
    <3>8. commit[1] \in Nat /\ oplog[p] \in Nat /\ p \in Nat
      BY <1>1, <1>3, <1>4, OpTimeFacts, Bounds DEF TypeInv, TypeOK
    <3> QED BY <1>4, <3>2, <3>6, <3>7, <3>8 DEF Leq
  <2> QED BY <2>1, <2>2
<1> QED BY <1>3, <1>4, <1>6, <1>7 DEF p

\* A rollback returns data and document to the stable timestamp.
LEMMA RecoveryStartRollback ==
    ASSUME RecoveryInv, StartRollback, Faults = {}
    PROVE  RecoveryInv'
<1> DEFINE p == CommonPoint
<1>1. /\ majority /\ pc = "idle" /\ role = "secondary" /\ CommonPoint < Top /\ token = Null
  BY DEF StartRollback
<1>2. /\ Leq(commit, OpTime(CommonPoint)) /\ stable <= p
      /\ p \in 1..Top /\ p \in Timestamps
  BY <1>1, CommonPointCovers
<1>3. /\ UNCHANGED <<source, committed, leader, term, majority, oplog, truncate, journal,
                     checkpoint, stable, role, batch, lastApplied, lastDurable, token, commit,
                     candidates, crashes, failed>>
      /\ kept => kept'
      /\ ~kept' => \A c \in candidates : ~(stable < c[2] /\ c[2] < p)
      /\ data' = UpTo(data, stable) /\ doc' = DocUpTo(stable)
      /\ recovering' = "rollback" /\ pc' = "setTruncate" /\ last' = p
      /\ producer' = "stopped"
  BY <1>2 DEF StartRollback, others, markers, tables, disk, applier, progress, stability,
         memory
<1>4. /\ TypeInv /\ ProgressInv /\ DataInv /\ DocumentInv /\ CommitInv /\ FailsOnlyAfterKeptCandidate
      /\ StableInv /\ CandidateInv /\ stable \in Timestamps
  BY <1>1 DEF RecoveryInv, TypeInv, TypeOK
<1>5. /\ recovering = "no" /\ truncate = 0 /\ batch = {} /\ Whole(oplog)
      /\ Top \in Timestamps /\ Top \in Nat
      /\ \A t \in Timestamps : t <= Top => oplog[t] \in Terms
      /\ lastApplied[2] = Top
  BY <1>1, IdleFacts
<1>6. TypeInv' /\ Journaled
  BY <1>3, <1>4, TypeStartRollback, LogFacts
<1>7. /\ \A t \in Timestamps : doc'[t] = IF t <= stable THEN doc[t] ELSE doc[stable]
      /\ \A t \in Timestamps : data'[t] = IF t <= stable THEN data[t] ELSE 0
      /\ oplog \in Table /\ Top = TopOf(oplog) /\ doc' \in Documents
  <2>1. stable \in Nat
    BY <1>4, Bounds
  <2>2. oplog \in Table /\ data \in Table /\ doc \in Documents /\ Top = TopOf(oplog)
    BY <1>4, StateFacts
  <2>3. /\ DocUpTo(stable) \in Documents
        /\ \A t \in Timestamps : DocUpTo(stable)[t] = IF t <= stable THEN doc[t] ELSE doc[stable]
    BY <1>4, <2>2, DocFacts
  <2>4. \A t \in Timestamps : UpTo(data, stable)[t] = IF t <= stable THEN data[t] ELSE 0
    BY <2>1, <2>2, UpToFacts
  <2> QED BY <1>3, <2>2, <2>3, <2>4
<1> HIDE DEF p
<1>8. doc'[stable] = doc[stable] /\ \A t \in Timestamps : stable <= t => doc'[t] = doc[stable]
  <2>1. \A t \in Timestamps : stable <= t => (t <= stable => t = stable)
    BY <1>4, Bounds
  <2>2. stable <= stable
    BY <1>4, Bounds
  <2> QED BY <1>4, <1>7, <2>1, <2>2
<1>9. Documented(oplog, 0, doc')
  <2>1. stable <= TopOf(oplog)
    BY <1>4, <1>5, <1>7 DEF StableInv
  <2>2. \A t \in 1..stable : Leq(doc'[t].valid, <<oplog[t], t>>)
    <3> TAKE t \in 1..stable
    <3>1. t \in Timestamps /\ t <= stable /\ t <= Top
      BY <1>4, <1>5, <1>7, <2>1, Bounds
    <3> QED BY <1>5, <1>7, <3>1, TopDocument
  <2>3. \A t \in Timestamps : stable <= t => doc'[t] = doc'[stable]
    BY <1>8
  <2> QED BY <1>4, <1>5, <1>7, <2>1, <2>2, <2>3, StableDocument
<1>10. ProgressInv' /\ DataInv'
  BY <1>1, <1>3 DEF ProgressInv, DataInv
<1>11. DocumentInv'
  <2>1. Documented(oplog', truncate', doc')
    BY <1>3, <1>5, <1>9
  <2> QED BY <1>1, <1>3, <2>1 DEF DocumentInv
<1>12. CommitInv'
  BY <1>1, <1>3, <1>4 DEF CommitInv
<1>13. StableInv'
  <2>1. \A t \in 1..stable : t \in Timestamps /\ t <= stable
    BY <1>4, Bounds
  <2>2. \A t \in 1..stable : Kept(oplog, truncate)[t] = source[t] /\ data'[t] = source[t]
    BY <1>4, <1>7, <2>1 DEF StableInv
  <2>3. \A t \in Timestamps : stable < t => data'[t] = 0
    <3>1. \A t \in Timestamps : stable < t => ~(t <= stable)
      BY <1>4, Bounds
    <3> QED BY <1>7, <3>1
  <2>4. \A t \in Timestamps : stable <= t => doc'[t] = doc'[stable]
    BY <1>8
  <2>5. (kept' \/ doc'[stable].through \in {0, stable}) /\ stable <= committed /\ checkpoint.at <= stable
    BY <1>3, <1>4, <1>8 DEF StableInv
  <2> QED BY <1>3, <2>2, <2>3, <2>4, <2>5 DEF StableInv
<1>14. CandidateInv'
  <2>1. p \in stable..MaxTimestamp /\ 0 < oplog[p] /\ oplog[p] \in Terms
    BY <1>2, <1>4, <1>5, Bounds
  <2>2. ASSUME NEW c \in candidates, Leq(c, <<oplog[p], p>>)
        PROVE  /\ c[2] \in 1..p /\ oplog[c[2]] = c[1]
               /\ kept' \/ c[2] = p \/ (c[2] <= stable /\ doc'[c[2]].through \in {0, c[2]})
    <3>1. c[2] \in 1..Top /\ oplog[c[2]] = c[1] /\ (kept \/ doc[c[2]].through \in {0, c[2]})
      BY <1>4, <1>5 DEF CandidateInv
    <3>2. c[2] \in Timestamps
      BY <1>5, <3>1, Bounds
    <3>3. c[2] <= p
      <4> SUFFICES ASSUME p < c[2] PROVE FALSE
        BY <1>2, <3>2, Bounds
      <4>1. oplog[c[2]] \in Terms
        BY <1>5, <3>1, <3>2
      <4>2. oplog[p] <= c[1]
        BY <1>2, <1>5, <3>1, <3>2, <4>1, Bounds DEF Whole
      <4> QED BY <1>2, <2>1, <2>2, <3>1, <3>2, <4>1, <4>2, Bounds DEF Leq
    <3>4. c[2] \in 1..p
      BY <1>2, <3>1, <3>3, Bounds
    <3>5. c[2] <= stable => doc'[c[2]] = doc[c[2]]
      BY <1>7, <3>2
    <3>6. kept' \/ c[2] <= stable \/ c[2] = p
      BY <1>2, <1>3, <1>4, <3>2, <3>3, Bounds
    <3> QED BY <1>3, <3>1, <3>4, <3>5, <3>6
  <2> QED BY <1>3, <2>1, <2>2 DEF CandidateInv
<1>15. \A t \in 1..committed : source'[t] = source[t]
  BY <1>3
<1> QED BY <1>1, <1>3, <1>4, <1>6, <1>10, <1>11, <1>12, <1>13, <1>14, <1>15, Assemble

\* The truncate point is set behind the common point, which is not before the stable timestamp.
LEMMA RecoverySetTruncatePoint ==
    ASSUME RecoveryInv, SetTruncatePoint
    PROVE  RecoveryInv'
<1>1. /\ UNCHANGED <<source, committed, leader, term, majority, oplog, data, doc, stable, role,
                     recovering, batch, last, lastApplied, lastDurable, token, commit,
                     candidates, producer, crashes, kept, failed>>
      /\ pc = "setTruncate" /\ truncate' = last + 1 /\ pc' = "truncate" /\ Log
  BY DEF SetTruncatePoint, others, markers, tables, disk, applier, progress, stability,
         memory
<1>2. TypeInv /\ ProgressInv /\ DataInv /\ DocumentInv /\ CommitInv /\ FailsOnlyAfterKeptCandidate
  BY DEF RecoveryInv
<1>3. /\ recovering = "rollback" /\ role = "secondary" /\ truncate = 0 /\ majority
      /\ 1 <= last /\ last < MaxTimestamp
  BY <1>1, <1>2 DEF RecoveryInv, JournalInv, TypeInv, StepInv
<1>4. /\ StableInv /\ CandidateInv /\ stable \in Timestamps
      /\ last \in stable..MaxTimestamp /\ 0 < oplog[last]
  BY <1>2, <1>3 DEF RecoveryInv, TypeInv, TypeOK, CandidateInv
<1>5. /\ last \in Timestamps /\ last + 1 \in 0..MaxTimestamp /\ last + 1 # 0 /\ last \in Nat
      /\ stable <= last
  BY <1>3, <1>4, Bounds
<1>6. TypeInv' /\ Journaled /\ checkpoint' = checkpoint
  BY <1>1, <1>2, TypeSetTruncatePoint, LogFacts
<1>7. /\ Whole(oplog) /\ oplog \in Table /\ Kept(oplog, truncate) = oplog
      /\ \A t \in Timestamps : oplog[t] > 0 <=> t <= Top
  BY <1>2, <1>3, WholeLog, StateFacts, KeptLog
<1>8. \A t \in Timestamps : Kept(oplog, last + 1)[t] = IF t <= last THEN oplog[t] ELSE 0
  <2>1. \A t \in Timestamps : Kept(oplog, last + 1)[t] =
            IF last + 1 = 0 \/ t < last + 1 THEN oplog[t] ELSE 0
    BY <1>5, <1>7, KeptFacts
  <2>2. \A t \in Timestamps : t < last + 1 <=> t <= last
    BY <1>5, Bounds
  <2> QED BY <1>5, <2>1, <2>2
<1>9. Documented(oplog, last + 1, doc)
  <2>1. ASSUME NEW t \in Timestamps, Kept(oplog, last + 1)[t] > 0
        PROVE  Leq(doc[t].valid, <<oplog[t], t>>)
    BY <1>3, <1>7, <1>8, <2>1, TopDocument
  <2>2. ASSUME NEW t \in Timestamps, t = MaxTimestamp \/ Kept(oplog, last + 1)[t + 1] = 0
        PROVE  doc[t] = doc[MaxTimestamp]
    <3>1. stable <= t
      <4>1. CASE t = MaxTimestamp
        BY <1>4, <4>1, Bounds
      <4>2. CASE t # MaxTimestamp /\ Kept(oplog, last + 1)[t + 1] = 0
        <5>1. t + 1 \in Timestamps
          BY <4>2, Bounds
        <5>2. ~(t + 1 <= last)
          <6> SUFFICES ASSUME t + 1 <= last PROVE FALSE
            OBVIOUS
          <6>1. oplog[t + 1] = 0
            BY <1>8, <4>2, <5>1
          <6>2. 0 < oplog[t + 1]
            BY <1>4, <1>5, <1>7, <5>1 DEF Whole
          <6> QED BY <6>1, <6>2
        <5> QED BY <1>4, <1>5, <5>2, Bounds
      <4> QED BY <2>2, <4>1, <4>2
    <3>2. stable <= MaxTimestamp /\ MaxTimestamp \in Timestamps
      BY <1>4, Bounds
    <3>3. \A u \in Timestamps : stable <= u => doc[u] = doc[stable]
      BY <1>1, <1>3, <1>4 DEF StableInv
    <3>4. doc[t] = doc[stable] /\ doc[MaxTimestamp] = doc[stable]
      BY <3>1, <3>2, <3>3
    <3> QED BY <3>4
  <2> QED BY <2>1, <2>2 DEF Documented
<1>10. ProgressInv' /\ DataInv'
  BY <1>1, <1>2, <1>3, <1>5 DEF ProgressInv, DataInv
<1>11. DocumentInv'
  <2>1. Documented(oplog', truncate', doc')
    BY <1>1, <1>9
  <2> QED BY <1>1, <1>2, <1>3, <2>1 DEF DocumentInv
<1>12. CommitInv'
  BY <1>1, <1>2, <1>3 DEF CommitInv
<1>13. StableInv'
  <2>1. \A t \in 1..stable : t \in Timestamps /\ t <= last
    BY <1>4, <1>5, Bounds
  <2>2. \A t \in 1..stable : Kept(oplog', truncate')[t] = source[t]
    BY <1>1, <1>4, <1>7, <1>8, <2>1 DEF StableInv
  <2> QED BY <1>1, <1>3, <1>4, <1>6, <2>2 DEF StableInv
<1>14. CandidateInv'
  BY <1>1, <1>3, <1>4 DEF CandidateInv
<1>15. \A t \in 1..committed : source'[t] = source[t]
  BY <1>1
<1> QED BY <1>1, <1>2, <1>3, <1>6, <1>10, <1>11, <1>12, <1>13, <1>14, <1>15, Assemble

\* The truncation leaves what a crash before it would have left; it never empties the oplog.
LEMMA RecoveryTruncateOplog ==
    ASSUME RecoveryInv, TruncateOplog
    PROVE  RecoveryInv'
<1>1. TypeInv /\ ProgressInv /\ DataInv /\ DocumentInv /\ CommitInv /\ FailsOnlyAfterKeptCandidate
  BY DEF RecoveryInv
<1>2. /\ oplog \in Table /\ truncate \in 0..MaxTimestamp /\ truncate # 1 /\ oplog[1] = 1
      /\ truncate \in Nat
  BY <1>1, StateFacts, KeptLog
<1>3. truncate # 0 => \E t \in Timestamps : t < truncate /\ oplog[t] > 0
  <2> SUFFICES ASSUME truncate # 0 PROVE \E t \in Timestamps : t < truncate /\ oplog[t] > 0
    OBVIOUS
  <2>1. 1 \in Timestamps /\ 1 < truncate /\ oplog[1] > 0
    BY <1>2, Bounds
  <2> QED BY <2>1
<1>4. /\ UNCHANGED <<source, committed, leader, term, majority, truncate, data, doc, stable,
                     role, recovering, batch, last, lastApplied, lastDurable, token, commit,
                     candidates, producer, crashes, kept, failed>>
      /\ pc = "truncate" /\ pc' = "clear" /\ Log /\ oplog' = Kept(oplog, truncate)
  BY <1>3 DEF TruncateOplog, Kept, others, markers, tables, disk, applier, progress, stability,
         memory
<1>5. recovering # "no" /\ role = "secondary"
  BY <1>1, <1>4 DEF TypeInv, StepInv
<1>6. TypeInv' /\ Journaled /\ checkpoint' = checkpoint
  BY <1>1, <1>4, TypeTruncateOplog, LogFacts
<1>7. /\ Kept(oplog, truncate) = Kept(oplog', truncate')
      /\ \A t \in Timestamps : oplog'[t] = IF truncate = 0 \/ t < truncate THEN oplog[t] ELSE 0
      /\ \A t \in Timestamps : oplog'[t] > 0 => oplog[t] = oplog'[t]
      /\ Whole(oplog')
      /\ truncate = 0 => oplog' = oplog
  <2>1. Kept(Kept(oplog, truncate), truncate) = Kept(oplog, truncate)
    BY <1>2, KeptAgain
  <2>2. /\ \A t \in Timestamps : Kept(oplog, truncate)[t] =
                IF truncate = 0 \/ t < truncate THEN oplog[t] ELSE 0
        /\ truncate = 0 => Kept(oplog, truncate) = oplog
    BY <1>1, KeptLog
  <2>3. Whole(Kept(oplog, truncate))
    BY <1>1, StateFacts
  <2> QED BY <1>4, <2>1, <2>2, <2>3
<1>8. /\ Documented(oplog, truncate, doc) => Documented(oplog', truncate', doc)
      /\ Consistent(oplog, truncate, data, doc) => Consistent(oplog', truncate', data, doc)
  <2>1. \A t \in Timestamps : Kept(oplog, truncate)[t] > 0 => oplog[t] = oplog'[t]
    BY <1>4, <1>7
  <2> QED BY <1>7, <2>1, SameKept
<1>9. ProgressInv'
  BY <1>1, <1>4, <1>5, <1>6, <1>7 DEF ProgressInv, Journaled
<1>10. DataInv'
  BY <1>4, <1>5 DEF DataInv
<1>11. DocumentInv'
  <2>1. Documented(oplog', truncate', doc')
    BY <1>1, <1>4, <1>8 DEF DocumentInv
  <2> QED BY <1>1, <1>4, <1>5, <2>1 DEF DocumentInv
<1>12. CommitInv'
  <2> SUFFICES ASSUME commit # Null PROVE CommitInv'
    BY <1>4 DEF CommitInv
  <2>1. /\ commit[2] \in 1..committed
        /\ \A t \in 1..commit[2] : oplog[t] > 0 => oplog[t] = source[t]
    BY <1>1 DEF CommitInv
  <2>2. \A t \in 1..commit[2] : t \in Timestamps
    BY <1>1, <2>1, StateFacts, Bounds
  <2>3. \A t \in 1..commit[2] : oplog'[t] > 0 => oplog'[t] = source[t]
    BY <1>7, <2>1, <2>2
  <2> QED BY <1>1, <1>4, <1>5, <2>3 DEF CommitInv
<1>13. ASSUME majority PROVE StableInv' /\ CandidateInv'
  <2>1. StableInv /\ CandidateInv /\ stable \in Timestamps
    BY <1>1, <1>13 DEF RecoveryInv, TypeInv, TypeOK
  <2>2. StableInv'
    BY <1>4, <1>5, <1>6, <1>7, <2>1 DEF StableInv
  <2>3. CASE recovering = "startup"
    BY <1>4, <2>1, <2>2, <2>3 DEF CandidateInv
  <2>4. CASE recovering = "rollback"
    <3>1. /\ last \in stable..MaxTimestamp /\ 0 < oplog[last] /\ truncate = last + 1
          /\ \A c \in candidates : Leq(c, <<oplog[last], last>>) =>
                /\ c[2] \in 1..last /\ oplog[c[2]] = c[1]
                /\ \/ kept \/ c[2] = last
                   \/ c[2] <= stable /\ doc[c[2]].through \in {0, c[2]}
      BY <1>4, <2>1, <2>4 DEF CandidateInv
    <3>2. last \in Timestamps /\ last \in Nat
      BY <2>1, <3>1, Bounds
    <3>3. \A t \in Timestamps : oplog'[t] = IF t <= last THEN oplog[t] ELSE 0
      <4>1. truncate # 0 /\ \A t \in Timestamps : t < truncate <=> t <= last
        BY <3>1, <3>2, Bounds
      <4>2. \A t \in Timestamps :
                oplog'[t] = IF truncate = 0 \/ t < truncate THEN oplog[t] ELSE 0
        BY <1>7
      <4> QED BY <4>1, <4>2
    <3>4. oplog'[last] = oplog[last]
      BY <3>2, <3>3
    <3>5. \A t \in Timestamps : oplog'[t] > 0 <=> t <= last
      <4>1. \A t \in Timestamps : t <= last => 0 < oplog'[t]
        BY <1>7, <3>1, <3>2, <3>4 DEF Whole
      <4>2. \A t \in Timestamps : oplog'[t] > 0 => t <= last
        BY <3>3
      <4> QED BY <4>1, <4>2
    <3>6. \A t \in 1..last : oplog'[t] = oplog[t]
      BY <3>2, <3>3, Bounds
    <3> QED BY <1>4, <2>2, <2>4, <3>1, <3>4, <3>5, <3>6 DEF CandidateInv
  <2> QED BY <1>1, <1>5, <2>2, <2>3, <2>4 DEF TypeInv, TypeOK
<1>14. ASSUME ~majority PROVE Consistent(oplog', truncate', data', doc') /\ recovering' # "rollback"
  <2>1. Consistent(oplog, truncate, data, doc) /\ recovering # "rollback"
    BY <1>14 DEF RecoveryInv, JournalInv
  <2> QED BY <1>4, <1>8, <2>1
<1>15. \A t \in 1..committed : source'[t] = source[t]
  BY <1>4
<1> QED BY <1>1, <1>4, <1>6, <1>9, <1>10, <1>11, <1>12, <1>13, <1>14, <1>15, Assemble

\* Once the truncation is done the truncate point is cleared, durably.
LEMMA RecoveryClearAfterTruncation ==
    ASSUME RecoveryInv, ClearAfterTruncation
    PROVE  RecoveryInv'
<1>1. /\ UNCHANGED <<source, committed, leader, term, majority, oplog, data, doc, stable, role,
                     recovering, batch, last, lastApplied, lastDurable, token, commit,
                     candidates, producer, crashes, kept, failed>>
      /\ pc = "clear" /\ pc' = "start" /\ truncate' = 0
      /\ (truncate = 0 /\ UNCHANGED <<journal, checkpoint>>) \/ LogAndFlush
  BY DEF ClearAfterTruncation, others, markers, tables, disk, applier, progress, stability,
         memory
<1>2. TypeInv /\ ProgressInv /\ DataInv /\ DocumentInv /\ CommitInv /\ FailsOnlyAfterKeptCandidate
  BY DEF RecoveryInv
<1>3. recovering # "no" /\ role = "secondary" /\ oplog = Kept(oplog, truncate)
  BY <1>1, <1>2 DEF TypeInv, StepInv
<1>4. TypeInv' /\ Journaled /\ checkpoint' = checkpoint
  BY <1>1, <1>2, TypeClearAfterTruncation, LogFacts
<1>5. Kept(oplog, truncate) = Kept(oplog', truncate')
  <2>1. 0 \in 0..MaxTimestamp /\ oplog \in Table
    BY <1>2, Bounds, StateFacts
  <2>2. Kept(oplog, 0) = oplog
    BY <2>1, KeptFacts
  <2> QED BY <1>1, <1>3, <2>2
<1>6. /\ Documented(oplog, truncate, doc) => Documented(oplog', truncate', doc)
      /\ Consistent(oplog, truncate, data, doc) => Consistent(oplog', truncate', data, doc)
  <2>1. \A t \in Timestamps : Kept(oplog, truncate)[t] > 0 => oplog[t] = oplog'[t]
    BY <1>1
  <2> QED BY <1>5, <2>1, SameKept
<1>7. ProgressInv'
  <2>1. \A j \in journal' : j.oplog = oplog' /\ j.truncate = 0
    <3>1. CASE truncate = 0 /\ UNCHANGED <<journal, checkpoint>>
      BY <1>1, <1>2, <1>3, <3>1 DEF ProgressInv
    <3>2. CASE LogAndFlush
      BY <1>1, <3>2, LogFacts
    <3> QED BY <1>1, <3>1, <3>2
  <2> QED BY <1>1, <1>2, <1>3, <2>1 DEF ProgressInv
<1>8. DataInv'
  BY <1>1, <1>3 DEF DataInv
<1>9. DocumentInv'
  <2>1. Documented(oplog', truncate', doc')
    BY <1>1, <1>2, <1>6 DEF DocumentInv
  <2> QED BY <1>1, <1>2, <1>3, <2>1 DEF DocumentInv
<1>10. CommitInv'
  BY <1>1, <1>2, <1>3 DEF CommitInv
<1>11. ASSUME majority PROVE StableInv' /\ CandidateInv'
  <2>1. StableInv /\ CandidateInv
    BY <1>11 DEF RecoveryInv
  <2>2. StableInv'
    BY <1>1, <1>3, <1>4, <1>5, <2>1 DEF StableInv
  <2>3. CandidateInv'
    BY <1>1, <1>3, <2>1 DEF CandidateInv
  <2> QED BY <2>2, <2>3
<1>12. ASSUME ~majority PROVE Consistent(oplog', truncate', data', doc') /\ recovering' # "rollback"
  <2>1. Consistent(oplog, truncate, data, doc) /\ recovering # "rollback"
    BY <1>12 DEF RecoveryInv, JournalInv
  <2> QED BY <1>1, <1>6, <2>1
<1>13. \A t \in 1..committed : source'[t] = source[t]
  BY <1>1
<1> QED BY <1>1, <1>2, <1>4, <1>7, <1>8, <1>9, <1>10, <1>11, <1>12, <1>13, Assemble

\* Recovery applies from an entry of the oplog up to which the data has everything.
LEMMA StartPointFacts ==
    ASSUME RecoveryInv, pc = "start"
    PROVE  /\ StartPoint \in 1..Top /\ oplog[StartPoint] > 0
           /\ majority /\ ~kept => Document.through \in {0, stable}
           /\ \A t \in Timestamps : data[t] # oplog[t] => oplog[t] > 0 /\ StartPoint < t
<1>1. TypeInv /\ stable \in Timestamps /\ recovering # "no" /\ truncate = 0
  BY DEF RecoveryInv, TypeInv, TypeOK, StepInv
<1>2. /\ Top \in Timestamps /\ Top \in Nat /\ oplog[Top] \in Terms
      /\ \A t \in Timestamps : oplog[t] > 0 <=> t <= Top
      /\ Kept(oplog, truncate) = oplog
      /\ \A t \in Timestamps : oplog[t] \in 0..MaxTerm
      /\ doc \in Documents
  BY <1>1, WholeLog, StateFacts, KeptLog
<1>3. CASE majority
  <2>1. /\ StableInv /\ StartPoint = stable
        /\ \A t \in 1..stable : oplog[t] = source[t] /\ data[t] = source[t]
    BY <1>2, <1>3 DEF RecoveryInv, StableInv, StartPoint
  <2>2. doc[MaxTimestamp] = doc[stable] /\ (kept \/ Document.through \in {0, stable})
    <3>1. stable <= MaxTimestamp /\ MaxTimestamp \in Timestamps
      BY <1>1, Bounds
    <3> QED BY <1>1, <2>1, <3>1 DEF StableInv, Document
  <2>3. oplog[stable] > 0
    <3>1. stable \in 1..stable /\ stable \in 1..Len(source)
      BY <1>1, <2>1, StateFacts, Bounds DEF StableInv
    <3>2. source[stable] \in Terms
      BY <1>1, <3>1, StateFacts
    <3> QED BY <2>1, <3>1, <3>2, Bounds
  <2>4. stable \in 1..Top
    BY <1>1, <1>2, <2>3, Bounds
  <2>5. ASSUME NEW t \in Timestamps, data[t] # oplog[t] PROVE oplog[t] > 0 /\ stable < t
    <3>1. stable < t
      BY <1>1, <2>1, <2>5, Bounds
    <3>2. data[t] = 0
      BY <2>1, <3>1 DEF StableInv
    <3> QED BY <1>2, <2>5, <3>1, <3>2, Bounds
  <2> QED BY <2>1, <2>2, <2>3, <2>4, <2>5
<1>4. CASE ~majority
  <2>1. Consistent(oplog, truncate, data, doc)
    BY <1>4 DEF RecoveryInv, JournalInv
  <2>2. StartPoint = IF Document.through # 0 THEN Document.through ELSE Top
    BY <1>4 DEF StartPoint
  <2>3. Document.through \in 0..MaxTimestamp
    BY <1>2, DocFacts
  <2>4. /\ \A t \in Timestamps : data[t] # oplog[t] =>
                Document.through # 0 /\ Document.through < t /\ oplog[t] > 0
        /\ Document.through # 0 => oplog[Document.through] > 0
    BY <1>2, <2>1 DEF Consistent, Document
  <2>5. StartPoint \in 1..Top /\ oplog[StartPoint] > 0
    <3>1. CASE Document.through = 0
      BY <1>2, <2>2, <3>1, Bounds
    <3>2. CASE Document.through # 0
      <4>1. Document.through \in Timestamps
        BY <2>3, <3>2, Bounds
      <4> QED BY <1>2, <2>2, <2>4, <3>2, <4>1, Bounds
    <3> QED BY <3>1, <3>2
  <2> QED BY <1>4, <2>2, <2>4, <2>5
<1> QED BY <1>3, <1>4

\* The invariants and fasserts of recoverFromOplog hold unless a candidate was kept, and its
\* batch is what the data misses.
LEMMA RecoveryStartRecovery ==
    ASSUME RecoveryInv, StartRecovery
    PROVE  RecoveryInv'
<1> DEFINE T == {t \in StartPoint + 1..Top : oplog[t] > 0}
<1>1. pc = "start"
  BY DEF StartRecovery
<1>2. /\ StartPoint \in 1..Top /\ oplog[StartPoint] > 0
      /\ majority /\ ~kept => Document.through \in {0, stable}
      /\ \A t \in Timestamps : data[t] # oplog[t] => oplog[t] > 0 /\ StartPoint < t
  BY <1>1, StartPointFacts
<1>3. TypeInv /\ ProgressInv /\ DataInv /\ DocumentInv /\ CommitInv /\ FailsOnlyAfterKeptCandidate
  BY DEF RecoveryInv
<1>4. recovering # "no" /\ role = "secondary" /\ truncate = 0
  BY <1>1, <1>3 DEF TypeInv, StepInv
<1>5. /\ Top \in Timestamps /\ Top \in Nat /\ oplog[Top] \in Terms
      /\ \A t \in Timestamps : oplog[t] > 0 <=> t <= Top
  BY <1>3, <1>4, WholeLog, StateFacts
<1> SUFFICES ASSUME ~(majority /\ Document.through \notin {0, stable})
             PROVE  RecoveryInv'
  <2>1. ASSUME majority, Document.through \notin {0, stable}
        PROVE  RecoveryInv'
    <3>1. Fail("appliedThrough") /\ kept
      <4>1. ~(StartPoint > Top) /\ ~(StartPoint < Top /\ oplog[StartPoint] = 0)
        BY <1>2, <1>5
      <4>2. kept
        BY <1>2, <2>1
      <4> HIDE DEF T
      <4> QED BY <2>1, <4>1, <4>2 DEF StartRecovery
    <3>2. UNCHANGED <<source, committed, majority, oplog, truncate, data, doc, journal,
                      checkpoint, stable, role, pc, recovering, batch, last, lastApplied,
                      lastDurable, token, commit, candidates, producer, crashes, kept>>
      BY <3>1 DEF Fail, others, markers, tables, disk, applier, progress, stability, memory
    <3>3. failed' = "appliedThrough"
      BY <3>1 DEF Fail
    <3>4. TypeInv'
      BY <1>3, <3>1, TypeFail
    <3>5. committed <= committed' /\ \A t \in 1..committed : source'[t] = source[t]
      BY <1>3, <3>2, StateFacts
    <3> QED BY <3>1, <3>2, <3>3, <3>4, <3>5, RecoveryOthers
  <2> QED BY <2>1
<1>6. /\ UNCHANGED <<source, committed, leader, term, majority, oplog, truncate, data, doc,
                     journal, checkpoint, stable, role, recovering, lastApplied, lastDurable,
                     token, commit, candidates, producer, crashes, kept, failed>>
      /\ batch' = {OpTime(t) : t \in T} /\ last' = Top /\ pc' = "apply"
  <2>1. /\ ~(majority /\ Document.through \notin {0, stable})
        /\ ~(StartPoint > Top) /\ ~(StartPoint < Top /\ oplog[StartPoint] = 0)
    BY <1>2, <1>5
  <2> QED BY <2>1 DEF StartRecovery, others, markers, tables, disk, applier, progress, stability,
         memory
<1>7. TypeInv' /\ Journaled
  BY <1>3, <1>6, TypeStartRecovery, LogFacts
<1>8. \A t \in T : t \in Timestamps /\ oplog[t] > 0 /\ OpTime(t) = <<oplog[t], t>>
  BY <1>2, <1>5, Bounds DEF OpTime
<1>9. \A e \in batch' : e[2] \in Timestamps /\ oplog[e[2]] = e[1] /\ oplog[e[2]] > 0
  BY <1>6, <1>8
<1>10. DataInv'
  <2>1. ASSUME NEW t \in Timestamps, data[t] # oplog[t]
        PROVE  oplog[t] > 0 /\ <<oplog[t], t>> \in batch'
    <3>1. oplog[t] > 0 /\ StartPoint < t /\ t <= Top
      BY <1>2, <1>5, <2>1
    <3>2. t \in T
      BY <1>2, <1>5, <3>1, Bounds
    <3> QED BY <1>6, <1>8, <3>1, <3>2
  <2> QED BY <1>6, <1>9, <2>1 DEF DataInv
<1>11. ProgressInv'
  BY <1>1, <1>3, <1>4, <1>6 DEF ProgressInv
<1>12. DocumentInv'
  BY <1>1, <1>3, <1>4, <1>6 DEF DocumentInv, Document
<1>13. CommitInv'
  BY <1>1, <1>3, <1>4, <1>6, <1>9 DEF CommitInv
<1>14. ASSUME majority PROVE StableInv' /\ CandidateInv'
  <2>1. StableInv /\ CandidateInv /\ stable \in Timestamps
    BY <1>3, <1>14 DEF RecoveryInv, TypeInv, TypeOK
  <2>2. StableInv'
    BY <1>1, <1>4, <1>6, <1>14, <2>1 DEF StableInv, Document
  <2>3. recovering = "rollback" => last = Top
    <3> SUFFICES ASSUME recovering = "rollback" PROVE last = Top
      OBVIOUS
    <3>1. /\ last \in stable..MaxTimestamp /\ 0 < oplog[last]
          /\ \A t \in Timestamps : oplog[t] > 0 <=> t <= last
      BY <1>1, <2>1 DEF CandidateInv
    <3>2. last \in Timestamps
      BY <2>1, <3>1, Bounds
    <3>3. last <= Top /\ Top <= last
      BY <1>5, <3>1, <3>2, Bounds
    <3> QED BY <1>5, <3>2, <3>3, Bounds
  <2> QED BY <1>1, <1>4, <1>6, <2>1, <2>2, <2>3 DEF CandidateInv
<1>15. ASSUME ~majority PROVE Consistent(oplog', truncate', data', doc') /\ recovering' # "rollback"
  BY <1>6, <1>15 DEF RecoveryInv, JournalInv
<1>16. \A t \in 1..committed : source'[t] = source[t]
  BY <1>6
<1> QED BY <1>3, <1>6, <1>7, <1>10, <1>11, <1>12, <1>13, <1>14, <1>15, <1>16, Assemble

\* Recovery has applied everything and sets the applied point to the top of the oplog.
LEMMA RecoveryFinishApplying ==
    ASSUME RecoveryInv, FinishApplying
    PROVE  RecoveryInv'
<1>1. /\ UNCHANGED <<source, committed, leader, term, majority, oplog, truncate, data, stable,
                     role, recovering, batch, last, lastApplied, lastDurable, token, commit,
                     candidates, producer, crashes, kept, failed>>
      /\ pc = "apply" /\ batch = {} /\ recovering # "no" /\ pc' = "finish"
      /\ doc' = IF majority /\ StartPoint = Top THEN doc ELSE SetAppliedThrough(Top, Top)
      /\ Log \/ LogAndFlush
  BY DEF FinishApplying, others, markers, tables, disk, applier, progress, stability,
         memory
<1>2. TypeInv /\ ProgressInv /\ DataInv /\ DocumentInv /\ CommitInv /\ FailsOnlyAfterKeptCandidate
  BY DEF RecoveryInv
<1>3. role = "secondary" /\ truncate = 0 /\ last = Top
  BY <1>1, <1>2 DEF TypeInv, StepInv
<1>4. TypeInv' /\ Journaled /\ checkpoint' = checkpoint
  BY <1>1, <1>2, TypeFinishApplying, LogFacts
<1>5. /\ Top \in Timestamps /\ Top \in Nat /\ oplog[Top] > 0 /\ Top # 0
      /\ \A t \in Timestamps : oplog[t] > 0 <=> t <= Top
      /\ Kept(oplog, truncate) = oplog /\ Top' = Top
  BY <1>1, <1>2, <1>3, WholeLog, KeptLog, Bounds DEF Top
<1>6. \A t \in Timestamps : data[t] = oplog[t]
  BY <1>1, <1>2 DEF DataInv
<1>7. doc' # doc => doc' = SetAppliedThrough(Top, Top)
  BY <1>1
<1>8. doc' = SetAppliedThrough(Top, Top) =>
        /\ Documented(oplog, 0, doc') /\ Document'.through = Top
        /\ \A t \in Timestamps : doc'[t].through = IF Top <= t THEN Top ELSE doc[t].through
  BY <1>3, ThroughFacts
<1>9. ASSUME majority
      PROVE  /\ StableInv /\ CandidateInv /\ stable \in Timestamps /\ stable <= Top
             /\ doc' = doc => \/ stable = Top /\ Document.through \in {0, Top}
                              \/ doc' = SetAppliedThrough(Top, Top)
  <2>1. StableInv /\ CandidateInv /\ stable \in Timestamps
    BY <1>2, <1>9 DEF RecoveryInv, TypeInv, TypeOK
  <2>2. stable <= Top
    <3>1. stable \in 1..stable /\ stable \in 1..Len(source)
      BY <1>2, <2>1, StateFacts, Bounds DEF StableInv
    <3>2. source[stable] \in Terms /\ oplog[stable] = source[stable]
      BY <1>2, <1>5, <2>1, <3>1, StateFacts DEF StableInv
    <3>3. oplog[stable] > 0
      BY <3>2, Bounds
    <3> QED BY <1>5, <2>1, <3>3
  <2>3. Document.through \in {0, stable}
    BY <1>1, <2>1 DEF StableInv
  <2>4. StartPoint = stable
    BY <1>9 DEF StartPoint
  <2> QED BY <1>1, <1>9, <2>1, <2>2, <2>3, <2>4
<1>10. /\ Documented(oplog', truncate', doc') /\ Document'.through \in {0, Top}
       /\ ~majority => Document'.through = Top
  <2>1. CASE doc' = SetAppliedThrough(Top, Top)
    BY <1>1, <1>3, <1>8, <2>1
  <2>2. CASE doc' # SetAppliedThrough(Top, Top)
    <3>1. doc' = doc /\ majority
      BY <1>1, <2>2
    <3> QED BY <1>1, <1>2, <1>9, <2>2, <3>1 DEF DocumentInv, Document
  <2> QED BY <2>1, <2>2
<1>11. ProgressInv'
  BY <1>1, <1>2, <1>3, <1>4 DEF ProgressInv, Journaled
<1>12. DataInv'
  BY <1>1, <1>6 DEF DataInv
<1>13. DocumentInv'
  BY <1>1, <1>2, <1>3, <1>5, <1>10 DEF DocumentInv
<1>14. CommitInv'
  BY <1>1, <1>2, <1>3 DEF CommitInv
<1>15. ASSUME majority PROVE StableInv' /\ CandidateInv'
  <2>1. StableInv /\ CandidateInv /\ stable \in Timestamps /\ stable <= Top
    BY <1>9, <1>15
  <2>2. \A t \in Timestamps : t < Top => doc'[t].through = doc[t].through
    <3>1. \A t \in Timestamps : t < Top => ~(Top <= t)
      BY <1>5, Bounds
    <3> QED BY <1>7, <1>8, <3>1
  <2>3. doc'[Top].through \in {0, Top}
    <3>1. CASE doc' = SetAppliedThrough(Top, Top)
      BY <1>5, <1>8, <3>1
    <3>2. CASE doc' # SetAppliedThrough(Top, Top)
      <4>1. doc' = doc /\ Document.through \in {0, Top}
        BY <1>1, <1>9, <1>15, <3>2
      <4>2. doc[Top] = Document
        BY <1>3, <1>5, TopDocument
      <4> QED BY <4>1, <4>2
    <3> QED BY <3>1, <3>2
  <2>4. (kept' \/ doc'[stable].through \in {0, stable})
    <3>1. stable = Top \/ stable < Top
      BY <1>5, <2>1, Bounds
    <3> QED BY <1>1, <2>1, <2>2, <2>3, <3>1 DEF StableInv
  <2>5. StableInv'
    BY <1>1, <1>4, <2>1, <2>4 DEF StableInv
  <2>6. \A t \in 1..Top : doc[t].through \in {0, t} => doc'[t].through \in {0, t}
    <3> TAKE t \in 1..Top
    <3>1. t \in Timestamps /\ (t = Top \/ t < Top)
      BY <1>5, Bounds
    <3> QED BY <2>2, <2>3, <3>1
  <2>7. CandidateInv'
    BY <1>1, <1>3, <2>1, <2>6 DEF CandidateInv
  <2> QED BY <2>5, <2>7
<1>16. ASSUME ~majority PROVE Consistent(oplog', truncate', data', doc') /\ recovering' # "rollback"
  <2>1. recovering # "rollback"
    BY <1>16 DEF RecoveryInv, JournalInv
  <2>2. Document'.through = Top
    BY <1>10, <1>16
  <2> QED BY <1>1, <1>5, <1>6, <2>1, <2>2 DEF Consistent, Document
<1>17. \A t \in 1..committed : source'[t] = source[t]
  BY <1>1
<1> QED BY <1>1, <1>2, <1>4, <1>11, <1>12, <1>13, <1>14, <1>15, <1>16, <1>17, Assemble

\* The optimes and candidates with which a member leaves recovery or rollback are in its oplog.
LEMMA FinishFacts ==
    ASSUME RecoveryInv, FinishRecovery
    PROVE  /\ UNCHANGED <<source, committed, leader, term, majority, oplog, truncate, data, doc,
                          journal, checkpoint, stable, role, batch, last, token, commit,
                          producer, crashes, kept, failed>>
           /\ pc = "finish" /\ pc' = "idle" /\ recovering' = "no"
           /\ lastDurable' = OpTime(Top) /\ lastApplied' = OpTime(Top)
           /\ majority => \A c \in candidates' :
                c[2] \in 1..Top /\ oplog[c[2]] = c[1] /\ (kept \/ doc[c[2]].through \in {0, c[2]})
<1>1. /\ UNCHANGED <<source, committed, leader, term, majority, oplog, truncate, data, doc,
                     journal, checkpoint, role, batch, last, token, producer, crashes, kept, failed>>
      /\ pc = "finish" /\ pc' = "idle" /\ recovering' = "no"
      /\ lastDurable' = OpTime(Top)
      /\ IF recovering = "startup"
         THEN SetLastApplied(OpTime(Top), Leq(Document.valid, OpTime(Top)))
         ELSE /\ lastApplied' = OpTime(Top)
              /\ candidates' = RemainingCandidates
              /\ UNCHANGED <<stable, commit>>
  BY DEF FinishRecovery, SetLastApplied, others, markers, tables, disk, applier, progress,
         stability, memory
<1>2. TypeInv /\ CommitInv /\ DocumentInv
  BY DEF RecoveryInv
<1>3. truncate = 0 /\ recovering # "no"
  BY <1>1, <1>2 DEF TypeInv, StepInv
<1>4. /\ Top \in Timestamps /\ Top \in Nat /\ oplog[Top] \in Terms
      /\ \A t \in Timestamps : oplog[t] > 0 <=> t <= Top
      /\ OpTime(Top) = <<oplog[Top], Top>> /\ OpTime(Top) \in OpTimes
  BY <1>2, <1>3, WholeLog, StateFacts
<1>5. doc[Top].through \in {0, Top} /\ Top \in 1..Top
  <2>1. doc[Top] = Document
    BY <1>3, <1>4, TopDocument
  <2> QED BY <1>1, <1>2, <1>4, <2>1, Bounds DEF DocumentInv
<1>6. CASE recovering = "startup"
  <2>1. Leq(Document.valid, OpTime(Top)) \in BOOLEAN
    BY DEF Leq
  <2>2. candidates \in SUBSET OpTimes /\ commit \in OpTimes /\ stable \in Timestamps
    BY <1>2 DEF TypeInv, TypeOK
  <2>3. /\ lastApplied' = OpTime(Top) /\ commit' = commit
        /\ candidates' \subseteq candidates \union {OpTime(Top)}
        /\ ~majority => stable' = stable
        /\ stable' # stable => \E c \in candidates \union {OpTime(Top)} :
                                Leq(c, commit) /\ stable' = c[2] /\ stable < c[2]
    BY <1>1, <1>4, <1>6, <2>1, <2>2, AppliedFacts
  <2>4. commit = Null
    BY <1>2, <1>6 DEF CommitInv
  <2>5. majority => candidates = {}
    BY <1>6 DEF RecoveryInv, CandidateInv
  <2>6. ~Leq(OpTime(Top), Null)
    <3>1. OpTime(Top)[1] = oplog[Top] /\ oplog[Top] \in Nat /\ 1 <= oplog[Top]
      BY <1>4, Bounds
    <3> QED BY <3>1 DEF Leq, Null
  <2>7. stable' = stable
    BY <2>3, <2>4, <2>5, <2>6
  <2>8. majority => \A c \in candidates' :
            c[2] \in 1..Top /\ oplog[c[2]] = c[1] /\ (kept \/ doc[c[2]].through \in {0, c[2]})
    BY <1>4, <1>5, <2>3, <2>5
  <2> QED BY <1>1, <2>3, <2>7, <2>8
<1>7. CASE recovering = "rollback"
  <2>1. CandidateInv /\ stable \in Timestamps
    BY <1>2, <1>7 DEF RecoveryInv, JournalInv, TypeInv, TypeOK
  <2>2. /\ last \in stable..MaxTimestamp /\ 0 < oplog[last]
        /\ \A t \in Timestamps : oplog[t] > 0 <=> t <= last
        /\ \A c \in candidates : Leq(c, <<oplog[last], last>>) =>
            /\ c[2] \in 1..last /\ oplog[c[2]] = c[1]
            /\ \/ kept \/ c[2] = last
               \/ c[2] <= stable /\ doc[c[2]].through \in {0, c[2]}
    BY <1>1, <1>7, <2>1 DEF CandidateInv
  <2>3. last = Top
    <3>1. last \in Timestamps
      BY <2>1, <2>2, Bounds
    <3>2. last <= Top /\ Top <= last
      BY <1>4, <2>2, <3>1, Bounds
    <3> QED BY <1>4, <3>1, <3>2, Bounds
  <2>4. ASSUME NEW c \in candidates'
        PROVE  c[2] \in 1..Top /\ oplog[c[2]] = c[1] /\ (kept \/ doc[c[2]].through \in {0, c[2]})
    <3>1. c \in candidates \union {OpTime(Top)} /\ Leq(c, OpTime(Top))
      BY <1>1, <1>7, <2>4 DEF RemainingCandidates
    <3>2. CASE c = OpTime(Top)
      BY <1>4, <1>5, <3>2
    <3>3. CASE c \in candidates
      BY <1>4, <1>5, <2>2, <2>3, <3>1, <3>3
    <3> QED BY <3>1, <3>2, <3>3
  <2> QED BY <1>1, <1>7, <2>4
<1> QED BY <1>2, <1>3, <1>6, <1>7 DEF TypeInv, TypeOK

\* A member leaves recovery with the data that the oplog says.
LEMMA RecoveryFinishRecovery ==
    ASSUME RecoveryInv, FinishRecovery
    PROVE  RecoveryInv'
<1>1. /\ UNCHANGED <<source, committed, leader, term, majority, oplog, truncate, data, doc,
                     journal, checkpoint, stable, role, batch, last, token, commit, producer,
                     crashes, kept, failed>>
      /\ pc = "finish" /\ pc' = "idle" /\ recovering' = "no"
      /\ lastDurable' = OpTime(Top) /\ lastApplied' = OpTime(Top)
      /\ majority => \A c \in candidates' :
                c[2] \in 1..Top /\ oplog[c[2]] = c[1] /\ (kept \/ doc[c[2]].through \in {0, c[2]})
  BY FinishFacts
<1>2. TypeInv /\ ProgressInv /\ DataInv /\ DocumentInv /\ CommitInv /\ FailsOnlyAfterKeptCandidate
  BY DEF RecoveryInv
<1>3. recovering # "no" /\ role = "secondary" /\ truncate = 0 /\ batch = {}
  BY <1>1, <1>2 DEF TypeInv, StepInv, DataInv
<1>4. TypeInv' /\ Journaled
  BY <1>1, <1>2, TypeFinishRecovery, LogFacts
<1>5. /\ Top \in Timestamps /\ Top \in Nat /\ Top \in 1..Top
      /\ \A t \in Timestamps : oplog[t] > 0 <=> t <= Top
      /\ lastApplied'[1] = oplog[Top] /\ lastApplied'[2] = Top
      /\ lastDurable'[1] = oplog[Top] /\ lastDurable'[2] = Top
      /\ Kept(oplog, truncate) = oplog /\ Top' = Top
  <2>1. Top \in Timestamps /\ Top \in Nat /\ OpTime(Top) = <<oplog[Top], Top>> /\ Top' = Top
    BY <1>1, <1>2, <1>3, WholeLog, StateFacts DEF Top
  <2>2. Top \in 1..Top
    BY <2>1, Bounds
  <2> QED BY <1>1, <1>2, <1>3, <2>1, <2>2, WholeLog, KeptLog
<1>6. token = Null /\ \A j \in journal : j.oplog = oplog /\ j.truncate = 0
  BY <1>1, <1>2, <1>3 DEF ProgressInv
<1>7. ProgressInv'
  BY <1>1, <1>3, <1>5, <1>6 DEF ProgressInv
<1>8. DataInv'
  BY <1>1, <1>2, <1>3 DEF DataInv
<1>9. DocumentInv'
  BY <1>1, <1>2, <1>3, <1>5 DEF DocumentInv, Document
<1>10. CommitInv'
  BY <1>1, <1>2, <1>3 DEF CommitInv
<1>11. ASSUME majority PROVE StableInv' /\ CandidateInv'
  <2>1. StableInv /\ stable \in Timestamps
    BY <1>2, <1>11 DEF RecoveryInv, TypeInv, TypeOK
  <2>2. stable <= Top
    <3>1. stable \in 1..stable /\ stable \in 1..Len(source)
      BY <1>2, <2>1, StateFacts, Bounds DEF StableInv
    <3>2. source[stable] \in Terms /\ oplog[stable] = source[stable]
      BY <1>2, <1>5, <2>1, <3>1, StateFacts DEF StableInv
    <3>3. oplog[stable] > 0
      BY <3>2, Bounds
    <3> QED BY <1>5, <2>1, <3>3
  <2>3. StableInv'
    BY <1>1, <1>3, <1>5, <2>1, <2>2 DEF StableInv
  <2>4. CandidateInv'
    BY <1>1, <1>5, <1>11 DEF CandidateInv
  <2> QED BY <2>3, <2>4
<1>12. ASSUME ~majority PROVE Consistent(oplog', truncate', data', doc')
  BY <1>1, <1>12 DEF RecoveryInv, JournalInv
<1>13. recovering' # "rollback" /\ \A t \in 1..committed : source'[t] = source[t]
  BY <1>1
<1> QED BY <1>1, <1>2, <1>4, <1>7, <1>8, <1>9, <1>10, <1>11, <1>12, <1>13, Assemble

-----------------------------------------------------------------------------
(* The theorems of recovery. *)

\* The member starts with one entry, applied, durable, stable and committed.
LEMMA RecoveryInit ==
    Init => RecoveryInv
<1> SUFFICES ASSUME Init PROVE RecoveryInv
  OBVIOUS
<1>1. /\ source = <<1>> /\ committed = 1 /\ truncate = 0 /\ data = oplog
      /\ oplog = [t \in Timestamps |-> IF t = 1 THEN 1 ELSE 0]
      /\ doc = [t \in Timestamps |-> [through |-> 1, valid |-> <<1, 1>>]]
      /\ checkpoint = [at |-> 1, data |-> data, doc |-> doc]
      /\ stable = 1 /\ role = "secondary" /\ pc = "idle" /\ recovering = "no"
      /\ batch = {} /\ last = 1
      /\ lastApplied = <<1, 1>> /\ lastDurable = <<1, 1>> /\ token = Null
      /\ commit = <<1, 1>> /\ candidates = {<<1, 1>>} /\ kept = FALSE /\ producer = "stopped"
      /\ failed = "none"
  BY DEF Init
<1>2. \A j \in journal : /\ j.oplog = oplog /\ j.truncate = 0
                         /\ ~majority => j.data = data /\ j.doc = doc
  BY DEF Init
<1>3. /\ 1 \in Timestamps /\ MaxTimestamp \in Timestamps /\ <<1, 1>> \in OpTimes
      /\ <<1, 1>>[1] = 1 /\ <<1, 1>>[2] = 1 /\ <<1, 1>> # Null
  BY Bounds, OpTimeFacts
<1>4. TypeInv
  BY TypeInit
<1>5. /\ \A t \in Timestamps : oplog[t] = IF t = 1 THEN 1 ELSE 0
      /\ \A t \in Timestamps : doc[t] = [through |-> 1, valid |-> <<1, 1>>]
      /\ oplog[1] = 1 /\ source[1] = 1
  BY <1>1, <1>3
<1>6. /\ oplog \in Table /\ Whole(oplog) /\ Top = TopOf(oplog) /\ Kept(oplog, 0) = oplog
      /\ Kept(oplog, truncate) = oplog
  BY <1>1, <1>4, StateFacts, WholeLog, KeptLog
<1>7. Top = 1
  <2>1. oplog[1] > 0 /\ \A t \in Timestamps : oplog[t] > 0 => t <= 1
    BY <1>5
  <2> QED BY <1>3, <1>6, <2>1, TopIs
<1>8. \A t \in 1..1 : t = 1
  OBVIOUS
<1>9. doc[1].through = 1 /\ doc[1].valid = <<1, 1>> /\ doc[MaxTimestamp].through = 1
  BY <1>3, <1>5
<1>10. Documented(oplog, 0, doc)
  <2>1. Leq(<<1, 1>>, <<1, 1>>)
    BY <1>3, LeqFacts
  <2>2. \A t \in Timestamps : t <= 1 => t = 1
    BY Bounds
  <2>3. \A t \in Timestamps : t <= 1 => Leq(doc[t].valid, <<oplog[t], t>>)
    BY <1>5, <1>9, <2>1, <2>2
  <2>4. \A t \in Timestamps : 1 <= t => doc[t] = doc[MaxTimestamp]
    BY <1>3, <1>5
  <2> QED BY <1>6, <1>7, <2>3, <2>4, DocumentedFacts
<1>11. ProgressInv
  BY <1>1, <1>2, <1>3, <1>5, <1>6, <1>7 DEF ProgressInv
<1>12. DataInv
  BY <1>1 DEF DataInv
<1>13. DocumentInv
  BY <1>1, <1>3, <1>9, <1>10 DEF DocumentInv, Document
<1>14. CommitInv
  BY <1>1, <1>3, <1>5, <1>8 DEF CommitInv
<1>15. Consistent(oplog, 0, data, doc)
  <2>1. data = Kept(oplog, 0) /\ Kept(oplog, 0)[1] > 0
    BY <1>1, <1>5, <1>6
  <2> QED BY <1>9, <2>1 DEF Consistent
<1>16. ASSUME majority PROVE StableInv /\ CheckpointInv /\ CandidateInv
  <2>1. StableInv
    BY <1>1, <1>3, <1>5, <1>6, <1>8, <1>9 DEF StableInv
  <2>2. checkpoint.at = 1 /\ checkpoint.data = oplog /\ checkpoint.doc = doc
    BY <1>1
  <2>3. CheckpointInv
    <3>1. Leq(doc[1].valid, <<source[1], 1>>)
      BY <1>3, <1>5, <1>9, LeqFacts
    <3>2. \A t \in Timestamps : 1 < t => oplog[t] = 0
      BY <1>5, Bounds
    <3>3. \A t \in Timestamps : 1 <= t => doc[t] = doc[1]
      BY <1>3, <1>5
    <3>4. \A j \in journal : \A t \in 1..1 : Kept(j.oplog, j.truncate)[t] = source[t]
      <4> TAKE j \in journal
      <4>1. Kept(j.oplog, j.truncate) = oplog
        BY <1>2, <1>6
      <4> QED BY <1>5, <1>8, <4>1
    <3>5. \A t \in 1..1 : oplog[t] = source[t] /\ Leq(doc[t].valid, <<source[t], t>>)
      BY <1>5, <1>8, <3>1
    <3> QED BY <1>9, <2>2, <3>2, <3>3, <3>4, <3>5 DEF CheckpointInv
  <2>4. CandidateInv
    BY <1>1, <1>3, <1>5, <1>9 DEF CandidateInv
  <2> QED BY <2>1, <2>3, <2>4
<1>17. ASSUME ~majority PROVE JournalInv
  <2>1. checkpoint.at = 1 /\ checkpoint.data[1] = 1
    BY <1>1, <1>5
  <2>2. \A j \in journal : /\ Documented(j.oplog, j.truncate, j.doc)
                           /\ Consistent(j.oplog, j.truncate, j.data, j.doc)
    <3> TAKE j \in journal
    <3>1. j.oplog = oplog /\ j.truncate = 0 /\ j.data = data /\ j.doc = doc
      BY <1>2, <1>17
    <3> QED BY <1>10, <1>15, <3>1
  <2> QED BY <1>1, <1>15, <2>1, <2>2 DEF JournalInv
<1> QED BY <1>1, <1>4, <1>11, <1>12, <1>13, <1>14, <1>16, <1>17
        DEF RecoveryInv, FailsOnlyAfterKeptCandidate

\* Every step of a member without faults keeps the invariant of recovery.
LEMMA RecoveryNext ==
    ASSUME Faults = {}
    PROVE  RecoveryInv /\ [Next]_vars => RecoveryInv'
<1> SUFFICES ASSUME RecoveryInv, [Next]_vars PROVE RecoveryInv'
  OBVIOUS
<1>1. CASE Others
  BY <1>1, RecoverySource
<1>2. CASE \E n \in 1..committed : LearnCommitPoint(n)
  BY <1>2, RecoveryLearnCommitPoint
<1>3. CASE ProducerStarts
  BY <1>3, RecoveryProducerStarts
<1>4. CASE MarkAppliedThrough
  BY <1>4, RecoveryMarkAppliedThrough
<1>5. CASE Batch
  BY <1>5, RecoveryStartBatch, RecoveryWriteOplogEntry, RecoveryApplyEntry,
     RecoveryClearTruncatePoint, RecoverySetMinValid, RecoveryPersistAppliedThrough,
     RecoveryRecordApplied DEF Batch
<1>6. CASE Primary
  BY <1>6, RecoveryClearAppliedThrough, RecoveryPrimaryWrites, RecoveryStepDown DEF Primary
<1>7. CASE Storage
  BY <1>7, RecoveryTakeToken, RecoveryFlushJournal, RecoveryTakeCheckpoint, RecoveryCrash,
     RecoveryStopReplication, RecoveryCleanShutdown DEF Storage
<1>8. CASE Recovery
  BY <1>8, RecoveryStartRollback, RecoverySetTruncatePoint, RecoveryTruncateOplog,
     RecoveryClearAfterTruncation, RecoveryStartRecovery, RecoveryFinishApplying,
     RecoveryFinishRecovery DEF Recovery
<1>9. CASE UNCHANGED vars
  <2>1. TypeInv'
    BY TypeNext DEF RecoveryInv
  <2>2. UNCHANGED <<source, committed, leader, term, majority, oplog, truncate, data, doc,
                    journal, checkpoint, stable, role, pc, recovering, batch, last, lastApplied,
                    lastDurable, token, commit, candidates, producer, crashes, kept, failed>>
    BY <1>9 DEF vars, others, markers, tables, disk, applier, progress, stability,
         memory
  <2>3. committed <= committed' /\ \A t \in 1..committed : source'[t] = source[t]
    BY <2>2, StateFacts DEF RecoveryInv
  <2> QED BY <2>1, <2>2, <2>3, RecoveryOthers
<1> QED BY <1>1, <1>2, <1>3, <1>4, <1>5, <1>6, <1>7, <1>8, <1>9 DEF Next

\* The invariant of recovery gives the properties.
LEMMA RecoveryImplies ==
    RecoveryInv => DataMatchesOplog /\ DurableSurvives /\ StableIsCommitted /\ FailsOnlyAfterKeptCandidate
<1> SUFFICES ASSUME RecoveryInv
             PROVE  DataMatchesOplog /\ DurableSurvives /\ StableIsCommitted /\ FailsOnlyAfterKeptCandidate
  OBVIOUS
<1>1. TypeInv /\ ProgressInv /\ DataInv /\ DocumentInv /\ CommitInv /\ FailsOnlyAfterKeptCandidate
  BY DEF RecoveryInv
<1>2. DataMatchesOplog
  <2> SUFFICES ASSUME pc \in {"idle", "newPrimary", "record", "closing"} PROVE DataMatchesOplog
    BY DEF DataMatchesOplog
  <2>1. recovering = "no" /\ truncate = 0 /\ batch = {}
    BY <1>1 DEF TypeInv, StepInv, DataInv
  <2>2. data = oplog
    <3>1. \A t \in Timestamps : data[t] = oplog[t]
      BY <1>1, <2>1 DEF DataInv
    <3> QED BY <1>1, <3>1, StateFacts, TableEqual
  <2>3. \A t \in 1..Top : oplog[t] > 0
    <3>1. Top \in Timestamps /\ \A t \in Timestamps : oplog[t] > 0 <=> t <= Top
      BY <1>1, <2>1, WholeLog
    <3> QED BY <3>1, Bounds
  <2>4. Leq(Document.valid, OpTime(Top))
    BY <1>1, <2>1, TopDocument, WholeLog
  <2> QED BY <2>2, <2>3, <2>4 DEF DataMatchesOplog
<1>3. DurableSurvives
  BY <1>1 DEF DurableSurvives, ProgressInv
<1>4. StableIsCommitted
  <2>1. CASE majority
    BY <2>1 DEF RecoveryInv, StableInv, CheckpointInv, StableIsCommitted
  <2>2. CASE ~majority
    <3>1. stable = 1 /\ checkpoint.at = 1 /\ checkpoint.data[1] = 1
      BY <2>2 DEF RecoveryInv, JournalInv
    <3>2. committed \in Nat /\ 1 <= committed /\ source[1] = 1
      BY <1>1, StateFacts
    <3>3. \A t \in 1..1 : t = 1
      OBVIOUS
    <3> QED BY <3>1, <3>2, <3>3 DEF StableIsCommitted
  <2> QED BY <2>1, <2>2
<1> QED BY <1>1, <1>2, <1>3, <1>4

\* The invariant of recovery holds in every state.
LEMMA RecoveryInvariant ==
    ASSUME Faults = {}
    PROVE  Spec => []RecoveryInv
<1>1. RecoveryInv /\ [Next]_vars => RecoveryInv'
  BY RecoveryNext
<1> QED BY <1>1, RecoveryInit, PTL DEF Spec

\* After a crash or a rollback at any moment the member has, whenever it is between batches,
\* an oplog without a gap and data that is what the oplog says (ReplicationRecoveryImpl,
\* SyncTail::multiApply, onTransitionToPrimary): for every number of entries, terms, crashes
\* and entries of a batch, with and without majority read concern.
THEOREM CrashKeepsData ==
    ASSUME Faults = {}
    PROVE  Spec => []DataMatchesOplog
<1> QED BY RecoveryInvariant, RecoveryImplies, PTL

\* What setMyLastDurableOpTimeForward has reported is in the oplog that a crash at any moment
\* leaves, below the truncate point that it leaves.
THEOREM DurableIsKept ==
    ASSUME Faults = {}
    PROVE  Spec => []DurableSurvives
<1> QED BY RecoveryInvariant, RecoveryImplies, PTL

\* The stable timestamp of _setStableTimestampForStorage_inlock and the stable checkpoints
\* never hold what a majority may still roll back.
THEOREM StableIsNeverRolledBack ==
    ASSUME Faults = {}
    PROVE  Spec => []StableIsCommitted
<1> QED BY RecoveryInvariant, RecoveryImplies, PTL

\* Of the invariant()s and fassert()s of recoverFromOplog, _truncateOplogTo, rollback and
\* onTransitionToPrimary only the one on the stable timestamp and appliedThrough can fail,
\* and only once setFollowerMode has left a stable optime candidate between the stable
\* timestamp and the common point of a rollback.
THEOREM RecoveryFailsOnlyAfterKeptCandidate ==
    ASSUME Faults = {}
    PROVE  Spec => []FailsOnlyAfterKeptCandidate
<1> QED BY RecoveryInvariant, RecoveryImplies, PTL

=============================================================================
