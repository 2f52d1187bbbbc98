----------------------- MODULE OplogApplicationProofs -----------------------
(***************************************************************************)
(* Proofs about OplogApplication: its types with any of the races, and,     *)
(* without them, that the pipeline into the oplog is one history.           *)
(***************************************************************************)
EXTENDS OplogApplication, SequenceTheorems, WellFoundedInduction, TLAPS

-----------------------------------------------------------------------------
(* Entries and sequences of entries. *)

\* The fields of an entry.
LEMMA EntryFacts ==
    /\ \A e \in Entry : e.term \in 1..MaxTerm /\ e.ts \in Ts /\ e.term \in Nat /\ e.ts \in Nat
    /\ \A t \in Term, s \in Ts : [term |-> t, ts |-> s] \in Entry
    /\ FirstEntry \in Entry /\ FirstEntry.term = 1 /\ FirstEntry.ts = 1
    /\ NullOpTime.term = 0 /\ NullOpTime.ts = 0
    /\ MaxTs \in Nat \ {0} /\ MaxTerm \in Nat \ {0} /\ BatchLimit \in Nat \ {0}
    /\ BufferSize \in Nat
BY BoundAssumption DEF Entry, Term, Ts, FirstEntry, NullOpTime

\* An entry is determined by its fields.
LEMMA EntryEqual ==
    ASSUME NEW a \in Entry, NEW b \in Entry, a.term = b.term, a.ts = b.ts
    PROVE  a = b
BY DEF Entry

\* A sequence of entries that is not empty.
LEMMA LogFacts ==
    ASSUME NEW l \in Log
    PROVE  /\ Len(l) \in Nat /\ DOMAIN l = 1..Len(l)
           /\ \A i \in DOMAIN l : l[i] \in Entry /\ l[i] \in Elements(l)
           /\ \A e \in Elements(l) : e \in Entry /\ \E i \in DOMAIN l : e = l[i]
           /\ l # <<>> <=> Len(l) # 0
           /\ l # <<>> => /\ Len(l) \in DOMAIN l /\ 1 \in DOMAIN l
                          /\ Top(l) \in Entry /\ Top(l) \in Elements(l)
<1>1. /\ Len(l) \in Nat /\ DOMAIN l = 1..Len(l) /\ \A i \in DOMAIN l : l[i] \in Entry
      /\ l # <<>> <=> Len(l) # 0
  BY EmptySeq DEF Log
<1> QED BY <1>1 DEF Elements, Top

\* The empty sequence.
LEMMA EmptyFacts == <<>> \in Log /\ Len(<<>>) = 0 /\ Elements(<<>>) = {}
BY EmptySeq DEF Log, Elements

\* An entry is added to an oplog.
LEMMA AppendFacts ==
    ASSUME NEW l \in Log, NEW e \in Entry
    PROVE  /\ Append(l, e) \in Log /\ Append(l, e) # <<>> /\ Len(Append(l, e)) = Len(l) + 1
           /\ \A i \in DOMAIN l : Append(l, e)[i] = l[i]
           /\ Append(l, e)[Len(l) + 1] = e /\ Top(Append(l, e)) = e
           /\ Elements(Append(l, e)) = Elements(l) \union {e}
<1> DEFINE a == Append(l, e)
<1>1. /\ a \in Log /\ a # <<>> /\ Len(a) = Len(l) + 1 /\ Len(l) \in Nat
      /\ DOMAIN l = 1..Len(l) /\ DOMAIN a = 1..(Len(l) + 1)
      /\ \A i \in DOMAIN l : a[i] = l[i]
      /\ a[Len(l) + 1] = e
  BY LogFacts, AppendProperties, SMTT(30) DEF Log
<1> HIDE DEF a
<1>2. Elements(a) \subseteq Elements(l) \union {e}
  BY <1>1 DEF Elements
<1>3. Elements(l) \union {e} \subseteq Elements(a)
  BY <1>1 DEF Elements
<1>4. Top(a) = e
  BY <1>1 DEF Top
<1> QED BY <1>1, <1>2, <1>3, <1>4 DEF a

\* One sequence is put after another.
LEMMA ConcatFacts ==
    ASSUME NEW l \in Log, NEW m \in Log
    PROVE  /\ l \o m \in Log /\ Len(l \o m) = Len(l) + Len(m)
           /\ \A i \in DOMAIN l : (l \o m)[i] = l[i]
           /\ \A i \in DOMAIN m : (l \o m)[Len(l) + i] = m[i]
           /\ \A i \in DOMAIN (l \o m) :
                i \in DOMAIN l \/ (i - Len(l) \in DOMAIN m /\ (l \o m)[i] = m[i - Len(l)])
           /\ m # <<>> => l \o m # <<>> /\ Top(l \o m) = Top(m)
           /\ m = <<>> => l \o m = l
           /\ l = <<>> => l \o m = m
           /\ l \o m = <<>> => l = <<>> /\ m = <<>>
           /\ Elements(l \o m) = Elements(l) \union Elements(m)
<1> DEFINE c == l \o m
<1>1. /\ c \in Log /\ Len(c) = Len(l) + Len(m) /\ Len(l) \in Nat /\ Len(m) \in Nat
      /\ DOMAIN c = 1..(Len(l) + Len(m)) /\ DOMAIN l = 1..Len(l) /\ DOMAIN m = 1..Len(m)
      /\ \A i \in 1..(Len(l) + Len(m)) : c[i] = IF i <= Len(l) THEN l[i] ELSE m[i - Len(l)]
  BY LogFacts, ConcatProperties DEF Log
<1>2. (m = <<>> => c = l) /\ (l = <<>> => c = m)
  BY ConcatEmptySeq DEF Log
<1>3. c = <<>> => l = <<>> /\ m = <<>>
  BY ConcatEqualIffEmpty DEF Log
<1> HIDE DEF c
<1>4. /\ \A i \in DOMAIN l : c[i] = l[i]
      /\ \A i \in DOMAIN m : c[Len(l) + i] = m[i]
      /\ \A i \in DOMAIN c :
            i \in DOMAIN l \/ (i - Len(l) \in DOMAIN m /\ c[i] = m[i - Len(l)])
  <2>1. \A i \in DOMAIN l : c[i] = l[i]
    BY <1>1
  <2>2. ASSUME NEW i \in DOMAIN m PROVE c[Len(l) + i] = m[i]
    <3>1. /\ Len(l) + i \in 1..(Len(l) + Len(m)) /\ ~(Len(l) + i <= Len(l))
          /\ (Len(l) + i) - Len(l) = i
      BY <1>1
    <3> QED BY <1>1, <3>1
  <2>3. ASSUME NEW i \in DOMAIN c, i \notin DOMAIN l
        PROVE  i - Len(l) \in DOMAIN m /\ c[i] = m[i - Len(l)]
    BY <1>1, <2>3
  <2> QED BY <2>1, <2>2, <2>3
<1>5. m # <<>> => c # <<>> /\ Top(c) = Top(m)
  <2> SUFFICES ASSUME m # <<>> PROVE c # <<>> /\ Top(c) = Top(m)
    OBVIOUS
  <2>1. Len(m) \in DOMAIN m
    BY LogFacts
  <2> QED BY <1>1, <1>3, <1>4, <2>1 DEF Top
<1>6. Elements(c) \subseteq Elements(l) \union Elements(m)
  BY <1>4 DEF Elements
<1>7. Elements(l) \union Elements(m) \subseteq Elements(c)
  <2>1. \A i \in DOMAIN l : i \in DOMAIN c
    BY <1>1
  <2>2. \A i \in DOMAIN m : Len(l) + i \in DOMAIN c
    BY <1>1
  <2> QED BY <1>4, <2>1, <2>2 DEF Elements
<1> QED BY <1>1, <1>2, <1>3, <1>4, <1>5, <1>6, <1>7, ZenonT(30) DEF c

\* A part of a sequence.
LEMMA SubSeqFacts ==
    ASSUME NEW l \in Log, NEW a \in 1..(Len(l) + 1), NEW b \in (a - 1)..Len(l)
    PROVE  /\ SubSeq(l, a, b) \in Log /\ Len(SubSeq(l, a, b)) = b - a + 1
           /\ DOMAIN SubSeq(l, a, b) = 1..(b - a + 1)
           /\ \A i \in 1..(b - a + 1) : SubSeq(l, a, b)[i] = l[a + i - 1]
           /\ Elements(SubSeq(l, a, b)) \subseteq Elements(l)
<1> DEFINE s == SubSeq(l, a, b)
<1>1. /\ Len(l) \in Nat /\ DOMAIN l = 1..Len(l) /\ a \in Int /\ b \in Int
      /\ \A i \in a..b : l[i] \in Entry
  BY LogFacts
<1>0. /\ s \in Seq(Entry) /\ Len(s) = IF a <= b THEN b - a + 1 ELSE 0
      /\ \A i \in 1..(b - a + 1) : s[i] = l[a + i - 1]
  BY <1>1, SubSeqProperties
<1> HIDE DEF s
<1>2. /\ s \in Log /\ Len(s) = b - a + 1
      /\ \A i \in 1..(b - a + 1) : s[i] = l[a + i - 1]
  BY <1>0, <1>1 DEF Log
<1>3. DOMAIN s = 1..(b - a + 1)
  BY <1>2, LogFacts
<1>4. \A i \in 1..(b - a + 1) : a + i - 1 \in DOMAIN l
  BY <1>1
<1>5. Elements(s) \subseteq Elements(l)
  BY <1>2, <1>3, <1>4 DEF Elements
<1> QED BY <1>2, <1>3, <1>5 DEF s

\* What two sequences begin with: CommonPoint is the last place up to which they agree.
LEMMA CommonPointFacts ==
    ASSUME oplog \in Log, source \in Log, oplog # <<>>, source # <<>>, oplog[1] = source[1]
    PROVE  CommonPoint \in DOMAIN oplog
<1> DEFINE Agree(n) == n <= Len(source) /\ SubSeq(oplog, 1, n) = SubSeq(source, 1, n)
           N == Len(oplog)
           S == {N - n : n \in {x \in DOMAIN oplog : Agree(x)}}
<1>1. /\ N \in Nat /\ Len(source) \in Nat /\ DOMAIN oplog = 1..N /\ N # 0 /\ Len(source) # 0
      /\ DOMAIN source = 1..Len(source)
  BY LogFacts
<1>2. Agree(1)
  <2>1. /\ SubSeq(oplog, 1, 1) \in Log /\ SubSeq(source, 1, 1) \in Log
        /\ Len(SubSeq(oplog, 1, 1)) = 1 /\ Len(SubSeq(source, 1, 1)) = 1
        /\ SubSeq(oplog, 1, 1)[1] = oplog[1] /\ SubSeq(source, 1, 1)[1] = source[1]
    BY <1>1, SubSeqFacts
  <2>2. \A i \in 1..1 : SubSeq(oplog, 1, 1)[i] = SubSeq(source, 1, 1)[i]
    BY <2>1
  <2>3. SubSeq(oplog, 1, 1) = SubSeq(source, 1, 1)
    BY <2>1, <2>2, SeqEqual DEF Log
  <2> QED BY <1>1, <2>3
<1>3. S \in SUBSET Nat /\ S # {}
  BY <1>1, <1>2
<1>4. PICK m \in S : \A x \in S : m <= x
  <2> DEFINE R == OpToRel(<, Nat)
  <2>1. IsWellFoundedOn(R, Nat)
    BY NatLessThanWellFounded
  <2>2. \A x, y \in Nat : x < y => <<x, y>> \in R
    BY Zenon DEF OpToRel
  <2> HIDE DEF R, S
  <2>3. PICK m \in S : \A y \in S : ~(<<y, m>> \in R)
    BY <1>3, <2>1, WFMin
  <2>4. \A y \in S : m <= y
    <3> TAKE y \in S
    <3>1. m \in Nat /\ y \in Nat /\ ~(y < m)
      BY <1>3, <2>2, <2>3
    <3> QED BY <3>1
  <2> QED BY <2>4
<1>5. PICK n \in DOMAIN oplog : Agree(n) /\ m = N - n
  OBVIOUS
<1>6. ASSUME n < Len(oplog), n < Len(source), oplog[n + 1] = source[n + 1] PROVE FALSE
  <2>1. n + 1 \in DOMAIN oplog /\ n + 1 <= Len(source)
    BY <1>1, <1>6
  <2>2. SubSeq(oplog, 1, n + 1) = SubSeq(source, 1, n + 1)
    <3>1. /\ SubSeq(oplog, 1, n + 1) \in Log /\ SubSeq(source, 1, n + 1) \in Log
          /\ Len(SubSeq(oplog, 1, n + 1)) = n + 1 /\ Len(SubSeq(source, 1, n + 1)) = n + 1
          /\ \A i \in 1..(n + 1) : /\ SubSeq(oplog, 1, n + 1)[i] = oplog[i]
                                   /\ SubSeq(source, 1, n + 1)[i] = source[i]
      BY <1>1, <2>1, SubSeqFacts
    <3>2. /\ \A i \in 1..n : SubSeq(oplog, 1, n)[i] = oplog[i]
          /\ \A i \in 1..n : SubSeq(source, 1, n)[i] = source[i]
      BY <1>1, <2>1, SubSeqFacts
    <3>3. \A i \in 1..n : oplog[i] = source[i]
      BY <1>5, <3>2
    <3>4. \A i \in 1..(n + 1) : oplog[i] = source[i]
      BY <1>1, <1>6, <3>3
    <3>5. \A i \in 1..(n + 1) : SubSeq(oplog, 1, n + 1)[i] = SubSeq(source, 1, n + 1)[i]
      BY <3>1, <3>4
    <3> QED BY <3>1, <3>5, SeqEqual DEF Log
  <2>3. N - (n + 1) \in S
    BY <2>1, <2>2
  <2>4. n \in Nat /\ N \in Nat
    BY <1>1
  <2>5. N - n <= N - (n + 1)
    <3> HIDE DEF S, N
    <3> QED BY <1>4, <1>5, <2>3
  <2> HIDE DEF N
  <2> QED BY <2>4, <2>5
<1>7. \E x \in DOMAIN oplog :
        /\ x <= Len(source) /\ SubSeq(oplog, 1, x) = SubSeq(source, 1, x)
        /\ x < Len(oplog) /\ x < Len(source) => oplog[x + 1] # source[x + 1]
  BY <1>5, <1>6
<1> QED BY <1>7 DEF CommonPoint

-----------------------------------------------------------------------------
(* The types, with any of the races. *)

\* What the types say of the sequences.
LEMMA HeldFacts ==
    /\ Held = Elements(oplog) \union Elements(docs) \union Elements(buffer)
                \union Elements(batch) \union Elements(ops) \union Elements(applying)
    /\ TypeOK => Entries \subseteq Entry
    /\ UNCHANGED <<oplog, docs, buffer, batch, ops, applying>> => Held' = Held
<1>1. Held = Elements(oplog) \union Elements(docs) \union Elements(buffer)
                \union Elements(batch) \union Elements(ops) \union Elements(applying)
  BY DEF Held
<1>2. TypeOK => Entries \subseteq Entry
  BY <1>1, LogFacts DEF TypeOK, Entries
<1>3. UNCHANGED <<oplog, docs, buffer, batch, ops, applying>> => Held' = Held
  BY DEF Held
<1> QED BY <1>1, <1>2, <1>3

\* Steps that bring no entry.
LEMMA EntriesKept ==
    ASSUME TypeInv, TypeOK', Held' \subseteq Held, UNCHANGED <<source, sourceTerm>>,
           KnownTerm' >= KnownTerm,
           mode' \in {"catchup", "draining"} =>
                mode \in {"catchup", "draining"} /\ term' = term
    PROVE  EntryInv'
<1>1. Entries' \subseteq Entries
  BY DEF Entries
<1>2. \A e \in Entries : e.term \in Nat
  BY HeldFacts, EntryFacts DEF TypeInv
<1>3. KnownTerm \in Nat /\ KnownTerm' \in Nat
  BY BoundAssumption DEF TypeInv, TypeOK, KnownTerm, Term
<1>4. ASSUME NEW e \in Held' PROVE e.term <= KnownTerm'
  <2>1. e \in Held /\ e.term <= KnownTerm /\ e.term \in Nat
    BY <1>2 DEF TypeInv, EntryInv, Entries
  <2> QED BY <1>3, <2>1
<1> QED BY <1>1, <1>4 DEF TypeInv, EntryInv

\* The same, of steps that change no term.
LEMMA EntriesSame ==
    ASSUME TypeInv, TypeOK', Held' \subseteq Held,
           UNCHANGED <<source, sourceTerm, term, pendingTerm>>,
           mode' \in {"catchup", "draining"} => mode \in {"catchup", "draining"}
    PROVE  EntryInv'
<1>1. KnownTerm' = KnownTerm /\ KnownTerm \in Nat
  BY BoundAssumption DEF TypeInv, TypeOK, KnownTerm, Term
<1>2. KnownTerm' >= KnownTerm
  BY <1>1
<1> QED BY <1>2, EntriesKept

\* The first entry of a new primary, or another one of its term.
LEMMA LogOpFacts ==
    ASSUME TypeInv, LogOp, mode' = "primary",
           UNCHANGED <<others, term, pendingTerm, docs, buffer, batch, ops, applying>>,
           Top(oplog).ts < MaxTs \/ (mode \in {"catchup", "draining"} /\ pendingTerm = 0)
    PROVE  /\ NewEntry(oplog, term) \in Entry /\ Top(oplog) \in Entry
           /\ oplog' \in Log /\ oplog' # <<>> /\ oplog'[1] = oplog[1] /\ EntryInv'
<1>1. oplog \in Log /\ oplog # <<>> /\ source \in Log /\ term \in 1..MaxTerm /\ term \in Nat
  BY EntryFacts DEF TypeInv, TypeOK, ShapeInv, Term
<1>2. /\ Top(oplog) \in Entry /\ Top(oplog) \in Elements(oplog) /\ Top(oplog) \in Held
      /\ Top(oplog) \in Entries
  BY <1>1, LogFacts, HeldFacts DEF Entries
<1> DEFINE e == NewEntry(oplog, term)
<1>3. e.term = term /\ e.ts = Top(oplog).ts + 1 /\ oplog' = Append(oplog, e)
  BY DEF LogOp, NewEntry
<1>4. /\ Top(oplog).term <= KnownTerm /\ Top(oplog).ts < MaxTs + Top(oplog).term
      /\ mode \in {"catchup", "draining"} => Top(oplog).term # term
  BY <1>2 DEF TypeInv, EntryInv
<1>5. e.ts < MaxTs + e.term
  BY <1>1, <1>2, <1>3, <1>4, EntryFacts DEF KnownTerm
<1>6. e \in Entry
  <2>1. e.ts \in Ts
    BY <1>1, <1>2, <1>3, <1>5, EntryFacts DEF Ts
  <2> QED BY <1>1, <1>3, <2>1, EntryFacts DEF NewEntry, Term
<1>7. 1 \in DOMAIN oplog
  BY <1>1, LogFacts
<1> HIDE DEF e
<1>8. /\ oplog' \in Log /\ oplog' # <<>> /\ oplog'[1] = oplog[1]
      /\ Elements(oplog') = Elements(oplog) \union {e}
  BY <1>1, <1>3, <1>6, <1>7, AppendFacts
<1>9. Held' \subseteq Held \union {e} /\ Entries' \subseteq Entries \union {e}
  <2>1. /\ Held = Elements(oplog) \union Elements(docs) \union Elements(buffer)
                \union Elements(batch) \union Elements(ops) \union Elements(applying)
        /\ Held' = Elements(oplog') \union Elements(docs) \union Elements(buffer)
                \union Elements(batch) \union Elements(ops) \union Elements(applying)
    BY HeldFacts DEF Held
  <2> QED BY <1>8, <2>1 DEF Entries, others
<1>10. KnownTerm' = KnownTerm /\ KnownTerm \in Nat /\ term <= KnownTerm
  BY <1>1, EntryFacts DEF KnownTerm, TypeInv, TypeOK, TermInv
<1>11. EntryInv'
  BY <1>3, <1>5, <1>9, <1>10 DEF TypeInv, EntryInv, others
<1> QED BY <1>2, <1>6, <1>8, <1>11 DEF e

\* The initial states.
LEMMA TypesStart == Init => TypeInv
<1> SUFFICES ASSUME Init PROVE TypeInv
  OBVIOUS
<1>1. /\ source = <<FirstEntry>> /\ oplog = <<FirstEntry>> /\ docs = <<>> /\ buffer = <<>>
      /\ batch = <<>> /\ ops = <<>> /\ applying = <<>>
  BY DEF Init
<1>2. /\ <<FirstEntry>> \in Log /\ Len(<<FirstEntry>>) = 1 /\ <<FirstEntry>>[1] = FirstEntry
      /\ <<FirstEntry>> # <<>>
  BY EntryFacts DEF Log
<1>3. Elements(<<FirstEntry>>) = {FirstEntry}
  BY DEF Elements
<1>4. Held = {FirstEntry} /\ Entries = {FirstEntry}
  BY <1>1, <1>3, EmptyFacts, HeldFacts DEF Entries
<1>5. TypeOK
  BY <1>1, <1>2, EmptyFacts, EntryFacts DEF Init, TypeOK, Term, OpTime
<1>6. TermInv
  BY DEF Init, TermInv, Primary
<1>7. EntryInv
  BY <1>1, <1>3, <1>4, EntryFacts DEF Init, EntryInv, KnownTerm
<1>8. ShapeInv
  BY <1>1, <1>2, EntryFacts DEF Init, ShapeInv
<1> QED BY <1>5, <1>6, <1>7, <1>8 DEF TypeInv

\* Every action keeps them.
LEMMA TypesKept == TypeInv /\ [Next]_vars => TypeInv'
<1> SUFFICES ASSUME TypeInv, [Next]_vars PROVE TypeInv'
  OBVIOUS
<1>0. /\ source \in Log /\ oplog \in Log /\ docs \in Log /\ buffer \in Log /\ batch \in Log
      /\ ops \in Log /\ applying \in Log /\ source # <<>> /\ oplog # <<>>
      /\ source[1] = FirstEntry /\ oplog[1] = FirstEntry
  BY DEF TypeInv, TypeOK, ShapeInv
<1>t. /\ sourceTerm \in Nat /\ newestTerm \in Nat /\ term \in Nat /\ pendingTerm \in Nat
      /\ 1 <= sourceTerm /\ 1 <= newestTerm /\ 1 <= term /\ MaxTerm \in Nat
      /\ newestTerm <= MaxTerm /\ termRead \in Nat
  BY EntryFacts DEF TypeInv, TypeOK, Term
<1>h. /\ Held = Elements(oplog) \union Elements(docs) \union Elements(buffer)
                \union Elements(batch) \union Elements(ops) \union Elements(applying)
      /\ Held' = Elements(oplog') \union Elements(docs') \union Elements(buffer')
                \union Elements(batch') \union Elements(ops') \union Elements(applying')
  BY HeldFacts DEF Held
\* Steps that change positions and states of threads only.
<1>1. ASSUME TypeOK', Held' \subseteq Held,
             UNCHANGED <<source, sourceTerm, newestTerm, term, pendingTerm, oplog>>,
             termRead' \in {termRead, term},
             Primary' => Primary,
             mode' \in {"catchup", "draining"} => mode \in {"catchup", "draining"},
             pendingTerm # 0 => Primary',
             producer' \in {"enqueue", "enqueued"} =>
                producer \in {"enqueue", "enqueued"} /\ docs' = docs,
             applier' \in {"taken", "applied"} => applying' # <<>>,
             Len(batch') <= BatchLimit
      PROVE  TypeInv'
  <2>1. EntryInv'
    BY <1>1, EntriesSame
  <2>2. TermInv'
    BY <1>1 DEF TypeInv, TermInv
  <2>3. ShapeInv'
    BY <1>1 DEF TypeInv, ShapeInv
  <2> QED BY <1>1, <2>1, <2>2, <2>3 DEF TypeInv
\* Steps that leave all sequences but docs alone.
<1>2. ASSUME TypeOK', UNCHANGED <<others, term, pendingTerm, oplog, buffer, batch, ops, applying>>,
             docs' \in {docs, <<>>},
             termRead' \in {termRead, term},
             Primary' => Primary,
             mode' \in {"catchup", "draining"} => mode \in {"catchup", "draining"},
             pendingTerm # 0 => Primary',
             producer' \in {"enqueue", "enqueued"} =>
                producer \in {"enqueue", "enqueued"} /\ docs' = docs,
             applier' \in {"taken", "applied"} => applier' = applier
      PROVE  TypeInv'
  <2>1. Elements(docs') \subseteq Elements(docs)
    BY <1>2, EmptyFacts
  <2>2. Held' \subseteq Held
    BY <1>2, <1>h, <2>1
  <2> QED BY <1>1, <1>2, <2>2 DEF others, TypeInv, ShapeInv
<1>3. CASE SourceWrites
  <2> DEFINE e == NewEntry(source, sourceTerm)
  <2>1. /\ Top(source).ts < MaxTs /\ source' = Append(source, e)
        /\ links' = links \union {<<Top(source), e>>}
        /\ UNCHANGED <<sourceTerm, newestTerm, member, oplog, lastApplied, state,
                       lastFetched, fetching, buffer, batch, ops, applierThread, failed>>
    BY <1>3 DEF SourceWrites
  <2>2. Top(source) \in Entry /\ e.term = sourceTerm /\ e.ts = Top(source).ts + 1
    BY <1>0, LogFacts DEF NewEntry
  <2>3. e \in Entry /\ e.ts < MaxTs + e.term
    <3>1. e.ts \in Ts /\ e.ts < MaxTs + e.term
      BY <1>t, <2>1, <2>2, EntryFacts DEF Ts
    <3> QED BY <2>2, <3>1, EntryFacts DEF NewEntry, TypeInv, TypeOK
  <2>4. /\ source' \in Log /\ source' # <<>> /\ source'[1] = source[1]
        /\ Elements(source') = Elements(source) \union {e}
    <3>1. 1 \in DOMAIN source
      BY <1>0, LogFacts
    <3> HIDE DEF e
    <3> QED BY <1>0, <2>1, <2>3, <3>1, AppendFacts
  <2>5. e.term # term \/ ~(mode \in {"catchup", "draining"})
    BY <2>2 DEF TypeInv, TermInv, Primary
  <2> HIDE DEF e
  <2>6. TypeOK'
    BY <2>1, <2>2, <2>3, <2>4 DEF TypeInv, TypeOK, member, fetching, applierThread
  <2>7. Held' = Held /\ KnownTerm' = KnownTerm /\ Entries' = Entries \union {e}
    BY <2>1, <2>4, HeldFacts DEF member, fetching, applierThread, KnownTerm, Entries
  <2>8. EntryInv'
    BY <1>t, <2>1, <2>2, <2>3, <2>4, <2>5, <2>7 DEF TypeInv, EntryInv, member
  <2>9. TermInv'
    BY <2>1 DEF TypeInv, TermInv, member, Primary, applierThread
  <2>10. ShapeInv'
    BY <1>0, <2>1, <2>4 DEF TypeInv, ShapeInv, fetching, applierThread
  <2> QED BY <2>6, <2>8, <2>9, <2>10 DEF TypeInv
<1>4. ASSUME NEW log \in {source, oplog}, NEW n \in DOMAIN log, SourceChanges(log, n)
      PROVE  TypeInv'
  <2>1. /\ newestTerm < MaxTerm /\ newestTerm' = newestTerm + 1
        /\ sourceTerm' = newestTerm + 1 /\ source' = SubSeq(log, 1, n)
        /\ UNCHANGED <<member, local, state, lastFetched, fetching, buffer, batch, ops,
                       applierThread, failed>>
    BY <1>4 DEF SourceChanges
  <2>2. log \in Log /\ log[1] = FirstEntry /\ n \in 1..Len(log) /\ Len(log) \in Nat
    BY <1>0, LogFacts
  <2>3. /\ source' \in Log /\ Len(source') = n /\ source'[1] = FirstEntry
        /\ Elements(source') \subseteq Elements(log)
    <3>1. 1 \in 1..(Len(log) + 1) /\ n \in (1 - 1)..Len(log) /\ 1 \in 1..(n - 1 + 1)
      BY <2>2
    <3>2. /\ source' \in Log /\ Len(source') = n - 1 + 1
          /\ \A i \in 1..(n - 1 + 1) : source'[i] = log[1 + i - 1]
          /\ Elements(source') \subseteq Elements(log)
      BY <2>1, <2>2, <3>1, SubSeqFacts
    <3> QED BY <2>2, <3>1, <3>2
  <2>4. source' # <<>>
    BY <2>2, <2>3, LogFacts
  <2>5. Elements(log) \subseteq Entries
    BY <1>h DEF Entries
  <2>6. TypeOK'
    BY <1>t, <2>1, <2>3
    DEF TypeInv, TypeOK, member, fetching, applierThread, local, Term
  <2>7. Held' = Held /\ KnownTerm' = KnownTerm /\ Entries' \subseteq Entries
    BY <2>1, <2>3, <2>5, HeldFacts DEF member, fetching, applierThread, local, KnownTerm, Entries
  <2>8. \A e \in Entries : e.term <= newestTerm
    <3>1. \A e \in Entries : e.term \in Nat
      BY HeldFacts, EntryFacts DEF TypeInv
    <3>2. KnownTerm \in Nat /\ KnownTerm <= newestTerm
      BY <1>t DEF TypeInv, TermInv, KnownTerm
    <3>3. \A e \in Held : e.term <= KnownTerm
      BY DEF TypeInv, EntryInv
    <3>4. \A e \in Elements(source) : e.term <= sourceTerm
      BY DEF TypeInv, EntryInv
    <3>5. sourceTerm <= newestTerm
      BY DEF TypeInv, TermInv
    <3> QED BY <1>t, <3>1, <3>2, <3>3, <3>4, <3>5 DEF Entries
  <2>9. \A e \in Entries : e.term \in Nat
    BY HeldFacts, EntryFacts DEF TypeInv
  <2>10. \A e \in Elements(source)' : e.term <= sourceTerm'
    BY <1>t, <2>1, <2>3, <2>5, <2>8, <2>9
  <2>11. EntryInv'
    BY <2>1, <2>7, <2>10 DEF TypeInv, EntryInv, member
  <2>12. TermInv'
    BY <1>t, <2>1 DEF TypeInv, TermInv, member, Primary, applierThread
  <2>13. ShapeInv'
    BY <1>0, <2>1, <2>3, <2>4 DEF TypeInv, ShapeInv, fetching, applierThread, local
  <2> QED BY <2>6, <2>11, <2>12, <2>13 DEF TypeInv
<1>5. CASE WinElection
  <2>1. /\ mode = "secondary" /\ newestTerm < MaxTerm
        /\ newestTerm' = newestTerm + 1 /\ term' = newestTerm + 1 /\ mode' = "catchup"
        /\ UNCHANGED <<pendingTerm, source, sourceTerm, local, state, lastFetched,
                       fetching, buffer, batch, ops, applierThread, failed>>
    BY <1>5 DEF WinElection
  <2>2. TypeOK'
    BY <1>t, <2>1 DEF TypeInv, TypeOK, fetching, applierThread, local, Term
  <2>3. Held' = Held /\ Entries' = Entries
    BY <2>1, HeldFacts DEF fetching, applierThread, local, Entries
  <2>4. pendingTerm = 0 /\ KnownTerm = term /\ KnownTerm' = newestTerm + 1
    BY <2>1 DEF TypeInv, TermInv, Primary, KnownTerm
  <2>5. \A e \in Entries : e.term <= newestTerm /\ e.term \in Nat
    <3>1. \A e \in Entries : e.term \in Nat
      BY HeldFacts, EntryFacts DEF TypeInv
    <3>2. \A e \in Held : e.term <= term
      BY <2>4 DEF TypeInv, EntryInv
    <3>3. \A e \in Elements(source) : e.term <= sourceTerm
      BY DEF TypeInv, EntryInv
    <3>4. sourceTerm <= newestTerm /\ term <= newestTerm
      BY DEF TypeInv, TermInv
    <3> QED BY <1>t, <3>1, <3>2, <3>3, <3>4 DEF Entries
  <2>6. \A e \in Entries : e.term <= newestTerm + 1 /\ e.term # newestTerm + 1
    BY <1>t, <2>5
  <2>7. EntryInv'
    BY <2>1, <2>3, <2>4, <2>6 DEF TypeInv, EntryInv, Entries
  <2>8. TermInv'
    BY <1>t, <2>1, <2>4 DEF TypeInv, TermInv, Primary, applierThread
  <2>9. ShapeInv'
    BY <1>0, <2>1 DEF TypeInv, ShapeInv, fetching, applierThread, local
  <2> QED BY <2>2, <2>7, <2>8, <2>9 DEF TypeInv
<1>6. CASE EndCatchup
  <2>1. TypeOK'
    BY <1>6 DEF EndCatchup, EnterDrainMode, TypeInv, TypeOK, others, local, fetching,
                applierThread
  <2> QED BY <1>2, <1>6, <2>1 DEF EndCatchup, EnterDrainMode, Primary, others, local,
                fetching, applierThread
<1>7. CASE StepDown
  <2>1. /\ Primary /\ mode' = "secondary"
        /\ term' = (IF pendingTerm = 0 THEN term ELSE pendingTerm) /\ pendingTerm' = 0
        /\ state' = (IF state = "Stopped" THEN "Starting" ELSE state)
        /\ UNCHANGED <<others, local, lastFetched, fetching, buffer, batch, ops,
                       applierThread, failed>>
    BY <1>7 DEF StepDown, StartProducerIfStopped
  <2>2. TypeOK'
    <3>1. term' \in Term /\ pendingTerm' \in 0..MaxTerm
      BY <1>t, <2>1 DEF TypeInv, TypeOK, Term
    <3> QED BY <2>1, <3>1 DEF TypeInv, TypeOK, others, local, fetching, applierThread
  <2>3. Held' \subseteq Held /\ UNCHANGED <<source, sourceTerm>>
    BY <2>1, HeldFacts DEF others, local, fetching, applierThread
  <2>4. KnownTerm' >= KnownTerm
    BY <1>t, <2>1 DEF KnownTerm
  <2>5. EntryInv'
    BY <2>1, <2>2, <2>3, <2>4, EntriesKept
  <2>6. TermInv'
    BY <1>t, <2>1 DEF TypeInv, TermInv, Primary, others, applierThread
  <2>7. ShapeInv'
    BY <1>0, <2>1 DEF TypeInv, ShapeInv, fetching, applierThread, local, others
  <2> QED BY <2>2, <2>5, <2>6, <2>7 DEF TypeInv
\* An entry of the own term.
<1>8. ASSUME pendingTerm = 0 \/ mode = "primary", LogOp, mode' = "primary", Primary,
             Top(oplog).ts < MaxTs \/ (mode \in {"catchup", "draining"} /\ pendingTerm = 0),
             UNCHANGED <<others, term, pendingTerm, state, lastFetched, fetching, buffer,
                         batch, ops, applying, termRead, startOfBatch, failed>>,
             applier' \in {applier, "idle"}
      PROVE  TypeInv'
  <2> DEFINE e == NewEntry(oplog, term)
  <2>1. /\ e \in Entry /\ oplog' \in Log /\ oplog' # <<>> /\ oplog'[1] = oplog[1]
        /\ EntryInv' /\ oplog' = Append(oplog, e) /\ lastApplied' = e
        /\ links' = links \union {<<Top(oplog), e>>} /\ Top(oplog) \in Entry
    BY <1>8, LogOpFacts DEF fetching, LogOp
  <2> HIDE DEF e
  <2>2. TypeOK'
    BY <1>8, <2>1 DEF TypeInv, TypeOK, others, fetching
  <2>3. TermInv'
    BY <1>8 DEF TypeInv, TermInv, Primary, others
  <2>4. ShapeInv'
    BY <1>0, <1>8, <2>1 DEF TypeInv, ShapeInv, others, fetching
  <2> QED BY <2>1, <2>2, <2>3, <2>4 DEF TypeInv
<1>9. CASE PrimaryWrite
  BY <1>8, <1>9 DEF PrimaryWrite, Primary, member, applierThread
<1>10. CASE ReadLastApplied
  <2>1. TypeOK'
    BY <1>0, <1>10, LogFacts
    DEF ReadLastApplied, TypeInv, TypeOK, OpTime, others, member, local, applierThread
  <2> QED BY <1>2, <1>10, <2>1
    DEF ReadLastApplied, others, member, local, applierThread, Primary, TypeInv, TermInv
<1>11. CASE Start
  <2>1. TypeOK'
    BY <1>11 DEF Start, SetLastFetched, TypeInv, TypeOK, others, member, local, applierThread
  <2> QED BY <1>2, <1>11, <2>1
    DEF Start, others, member, local, applierThread, Primary, TypeInv, TermInv
<1>12. CASE StartFetcher
  <2>1. TypeOK'
    BY <1>12 DEF StartFetcher, TypeInv, TypeOK, others, member, local, applierThread
  <2> QED BY <1>2, <1>12, <2>1
    DEF StartFetcher, others, member, local, applierThread, Primary, TypeInv, TermInv
<1>13. CASE FetcherEnds
  <2>1. TypeOK'
    BY <1>13 DEF FetcherEnds, TypeInv, TypeOK, others, member, local, applierThread
  <2> QED BY <1>2, <1>13, <2>1
    DEF FetcherEnds, others, member, local, applierThread, Primary, TypeInv, TermInv
<1>14. ASSUME NEW n \in 1..BatchLimit, FetchDocuments(n) PROVE TypeInv'
  <2>1. /\ producer' = "enqueue" /\ mode' = mode
        /\ term' = (IF sourceTerm > term /\ ~Primary THEN sourceTerm ELSE term)
        /\ pendingTerm' = (IF sourceTerm > term /\ Primary THEN sourceTerm ELSE pendingTerm)
        /\ UNCHANGED <<others, local, state, lastFetched, cursor, buffer, batch,
                       ops, applierThread, failed>>
    BY <1>14 DEF FetchDocuments, UpdateTerm
  <2>2. /\ docs' \in Log /\ docs' # <<>> /\ Elements(docs') \subseteq Elements(source)
    <3>1. PICK i \in DOMAIN source : i + n <= Len(source) /\ docs' = SubSeq(source, i + 1, i + n)
      BY <1>14 DEF FetchDocuments, FollowingEntries
    <3>2. /\ i + 1 \in 1..(Len(source) + 1) /\ i + n \in ((i + 1) - 1)..Len(source)
          /\ (i + n) - (i + 1) + 1 = n
      <4>1. n \in Nat /\ n # 0 /\ i \in Nat /\ i # 0 /\ Len(source) \in Nat
        BY <1>0, LogFacts, EntryFacts, SMTT(30)
      <4>2. i + n <= Len(source)
        BY <3>1
      <4>3. ASSUME NEW a \in Nat, NEW b \in Nat, NEW c \in Nat, a + b <= c, a # 0
            PROVE  /\ a + 1 \in 1..(c + 1) /\ a + b \in ((a + 1) - 1)..c
                   /\ (a + b) - (a + 1) + 1 = b
        BY <4>3
      <4> QED BY <4>1, <4>2, <4>3
    <3>3. docs' \in Log /\ Len(docs') = n /\ Elements(docs') \subseteq Elements(source)
      BY <1>0, <3>1, <3>2, SubSeqFacts
    <3>4. n # 0
      BY EntryFacts
    <3> QED BY <3>3, <3>4, LogFacts
  <2>3. /\ KnownTerm \in Nat /\ KnownTerm' \in Nat
        /\ KnownTerm' >= KnownTerm /\ KnownTerm' >= sourceTerm
    BY <1>t, <2>1 DEF KnownTerm, Primary, TypeInv, TermInv
  <2>4. TypeOK'
    <3>1. term' \in Term /\ pendingTerm' \in 0..MaxTerm
      BY <1>t, <2>1 DEF TypeInv, TypeOK, Term
    <3> QED BY <2>1, <2>2, <3>1 DEF TypeInv, TypeOK, others, local, applierThread
  <2>5. Held' \subseteq Held \union Elements(source) /\ Entries' \subseteq Entries
    BY <1>h, <2>1, <2>2 DEF Entries, others, local, applierThread
  <2>6. \A e \in Held' : e.term <= KnownTerm'
    <3>1. \A e \in Entries : e.term \in Nat
      BY HeldFacts, EntryFacts DEF TypeInv
    <3>2. \A e \in Held : e.term <= KnownTerm
      BY DEF TypeInv, EntryInv
    <3>3. \A e \in Elements(source) : e.term <= sourceTerm
      BY DEF TypeInv, EntryInv
    <3> QED BY <1>t, <2>3, <2>5, <3>1, <3>2, <3>3 DEF Entries
  <2>7. mode \in {"catchup", "draining"} => term' = term
    BY <2>1 DEF Primary
  <2>8. EntryInv'
    BY <2>1, <2>5, <2>6, <2>7 DEF TypeInv, EntryInv, others
  <2>9. TermInv'
    BY <1>t, <2>1 DEF TypeInv, TermInv, Primary, others, applierThread
  <2>10. ShapeInv'
    BY <1>0, <2>1, <2>2 DEF TypeInv, ShapeInv, others, local, applierThread
  <2> QED BY <2>4, <2>8, <2>9, <2>10 DEF TypeInv
<1>15. CASE FetchFindsDivergence
  <2>1. TypeOK'
    BY <1>15 DEF FetchFindsDivergence, TypeInv, TypeOK, others, member, local, applierThread
  <2> QED BY <1>2, <1>15, <2>1
    DEF FetchFindsDivergence, others, member, local, applierThread, Primary, TypeInv, TermInv
<1>16. CASE EnqueueDocuments
  <2>1. /\ producer = "enqueue" /\ producer' = "enqueued"
        /\ Len(buffer) + Len(docs) <= BufferSize
        /\ buffer' \in {buffer, buffer \o docs}
        /\ lastFetched' \in {lastFetched, Top(docs)}
        /\ UNCHANGED <<others, member, local, state, cursor, docs, batch, ops,
                       applierThread, failed>>
    BY <1>16 DEF EnqueueDocuments
  <2>2. docs # <<>> /\ Top(docs) \in Entry
    BY <1>0, <2>1, LogFacts DEF TypeInv, ShapeInv
  <2>3. /\ buffer \o docs \in Log /\ Len(buffer \o docs) = Len(buffer) + Len(docs)
        /\ Elements(buffer \o docs) = Elements(buffer) \union Elements(docs)
    BY <1>0, ConcatFacts
  <2>4. buffer' \in Log /\ Len(buffer') <= BufferSize /\ lastFetched' \in OpTime
    BY <2>1, <2>2, <2>3 DEF TypeInv, TypeOK, OpTime
  <2>5. TypeOK'
    BY <2>1, <2>4 DEF TypeInv, TypeOK, others, member, local, applierThread
  <2>6. Held' \subseteq Held
    BY <1>h, <2>1, <2>3 DEF others, member, local, applierThread
  <2> QED BY <1>1, <2>1, <2>5, <2>6
    DEF others, member, local, applierThread, Primary, TypeInv, TermInv, ShapeInv
<1>17. CASE ShouldStopFetching
  <2>1. /\ producer = "enqueued" /\ producer' \in {"fetching", "idle"}
        /\ cursor' \in {cursor, Top(docs)} /\ docs' \in {docs, <<>>}
        /\ UNCHANGED <<others, member, local, state, lastFetched, buffer, batch, ops,
                       applierThread, failed>>
    BY <1>17 DEF ShouldStopFetching
  <2>2. Top(docs) \in OpTime /\ docs' \in Log
    BY <1>0, <2>1, LogFacts, EmptyFacts DEF TypeInv, ShapeInv, OpTime
  <2>3. TypeOK'
    BY <2>1, <2>2 DEF TypeInv, TypeOK, others, member, local, applierThread
  <2> QED BY <1>2, <2>1, <2>3
    DEF others, member, local, applierThread, Primary, TypeInv, TermInv
<1>18. CASE RunRollback
  <2>1. TypeOK'
    BY <1>18 DEF RunRollback, EnterDrainMode, TypeInv, TypeOK, others, local, applierThread
  <2> QED BY <1>2, <1>18, <2>1
    DEF RunRollback, EnterDrainMode, others, local, applierThread, Primary, TypeInv, TermInv
<1>19. CASE RollbackWaits
  <2>1. TypeOK'
    BY <1>19 DEF RollbackWaits, TypeInv, TypeOK, others, member, local, applierThread
  <2> QED BY <1>2, <1>19, <2>1
    DEF RollbackWaits, others, member, local, applierThread, Primary, TypeInv, TermInv
<1>20. CASE RollbackChecksState
  <2>1. TypeOK'
    BY <1>20 DEF RollbackChecksState, TypeInv, TypeOK, others, member, local, applierThread
  <2> QED BY <1>2, <1>20, <2>1
    DEF RollbackChecksState, others, member, local, applierThread, Primary, TypeInv, TermInv
<1>21. CASE RollbackSucceeds
  <2> DEFINE n == CommonPoint
  <2>1. /\ producer = "rollback" /\ producer' = "reset"
        /\ oplog' = SubSeq(oplog, 1, n) /\ lastApplied' = oplog[n]
        /\ UNCHANGED <<others, member, links, state, lastFetched, cursor, docs, buffer,
                       batch, ops, applierThread, failed>>
    BY <1>21 DEF RollbackSucceeds
  <2>2. n \in 1..Len(oplog) /\ Len(oplog) \in Nat /\ oplog[n] \in Entry
    BY <1>0, CommonPointFacts, LogFacts
  <2> HIDE DEF n
  <2>3. /\ oplog' \in Log /\ Len(oplog') = n /\ oplog'[1] = oplog[1]
        /\ Elements(oplog') \subseteq Elements(oplog)
    <3>1. 1 \in 1..(Len(oplog) + 1) /\ n \in (1 - 1)..Len(oplog) /\ 1 \in 1..(n - 1 + 1)
      BY <2>2
    <3>2. /\ oplog' \in Log /\ Len(oplog') = n - 1 + 1
          /\ \A i \in 1..(n - 1 + 1) : oplog'[i] = oplog[1 + i - 1]
          /\ Elements(oplog') \subseteq Elements(oplog)
      BY <1>0, <2>1, <3>1, SubSeqFacts
    <3> QED BY <2>2, <3>1, <3>2
  <2>4. oplog' # <<>>
    BY <2>2, <2>3, LogFacts
  <2>5. TypeOK'
    BY <2>1, <2>2, <2>3 DEF TypeInv, TypeOK, others, member, applierThread
  <2>6. Held' \subseteq Held
    BY <1>h, <2>1, <2>3 DEF others, member, applierThread
  <2>7. EntryInv'
    BY <2>1, <2>5, <2>6, EntriesSame DEF others, member
  <2>8. TermInv'
    BY <2>1 DEF TypeInv, TermInv, others, member, applierThread, Primary
  <2>9. ShapeInv'
    BY <1>0, <2>1, <2>3, <2>4 DEF TypeInv, ShapeInv, others, applierThread
  <2> QED BY <2>5, <2>7, <2>8, <2>9 DEF TypeInv
<1>22. CASE RollbackFails
  <2>1. TypeOK'
    BY <1>22 DEF RollbackFails, TypeInv, TypeOK, others, member, local, applierThread
  <2> QED BY <1>2, <1>22, <2>1
    DEF RollbackFails, others, member, local, applierThread, Primary, TypeInv, TermInv
\* The process aborts.
<1>23. ASSUME NEW f \in {"BufferNotEmpty", "OplogOutOfOrder", "LastAppliedChanged",
                         "CannotApplyOplogWhilePrimary"}, Fail(f)
       PROVE  TypeInv'
  <2>1. TypeOK'
    BY <1>23 DEF Fail, TypeInv, TypeOK, others, member, local, fetching, applierThread
  <2> QED BY <1>2, <1>23, <2>1
    DEF Fail, others, member, local, fetching, applierThread, Primary, TypeInv, TermInv
<1>24. CASE Stop
  <2>1. CASE buffer = <<>>
    <3>1. TypeOK'
      BY <1>24, <2>1
      DEF Stop, TypeInv, TypeOK, OpTime, others, member, local, applierThread
    <3> QED BY <1>2, <1>24, <2>1, <3>1
      DEF Stop, others, member, local, applierThread, Primary, TypeInv, TermInv
  <2>2. CASE buffer # <<>>
    BY <1>23, <1>24, <2>2 DEF Stop
  <2> QED BY <2>1, <2>2
<1>25. CASE Restart
  <2>1. TypeOK'
    BY <1>25
    DEF Restart, StartProducerIfStopped, TypeInv, TypeOK, others, member, local, applierThread
  <2> QED BY <1>2, <1>25, <2>1
    DEF Restart, others, member, local, applierThread, Primary, TypeInv, TermInv
<1>26. CASE EmitBatch
  <2>1. /\ ops' = batch /\ batch' = <<>>
        /\ UNCHANGED <<others, member, local, state, lastFetched, fetching, buffer,
                       applierThread, failed>>
    BY <1>26 DEF EmitBatch
  <2>2. batch' \in Log /\ Len(batch') = 0 /\ Elements(batch') = {}
    BY <2>1, EmptyFacts
  <2>3. TypeOK'
    BY <1>0, <2>1, <2>2 DEF TypeInv, TypeOK, ShapeInv, others, member, local, fetching,
                          applierThread
  <2>4. Held' \subseteq Held
    BY <1>h, <2>1, <2>2 DEF others, member, local, fetching, applierThread
  <2> QED BY <1>1, <2>1, <2>2, <2>3, <2>4, EntryFacts
    DEF others, member, local, fetching, applierThread, Primary, TypeInv, TermInv, ShapeInv
<1>27. ASSUME NEW n \in 1..BatchLimit, FillBatch(n) PROVE TypeInv'
  <2>1. /\ n <= Len(buffer) /\ batch' = SubSeq(buffer, 1, n)
        /\ buffer' = SubSeq(buffer, n + 1, Len(buffer))
        /\ UNCHANGED <<others, member, local, state, lastFetched, fetching, ops,
                       applierThread, failed>>
    BY <1>27 DEF FillBatch
  <2>2. /\ 1 \in 1..(Len(buffer) + 1) /\ n \in (1 - 1)..Len(buffer) /\ n - 1 + 1 = n
        /\ n + 1 \in 1..(Len(buffer) + 1) /\ Len(buffer) \in ((n + 1) - 1)..Len(buffer)
        /\ Len(buffer) - (n + 1) + 1 <= Len(buffer) /\ n <= BatchLimit /\ Len(buffer) \in Nat
    <3>1. n \in Nat /\ n # 0 /\ n <= BatchLimit /\ Len(buffer) \in Nat
      BY <1>0, LogFacts, EntryFacts
    <3> QED BY <2>1, <3>1
  <2>3. batch' \in Log /\ Len(batch') = n /\ Elements(batch') \subseteq Elements(buffer)
    BY <1>0, <2>1, <2>2, SubSeqFacts
  <2>4. /\ buffer' \in Log /\ Len(buffer') = Len(buffer) - (n + 1) + 1
        /\ Elements(buffer') \subseteq Elements(buffer)
    BY <1>0, <2>1, <2>2, SubSeqFacts
  <2>5. Len(buffer') <= BufferSize
    <3>1. Len(buffer) <= BufferSize
      BY DEF TypeInv, TypeOK
    <3> QED BY <2>2, <2>4, <3>1, EntryFacts
  <2>6. TypeOK'
    BY <2>1, <2>3, <2>4, <2>5 DEF TypeInv, TypeOK, others, member, local, fetching,
                          applierThread
  <2>7. Held' \subseteq Held
    BY <1>h, <2>1, <2>3, <2>4 DEF others, member, local, fetching, applierThread
  <2> QED BY <1>1, <2>1, <2>2, <2>3, <2>6, <2>7
    DEF others, member, local, fetching, applierThread, Primary, TypeInv, TermInv, ShapeInv
<1>28. CASE ReadTerm
  <2>1. TypeOK'
    BY <1>28, <1>t DEF ReadTerm, TypeInv, TypeOK, others, member, local, fetching, Term
  <2> QED BY <1>2, <1>28, <2>1
    DEF ReadTerm, others, member, local, fetching, Primary, TypeInv, TermInv
<1>29. CASE TakeBatch
  <2>1. CASE Less(lastApplied, Head(ops))
    <3>1. /\ ops # <<>> /\ applying' = ops /\ ops' = <<>> /\ startOfBatch' = lastApplied
          /\ applier' = "taken"
          /\ UNCHANGED <<others, member, local, state, lastFetched, fetching, buffer,
                         batch, termRead, failed>>
      BY <1>29, <2>1 DEF TakeBatch
    <3>2. ops' \in Log /\ Len(ops') = 0 /\ Elements(ops') = {}
      BY <3>1, EmptyFacts
    <3>3. TypeOK'
      BY <1>0, <3>1, <3>2, EntryFacts
      DEF TypeInv, TypeOK, OpTime, others, member, local, fetching
    <3>4. Held' \subseteq Held
      BY <1>h, <3>1, <3>2 DEF others, member, local, fetching
    <3> QED BY <1>1, <3>1, <3>3, <3>4
      DEF others, member, local, fetching, Primary, TypeInv, TermInv, ShapeInv
  <2>2. CASE ~Less(lastApplied, Head(ops))
    BY <1>23, <1>29, <2>2 DEF TakeBatch
  <2> QED BY <2>1, <2>2
<1>30. CASE TakeNothing
  <2>1. TypeOK'
    BY <1>30 DEF TakeNothing, TypeInv, TypeOK, others, member, local, fetching
  <2> QED BY <1>2, <1>30, <2>1
    DEF TakeNothing, others, member, local, fetching, Primary, TypeInv, TermInv
<1>31. CASE SignalDrainComplete
  <2>1. CASE CanExitDrainMode
    BY <1>8, <1>31, <2>1 DEF SignalDrainComplete, CanExitDrainMode, Primary
  <2>2. CASE ~CanExitDrainMode
    <3>1. /\ applier' = "idle" /\ UNCHANGED <<mode, local>>
          /\ UNCHANGED <<others, term, pendingTerm, state, lastFetched, fetching, buffer,
                         batch, ops, applying, termRead, startOfBatch, failed>>
      BY <1>31, <2>2 DEF SignalDrainComplete
    <3>2. TypeOK'
      BY <3>1 DEF TypeInv, TypeOK, others, local, fetching
    <3> QED BY <1>2, <3>1, <3>2 DEF others, local, fetching, Primary, TypeInv, TermInv
  <2> QED BY <2>1, <2>2
<1>32. CASE MultiApply
  <2>1. CASE mode = "primary"
    BY <1>23, <1>32, <2>1 DEF MultiApply
  <2>2. CASE mode # "primary"
    <3>1. /\ applier = "taken" /\ oplog' = oplog \o applying /\ applier' = "applied"
          /\ UNCHANGED <<others, member, lastApplied, links, state, lastFetched,
                         fetching, buffer, batch, ops, applying, termRead,
                         startOfBatch, failed>>
      BY <1>32, <2>2 DEF MultiApply
    <3>2. /\ oplog' \in Log /\ oplog'[1] = oplog[1] /\ oplog' # <<>>
          /\ Elements(oplog') = Elements(oplog) \union Elements(applying)
      <4>1. 1 \in DOMAIN oplog
        BY <1>0, LogFacts
      <4> QED BY <1>0, <3>1, <4>1, ConcatFacts, SMTT(30)
    <3>3. TypeOK'
      BY <3>1, <3>2 DEF TypeInv, TypeOK, others, member, fetching
    <3>4. Held' \subseteq Held
      BY <1>h, <3>1, <3>2 DEF others, member, fetching
    <3>5. EntryInv'
      BY <3>1, <3>3, <3>4, EntriesSame DEF others, member
    <3>6. TermInv'
      BY <3>1 DEF TypeInv, TermInv, others, member, Primary
    <3>7. ShapeInv'
      BY <1>0, <3>1, <3>2 DEF TypeInv, ShapeInv, others, fetching
    <3> QED BY <3>3, <3>5, <3>6, <3>7 DEF TypeInv
  <2> QED BY <2>1, <2>2
<1>33. CASE FinalizeBatch
  <2>1. CASE lastApplied = startOfBatch
    <3>1. /\ applier = "applied" /\ lastApplied' = Top(applying) /\ applying' = <<>>
          /\ applier' = "idle"
          /\ UNCHANGED <<others, member, oplog, links, state, lastFetched, fetching,
                         buffer, batch, ops, termRead, startOfBatch, failed>>
      BY <1>33, <2>1 DEF FinalizeBatch
    <3>2. applying' \in Log /\ Elements(applying') = {}
      BY <3>1, EmptyFacts
    <3>3. Top(applying) \in Entry
      BY <1>0, <3>1, LogFacts DEF TypeInv, ShapeInv
    <3>4. TypeOK'
      BY <3>1, <3>2, <3>3 DEF TypeInv, TypeOK, others, member, fetching
    <3>5. Held' \subseteq Held
      BY <1>h, <3>1, <3>2 DEF others, member, fetching
    <3> QED BY <1>1, <3>1, <3>4, <3>5
      DEF others, member, fetching, Primary, TypeInv, TermInv, ShapeInv
  <2>2. CASE lastApplied # startOfBatch
    BY <1>23, <1>33, <2>2 DEF FinalizeBatch
  <2> QED BY <2>1, <2>2
<1>34. CASE UNCHANGED vars
  <2>1. TypeOK'
    BY <1>34
    DEF vars, TypeInv, TypeOK, others, member, local, fetching, applierThread
  <2> QED BY <1>2, <1>34, <2>1
    DEF vars, others, member, local, fetching, applierThread, Primary, TypeInv, TermInv
<1>35. CASE EnvironmentStep
  BY <1>3, <1>4, <1>5, <1>6, <1>7, <1>9, <1>35 DEF EnvironmentStep
<1>36. CASE ProducerStep
  BY <1>10, <1>11, <1>12, <1>13, <1>14, <1>15, <1>16, <1>17, <1>18, <1>19, <1>20, <1>21,
     <1>22, <1>24, <1>25, <1>36
  DEF ProducerStep
<1>37. CASE BatcherStep \/ ApplierStep
  BY <1>26, <1>27, <1>28, <1>29, <1>30, <1>31, <1>32, <1>33, <1>37 DEF BatcherStep, ApplierStep
<1> QED BY <1>34, <1>35, <1>36, <1>37 DEF Next

\* In every state of every behaviour, whichever races may happen, every variable has its
\* type: the buffer keeps its limit, a batch is never empty when it is applied, and the
\* terms and the entries that the threads of BackgroundSync and SyncTail pass on are ones
\* that somebody has written.
THEOREM TypeCorrect == Spec => []TypeOK
<1>1. Spec => []TypeInv
  BY TypesStart, TypesKept, PTL DEF Spec
<1>2. TypeInv => TypeOK
  BY DEF TypeInv
<1> QED BY <1>1, <1>2, PTL

-----------------------------------------------------------------------------
(* Histories. *)

\* OpTimes are ordered.
LEMMA OpTimeFacts ==
    /\ \A a \in OpTime : a.term \in Nat /\ a.ts \in Nat
    /\ \A a, b \in OpTime : a.term = b.term /\ a.ts = b.ts => a = b
    /\ Entry \subseteq OpTime /\ NullOpTime \in OpTime
<1>1. \A a \in OpTime : a.term \in Nat /\ a.ts \in Nat
  BY EntryFacts DEF OpTime
<1>2. ASSUME NEW a \in OpTime, NEW b \in OpTime, a.term = b.term, a.ts = b.ts PROVE a = b
  <2>1. \A e \in Entry : e.term # 0
    BY EntryFacts
  <2> QED BY <1>2, <2>1, EntryEqual, EntryFacts DEF OpTime
<1> QED BY <1>1, <1>2 DEF OpTime

LEMMA LessFacts ==
    ASSUME NEW a \in OpTime, NEW b \in OpTime, NEW c \in OpTime
    PROVE  /\ ~Less(a, a) /\ ~Less(a, NullOpTime)
           /\ Less(a, b) => ~Less(b, a)
           /\ ~Less(a, b) /\ ~Less(b, a) => a = b
           /\ Less(a, b) /\ Less(b, c) => Less(a, c)
           /\ ~Less(a, b) /\ Less(a, c) => ~Less(c, b)
           /\ Less(a, b) /\ ~Less(c, b) => Less(a, c)
<1>1. /\ a.term \in Nat /\ a.ts \in Nat /\ b.term \in Nat /\ b.ts \in Nat
      /\ c.term \in Nat /\ c.ts \in Nat /\ NullOpTime.term = 0 /\ NullOpTime.ts = 0
  BY OpTimeFacts, EntryFacts
<1>2. ~Less(a, b) /\ ~Less(b, a) => a = b
  <2>1. ~Less(a, b) /\ ~Less(b, a) => a.term = b.term /\ a.ts = b.ts
    BY <1>1 DEF Less
  <2> QED BY <2>1, OpTimeFacts
<1> QED BY <1>1, <1>2 DEF Less

\* In a history the order of the optimes is the order of the entries.
LEMMA HistoryOrder ==
    ASSUME NEW l \in Log, NEW pairs, History(l, pairs), NEW i \in DOMAIN l, NEW j \in DOMAIN l
    PROVE  Less(l[i], l[j]) <=> i < j
<1>1. /\ l[i].ts = i /\ l[j].ts = j /\ l[i].term \in Nat /\ l[j].term \in Nat
      /\ i \in Nat /\ j \in Nat
  BY LogFacts, EntryFacts DEF History
<1>2. (i <= j => l[i].term <= l[j].term) /\ (j <= i => l[j].term <= l[i].term)
  BY DEF History
<1> QED BY <1>1, <1>2 DEF Less

\* What a history begins with is a history.
LEMMA HistoryPrefix ==
    ASSUME NEW l \in Log, NEW pairs, History(l, pairs), NEW n \in 1..Len(l)
    PROVE  /\ History(SubSeq(l, 1, n), pairs) /\ Top(SubSeq(l, 1, n)) = l[n]
           /\ SubSeq(l, 1, n) \in Log /\ SubSeq(l, 1, n) # <<>>
<1> DEFINE s == SubSeq(l, 1, n)
<1>1. /\ n \in Nat /\ n # 0 /\ n <= Len(l) /\ Len(l) \in Nat /\ DOMAIN l = 1..Len(l)
  BY LogFacts
<1>2. 1 \in 1..(Len(l) + 1) /\ n \in (1 - 1)..Len(l) /\ n - 1 + 1 = n
  BY <1>1
<1>3. /\ s \in Log /\ Len(s) = n /\ DOMAIN s = 1..n
      /\ \A i \in 1..n : s[i] = l[1 + i - 1]
  BY <1>2, SubSeqFacts
<1> HIDE DEF s
<1>4. \A i \in DOMAIN s : s[i] = l[i] /\ i \in DOMAIN l
  BY <1>1, <1>3
<1>5. s # <<>> /\ 1 \in DOMAIN s /\ n \in DOMAIN s
  BY <1>1, <1>3, LogFacts
<1>6. Top(s) = l[n]
  BY <1>3, <1>4, <1>5 DEF Top
<1>7. History(s, pairs)
  <2>1. \A i \in 2..Len(s) : i \in DOMAIN s /\ i - 1 \in DOMAIN s /\ i \in 2..Len(l)
    BY <1>1, <1>3
  <2> QED BY <1>4, <1>5, <2>1 DEF History
<1> QED BY <1>3, <1>5, <1>6, <1>7 DEF s

\* A history that is continued is a history.
LEMMA HistoryExtended ==
    ASSUME NEW l \in Log, NEW m \in Log, NEW pairs, History(l, pairs),
           Continues(Top(l), m, pairs)
    PROVE  History(l \o m, pairs)
<1> DEFINE c == l \o m
           n == Len(l)
<1>1. /\ n \in Nat /\ n # 0 /\ Len(m) \in Nat /\ DOMAIN l = 1..n /\ DOMAIN m = 1..Len(m)
      /\ n \in DOMAIN l /\ 1 \in DOMAIN l /\ Top(l) = l[n] /\ Top(l).ts = n
  BY LogFacts DEF History, Top
<1>2. /\ c \in Log /\ Len(c) = n + Len(m) /\ DOMAIN c = 1..(n + Len(m))
      /\ \A i \in DOMAIN l : c[i] = l[i]
      /\ \A i \in DOMAIN c : i \in DOMAIN l \/ (i - n \in DOMAIN m /\ c[i] = m[i - n])
  BY ConcatFacts, LogFacts, ZenonT(30)
<1>3. /\ \A i \in DOMAIN l : l[i].term \in Nat
      /\ \A i \in DOMAIN m : m[i].term \in Nat
  BY LogFacts, EntryFacts
<1> HIDE DEF c, n
<1>4. \A i \in DOMAIN c : c[i].ts = i
  <2> TAKE i \in DOMAIN c
  <2>1. CASE i \in DOMAIN l
    BY <1>2, <2>1 DEF History
  <2>2. CASE i - n \in DOMAIN m /\ c[i] = m[i - n]
    <3>1. c[i].ts = n + (i - n)
      BY <1>1, <2>2 DEF Continues
    <3>2. n + (i - n) = i
      BY <1>1, <1>2
    <3> QED BY <3>1, <3>2
  <2> QED BY <1>2, <2>1, <2>2
<1>5. ASSUME NEW i \in DOMAIN c, NEW j \in DOMAIN c, i <= j PROVE c[i].term <= c[j].term
  <2>1. CASE i \in DOMAIN l /\ j \in DOMAIN l
    BY <1>2, <1>5, <2>1 DEF History
  <2>2. CASE i \in DOMAIN l /\ j - n \in DOMAIN m /\ c[j] = m[j - n]
    <3>1. l[i].term <= l[n].term
      BY <1>1, <2>2 DEF History
    <3>2. l[n].term <= m[j - n].term
      BY <1>1, <2>2 DEF Continues
    <3>3. l[i].term \in Nat /\ l[n].term \in Nat /\ m[j - n].term \in Nat
      BY <1>1, <1>3, <2>2
    <3>4. l[i].term <= m[j - n].term
      BY <3>1, <3>2, <3>3
    <3> QED BY <1>2, <2>2, <3>4
  <2>3. CASE /\ i - n \in DOMAIN m /\ c[i] = m[i - n]
             /\ j - n \in DOMAIN m /\ c[j] = m[j - n]
    <3>1. i - n <= j - n
      BY <1>1, <1>2, <1>5
    <3> QED BY <2>3, <3>1 DEF Continues
  <2>4. CASE /\ i - n \in DOMAIN m /\ c[i] = m[i - n] /\ j \in DOMAIN l
    BY <1>1, <1>2, <1>5, <2>4
  <2> QED BY <1>2, <2>1, <2>2, <2>3, <2>4
<1>6. ASSUME NEW i \in 2..Len(c) PROVE <<c[i - 1], c[i]>> \in pairs
  <2>0. i \in DOMAIN c /\ i - 1 \in DOMAIN c /\ i \in Nat
    BY <1>1, <1>2
  <2>1. CASE i \in DOMAIN l
    <3>1. i \in 2..Len(l) /\ i - 1 \in DOMAIN l
      BY <1>1, <2>1 DEF n
    <3> QED BY <1>2, <2>1, <3>1 DEF History
  <2>2. CASE i \notin DOMAIN l
    <3>1. i - n \in DOMAIN m /\ c[i] = m[i - n]
      BY <1>2, <2>0, <2>2
    <3>2. CASE i - n = 1
      <4>1. i - 1 = n /\ c[i - 1] = Top(l)
        BY <1>1, <1>2, <2>0, <3>2
      <4> QED BY <3>1, <3>2, <4>1 DEF Continues
    <3>3. CASE i - n # 1
      <4>1. i - 1 \notin DOMAIN l /\ (i - 1) - n = (i - n) - 1
        BY <1>1, <2>0, <3>1, <3>3
      <4>2. c[i - 1] = m[(i - n) - 1]
        BY <1>2, <2>0, <4>1
      <4> QED BY <3>1, <3>3, <4>2 DEF Continues
    <3> QED BY <3>2, <3>3
  <2> QED BY <2>1, <2>2
<1>7. c # <<>> /\ c[1] = FirstEntry
  <2>1. Len(c) # 0
    BY <1>1, <1>2
  <2> QED BY <1>1, <1>2, <2>1, LogFacts DEF History
<1> QED BY <1>4, <1>5, <1>6, <1>7 DEF History, c

\* More entries may be written.
LEMMA HistoryKept ==
    ASSUME NEW l, NEW pairs, NEW more, pairs \subseteq more
    PROVE  /\ History(l, pairs) => History(l, more)
           /\ \A e : Continues(e, l, pairs) => Continues(e, l, more)
BY DEF History, Continues

\* A primary adds an entry to a history.
LEMMA HistoryAppended ==
    ASSUME NEW l \in Log, NEW pairs, History(l, pairs), NEW t \in Term, NewEntry(l, t) \in Entry,
           Top(l).term <= t
    PROVE  /\ History(Append(l, NewEntry(l, t)), pairs \union {<<Top(l), NewEntry(l, t)>>})
           /\ Less(Top(l), NewEntry(l, t))
<1> DEFINE e == NewEntry(l, t)
           more == pairs \union {<<Top(l), e>>}
<1>1. e \in Entry /\ e.term = t /\ e.ts = Top(l).ts + 1 /\ Top(l) \in Entry
  BY LogFacts DEF NewEntry, History
<1> HIDE DEF e
<1>2. <<e>> \in Log /\ DOMAIN <<e>> = 1..1 /\ <<e>>[1] = e /\ Append(l, e) = l \o <<e>>
  BY <1>1, AppendIsConcat DEF Log
<1>3. Continues(Top(l), <<e>>, more)
  <2>1. t \in Nat
    BY EntryFacts DEF Term
  <2>2. \A i \in 1..1 : i = 1
    OBVIOUS
  <2>3. t <= t
    BY <2>1
  <2> QED BY <1>1, <1>2, <2>2, <2>3 DEF Continues
<1>4. History(l, more)
  BY HistoryKept
<1>5. History(l \o <<e>>, more)
  <2> HIDE DEF more
  <2> QED BY <1>2, <1>3, <1>4, HistoryExtended
<1>6. Less(Top(l), e)
  <2>1. t \in Nat /\ Top(l).term \in Nat /\ Top(l).ts \in Nat
    BY <1>1, EntryFacts DEF Term
  <2> QED BY <1>1, <2>1 DEF Less
<1> QED BY <1>2, <1>5, <1>6 DEF e

\* The entries after one of a history continue it.
LEMMA HistoryFollowed ==
    ASSUME NEW l \in Log, NEW pairs, History(l, pairs), NEW i \in DOMAIN l,
           NEW n \in Nat, n # 0, i + n <= Len(l)
    PROVE  Continues(l[i], SubSeq(l, i + 1, i + n), pairs)
<1> DEFINE s == SubSeq(l, i + 1, i + n)
<1>1. /\ i \in Nat /\ i # 0 /\ Len(l) \in Nat /\ DOMAIN l = 1..Len(l)
  BY LogFacts
<1>2. /\ i + 1 \in 1..(Len(l) + 1) /\ i + n \in ((i + 1) - 1)..Len(l)
      /\ (i + n) - (i + 1) + 1 = n
  <2>1. i + n <= Len(l)
    OBVIOUS
  <2>2. ASSUME NEW a \in Nat, NEW b \in Nat, NEW c \in Nat, a + b <= c, a # 0
        PROVE  /\ a + 1 \in 1..(c + 1) /\ a + b \in ((a + 1) - 1)..c
               /\ (a + b) - (a + 1) + 1 = b
    BY <2>2
  <2> QED BY <1>1, <2>1, <2>2
<1>3. DOMAIN s = 1..n /\ \A k \in 1..n : s[k] = l[(i + 1) + k - 1]
  BY <1>2, SubSeqFacts, ZenonT(30)
<1> HIDE DEF s
<1>4. \A k \in 1..n : (i + 1) + k - 1 = i + k /\ i + k \in DOMAIN l /\ i <= i + k
  BY <1>1
<1>5. \A k \in 1..n : s[k] = l[i + k] /\ i + k \in DOMAIN l /\ i <= i + k
  BY <1>3, <1>4
<1>6. \A k \in 1..n : s[k].ts = l[i].ts + k /\ l[i].term <= s[k].term
  BY <1>5 DEF History
<1>7. ASSUME NEW j \in 1..n, NEW k \in 1..n, j <= k PROVE s[j].term <= s[k].term
  <2>1. i + j <= i + k
    BY <1>1, <1>7
  <2> QED BY <1>5, <2>1 DEF History
<1>8. ASSUME NEW k \in 1..n PROVE <<IF k = 1 THEN l[i] ELSE s[k - 1], s[k]>> \in pairs
  <2>1. i + k \in 2..Len(l)
    BY <1>1, <1>5
  <2>2. <<l[(i + k) - 1], l[i + k]>> \in pairs
    BY <2>1 DEF History
  <2>3. CASE k = 1
    <3>1. (i + k) - 1 = i
      BY <1>1, <2>3
    <3> QED BY <1>5, <2>2, <2>3, <3>1
  <2>4. CASE k # 1
    <3>1. k - 1 \in 1..n /\ (i + k) - 1 = i + (k - 1)
      BY <1>1, <2>4
    <3> QED BY <1>5, <2>2, <2>4, <3>1
  <2> QED BY <2>3, <2>4
<1> QED BY <1>3, <1>6, <1>7, <1>8 DEF Continues, s

-----------------------------------------------------------------------------
(* The pipeline. *)

\* Sequences can be put together in any order.
LEMMA ConcatThree ==
    ASSUME NEW l \in Log, NEW m \in Log, NEW n \in Log
    PROVE  (l \o m) \o n = l \o (m \o n)
BY ConcatAssociative DEF Log

\* Four sequences, one after the other.
LEMMA PartsFacts ==
    ASSUME NEW x \in Log, NEW o \in Log, NEW b \in Log, NEW f \in Log
    PROVE  /\ x \o o \o b \o f \in Log
           /\ x \o o \o b \o f = <<>> <=> x = <<>> /\ o = <<>> /\ b = <<>> /\ f = <<>>
           /\ o # <<>> /\ x = <<>> => (x \o o \o b \o f)[1] = o[1]
<1>1. \A l, m \in Log : l \o m \in Log /\ (l \o m = <<>> <=> l = <<>> /\ m = <<>>)
  BY ConcatFacts
<1>3. x \o o \in Log /\ x \o o \o b \in Log /\ o \o b \in Log
  BY <1>1
<1>6. o # <<>> /\ x = <<>> => (x \o o \o b \o f)[1] = o[1]
  <2> SUFFICES ASSUME o # <<>>, x = <<>> PROVE (x \o o \o b \o f)[1] = o[1]
    OBVIOUS
  <2>1. 1 \in DOMAIN o
    BY LogFacts
  <2>2. x \o o = o
    BY ConcatFacts
  <2>3. (o \o b)[1] = o[1] /\ o \o b # <<>>
    BY <1>1, <2>1, ConcatFacts
  <2>4. 1 \in DOMAIN (o \o b)
    BY <1>3, <2>3, LogFacts
  <2>5. ((o \o b) \o f)[1] = (o \o b)[1]
    BY <1>3, <2>4, ConcatFacts
  <2> QED BY <2>2, <2>3, <2>5
<1>7. x \o o \o b \o f \in Log
  BY <1>1, <1>3
<1>8. x \o o \o b \o f = <<>> <=> x = <<>> /\ o = <<>> /\ b = <<>> /\ f = <<>>
  BY <1>1, <1>3, SMTT(30)
<1> QED BY <1>6, <1>7, <1>8

\* An oplog and what follows it.
LEMMA PipelineFacts ==
    ASSUME NEW l \in Log, NEW u \in Log, l # <<>>
    PROVE  /\ l \o u \in Log /\ l \o u # <<>> /\ Top(l \o u) \in Entry /\ Top(l) \in Entry
           /\ Len(l) \in DOMAIN (l \o u) /\ (l \o u)[Len(l)] = Top(l)
           /\ Len(l \o u) \in DOMAIN (l \o u) /\ (l \o u)[Len(l \o u)] = Top(l \o u)
           /\ Len(l) \in Nat /\ Len(l \o u) \in Nat /\ Len(l) <= Len(l \o u)
           /\ u = <<>> => l \o u = l
           /\ u # <<>> => Len(l) < Len(l \o u) /\ Len(l) + 1 \in DOMAIN (l \o u)
                            /\ (l \o u)[Len(l) + 1] = u[1]
           /\ SubSeq(l \o u, 1, Len(l)) = l
<1>1. /\ l \o u \in Log /\ Len(l \o u) = Len(l) + Len(u) /\ Len(l) \in Nat /\ Len(u) \in Nat
      /\ DOMAIN l = 1..Len(l) /\ DOMAIN u = 1..Len(u) /\ DOMAIN (l \o u) = 1..(Len(l) + Len(u))
      /\ Len(l) # 0 /\ (u # <<>> => Len(u) # 0) /\ (u = <<>> => l \o u = l)
      /\ \A i \in DOMAIN l : (l \o u)[i] = l[i]
      /\ \A i \in DOMAIN u : (l \o u)[Len(l) + i] = u[i]
  BY LogFacts, ConcatFacts, ZenonT(30)
<1> DEFINE p == l \o u
           n == Len(l)
           k == Len(u)
<1>2. /\ p \in Log /\ Len(p) = n + k /\ DOMAIN p = 1..(n + k) /\ DOMAIN l = 1..n
      /\ DOMAIN u = 1..k /\ n \in Nat /\ k \in Nat /\ n # 0 /\ (u # <<>> => k # 0)
      /\ \A i \in DOMAIN l : p[i] = l[i]
      /\ \A i \in DOMAIN u : p[n + i] = u[i]
  BY <1>1
<1>7. l \in Log /\ l # <<>>
  OBVIOUS
<1> HIDE DEF p, n, k
<1>8. Len(p) \in Nat /\ Len(p) # 0 /\ n <= Len(p) /\ (u # <<>> => n < Len(p))
  BY <1>2
<1>3. p # <<>> /\ Top(p) \in Entry /\ Top(l) \in Entry
  <2>1. p # <<>>
    BY <1>2, <1>8, LogFacts
  <2> QED BY <1>2, <1>7, <2>1, LogFacts
<1>4. /\ n \in DOMAIN p /\ n \in DOMAIN l /\ Len(p) \in DOMAIN p
      /\ u # <<>> => n + 1 \in DOMAIN p /\ 1 \in DOMAIN u
  BY <1>2
<1>5. p[n] = Top(l) /\ p[Len(p)] = Top(p) /\ (u # <<>> => p[n + 1] = u[1])
  BY <1>2, <1>4 DEF Top, n
<1>6. SubSeq(p, 1, n) = l
  <2>1. 1 \in 1..(Len(p) + 1) /\ n \in (1 - 1)..Len(p) /\ n - 1 + 1 = n
    BY <1>2, <1>8
  <2>2. /\ SubSeq(p, 1, n) \in Log /\ Len(SubSeq(p, 1, n)) = n
        /\ \A i \in 1..n : SubSeq(p, 1, n)[i] = p[1 + i - 1]
    BY <1>2, <2>1, SubSeqFacts
  <2>3. \A i \in 1..n : SubSeq(p, 1, n)[i] = l[i]
    <3>1. \A i \in 1..n : 1 + i - 1 = i /\ i \in DOMAIN l
      BY <1>2
    <3> QED BY <1>2, <2>2, <3>1
  <2> QED BY <1>7, <2>2, <2>3, SeqEqual DEF Log, n
<1>9. u = <<>> => p = l
  BY <1>1 DEF p
<1> QED BY <1>2, <1>3, <1>4, <1>5, <1>6, <1>8, <1>9, ZenonT(30) DEF p, n

\* What the invariant says of the oplog and the pipeline.
LEMMA PipelineState ==
    ASSUME PipelineInv
    PROVE  /\ Unapplied \in Log /\ oplog \in Log /\ oplog # <<>> /\ source \in Log
           /\ Pipeline \in Log /\ Pipeline # <<>>
           /\ Top(oplog) \in Entry /\ Top(Pipeline) \in Entry
           /\ ~Less(Top(Pipeline), Top(oplog))
           /\ Unapplied = <<>> =>
                /\ Pipeline = oplog /\ applier # "taken" /\ ops = <<>> /\ batch = <<>>
                /\ buffer = <<>>
           /\ applier # "taken" /\ ops = <<>> /\ batch = <<>> /\ buffer = <<>> =>
                Unapplied = <<>>
           /\ Unapplied # <<>> => /\ Less(Top(oplog), Top(Pipeline))
                                  /\ Less(Top(oplog), Unapplied[1])
           /\ History(oplog, links)
           /\ lastApplied \in OpTime /\ lastFetched \in OpTime /\ cursor \in OpTime
           /\ Top(oplog) \in OpTime /\ Top(Pipeline) \in OpTime /\ NullOpTime \in OpTime
<1>1. /\ source \in Log /\ oplog \in Log /\ docs \in Log /\ buffer \in Log /\ batch \in Log
      /\ ops \in Log /\ applying \in Log /\ oplog # <<>> /\ (applier = "taken" => applying # <<>>)
      /\ History(Pipeline, links) /\ lastFetched \in OpTime /\ cursor \in OpTime
      /\ lastApplied \in Entry
  BY DEF PipelineInv, TypeInv, TypeOK, ShapeInv, HistoryInv
<1> DEFINE x == IF applier = "taken" THEN applying ELSE <<>>
<1>2. x \in Log /\ (x = <<>> <=> applier # "taken")
  BY <1>1, EmptyFacts
<1>3. Unapplied = x \o ops \o batch \o buffer /\ Pipeline = oplog \o Unapplied
  BY DEF Unapplied, Pipeline
<1> HIDE DEF x
<1>4. /\ Unapplied \in Log
      /\ Unapplied = <<>> <=> applier # "taken" /\ ops = <<>> /\ batch = <<>> /\ buffer = <<>>
  <2>1. /\ x \o ops \o batch \o buffer \in Log
        /\ x \o ops \o batch \o buffer = <<>> <=>
             x = <<>> /\ ops = <<>> /\ batch = <<>> /\ buffer = <<>>
    BY <1>1, <1>2, PartsFacts
  <2> QED BY <1>2, <1>3, <2>1
<1> DEFINE n == Len(oplog)
           m == Len(Pipeline)
<1>5. /\ Pipeline \in Log /\ Pipeline # <<>> /\ Top(Pipeline) \in Entry /\ Top(oplog) \in Entry
      /\ n \in DOMAIN Pipeline /\ Pipeline[n] = Top(oplog)
      /\ m \in DOMAIN Pipeline /\ Pipeline[m] = Top(Pipeline)
      /\ n \in Nat /\ m \in Nat /\ n <= m
      /\ Unapplied = <<>> => Pipeline = oplog
      /\ Unapplied # <<>> => n < m /\ n + 1 \in DOMAIN Pipeline /\ Pipeline[n + 1] = Unapplied[1]
      /\ SubSeq(Pipeline, 1, n) = oplog
  BY <1>1, <1>3, <1>4, PipelineFacts, ZenonT(30)
<1>6. n \in 1..Len(Pipeline)
  BY <1>5, LogFacts
<1>7. History(oplog, links)
  BY <1>1, <1>5, <1>6, HistoryPrefix
<1> HIDE DEF n, m
<1>8. ~Less(Top(Pipeline), Top(oplog)) /\ (n < m => Less(Top(oplog), Top(Pipeline)))
  <2>1. /\ Less(Pipeline[m], Pipeline[n]) <=> m < n
        /\ Less(Pipeline[n], Pipeline[m]) <=> n < m
    BY <1>1, <1>5, HistoryOrder
  <2>2. ~(m < n)
    BY <1>5
  <2> QED BY <1>5, <2>1, <2>2
<1>9. Unapplied # <<>> => Less(Top(oplog), Unapplied[1])
  <2> SUFFICES ASSUME Unapplied # <<>> PROVE Less(Top(oplog), Unapplied[1])
    OBVIOUS
  <2>1. Less(Pipeline[n], Pipeline[n + 1]) <=> n < n + 1
    BY <1>1, <1>5, HistoryOrder
  <2>2. n < n + 1
    BY <1>5
  <2> QED BY <1>5, <2>1, <2>2
<1> QED BY <1>1, <1>4, <1>5, <1>7, <1>8, <1>9, OpTimeFacts

\* Steps that leave the sequences alone.
LEMMA PipelineSame ==
    ASSUME UNCHANGED <<oplog, buffer, batch, ops, applying>>,
           applier' = "taken" <=> applier = "taken"
    PROVE  Pipeline' = Pipeline /\ Unapplied' = Unapplied
BY DEF Pipeline, Unapplied

\* A primary writes when its pipeline is empty.
LEMMA LogOpKeepsHistory ==
    ASSUME PipelineInv, LogOp, Unapplied = <<>>, NewEntry(oplog, term) \in Entry,
           Top(oplog).term <= term, applier' # "taken", UNCHANGED <<source, buffer, batch, ops>>
    PROVE  /\ HistoryInv' /\ Unapplied' = <<>> /\ links \subseteq links'
           /\ lastApplied' = Top(Pipeline)' /\ lastApplied' = Top(oplog)'
           /\ Less(Top(Pipeline), Top(Pipeline)') /\ Top(Pipeline)' \in OpTime
           /\ Top(oplog)'.term = term
<1> DEFINE e == NewEntry(oplog, term)
<1>1. /\ Pipeline = oplog /\ ops = <<>> /\ batch = <<>> /\ buffer = <<>> /\ oplog \in Log
      /\ History(oplog, links) /\ oplog # <<>> /\ Top(oplog) \in Entry
  BY PipelineState
<1>2. term \in Term
  BY DEF PipelineInv, TypeInv, TypeOK
<1>3. /\ oplog' = Append(oplog, e) /\ lastApplied' = e
      /\ links' = links \union {<<Top(oplog), e>>} /\ e \in Entry /\ e.term = term
  BY DEF LogOp, NewEntry
<1>4. History(oplog', links') /\ Less(Top(oplog), e)
  BY <1>1, <1>2, <1>3, HistoryAppended
<1> HIDE DEF e
<1>5. oplog' \in Log /\ oplog' # <<>> /\ Top(oplog') = e
  BY <1>1, <1>3, AppendFacts
<1>6. Unapplied' = <<>> /\ Pipeline' = oplog'
  <2>1. Unapplied' = <<>> \o <<>> \o <<>> \o <<>>
    BY <1>1 DEF Unapplied
  <2>2. <<>> \o <<>> = <<>> /\ oplog' \o <<>> = oplog'
    BY <1>5, EmptyFacts, ConcatFacts
  <2>3. Unapplied' = <<>>
    BY <2>1, <2>2
  <2>4. Pipeline' = oplog' \o Unapplied'
    BY DEF Pipeline
  <2> QED BY <2>2, <2>3, <2>4
<1>7. History(source', links')
  BY <1>3, HistoryKept DEF PipelineInv, HistoryInv
<1> QED BY <1>1, <1>3, <1>4, <1>5, <1>6, <1>7, OpTimeFacts DEF HistoryInv

\* What the other members do, and the changes of the role.
LEMMA EnvironmentKeepsPipeline ==
    ASSUME PipelineInv, Race = {}, TypeInv', EnvironmentStep
    PROVE  PipelineInv'
<1>0. /\ HistoryInv /\ FetchInv /\ RollbackInv /\ ApplierInv /\ failed = "none" /\ TypeOK
      /\ History(source, links) /\ History(Pipeline, links)
  BY DEF PipelineInv, TypeInv, HistoryInv
<1>1. CASE SourceWrites
  <2>1. /\ source' = Append(source, NewEntry(source, sourceTerm))
        /\ links' = links \union {<<Top(source), NewEntry(source, sourceTerm)>>}
        /\ UNCHANGED <<sourceTerm, newestTerm, member, oplog, lastApplied, state,
                       lastFetched, fetching, buffer, batch, ops, applierThread, failed>>
    BY <1>1 DEF SourceWrites
  <2>2. Pipeline' = Pipeline /\ Unapplied' = Unapplied
    BY <2>1, PipelineSame DEF applierThread
  <2>3. History(source', links')
    <3>1. source \in Log /\ sourceTerm \in Term /\ Top(source) \in Entry
      <4>1. source \in Log /\ source # <<>>
        BY DEF PipelineInv, TypeInv, TypeOK, ShapeInv
      <4> QED BY <1>0, <4>1, LogFacts DEF TypeOK
    <3>2. Top(source).term <= sourceTerm
      <4>1. Top(source) \in Elements(source)
        BY LogFacts DEF PipelineInv, TypeInv, TypeOK, ShapeInv
      <4> QED BY <4>1 DEF PipelineInv, TypeInv, EntryInv
    <3>3. NewEntry(source, sourceTerm) \in Entry
      <4>1. source' \in Log /\ Len(source) + 1 \in DOMAIN source'
            /\ source'[Len(source) + 1] = NewEntry(source, sourceTerm)
        <5>1. source' \in Log
          BY DEF TypeInv, TypeOK
        <5>2. /\ DOMAIN source' = 1..(Len(source) + 1) /\ Len(source) \in Nat
              /\ source'[Len(source) + 1] = NewEntry(source, sourceTerm)
          BY <2>1, <3>1, LogFacts, AppendProperties DEF Log
        <5> QED BY <5>1, <5>2
      <4> QED BY <4>1, LogFacts
    <3> QED BY <1>0, <2>1, <3>1, <3>2, <3>3, HistoryAppended
  <2>4. links \subseteq links'
    BY <2>1
  <2>5. HistoryInv'
    BY <1>0, <2>2, <2>3, <2>4, HistoryKept DEF HistoryInv
  <2>6. FetchInv'
    BY <1>0, <2>1, <2>2, <2>4, HistoryKept DEF FetchInv, member, fetching
  <2>7. RollbackInv'
    BY <1>0, <2>1, <2>2 DEF RollbackInv, member, fetching, applierThread
  <2>8. ApplierInv'
    BY <1>0, <2>1, <2>2 DEF ApplierInv, Primary, member, fetching, applierThread
  <2> QED BY <1>0, <2>1, <2>5, <2>6, <2>7, <2>8 DEF PipelineInv
<1>2. ASSUME NEW log \in {source, oplog}, NEW n \in DOMAIN log, SourceChanges(log, n)
      PROVE  PipelineInv'
  <2>1. /\ source' = SubSeq(log, 1, n)
        /\ UNCHANGED <<member, local, state, lastFetched, fetching, buffer, batch, ops,
                       applierThread, failed>>
    BY <1>2 DEF SourceChanges
  <2>2. Pipeline' = Pipeline /\ Unapplied' = Unapplied
    BY <2>1, PipelineSame DEF applierThread, local
  <2>3. HistoryInv'
    <3>1. log \in Log /\ History(log, links)
      BY <1>0, PipelineState
    <3>2. n \in 1..Len(log)
      BY <3>1, LogFacts
    <3>3. History(source', links)
      BY <2>1, <3>1, <3>2, HistoryPrefix
    <3> QED BY <1>0, <2>1, <2>2, <3>3 DEF HistoryInv, local
  <2>4. FetchInv'
    BY <1>0, <2>1, <2>2 DEF FetchInv, member, fetching, local
  <2>5. RollbackInv'
    BY <1>0, <2>1, <2>2 DEF RollbackInv, member, fetching, applierThread, local
  <2>6. ApplierInv'
    BY <1>0, <2>1, <2>2 DEF ApplierInv, Primary, member, fetching, applierThread, local
  <2> QED BY <1>0, <2>1, <2>3, <2>4, <2>5, <2>6 DEF PipelineInv
<1>3. CASE WinElection
  <2>1. /\ mode = "secondary" /\ term' = newestTerm + 1 /\ mode' = "catchup"
        /\ producer \notin {"waiting", "check", "rollback", "reset", "restart"}
        /\ UNCHANGED <<pendingTerm, source, sourceTerm, local, state, lastFetched,
                       fetching, buffer, batch, ops, applierThread, failed>>
    BY <1>3 DEF WinElection
  <2>2. Pipeline' = Pipeline /\ Unapplied' = Unapplied
    BY <2>1, PipelineSame DEF applierThread, local
  <2>3. HistoryInv'
    BY <1>0, <2>1, <2>2 DEF HistoryInv, local
  <2>4. FetchInv'
    BY <1>0, <2>1, <2>2 DEF FetchInv, fetching, local
  <2>5. RollbackInv'
    BY <2>1 DEF RollbackInv, fetching
  <2>6. termRead # newestTerm + 1
    <3>1. termRead <= newestTerm /\ termRead \in Nat /\ newestTerm \in Nat
      BY EntryFacts DEF PipelineInv, TypeInv, TermInv, TypeOK, Term
    <3> QED BY <3>1
  <2>7. ApplierInv'
    BY <1>0, <2>1, <2>2, <2>6 DEF ApplierInv, Primary, applierThread, local
  <2> QED BY <1>0, <2>1, <2>3, <2>4, <2>5, <2>7 DEF PipelineInv
<1>4. CASE EndCatchup
  <2>1. /\ mode = "catchup" /\ mode' = "draining" /\ state' = "Stopped"
        /\ UNCHANGED <<others, term, pendingTerm, local, lastFetched, fetching, buffer,
                       batch, ops, applierThread, failed>>
    BY <1>4 DEF EndCatchup, EnterDrainMode
  <2>2. Pipeline' = Pipeline /\ Unapplied' = Unapplied
    BY <2>1, PipelineSame DEF applierThread, local
  <2>3. HistoryInv'
    BY <1>0, <2>1, <2>2 DEF HistoryInv, local, others
  <2>4. FetchInv'
    BY <1>0, <2>1, <2>2 DEF FetchInv, fetching, local
  <2>5. RollbackInv'
    BY <1>0, <2>1 DEF RollbackInv, fetching
  <2>6. ApplierInv'
    BY <1>0, <2>1, <2>2 DEF ApplierInv, Primary, applierThread, local
  <2> QED BY <1>0, <2>1, <2>3, <2>4, <2>5, <2>6 DEF PipelineInv
<1>5. CASE StepDown
  <2>1. /\ Primary /\ (mode = "primary" => producer # "starting") /\ mode' = "secondary"
        /\ state' = (IF state = "Stopped" THEN "Starting" ELSE state)
        /\ UNCHANGED <<others, local, lastFetched, fetching, buffer, batch, ops,
                       applierThread, failed>>
    BY <1>5 DEF StepDown, StartProducerIfStopped
  <2>2. Pipeline' = Pipeline /\ Unapplied' = Unapplied
    BY <2>1, PipelineSame DEF applierThread, local
  <2>3. HistoryInv'
    BY <1>0, <2>1, <2>2 DEF HistoryInv, local, others
  <2>4. FetchInv'
    BY <1>0, <2>1, <2>2 DEF FetchInv, fetching, local
  <2>5. RollbackInv'
    BY <1>0, <2>1 DEF RollbackInv, fetching, Primary
  <2>6. ApplierInv'
    BY <1>0, <2>1, <2>2 DEF ApplierInv, Primary, applierThread, local
  <2> QED BY <1>0, <2>1, <2>3, <2>4, <2>5, <2>6 DEF PipelineInv
<1>6. CASE PrimaryWrite
  <2>1. /\ mode = "primary" /\ LogOp
        /\ UNCHANGED <<others, member, state, lastFetched, fetching, buffer, batch, ops,
                       applierThread, failed>>
    BY <1>6 DEF PrimaryWrite
  <2>2. /\ Unapplied = <<>> /\ Top(oplog).term = term /\ state = "Stopped"
        /\ applier \notin {"taken", "applied"}
        /\ producer \notin {"waiting", "check", "rollback", "reset", "restart"}
    BY <1>0, <2>1 DEF ApplierInv, RollbackInv
  <2>3. NewEntry(oplog, term) \in Entry /\ Top(oplog).term <= term
    <3>1. lastApplied' = NewEntry(oplog, term) /\ lastApplied' \in Entry
      BY <2>1 DEF LogOp, TypeInv, TypeOK
    <3>2. term \in Nat
      BY <1>0, EntryFacts DEF TypeOK, Term
    <3> QED BY <2>2, <3>1, <3>2
  <2>4. /\ HistoryInv' /\ Unapplied' = <<>> /\ links \subseteq links'
        /\ lastApplied' = Top(oplog)'
        /\ Less(Top(Pipeline), Top(Pipeline)') /\ Top(Pipeline)' \in OpTime
        /\ Top(oplog)'.term = term
    BY <2>1, <2>2, <2>3, LogOpKeepsHistory DEF others, applierThread
  <2>5. /\ ~Less(Top(Pipeline)', lastFetched)
        /\ producer = "starting" => ~Less(Top(Pipeline)', cursor)
    BY <1>0, <2>2, <2>4, PipelineState, LessFacts DEF FetchInv
  <2>6. FetchInv'
    BY <1>0, <2>1, <2>2, <2>4, <2>5, HistoryKept DEF FetchInv, member, fetching
  <2>7. RollbackInv'
    BY <2>1, <2>2 DEF RollbackInv, fetching
  <2>8. ApplierInv'
    BY <1>0, <2>1, <2>2, <2>4 DEF ApplierInv, Primary, applierThread, member
  <2> QED BY <1>0, <2>1, <2>4, <2>6, <2>7, <2>8 DEF PipelineInv
<1> QED BY <1>1, <1>2, <1>3, <1>4, <1>5, <1>6 DEF EnvironmentStep

\* The steps of the producer thread.
LEMMA ProducerKeepsPipeline ==
    ASSUME PipelineInv, Race = {}, TypeInv', ProducerStep
    PROVE  PipelineInv'
<1>0. /\ HistoryInv /\ FetchInv /\ RollbackInv /\ ApplierInv /\ failed = "none" /\ TypeOK
      /\ History(source, links) /\ History(Pipeline, links)
  BY DEF PipelineInv, TypeInv, HistoryInv
\* Steps that change the place of the producer only.
<1>1. ASSUME UNCHANGED <<others, local, buffer, batch, ops, applierThread, failed>>,
             FetchInv', RollbackInv', mode' = mode, Primary => term' = term,
             state' = "Stopped" \/ state' = state
                \/ (state = "Starting" /\ state' = "Running") \/ mode = "secondary"
      PROVE  PipelineInv'
  <2>1. Pipeline' = Pipeline /\ Unapplied' = Unapplied
    BY <1>1, PipelineSame DEF applierThread, local
  <2>2. HistoryInv'
    BY <1>0, <1>1, <2>1 DEF HistoryInv, others, local
  <2>3. ApplierInv'
    BY <1>0, <1>1, <2>1 DEF ApplierInv, Primary, applierThread, local
  <2> QED BY <1>0, <1>1, <2>2, <2>3 DEF PipelineInv
<1>2. UNCHANGED <<oplog, buffer, batch, ops, applierThread>> =>
        Pipeline' = Pipeline /\ Unapplied' = Unapplied
  BY PipelineSame DEF applierThread
<1>3. CASE ReadLastApplied
  <2>1. /\ producer = "idle" /\ state = "Starting" /\ cursor' = Top(oplog)
        /\ producer' = "starting"
        /\ UNCHANGED <<others, member, local, state, lastFetched, docs, buffer, batch, ops,
                       applierThread, failed>>
    BY <1>3 DEF ReadLastApplied
  <2>2. Pipeline' = Pipeline /\ Unapplied' = Unapplied
    BY <1>2, <2>1 DEF local
  <2>3. ~Less(Top(Pipeline), Top(oplog)) /\ Top(Pipeline) \in {Top(oplog), lastFetched}
    BY <1>0, PipelineState DEF FetchInv
  <2>4. FetchInv'
    BY <1>0, <2>1, <2>2, <2>3 DEF FetchInv, member, local
  <2>5. RollbackInv'
    BY <2>1 DEF RollbackInv
  <2> QED BY <1>1, <2>1, <2>4, <2>5 DEF member
<1>4. CASE Start
  <2>1. /\ producer = "starting" /\ producer' = "idle"
        /\ UNCHANGED <<others, member, local, cursor, docs, buffer, batch, ops,
                       applierThread, failed>>
    BY <1>4 DEF Start
  <2>2. Pipeline' = Pipeline /\ Unapplied' = Unapplied
    BY <1>2, <2>1 DEF local
  <2>3. RollbackInv'
    BY <2>1 DEF RollbackInv
  <2>4. CASE state = "Starting"
    <3>1. /\ state' = "Running"
          /\ lastFetched' = IF Less(cursor, lastFetched) THEN lastFetched ELSE cursor
      BY <1>4, <2>4 DEF Start, SetLastFetched
    <3>2. /\ ~Less(Top(Pipeline), cursor) /\ ~Less(Top(Pipeline), lastFetched)
          /\ Top(Pipeline) \in {cursor, lastFetched}
      BY <1>0, <2>1, <2>4 DEF FetchInv, ApplierInv
    <3>3. lastFetched' = Top(Pipeline) /\ ~Less(Top(Pipeline), lastFetched')
      <4>1. /\ Top(Pipeline) \in OpTime /\ cursor \in OpTime /\ lastFetched \in OpTime
        BY PipelineState
      <4>2. ~Less(Top(Pipeline), Top(Pipeline))
        BY <4>1, LessFacts
      <4>3. CASE Top(Pipeline) = cursor
        BY <3>1, <3>2, <4>2, <4>3
      <4>4. CASE Top(Pipeline) = lastFetched
        BY <3>1, <3>2, <4>1, <4>2, <4>4, LessFacts
      <4> QED BY <3>2, <4>3, <4>4
    <3>4. FetchInv'
      BY <1>0, <2>1, <2>2, <3>1, <3>3 DEF FetchInv, member
    <3> QED BY <1>1, <2>1, <2>3, <2>4, <3>1, <3>4 DEF member
  <2>5. CASE state # "Starting"
    <3>1. UNCHANGED <<state, lastFetched>>
      BY <1>4, <2>5 DEF Start
    <3>2. FetchInv'
      BY <1>0, <2>1, <2>2, <3>1 DEF FetchInv, member
    <3> QED BY <1>1, <2>1, <2>3, <3>1, <3>2 DEF member
  <2> QED BY <2>4, <2>5
<1>5. CASE StartFetcher \/ FetcherEnds \/ FetchFindsDivergence
  <2>1. /\ producer \in {"idle", "fetching"} /\ producer' \in {"idle", "fetching", "missing"}
        /\ producer' = "fetching" => cursor' = lastFetched
        /\ UNCHANGED <<others, member, local, state, lastFetched, docs, buffer, batch, ops,
                       applierThread, failed>>
    BY <1>5 DEF StartFetcher, FetcherEnds, FetchFindsDivergence
  <2>2. Pipeline' = Pipeline /\ Unapplied' = Unapplied
    BY <1>2, <2>1 DEF local
  <2>3. RollbackInv'
    BY <2>1 DEF RollbackInv
  <2>4. FetchInv'
    BY <1>0, <2>1, <2>2 DEF FetchInv, member
  <2> QED BY <1>1, <2>1, <2>3, <2>4 DEF member
<1>6. ASSUME NEW n \in 1..BatchLimit, FetchDocuments(n) PROVE PipelineInv'
  <2>1. /\ producer = "fetching" /\ producer' = "enqueue" /\ mode' = mode
        /\ Primary => term' = term
        /\ UNCHANGED <<others, local, state, lastFetched, cursor, buffer, batch,
                       ops, applierThread, failed>>
    BY <1>6 DEF FetchDocuments, UpdateTerm
  <2>2. Pipeline' = Pipeline /\ Unapplied' = Unapplied
    BY <1>2, <2>1 DEF local
  <2>3. Continues(cursor, docs', links)
    <3>1. PICK i \in DOMAIN source : /\ source[i] = cursor /\ i + n <= Len(source)
                                     /\ docs' = SubSeq(source, i + 1, i + n)
      BY <1>6 DEF FetchDocuments, FollowingEntries
    <3>2. source \in Log /\ n \in Nat /\ n # 0
      BY EntryFacts, PipelineState
    <3> QED BY <1>0, <3>1, <3>2, HistoryFollowed
  <2>4. RollbackInv'
    BY <2>1 DEF RollbackInv
  <2>5. FetchInv'
    BY <1>0, <2>1, <2>2, <2>3 DEF FetchInv, local
  <2> QED BY <1>1, <2>1, <2>4, <2>5
<1>7. CASE EnqueueDocuments
  <2>1. /\ producer = "enqueue" /\ producer' = "enqueued" /\ ~(Primary /\ applier = "empty")
        /\ UNCHANGED <<others, member, local, state, cursor, docs, batch, ops,
                       applierThread, failed>>
    BY <1>7 DEF EnqueueDocuments
  <2>2. RollbackInv'
    BY <2>1 DEF RollbackInv
  <2>3. CASE state = "Running"
    <3>1. buffer' = buffer \o docs /\ lastFetched' = Top(docs)
      BY <1>7, <2>3 DEF EnqueueDocuments
    <3>2. /\ cursor = Top(Pipeline) /\ Continues(cursor, docs, links) /\ mode # "primary"
      BY <1>0, <2>1, <2>3 DEF FetchInv, ApplierInv
    <3>3. /\ docs \in Log /\ docs # <<>> /\ Unapplied \in Log /\ oplog \in Log
          /\ Pipeline \in Log /\ Pipeline = oplog \o Unapplied /\ buffer \in Log
          /\ batch \in Log /\ ops \in Log /\ applying \in Log
      BY <2>1, PipelineState DEF PipelineInv, TypeInv, TypeOK, ShapeInv, Pipeline
    <3>4. Unapplied' = Unapplied \o docs
      <4> DEFINE x == IF applier = "taken" THEN applying ELSE <<>>
      <4>1. /\ x \in Log /\ Unapplied = x \o ops \o batch \o buffer
            /\ Unapplied' = x \o ops \o batch \o (buffer \o docs)
        BY <2>1, <3>1, <3>3, EmptyFacts DEF Unapplied, applierThread
      <4> HIDE DEF x
      <4> DEFINE c == x \o ops \o batch
      <4>2. c \in Log
        <5>1. x \o ops \in Log
          BY <3>3, <4>1, ConcatFacts
        <5> QED BY <3>3, <5>1, ConcatFacts
      <4>3. Unapplied = c \o buffer /\ Unapplied' = c \o (buffer \o docs)
        BY <4>1
      <4>4. c \in Log /\ buffer \in Log /\ docs \in Log
        BY <3>3, <4>2
      <4> HIDE DEF c
      <4>5. (c \o buffer) \o docs = c \o (buffer \o docs)
        BY <4>4, ConcatThree
      <4> QED BY <4>3, <4>5
    <3>5. Pipeline' = Pipeline \o docs
      <4>1. Pipeline' = oplog \o (Unapplied \o docs)
        BY <2>1, <3>4 DEF Pipeline, local
      <4>2. docs \in Log /\ Unapplied \in Log /\ oplog \in Log
        BY <3>3
      <4>3. (oplog \o Unapplied) \o docs = oplog \o (Unapplied \o docs)
        BY <4>2, ConcatThree
      <4> QED BY <3>3, <4>1, <4>3
    <3>6. History(Pipeline', links)
      BY <1>0, <3>2, <3>3, <3>5, HistoryExtended
    <3>7. Top(Pipeline') = Top(docs) /\ Top(docs) \in Entry
      BY <3>3, <3>5, ConcatFacts, LogFacts
    <3>8. ~Less(Top(docs), Top(docs))
      BY <3>7, LessFacts, OpTimeFacts
    <3>9. HistoryInv'
      BY <1>0, <2>1, <3>6 DEF HistoryInv, others, local
    <3>10. FetchInv'
      BY <2>1, <3>1, <3>7, <3>8 DEF FetchInv
    <3>11. ApplierInv'
      BY <1>0, <2>1, <2>3, <3>2 DEF ApplierInv, Primary, member, applierThread, local
    <3> QED BY <1>0, <2>1, <2>2, <3>9, <3>10, <3>11 DEF PipelineInv
  <2>4. CASE state # "Running"
    <3>1. UNCHANGED <<buffer, lastFetched>>
      BY <1>7, <2>4 DEF EnqueueDocuments
    <3>2. Pipeline' = Pipeline /\ Unapplied' = Unapplied
      BY <1>2, <2>1, <3>1 DEF local
    <3>3. FetchInv'
      BY <1>0, <2>1, <2>4, <3>1, <3>2 DEF FetchInv
    <3> QED BY <1>1, <2>1, <2>2, <3>1, <3>3 DEF member
  <2> QED BY <2>3, <2>4
<1>8. CASE ShouldStopFetching
  <2>1. /\ producer = "enqueued" /\ producer' \in {"fetching", "idle"}
        /\ producer' = "fetching" => state = "Running" /\ cursor' = Top(docs)
        /\ UNCHANGED <<others, member, local, state, lastFetched, buffer, batch, ops,
                       applierThread, failed>>
    BY <1>8 DEF ShouldStopFetching
  <2>2. Pipeline' = Pipeline /\ Unapplied' = Unapplied
    BY <1>2, <2>1 DEF local
  <2>3. RollbackInv'
    BY <2>1 DEF RollbackInv
  <2>4. FetchInv'
    BY <1>0, <2>1, <2>2 DEF FetchInv
  <2> QED BY <1>1, <2>1, <2>3, <2>4 DEF member
<1>9. CASE RunRollback
  <2>1. /\ producer = "missing"
        /\ producer' = IF state = "Running" /\ ~Primary THEN "waiting" ELSE "idle"
        /\ IF state = "Running" /\ mode = "catchup"
           THEN mode' = "draining" /\ state' = "Stopped"
           ELSE UNCHANGED <<mode, state>>
        /\ UNCHANGED <<others, term, pendingTerm, local, lastFetched, cursor, docs,
                       buffer, batch, ops, applierThread, failed>>
    BY <1>9 DEF RunRollback, EnterDrainMode
  <2>2. Pipeline' = Pipeline /\ Unapplied' = Unapplied
    BY <1>2, <2>1 DEF local
  <2>3. RollbackInv'
    BY <1>0, <2>1 DEF RollbackInv, TypeOK, Primary
  <2>4. FetchInv'
    BY <1>0, <2>1, <2>2 DEF FetchInv
  <2>5. HistoryInv'
    BY <1>0, <2>1, <2>2 DEF HistoryInv, others, local
  <2>6. ApplierInv'
    BY <1>0, <2>1, <2>2 DEF ApplierInv, Primary, applierThread, local
  <2> QED BY <1>0, <2>1, <2>3, <2>4, <2>5, <2>6 DEF PipelineInv
<1>10. CASE RollbackWaits
  <2>1. /\ producer = "waiting" /\ mode = "secondary" /\ state = "Running"
        /\ lastFetched = Top(Pipeline)
    BY <1>0, <1>10 DEF RollbackWaits, RollbackInv, FetchInv
  <2>2. /\ ~Less(lastApplied, lastFetched) /\ producer' = "check"
        /\ UNCHANGED <<others, member, local, state, lastFetched, cursor, docs, buffer,
                       batch, ops, applierThread, failed>>
    BY <1>10, <2>1 DEF RollbackWaits
  <2>3. Pipeline' = Pipeline /\ Unapplied' = Unapplied
    BY <1>2, <2>2 DEF local
  <2>4. applier # "applied"
    <3>1. applier = "applied" => Less(lastApplied, Top(oplog))
      BY <1>0 DEF ApplierInv
    <3>2. Less(lastApplied, Top(oplog)) => Less(lastApplied, Top(Pipeline))
      BY PipelineState, LessFacts
    <3> QED BY <2>1, <2>2, <3>1, <3>2
  <2>5. Unapplied = <<>>
    <3>1. lastApplied = Top(oplog)
      BY <1>0, <2>4 DEF ApplierInv
    <3> QED BY <2>1, <2>2, <3>1, PipelineState
  <2>6. RollbackInv'
    BY <1>0, <2>1, <2>2, <2>3, <2>4, <2>5 DEF RollbackInv, member, applierThread
  <2>7. FetchInv'
    BY <1>0, <2>1, <2>2, <2>3 DEF FetchInv
  <2> QED BY <1>1, <2>2, <2>6, <2>7 DEF member
<1>11. CASE RollbackChecksState
  <2>1. /\ producer = "check" /\ producer' = "rollback" /\ state = "Running"
        /\ UNCHANGED <<others, member, local, state, lastFetched, cursor, docs, buffer,
                       batch, ops, applierThread, failed>>
    BY <1>0, <1>11 DEF RollbackChecksState, RollbackInv
  <2>2. Pipeline' = Pipeline /\ Unapplied' = Unapplied
    BY <1>2, <2>1 DEF local
  <2>3. RollbackInv'
    BY <1>0, <2>1, <2>2 DEF RollbackInv, member, applierThread
  <2>4. FetchInv'
    BY <1>0, <2>1, <2>2 DEF FetchInv
  <2> QED BY <1>1, <2>1, <2>3, <2>4 DEF member
<1>12. ASSUME producer = "rollback"
       PROVE  /\ Unapplied = <<>> /\ lastFetched = Top(Pipeline) /\ Pipeline = oplog
              /\ lastApplied = Top(oplog) /\ mode = "secondary" /\ state = "Running"
              /\ applier \notin {"taken", "applied"} /\ ops = <<>> /\ batch = <<>> /\ buffer = <<>>
  <2>1. Unapplied = <<>> /\ applier # "applied" /\ mode = "secondary" /\ state = "Running"
    BY <1>0, <1>12 DEF RollbackInv
  <2>2. Pipeline = oplog /\ applier # "taken" /\ ops = <<>> /\ batch = <<>> /\ buffer = <<>>
    BY <2>1, PipelineState
  <2> QED BY <1>0, <1>12, <2>1, <2>2 DEF FetchInv, ApplierInv
<1>13. CASE RollbackSucceeds
  <2> DEFINE n == CommonPoint
  <2>1. /\ producer = "rollback" /\ producer' = "reset"
        /\ oplog' = SubSeq(oplog, 1, n) /\ lastApplied' = oplog[n]
        /\ UNCHANGED <<others, member, links, state, lastFetched, cursor, docs, buffer,
                       batch, ops, applierThread, failed>>
    BY <1>13 DEF RollbackSucceeds
  <2>2. n \in DOMAIN oplog
    BY CommonPointFacts DEF PipelineInv, TypeInv, TypeOK, ShapeInv
  <2> HIDE DEF n
  <2>3. oplog \in Log /\ History(oplog, links) /\ oplog # <<>>
    BY PipelineState
  <2>4. n \in 1..Len(oplog) /\ Len(oplog) \in DOMAIN oplog /\ n \in Nat /\ Len(oplog) \in Nat
    BY <2>2, <2>3, LogFacts
  <2>5. History(oplog', links) /\ Top(oplog') = oplog[n] /\ oplog' \in Log
    BY <2>1, <2>3, <2>4, HistoryPrefix
  <2>6. ~Less(Top(oplog), oplog[n])
    <3>1. Less(oplog[Len(oplog)], oplog[n]) <=> Len(oplog) < n
      BY <2>2, <2>3, <2>4, HistoryOrder
    <3>2. ~(Len(oplog) < n)
      BY <2>4
    <3> QED BY <3>1, <3>2 DEF Top
  <2>7. Unapplied' = <<>> /\ Pipeline' = oplog'
    <3>1. Unapplied' = Unapplied
      BY <2>1 DEF Unapplied, applierThread
    <3>2. Pipeline' = oplog' \o <<>>
      BY <1>12, <2>1, <3>1 DEF Pipeline
    <3> QED BY <1>12, <2>1, <2>5, <3>1, <3>2, EmptyFacts, ConcatFacts
  <2>8. HistoryInv'
    BY <1>0, <2>1, <2>5, <2>7 DEF HistoryInv, others
  <2>9. FetchInv'
    BY <2>1, <2>7 DEF FetchInv
  <2>10. RollbackInv'
    BY <1>12, <2>1, <2>6, <2>7 DEF RollbackInv, member, applierThread
  <2>11. ApplierInv'
    BY <1>0, <1>12, <2>1, <2>5, <2>7 DEF ApplierInv, Primary, member, applierThread
  <2> QED BY <1>0, <2>1, <2>8, <2>9, <2>10, <2>11 DEF PipelineInv
<1>14. CASE RollbackFails
  <2>1. /\ producer = "rollback" /\ producer' = "reset"
        /\ UNCHANGED <<others, member, local, state, lastFetched, cursor, docs, buffer,
                       batch, ops, applierThread, failed>>
    BY <1>14 DEF RollbackFails
  <2>2. Pipeline' = Pipeline /\ Unapplied' = Unapplied
    BY <1>2, <2>1 DEF local
  <2>3. ~Less(lastFetched, lastApplied)
    BY <1>12, <2>1, PipelineState, LessFacts
  <2>4. RollbackInv'
    BY <1>12, <2>1, <2>2, <2>3 DEF RollbackInv, member, applierThread, local
  <2>5. FetchInv'
    BY <1>12, <2>1, <2>2 DEF FetchInv
  <2> QED BY <1>1, <2>1, <2>4, <2>5 DEF member
<1>15. CASE Stop
  <2>1. producer = "reset" /\ Unapplied = <<>> /\ buffer = <<>> /\ mode = "secondary"
    BY <1>0, <1>15, PipelineState DEF Stop, RollbackInv
  <2>2. /\ state' = "Stopped" /\ lastFetched' = NullOpTime /\ producer' = "restart"
        /\ UNCHANGED <<others, member, local, cursor, docs, buffer, batch, ops,
                       applierThread, failed>>
    BY <1>15, <2>1 DEF Stop
  <2>3. Pipeline' = Pipeline /\ Unapplied' = Unapplied
    BY <1>2, <2>2 DEF local
  <2>4. ~Less(Top(Pipeline), NullOpTime)
    BY PipelineState, LessFacts
  <2>5. RollbackInv'
    BY <1>0, <2>1, <2>2, <2>3 DEF RollbackInv, member, applierThread
  <2>6. FetchInv'
    BY <2>1, <2>2, <2>3, <2>4 DEF FetchInv
  <2> QED BY <1>1, <2>2, <2>5, <2>6 DEF member
<1>16. CASE Restart
  <2>1. producer = "restart" /\ mode = "secondary" /\ Unapplied = <<>>
    BY <1>0, <1>16 DEF Restart, RollbackInv
  <2>2. /\ state' = "Starting" /\ producer' = "idle"
        /\ UNCHANGED <<others, member, local, lastFetched, cursor, docs, buffer, batch, ops,
                       applierThread, failed>>
    BY <1>0, <1>16 DEF Restart, StartProducerIfStopped, RollbackInv
  <2>3. Pipeline' = Pipeline /\ Unapplied' = Unapplied
    BY <1>2, <2>2 DEF local
  <2>4. RollbackInv'
    BY <2>2 DEF RollbackInv
  <2>5. FetchInv'
    BY <1>0, <2>1, <2>2, <2>3 DEF FetchInv
  <2> QED BY <1>1, <2>1, <2>2, <2>4, <2>5 DEF member
<1> QED BY <1>3, <1>4, <1>5, <1>6, <1>7, <1>8, <1>9, <1>10, <1>11, <1>13, <1>14, <1>15, <1>16
    DEF ProducerStep

\* The steps of the batcher thread move entries on, in order.
LEMMA BatcherKeepsPipeline ==
    ASSUME PipelineInv, TypeInv', BatcherStep
    PROVE  PipelineInv'
<1>0. /\ HistoryInv /\ FetchInv /\ RollbackInv /\ ApplierInv /\ failed = "none" /\ TypeOK
  BY DEF PipelineInv, TypeInv
<1> DEFINE x == IF applier = "taken" THEN applying ELSE <<>>
<1>1. /\ x \in Log /\ ops \in Log /\ batch \in Log /\ buffer \in Log /\ <<>> \in Log
      /\ Unapplied = x \o ops \o batch \o buffer
      /\ UNCHANGED applierThread => Unapplied' = x \o ops' \o batch' \o buffer'
  BY <1>0, EmptyFacts DEF TypeOK, Unapplied, applierThread
<1> HIDE DEF x
<1>2. ASSUME Unapplied' = Unapplied, buffer # <<>> \/ batch # <<>>,
             UNCHANGED <<others, member, local, state, lastFetched, fetching, applierThread,
                         failed>>
      PROVE  PipelineInv'
  <2>1. Pipeline' = Pipeline
    BY <1>2 DEF Pipeline, local
  <2>2. HistoryInv'
    BY <1>0, <1>2, <2>1 DEF HistoryInv, others, local
  <2>3. FetchInv'
    BY <1>0, <1>2, <2>1 DEF FetchInv, member, fetching, local
  <2>4. RollbackInv'
    BY <1>0, <1>2, <2>1 DEF RollbackInv, member, fetching, applierThread, local
  <2>5. ApplierInv'
    BY <1>0, <1>2, <2>1 DEF ApplierInv, Primary, member, applierThread, local
  <2> QED BY <1>0, <1>2, <2>2, <2>3, <2>4, <2>5 DEF PipelineInv
<1>3. CASE EmitBatch
  <2>1. /\ batch # <<>> /\ ops = <<>> /\ ops' = batch /\ batch' = <<>> /\ buffer' = buffer
        /\ UNCHANGED <<others, member, local, state, lastFetched, fetching, applierThread, failed>>
    BY <1>3 DEF EmitBatch
  <2>2. x \o <<>> = x
    BY <1>1, ConcatFacts
  <2>3. (x \o batch) \o <<>> = x \o batch
    <3>1. x \o batch \in Log
      BY <1>1, ConcatFacts
    <3> QED BY <1>1, <3>1, ConcatFacts
  <2>4. Unapplied' = x \o batch \o <<>> \o buffer /\ Unapplied = x \o <<>> \o batch \o buffer
    BY <1>1, <2>1
  <2>5. Unapplied' = Unapplied
    BY <2>2, <2>3, <2>4
  <2> QED BY <1>2, <2>1, <2>5
<1>4. ASSUME NEW n \in 1..BatchLimit, FillBatch(n) PROVE PipelineInv'
  <2>1. /\ batch = <<>> /\ n <= Len(buffer) /\ batch' = SubSeq(buffer, 1, n)
        /\ buffer' = SubSeq(buffer, n + 1, Len(buffer)) /\ ops' = ops
        /\ UNCHANGED <<others, member, local, state, lastFetched, fetching, applierThread, failed>>
    BY <1>4 DEF FillBatch
  <2>2. /\ 1 \in 1..(Len(buffer) + 1) /\ n \in (1 - 1)..Len(buffer)
        /\ Len(buffer) \in n..Len(buffer) /\ buffer # <<>>
    <3>1. n \in Nat /\ n # 0 /\ Len(buffer) \in Nat
      BY <1>1, LogFacts, EntryFacts
    <3>2. Len(buffer) # 0
      BY <2>1, <3>1, SMTT(30)
    <3> QED BY <1>1, <2>1, <3>1, <3>2, LogFacts
  <2>3. batch' \o buffer' = buffer
    <3>1. SubSeq(buffer, 1, n) \o SubSeq(buffer, n + 1, Len(buffer))
            = SubSeq(buffer, 1, Len(buffer))
      BY <1>1, <2>2, ConcatAdjacentSubSeq DEF Log
    <3>2. SubSeq(buffer, 1, Len(buffer)) = buffer
      BY <1>1, SubSeqFull DEF Log
    <3> QED BY <2>1, <3>1, <3>2
  <2> DEFINE y == x \o ops
  <2>4. y \in Log /\ batch' \in Log /\ buffer' \in Log
    BY <1>1, ConcatFacts DEF TypeInv, TypeOK
  <2>5. Unapplied = y \o <<>> \o buffer /\ Unapplied' = y \o batch' \o buffer'
    BY <1>1, <2>1
  <2> HIDE DEF y
  <2>6. y \o <<>> = y
    BY <1>1, <2>4, ConcatFacts
  <2>7. (y \o batch') \o buffer' = y \o (batch' \o buffer')
    BY <2>4, ConcatThree
  <2>8. Unapplied' = Unapplied
    BY <2>3, <2>5, <2>6, <2>7
  <2> QED BY <1>2, <2>1, <2>2, <2>8
<1> QED BY <1>3, <1>4 DEF BatcherStep

\* The steps of the applier thread.
LEMMA ApplierKeepsPipeline ==
    ASSUME PipelineInv, Race = {}, TypeInv', ApplierStep
    PROVE  PipelineInv'
<1>0. /\ HistoryInv /\ FetchInv /\ RollbackInv /\ ApplierInv /\ failed = "none" /\ TypeOK
      /\ History(Pipeline, links)
  BY DEF PipelineInv, TypeInv, HistoryInv
<1>1. /\ oplog \in Log /\ oplog # <<>> /\ Unapplied \in Log /\ ops \in Log /\ batch \in Log
      /\ buffer \in Log /\ applying \in Log /\ <<>> \in Log
      /\ applier \in {"taken", "applied"} => applying # <<>>
  BY EmptyFacts, PipelineState DEF PipelineInv, TypeInv, TypeOK, ShapeInv
\* Steps that leave the sequences alone.
<1>2. ASSUME UNCHANGED <<others, member, local, state, lastFetched, fetching, buffer, batch,
                         ops, failed>>,
             Unapplied' = Unapplied, ApplierInv',
             applier' = "applied" => applier = "applied"
      PROVE  PipelineInv'
  <2>1. Pipeline' = Pipeline
    BY <1>2 DEF Pipeline, local
  <2>2. HistoryInv'
    BY <1>0, <1>2, <2>1 DEF HistoryInv, others, local
  <2>3. FetchInv'
    BY <1>0, <1>2, <2>1 DEF FetchInv, member, fetching, local
  <2>4. RollbackInv'
    BY <1>0, <1>2, <2>1 DEF RollbackInv, member, fetching, local
  <2> QED BY <1>0, <1>2, <2>2, <2>3, <2>4 DEF PipelineInv
<1>3. CASE ReadTerm
  <2>1. /\ applier = "idle" /\ applier' = "waiting"
        /\ UNCHANGED <<others, member, local, state, lastFetched, fetching, buffer, batch,
                       ops, applying, startOfBatch, failed>>
    BY <1>3 DEF ReadTerm
  <2>2. Unapplied' = Unapplied
    BY <2>1 DEF Unapplied
  <2>3. ApplierInv'
    BY <1>0, <2>1, <2>2 DEF ApplierInv, Primary, member, local
  <2> QED BY <1>2, <2>1, <2>2, <2>3
<1>4. CASE TakeNothing
  <2>1. /\ applier = "waiting" /\ applier' = "empty" /\ ops = <<>>
        /\ Primary => buffer \o batch = <<>>
        /\ UNCHANGED <<others, member, local, state, lastFetched, fetching, buffer, batch,
                       ops, applying, termRead, startOfBatch, failed>>
    BY <1>4 DEF TakeNothing
  <2>2. Unapplied' = Unapplied
    BY <2>1 DEF Unapplied
  <2>3. Primary => buffer = <<>> /\ batch = <<>>
    BY <1>1, <2>1, ConcatFacts
  <2>4. ApplierInv'
    BY <1>0, <2>1, <2>2, <2>3 DEF ApplierInv, Primary, member, local
  <2> QED BY <1>2, <2>1, <2>2, <2>4
<1>5. CASE TakeBatch
  <2>1. applier = "waiting" /\ ops # <<>>
    BY <1>5 DEF TakeBatch
  <2>2. Unapplied = <<>> \o ops \o batch \o buffer
    BY <2>1 DEF Unapplied
  <2>3. Unapplied # <<>> /\ Unapplied[1] = ops[1]
    BY <1>1, <2>1, <2>2, PartsFacts
  <2>4. Less(lastApplied, Head(ops))
    <3>1. lastApplied = Top(oplog)
      BY <1>0, <2>1 DEF ApplierInv
    <3>2. Head(ops) = ops[1]
      BY <1>1, <2>1, HeadTailProperties DEF Log
    <3> QED BY <2>3, <3>1, <3>2, PipelineState
  <2>5. /\ applying' = ops /\ ops' = <<>> /\ startOfBatch' = lastApplied /\ applier' = "taken"
        /\ UNCHANGED <<others, member, local, state, lastFetched, fetching, buffer,
                       batch, termRead, failed>>
    BY <1>5, <2>4 DEF TakeBatch
  <2>6. Unapplied' = Unapplied
    <3>1. Unapplied' = ops \o <<>> \o batch \o buffer
      BY <2>5 DEF Unapplied
    <3>2. ops \o <<>> = ops /\ <<>> \o ops = ops
      BY <1>1, ConcatFacts
    <3> QED BY <2>2, <3>1, <3>2
  <2>7. Pipeline' = Pipeline
    BY <2>5, <2>6 DEF Pipeline, local
  <2>8. HistoryInv'
    BY <1>0, <2>5, <2>7 DEF HistoryInv, others, local
  <2>9. FetchInv'
    BY <1>0, <2>5, <2>6, <2>7 DEF FetchInv, member, fetching, local
  <2>10. RollbackInv'
    BY <1>0, <2>3, <2>5 DEF RollbackInv, member, fetching, local
  <2>11. ApplierInv'
    BY <1>0, <2>1, <2>3, <2>5 DEF ApplierInv, member, local
  <2> QED BY <1>0, <2>5, <2>8, <2>9, <2>10, <2>11 DEF PipelineInv
<1>6. CASE SignalDrainComplete
  <2>1. /\ applier = "empty" /\ applier' = "idle"
        /\ UNCHANGED <<others, term, pendingTerm, state, lastFetched, fetching, buffer,
                       batch, ops, applying, termRead, startOfBatch, failed>>
    BY <1>6 DEF SignalDrainComplete
  <2>2. CASE CanExitDrainMode
    <3>1. /\ mode = "draining" /\ termRead = term /\ pendingTerm = 0 /\ mode' = "primary" /\ LogOp
      BY <1>6, <2>2 DEF SignalDrainComplete, CanExitDrainMode
    <3>2. /\ buffer = <<>> /\ batch = <<>> /\ ops = <<>> /\ state = "Stopped"
          /\ producer \notin {"waiting", "check", "rollback", "reset", "restart"}
      BY <1>0, <2>1, <3>1 DEF ApplierInv, RollbackInv, Primary
    <3>3. Unapplied = <<>>
      BY <2>1, <3>2, PipelineState
    <3>4. NewEntry(oplog, term) \in Entry /\ Top(oplog).term <= term
      <4>1. lastApplied' = NewEntry(oplog, term) /\ lastApplied' \in Entry
        BY <3>1 DEF LogOp, TypeInv, TypeOK
      <4>2. Top(oplog) \in Held
        BY <1>1, LogFacts, HeldFacts
      <4>3. Top(oplog).term <= term
        BY <3>1, <4>2 DEF PipelineInv, TypeInv, EntryInv, KnownTerm
      <4> QED BY <4>1, <4>3
    <3>5. /\ HistoryInv' /\ Unapplied' = <<>> /\ links \subseteq links'
          /\ lastApplied' = Top(oplog)'
          /\ Less(Top(Pipeline), Top(Pipeline)') /\ Top(Pipeline)' \in OpTime
          /\ Top(oplog)'.term = term
      BY <2>1, <3>1, <3>3, <3>4, LogOpKeepsHistory DEF others
    <3>6. /\ ~Less(Top(Pipeline)', lastFetched)
          /\ producer = "starting" => ~Less(Top(Pipeline)', cursor)
      BY <1>0, <3>2, <3>5, PipelineState, LessFacts DEF FetchInv
    <3>7. FetchInv'
      BY <1>0, <2>1, <3>1, <3>2, <3>5, <3>6, HistoryKept DEF FetchInv, fetching
    <3>8. RollbackInv'
      BY <2>1, <3>2 DEF RollbackInv, fetching
    <3>9. ApplierInv'
      BY <2>1, <3>1, <3>2, <3>5 DEF ApplierInv
    <3> QED BY <1>0, <2>1, <3>5, <3>7, <3>8, <3>9 DEF PipelineInv
  <2>3. CASE ~CanExitDrainMode
    <3>1. UNCHANGED <<mode, local>>
      BY <1>6, <2>3 DEF SignalDrainComplete
    <3>2. Unapplied' = Unapplied
      BY <2>1 DEF Unapplied
    <3>3. ApplierInv'
      BY <1>0, <2>1, <3>1, <3>2 DEF ApplierInv, Primary, local
    <3> QED BY <1>2, <2>1, <3>1, <3>2, <3>3 DEF member
  <2> QED BY <2>2, <2>3
<1>7. CASE MultiApply
  <2>1. applier = "taken" /\ mode # "primary" /\ lastApplied = startOfBatch
        /\ lastApplied = Top(oplog)
    BY <1>0, <1>7 DEF MultiApply, ApplierInv
  <2>2. /\ oplog' = oplog \o applying /\ applier' = "applied"
        /\ UNCHANGED <<others, member, lastApplied, links, state, lastFetched,
                       fetching, buffer, batch, ops, applying, termRead,
                       startOfBatch, failed>>
    BY <1>7, <2>1 DEF MultiApply
  <2> DEFINE r == ops \o batch \o buffer
  <2>3. r \in Log /\ Unapplied = applying \o r /\ Unapplied' = r
    <3> DEFINE c == ops \o batch
    <3>1. c \in Log /\ applying \in Log /\ buffer \in Log
      BY <1>1, ConcatFacts
    <3>2. Unapplied = ((applying \o ops) \o batch) \o buffer
      BY <2>1 DEF Unapplied
    <3>3. (applying \o ops) \o batch = applying \o c
      <4>1. applying \in Log /\ ops \in Log /\ batch \in Log
        BY <1>1
      <4> QED BY <4>1, ConcatThree
    <3>4. r = c \o buffer
      OBVIOUS
    <3>5. Unapplied' = r
      <4>1. Unapplied' = <<>> \o ops \o batch \o buffer
        BY <2>2 DEF Unapplied
      <4>2. <<>> \o ops = ops
        BY <1>1, ConcatFacts
      <4> QED BY <4>1, <4>2
    <3> HIDE DEF c, r
    <3>6. (applying \o c) \o buffer = applying \o (c \o buffer)
      BY <3>1, ConcatThree
    <3>7. r \in Log
      BY <3>1, <3>4, ConcatFacts
    <3>8. Unapplied = applying \o r
      BY <3>2, <3>3, <3>4, <3>6
    <3> QED BY <3>5, <3>7, <3>8
  <2> HIDE DEF r
  <2>4. Pipeline' = Pipeline
    <3>1. Pipeline' = (oplog \o applying) \o r /\ Pipeline = oplog \o (applying \o r)
      BY <2>2, <2>3 DEF Pipeline
    <3>2. (oplog \o applying) \o r = oplog \o (applying \o r)
      <4>1. oplog \in Log /\ applying \in Log /\ r \in Log
        BY <1>1, <2>3
      <4> QED BY <4>1, ConcatThree
    <3> QED BY <3>1, <3>2
  <2>5. Unapplied # <<>> /\ applying # <<>>
    BY <1>1, <2>1, PipelineState
  <2>6. HistoryInv'
    BY <1>0, <2>2, <2>4 DEF HistoryInv, others
  <2>7. FetchInv'
    BY <1>0, <2>2, <2>4, <2>5 DEF FetchInv, member, fetching
  <2>8. RollbackInv'
    BY <1>0, <2>2, <2>5 DEF RollbackInv, member, fetching
  <2>9. Top(oplog') = Top(applying) /\ Less(Top(oplog), Top(oplog'))
    <3> DEFINE l == oplog \o applying
    <3>1. l \in Log /\ l # <<>> /\ Top(l) = Top(applying)
      BY <1>1, <2>5, ConcatFacts
    <3>2. /\ Len(oplog) \in DOMAIN l /\ l[Len(oplog)] = Top(oplog)
          /\ Len(l) \in DOMAIN l /\ l[Len(l)] = Top(l) /\ Len(oplog) < Len(l)
      BY <1>1, <2>5, PipelineFacts
    <3>3. History(l, links)
      <4>1. /\ l \o r \in Log /\ SubSeq(l \o r, 1, Len(l)) = l
            /\ Len(l) \in DOMAIN (l \o r) /\ Pipeline = l \o r
        <5>1. Pipeline = l \o r
          BY <2>2, <2>3, <2>4 DEF Pipeline
        <5> HIDE DEF l
        <5> QED BY <2>3, <3>1, <5>1, PipelineFacts
      <4> HIDE DEF l
      <4>2. Pipeline \in Log /\ SubSeq(Pipeline, 1, Len(l)) = l /\ Len(l) \in 1..Len(Pipeline)
        BY <4>1, LogFacts
      <4> QED BY <1>0, <4>2, HistoryPrefix
    <3> HIDE DEF l
    <3>4. Less(l[Len(oplog)], l[Len(l)])
      BY <3>1, <3>2, <3>3, HistoryOrder
    <3>5. oplog' = l
      BY <2>2 DEF l
    <3> QED BY <3>1, <3>2, <3>4, <3>5
  <2>10. ApplierInv'
    BY <1>0, <2>1, <2>2, <2>9 DEF ApplierInv, member
  <2> QED BY <1>0, <2>2, <2>6, <2>7, <2>8, <2>10 DEF PipelineInv
<1>8. CASE FinalizeBatch
  <2>1. /\ applier = "applied" /\ lastApplied = startOfBatch /\ mode # "primary"
        /\ Top(applying) = Top(oplog)
    BY <1>0, <1>8 DEF FinalizeBatch, ApplierInv
  <2>2. /\ lastApplied' = Top(applying) /\ applying' = <<>> /\ applier' = "idle"
        /\ UNCHANGED <<others, member, oplog, links, state, lastFetched, fetching,
                       buffer, batch, ops, termRead, startOfBatch, failed>>
    BY <1>8, <2>1 DEF FinalizeBatch
  <2>3. Unapplied' = Unapplied /\ Pipeline' = Pipeline
    BY <2>1, <2>2 DEF Unapplied, Pipeline
  <2>4. HistoryInv'
    BY <1>0, <2>2, <2>3 DEF HistoryInv, others
  <2>5. FetchInv'
    BY <1>0, <2>2, <2>3 DEF FetchInv, member, fetching
  <2>6. RollbackInv'
    BY <1>0, <2>1, <2>2, <2>3 DEF RollbackInv, member, fetching
  <2>7. ApplierInv'
    BY <1>0, <2>1, <2>2 DEF ApplierInv, member
  <2> QED BY <1>0, <2>2, <2>4, <2>5, <2>6, <2>7 DEF PipelineInv
<1> QED BY <1>3, <1>4, <1>5, <1>6, <1>7, <1>8 DEF ApplierStep

-----------------------------------------------------------------------------
(* The theorems. *)

\* The initial states.
LEMMA PipelineStarts == Init => PipelineInv
<1> SUFFICES ASSUME Init PROVE PipelineInv
  OBVIOUS
<1>1. /\ source = <<FirstEntry>> /\ oplog = <<FirstEntry>> /\ lastApplied = FirstEntry
      /\ buffer = <<>> /\ batch = <<>> /\ ops = <<>> /\ mode = "secondary" /\ applier = "idle"
      /\ state = "Starting" /\ lastFetched = NullOpTime /\ producer = "idle" /\ failed = "none"
  BY DEF Init
<1>2. /\ <<FirstEntry>> \in Log /\ Len(<<FirstEntry>>) = 1 /\ <<FirstEntry>>[1] = FirstEntry
      /\ <<FirstEntry>> # <<>> /\ DOMAIN <<FirstEntry>> = 1..1 /\ Top(<<FirstEntry>>) = FirstEntry
  BY EntryFacts DEF Log, Top
<1>3. Unapplied = <<>> /\ Pipeline = <<FirstEntry>>
  <2>1. Unapplied = <<>> \o <<>> \o <<>> \o <<>>
    BY <1>1 DEF Unapplied
  <2>2. <<>> \o <<>> = <<>> /\ <<FirstEntry>> \o <<>> = <<FirstEntry>>
    BY <1>2, EmptyFacts, ConcatFacts
  <2>3. Unapplied = <<>>
    BY <2>1, <2>2
  <2> QED BY <1>1, <2>2, <2>3 DEF Pipeline
<1>4. History(<<FirstEntry>>, links)
  <2>1. \A i \in DOMAIN <<FirstEntry>> : i = 1
    BY <1>2
  <2>2. ~ \E i \in 2..Len(<<FirstEntry>>) : TRUE
    BY <1>2
  <2>3. FirstEntry.term <= FirstEntry.term
    BY EntryFacts
  <2> QED BY <1>2, <2>1, <2>2, <2>3, EntryFacts DEF History
<1>5. ~Less(FirstEntry, NullOpTime)
  BY EntryFacts, OpTimeFacts, LessFacts
<1>6. HistoryInv /\ FetchInv /\ RollbackInv /\ ApplierInv
  BY <1>1, <1>2, <1>3, <1>4, <1>5 DEF HistoryInv, FetchInv, RollbackInv, ApplierInv
<1> QED BY <1>1, <1>6, TypesStart DEF PipelineInv

\* Every action keeps the invariant when none of the races happens.
LEMMA PipelineKept == Race = {} /\ PipelineInv /\ [Next]_vars => PipelineInv'
<1> SUFFICES ASSUME Race = {}, PipelineInv, [Next]_vars PROVE PipelineInv'
  OBVIOUS
<1>1. TypeInv'
  BY TypesKept DEF PipelineInv
<1>2. CASE Next
  BY <1>1, <1>2, EnvironmentKeepsPipeline, ProducerKeepsPipeline, BatcherKeepsPipeline,
     ApplierKeepsPipeline
  DEF Next
<1>3. CASE UNCHANGED vars
  <2>1. Pipeline' = Pipeline /\ Unapplied' = Unapplied
    BY <1>3, PipelineSame DEF vars, local, applierThread
  <2>2. HistoryInv'
    BY <1>3, <2>1 DEF PipelineInv, HistoryInv, vars, local, others
  <2>3. FetchInv'
    BY <1>3, <2>1 DEF PipelineInv, FetchInv, vars, local, member, fetching
  <2>4. RollbackInv'
    BY <1>3, <2>1 DEF PipelineInv, RollbackInv, vars, local, member, fetching, applierThread
  <2>5. ApplierInv'
    BY <1>3, <2>1 DEF PipelineInv, ApplierInv, Primary, vars, local, member, applierThread
  <2> QED BY <1>1, <1>3, <2>2, <2>3, <2>4, <2>5 DEF PipelineInv, vars
<1> QED BY <1>2, <1>3

\* The pipeline is in step with the role of the member and with its sync source.
LEMMA PipelineHolds ==
    ASSUME Race = {}
    PROVE  Spec => []PipelineInv
BY PipelineStarts, PipelineKept, PTL DEF Spec

\* Without the races the oplog, with all that has been fetched for it, is one history: each
\* entry follows the one that it was written after, whatever the sync source does, and
\* through rollbacks, elections, catch-up and draining.
THEOREM OneHistory ==
    ASSUME Race = {}
    PROVE  Spec => []LogMatching
<1>1. PipelineInv => LogMatching
  BY DEF PipelineInv, HistoryInv, History, Pipeline, LogMatching
<1> QED BY <1>1, PipelineHolds, PTL

\* Without the races no invariant() or fassert() of BackgroundSync::stop, of
\* SyncTail::_oplogApplication and of SyncTail::multiApply fails.
THEOREM NoInvariantFails ==
    ASSUME Race = {}
    PROVE  Spec => []InvariantsHold
<1>1. PipelineInv => InvariantsHold
  BY DEF PipelineInv, InvariantsHold
<1> QED BY <1>1, PipelineHolds, PTL

\* Without the races the producer is stopped on a primary that has left drain mode, and
\* never fetches again from before what has been applied, whichever of _runRollback, start
\* and stopProducer has changed its state last.
THEOREM ProducerKeepsStep ==
    ASSUME Race = {}
    PROVE  Spec => []ProducerInStep
<1>1. PipelineInv => ProducerInStep
  <2> SUFFICES ASSUME PipelineInv PROVE ProducerInStep
    OBVIOUS
  <2>1. FetchInv /\ RollbackInv /\ ApplierInv
    BY DEF PipelineInv
  <2>2. PrimaryDoesNotFetch
    BY <2>1 DEF PrimaryDoesNotFetch, ApplierInv
  <2>3. ASSUME state = "Running" PROVE ~Less(lastFetched, lastApplied)
    <3>1. CASE producer = "reset"
      BY <2>1, <3>1 DEF RollbackInv
    <3>2. CASE producer # "reset"
      <4>1. lastFetched = Top(Pipeline)
        BY <2>1, <2>3, <3>2 DEF FetchInv
      <4>2. lastApplied = Top(oplog) \/ Less(lastApplied, Top(oplog))
        BY <2>1 DEF ApplierInv
      <4> QED BY <4>1, <4>2, PipelineState, LessFacts
    <3> QED BY <3>1, <3>2
  <2> QED BY <2>2, <2>3 DEF ProducerInStep, FetchesBeyondApplied
<1> QED BY <1>1, PipelineHolds, PTL

\* Without the races a member that has left drain mode has applied all that it had fetched
\* (SyncTail::_oplogApplication, signalDrainComplete) and nothing arrives while it is primary.
THEOREM DrainedIsEmpty ==
    ASSUME Race = {}
    PROVE  Spec => []DrainedPipelineIsEmpty
<1>1. PipelineInv => DrainedPipelineIsEmpty
  BY DEF PipelineInv, ApplierInv, DrainedPipelineIsEmpty
<1> QED BY <1>1, PipelineHolds, PTL
=============================================================================
