--------------------------- MODULE ElectionProofs ---------------------------
(***************************************************************************)
(* Theorems about module Election, for every set of nodes and all bounds.  *)
(***************************************************************************)
EXTENDS Election, FiniteSetTheorems, TLAPS

-----------------------------------------------------------------------------
(* Lemmas about the operators the actions are built from. *)

\* The larger of two terms is one of them, and bounds both.
LEMMA Max2Facts ==
    ASSUME NEW a \in Nat, NEW b \in Nat
    PROVE  /\ Max2(a, b) \in Nat
           /\ Max2(a, b) \in {a, b}
           /\ a <= Max2(a, b)
           /\ b <= Max2(a, b)
BY DEF Max2

\* Abandoned calls are calls that were there, at most no longer awaited; what
\* another node waits for is untouched.
LEMMA AbandonFacts ==
    ASSUME NEW n, NEW R, R \subseteq Request,
           NEW r \in Abandon(n, R)
    PROVE  /\ r \in Request
           /\ r.live => r \in R /\ r.from # n
           /\ \E q \in R : /\ r.from = q.from /\ r.to = q.to /\ r.term = q.term
                           /\ r.stage = q.stage /\ r.dry = q.dry /\ r.op = q.op
                           /\ r.live => q.live
<1>1. CASE r \in R /\ r.from # n
  BY <1>1 DEF Request
<1>2. CASE \E q \in R : r = [q EXCEPT !.live = FALSE]
  BY <1>2 DEF Request
<1>3. QED
  BY <1>1, <1>2 DEF Abandon

\* The calls left by a crash are abandoned calls that the crashed process was
\* not serving yet.
LEMMA CrashFacts ==
    ASSUME NEW n, NEW R, NEW r \in CrashRequests(n, R)
    PROVE  r \in Abandon(n, R) /\ (r.to = n => r.stage = "sent")
BY DEF CrashRequests

\* New calls are awaited, not yet received, and of the sender's choice of term.
LEMMA VoteRequestsFacts ==
    ASSUME NEW n \in Node, NEW t \in Term, NEW dryRun \in BOOLEAN,
           lastApplied \in [Node -> Term],
           NEW r \in VoteRequests(n, t, dryRun)
    PROVE  /\ r \in Request
           /\ r.from = n /\ r.term = t /\ r.dry = dryRun
           /\ r.stage = "sent" /\ r.live
<1>1. PICK m \in Node :
         r = [from |-> n, to |-> m, term |-> t, dry |-> dryRun,
              op |-> lastApplied[n], stage |-> "sent", live |-> TRUE]
  BY DEF VoteRequests
<1>2. r \in Request
  BY <1>1 DEF Request
<1>3. r.from = n /\ r.term = t /\ r.dry = dryRun /\ r.stage = "sent" /\ r.live
  BY <1>1, Zenon
<1> QED BY <1>2, <1>3

-----------------------------------------------------------------------------
(* Type correctness. *)

\* The variables of a freshly started replica set have their types.
LEMMA TypeInit == Init => TypeOK
<1> SUFFICES ASSUME Init PROVE TypeOK
  OBVIOUS
<1> USE DEF Init
<1>1. 0 \in Term /\ 0 \in 0..MaxElections /\ 0 \in 0..MaxRestarts
  BY BoundAssumption DEF Term
<1>2. lastVote \in [Node -> LastVote] /\ durableVote \in [Node -> LastVote]
  BY <1>1 DEF LastVote
<1>3. tally \in [Node -> Tally]
  BY DEF Tally, NoTally
<1> QED BY <1>1, <1>2, <1>3 DEF TypeOK

\* updateTerm keeps the types of what it may change.
LEMMA TypeUpdateTerm ==
    ASSUME TypeOK, NEW n \in Node, NEW t \in Term, UpdateTerm(n, t)
    PROVE  /\ term' \in [Node -> Term]
           /\ pendingTerm' \in [Node -> Term]
           /\ steppingDown' \in [Node -> BOOLEAN]
<1>1. /\ term \in [Node -> Term] /\ pendingTerm \in [Node -> Term]
      /\ steppingDown \in [Node -> BOOLEAN]
  BY DEF TypeOK
<1>2. Max2(pendingTerm[n], t) \in Term
  BY <1>1 DEF Max2
<1>3. CASE UNCHANGED <<term, pendingTerm, steppingDown>>
  BY <1>1, <1>3
<1>4. CASE term' = [term EXCEPT ![n] = t] /\ UNCHANGED <<pendingTerm, steppingDown>>
  BY <1>1, <1>4
<1>5. CASE /\ pendingTerm' = [pendingTerm EXCEPT ![n] = Max2(@, t)]
           /\ steppingDown' = [steppingDown EXCEPT ![n] = TRUE]
           /\ UNCHANGED term
  BY <1>1, <1>2, <1>5
<1> QED BY <1>3, <1>4, <1>5 DEF UpdateTerm

\* Every step keeps the types of all variables.
LEMMA TypeStep ==
    ASSUME TypeOK, [Next]_vars
    PROVE  TypeOK'
<1> USE BoundAssumption DEF Term, coord, disk, candidacy, history, bounds
<1>1. ASSUME NEW n \in Node, StartDryRun(n) PROVE TypeOK'
  <2>1. VoteRequests(n, term[n], TRUE) \subseteq Request
    BY VoteRequestsFacts DEF TypeOK
  <2>2. elections' \in 0..MaxElections
    BY <1>1 DEF TypeOK, StartDryRun
  <2>3. reqs' \subseteq Request /\ phase' \in [Node -> {"none", "dryRun", "lastVote",
                                                       "voting", "won"}]
    BY <1>1, <2>1 DEF TypeOK, StartDryRun
  <2> QED BY <1>1, <2>2, <2>3 DEF TypeOK, StartDryRun
<1>2. ASSUME NEW n \in Node, NEW t \in Term, StartRealElection(n, t),
             UNCHANGED <<disk, restarts, history>>, elections' \in 0..MaxElections
      PROVE TypeOK'
  <2>1. Abandon(n, reqs) \subseteq Request
    BY AbandonFacts DEF TypeOK
  <2>2. lastVote' \in [Node -> LastVote] /\ tally' \in [Node -> Tally]
    BY <1>2 DEF TypeOK, StartRealElection, LastVote, NoTally, Tally
  <2> QED BY <1>2, <2>1, <2>2 DEF TypeOK, StartRealElection, Max2
<1>3. ASSUME NEW n \in Node, StartSkippingDryRun(n) PROVE TypeOK'
  <2>1. term[n] + 1 \in Term
    BY <1>3 DEF StartSkippingDryRun, StartRealElection, TypeOK
  <2>2. elections' \in 0..MaxElections
    BY <1>3 DEF StartSkippingDryRun, TypeOK
  <2> QED BY <1>3, <1>2, <2>1, <2>2 DEF StartSkippingDryRun
<1>4. ASSUME NEW n \in Node, LoseElection(n),
             UNCHANGED <<term, steppingDown, pendingTerm, lastVote, loading,
                         disk, clusterTerm, bounds, history>>
      PROVE TypeOK'
  <2>1. Abandon(n, reqs) \subseteq Request
    BY AbandonFacts DEF TypeOK
  <2> QED BY <1>4, <2>1 DEF TypeOK, LoseElection, NoTally, Tally
<1>5. ASSUME NEW n \in Node, ProcessDryRunResult(n) PROVE TypeOK'
  <2>1. CASE StartRealElection(n, electTerm[n] + 1)
    <3>1. electTerm[n] + 1 \in Term
      BY <2>1 DEF StartRealElection, TypeOK
    <3>2. elections' \in 0..MaxElections
      BY <1>5 DEF ProcessDryRunResult, TypeOK
    <3> QED BY <1>5, <2>1, <1>2, <3>1, <3>2 DEF ProcessDryRunResult
  <2>2. CASE /\ LoseElection(n)
             /\ UNCHANGED <<term, steppingDown, pendingTerm, lastVote, loading,
                            clusterTerm>>
    BY <1>5, <2>2, <1>4 DEF ProcessDryRunResult
  <2> QED BY <1>5, <2>1, <2>2 DEF ProcessDryRunResult
<1>6. ASSUME NEW n \in Node, WriteLastVoteForMyElection(n) PROVE TypeOK'
  <2>1. VoteRequests(n, electTerm[n], FALSE) \subseteq Request
    BY VoteRequestsFacts DEF TypeOK
  <2>2. Abandon(n, reqs) \subseteq Request
    BY AbandonFacts DEF TypeOK
  <2>3. durableVote' \in [Node -> LastVote]
    BY <1>6 DEF WriteLastVoteForMyElection, StoreLastVote, TypeOK, LastVote
  <2>4. grants' \subseteq Vote
    BY <1>6 DEF WriteLastVoteForMyElection, TypeOK, Vote
  <2>5. NoTally \in Tally
    BY DEF NoTally, Tally
  <2>6. CASE term[n] = electTerm[n]
    BY <1>6, <2>1, <2>3, <2>4, <2>6 DEF WriteLastVoteForMyElection, TypeOK
  <2>7. CASE term[n] # electTerm[n]
    <3>1. /\ LoseElection(n)
          /\ UNCHANGED <<term, steppingDown, pendingTerm, lastVote, loading,
                         lastApplied, clusterTerm, bounds, elected, leaders,
                         voteRegressed>>
      BY <1>6, <2>7 DEF WriteLastVoteForMyElection
    <3> QED BY <2>2, <2>3, <2>4, <2>5, <3>1 DEF LoseElection, TypeOK
  <2> QED BY <2>6, <2>7
<1>7. ASSUME NEW n \in Node, LastVoteWriteFails(n) PROVE TypeOK'
  BY <1>7, <1>4 DEF LastVoteWriteFails
<1>8. ASSUME NEW n \in Node, OnVoteRequestComplete(n) PROVE TypeOK'
  <2>1. Abandon(n, reqs) \subseteq Request
    BY AbandonFacts DEF TypeOK
  <2>2. NoTally \in Tally
    BY DEF NoTally, Tally
  <2>3. CASE LoseElection(n) /\ UNCHANGED elected
    BY <1>8, <1>4, <2>3 DEF OnVoteRequestComplete
  <2>4. CASE ~(LoseElection(n) /\ UNCHANGED elected)
    BY <1>8, <2>1, <2>2, <2>4 DEF OnVoteRequestComplete, TypeOK
  <2> QED BY <2>3, <2>4
<1>9. ASSUME NEW n \in Node, WinElection(n) PROVE TypeOK'
  BY <1>9 DEF WinElection, TypeOK
<1>10. ASSUME NEW r \in reqs, Serving(r) PROVE TypeOK'
  <2>0. r \in Request
    BY DEF TypeOK
  <2>1. CASE ReceiveVoteRequest(r)
    <3>1. /\ term' \in [Node -> Term]
          /\ pendingTerm' \in [Node -> Term]
          /\ steppingDown' \in [Node -> BOOLEAN]
      BY <2>0, <2>1, TypeUpdateTerm DEF ReceiveVoteRequest, Request
    <3>2. reqs' \subseteq Request
      BY <2>0, <2>1 DEF ReceiveVoteRequest, Request, TypeOK
    <3> QED BY <2>1, <3>1, <3>2 DEF ReceiveVoteRequest, TypeOK
  <2>2. ASSUME NEW b \in BOOLEAN, Respond(r, b) PROVE tally' \in [Node -> Tally]
    <3> DEFINE old == tally[r.from]
               new == [yes |-> IF b THEN old.yes \cup {r.to} ELSE old.yes,
                       stale |-> old.stale \/ (~b /\ term[r.to] > r.term)]
    <3>1. r.from \in Node /\ r.to \in Node
      BY <2>0 DEF Request
    <3>2. tally \in [Node -> Tally] /\ old.yes \subseteq Node
      BY <3>1 DEF TypeOK, Tally
    <3>3. (old.stale \/ (~b /\ term[r.to] > r.term)) \in BOOLEAN
      BY Zenon
    <3>4. (IF b THEN old.yes \cup {r.to} ELSE old.yes) \in SUBSET Node
      BY <3>1, <3>2
    <3>5. new \in Tally
      BY <3>3, <3>4, Zenon DEF Tally
    <3>6. tally' = tally \/ tally' = [tally EXCEPT ![r.from] = new]
      BY <2>2 DEF Respond
    <3> HIDE DEF new
    <3> QED BY <3>1, <3>2, <3>5, <3>6
  <2>3. CASE DenyVote(r)
    BY <2>2, <2>3 DEF DenyVote, TypeOK
  <2>4. CASE GrantDryRunVote(r)
    BY <2>2, <2>4 DEF GrantDryRunVote, TypeOK
  <2>5. CASE GrantVote(r)
    <3>1. reqs' \subseteq Request
      BY <2>0, <2>5 DEF GrantVote, Request, TypeOK
    <3>2. lastVote' \in [Node -> LastVote]
      BY <2>0, <2>5 DEF GrantVote, Request, TypeOK, LastVote
    <3>3. voteRegressed' \in BOOLEAN
      BY <2>5, Zenon DEF GrantVote, TypeOK
    <3> QED BY <2>5, <3>1, <3>2, <3>3 DEF GrantVote, TypeOK
  <2>6. CASE StoreVote(r)
    <3>1. durableVote' \in [Node -> LastVote]
      BY <2>0, <2>6 DEF StoreVote, StoreLastVote, TypeOK, LastVote, Request
    <3>2. grants' \subseteq Vote
      BY <2>0, <2>6 DEF StoreVote, TypeOK, Vote, Request
    <3>3. tally' \in [Node -> Tally]
      BY <2>2, <2>6 DEF StoreVote
    <3> QED BY <2>6, <3>1, <3>2, <3>3 DEF StoreVote, TypeOK
  <2>7. CASE StoreVoteFails(r)
    BY <2>7 DEF StoreVoteFails, TypeOK
  <2> QED BY <1>10, <2>1, <2>3, <2>4, <2>5, <2>6, <2>7 DEF Serving
<1>11. ASSUME NEW n \in Node, NEW t \in Term, LearnTerm(n, t) PROVE TypeOK'
  BY <1>11, TypeUpdateTerm DEF LearnTerm, TypeOK
<1>12. ASSUME NEW n \in Node, StepDownFinish(n) PROVE TypeOK'
  <2>1. reqs' \subseteq Request
    BY <1>12 DEF StepDownFinish, Request, TypeOK
  <2> QED BY <1>12, <2>1 DEF StepDownFinish, TypeOK, Max2
<1>13. ASSUME NEW n \in Node, StepDownCommand(n) PROVE TypeOK'
  BY <1>13 DEF StepDownCommand, TypeOK
<1>14. ASSUME NEW n \in Node, PrimaryWrite(n) PROVE TypeOK'
  BY <1>14 DEF PrimaryWrite, TypeOK
<1>15. ASSUME NEW n \in Node, NEW s \in Node, ApplyOps(n, s) PROVE TypeOK'
  BY <1>15 DEF ApplyOps, TypeOK
<1>16. ASSUME NEW n \in Node, Restart(n) PROVE TypeOK'
  <2>1. reqs' \subseteq Request
    BY <1>16, AbandonFacts, CrashFacts DEF Restart, TypeOK
  <2> QED BY <1>16, <2>1 DEF Restart, TypeOK, NoTally, Tally
<1>17. ASSUME NEW n \in Node, RestoreTerm(n) PROVE TypeOK'
  <2>1. Max2(lastApplied[n], durableVote[n].term) \in Term
    BY DEF TypeOK, LastVote, Max2
  <2> QED BY <1>17, <2>1, TypeUpdateTerm DEF RestoreTerm, TypeOK
<1>18. CASE UNCHANGED vars
  BY <1>18 DEF vars, TypeOK
<1> QED
  BY <1>1, <1>3, <1>5, <1>6, <1>7, <1>8, <1>9, <1>10, <1>11, <1>12, <1>13,
     <1>14, <1>15, <1>16, <1>17, <1>18 DEF Next, Candidacy

\* Every variable of the election protocol keeps its type in every behaviour.
THEOREM ElectionTypes == Spec => []TypeOK
BY TypeInit, TypeStep, PTL DEF Spec

-----------------------------------------------------------------------------
(* The control state of a node, and the calls it serves. *)

\* After updateTerm(n, t) node n has term t, or will adopt it when it has
\* stepped down; nothing that was known is forgotten.
LEMMA UpdateTermFacts ==
    ASSUME TypeOK, NEW n \in Node, NEW t \in Term, UpdateTerm(n, t)
    PROVE  /\ t <= Max2(term'[n], pendingTerm'[n])
           /\ StartsStepDown(n, t) => steppingDown'[n]
           /\ role[n] # "Leader" => /\ t <= term'[n]
                                    /\ UNCHANGED <<pendingTerm, steppingDown>>
           /\ \A m \in Node :
                /\ term[m] <= term'[m]
                /\ Max2(term[m], pendingTerm[m]) <= Max2(term'[m], pendingTerm'[m])
                /\ steppingDown[m] => steppingDown'[m]
                /\ steppingDown'[m] => steppingDown[m] \/ role[m] = "Leader"
                /\ pendingTerm'[m] > 0 => pendingTerm[m] > 0 \/ steppingDown'[m]
<1> USE DEF Max2, Term
<1>1. CASE t <= term[n] /\ UNCHANGED <<term, pendingTerm, steppingDown>>
  BY <1>1 DEF TypeOK, StartsStepDown
<1>2. CASE /\ t > term[n] /\ role[n] # "Leader"
           /\ term' = [term EXCEPT ![n] = t]
           /\ UNCHANGED <<pendingTerm, steppingDown>>
  BY <1>2 DEF TypeOK, StartsStepDown
<1>3. CASE /\ t > term[n] /\ role[n] = "Leader"
           /\ pendingTerm' = [pendingTerm EXCEPT ![n] = Max2(@, t)]
           /\ steppingDown' = [steppingDown EXCEPT ![n] = TRUE]
           /\ UNCHANGED term
  BY <1>3 DEF TypeOK, StartsStepDown
<1> QED BY <1>1, <1>2, <1>3 DEF UpdateTerm

\* Every step keeps role, callback, step-down and start of a node consistent.
LEMMA ControlStep ==
    ASSUME TypeOK, ControlInv, RequestInv, Next
    PROVE  ControlInv'
<1> USE DEF ControlInv, coord, disk, candidacy, history, bounds
<1>1. ASSUME NEW n \in Node, StartDryRun(n) PROVE ControlInv'
  BY <1>1 DEF StartDryRun, TypeOK
<1>2. ASSUME NEW n \in Node, NEW t, StartRealElection(n, t), ~loading[n],
             role[n] # "Leader", UNCHANGED disk
      PROVE ControlInv'
  BY <1>2 DEF StartRealElection, TypeOK
<1>3. ASSUME NEW n \in Node, StartSkippingDryRun(n) PROVE ControlInv'
  BY <1>2, <1>3 DEF StartSkippingDryRun
<1>4. ASSUME NEW n \in Node, LoseElection(n), phase[n] # "none",
             UNCHANGED <<term, steppingDown, pendingTerm, lastVote, loading>>,
             durableVote[n].term <= durableVote'[n].term,
             \A m \in Node \ {n} : durableVote'[m] = durableVote[m]
      PROVE ControlInv'
  BY <1>4 DEF LoseElection, TypeOK
<1>5. ASSUME NEW n \in Node, ProcessDryRunResult(n) PROVE ControlInv'
  <2>1. role[n] = "Candidate" /\ ~loading[n] /\ UNCHANGED disk
    BY <1>5 DEF ProcessDryRunResult
  <2>2. CASE StartRealElection(n, electTerm[n] + 1)
    BY <1>2, <2>1, <2>2
  <2>3. CASE /\ LoseElection(n)
             /\ UNCHANGED <<term, steppingDown, pendingTerm, lastVote, loading>>
    BY <1>4, <1>5, <2>1, <2>3 DEF ProcessDryRunResult, TypeOK, LastVote, Term
  <2> QED BY <1>5, <2>2, <2>3 DEF ProcessDryRunResult
<1>6. ASSUME NEW n \in Node, NEW t, NEW c, StoreLastVote(n, t, c), t \in Term
      PROVE  /\ durableVote[n].term <= durableVote'[n].term
             /\ \A m \in Node \ {n} : durableVote'[m] = durableVote[m]
  BY <1>6 DEF StoreLastVote, TypeOK, LastVote, Term
<1>7. ASSUME NEW n \in Node, WriteLastVoteForMyElection(n) PROVE ControlInv'
  <2>1. /\ durableVote[n].term <= durableVote'[n].term
        /\ \A m \in Node \ {n} : durableVote'[m] = durableVote[m]
    BY <1>6, <1>7 DEF WriteLastVoteForMyElection, TypeOK
  <2>2. ~loading[n] /\ phase[n] = "lastVote"
    BY <1>7 DEF WriteLastVoteForMyElection
  <2>3. CASE LoseElection(n)
    BY <1>4, <1>7, <2>1, <2>2, <2>3 DEF WriteLastVoteForMyElection
  <2>4. CASE phase' = [phase EXCEPT ![n] = "voting"] /\ UNCHANGED role
    BY <1>7, <2>1, <2>2, <2>4 DEF WriteLastVoteForMyElection, TypeOK
  <2> QED BY <1>7, <2>3, <2>4 DEF WriteLastVoteForMyElection
<1>8. ASSUME NEW n \in Node, LastVoteWriteFails(n) PROVE ControlInv'
  BY <1>4, <1>8 DEF LastVoteWriteFails, TypeOK, LastVote, Term
<1>9. ASSUME NEW n \in Node, OnVoteRequestComplete(n) PROVE ControlInv'
  <2>1. CASE LoseElection(n)
    BY <1>4, <1>9, <2>1 DEF OnVoteRequestComplete, TypeOK, LastVote, Term
  <2>2. CASE phase' = [phase EXCEPT ![n] = "won"] /\ UNCHANGED role
    BY <1>9, <2>2 DEF OnVoteRequestComplete, TypeOK
  <2> QED BY <1>9, <2>1, <2>2 DEF OnVoteRequestComplete
<1>10. ASSUME NEW n \in Node, WinElection(n) PROVE ControlInv'
  BY <1>10 DEF WinElection, TypeOK
<1>11. ASSUME NEW n \in Node, NEW t \in Term, UpdateTerm(n, t),
              UNCHANGED <<role, lastVote, loading, disk, candidacy>>
       PROVE  ControlInv'
  <2> SUFFICES ASSUME NEW m \in Node PROVE ControlInv!(m)'
    BY DEF ControlInv
  <2>1. /\ term[m] <= term'[m]
        /\ steppingDown'[m] => steppingDown[m] \/ role[m] = "Leader"
        /\ pendingTerm'[m] > 0 => pendingTerm[m] > 0 \/ steppingDown'[m]
        /\ steppingDown[m] => steppingDown'[m]
    BY <1>11, UpdateTermFacts
  <2>2. term[m] \in Nat /\ term'[m] \in Nat /\ durableVote[m].term \in Nat
        /\ lastVote[m].term \in Nat
    BY <1>11, TypeUpdateTerm DEF TypeOK, Term, LastVote
  <2> QED BY <1>11, <2>1, <2>2 DEF Max2
<1>12. ASSUME NEW r \in reqs, Serving(r) PROVE ControlInv'
  <2>0. r \in Request
    BY DEF TypeOK
  <2>1. CASE ReceiveVoteRequest(r)
    BY <1>11, <2>0, <2>1 DEF ReceiveVoteRequest, Request
  <2>2. CASE DenyVote(r) \/ GrantDryRunVote(r) \/ StoreVoteFails(r)
    BY <2>2 DEF DenyVote, GrantDryRunVote, StoreVoteFails
  <2>3. CASE GrantVote(r)
    <3>1. r.term <= Max2(term[r.to], pendingTerm[r.to])
      BY <2>3 DEF GrantVote, RequestInv
    <3>2. loading[r.to] => pendingTerm[r.to] = 0
      BY <2>0 DEF TypeOK, Request, Term
    <3> QED BY <2>0, <2>3, <3>1, <3>2 DEF GrantVote, TypeOK, Request, Max2, Term, LastVote
  <2>4. CASE StoreVote(r)
    <3>1. /\ durableVote[r.to].term <= durableVote'[r.to].term
          /\ \A m \in Node \ {r.to} : durableVote'[m] = durableVote[m]
      BY <1>6, <2>0, <2>4 DEF StoreVote, Request
    <3>2. /\ durableVote \in [Node -> LastVote] /\ durableVote' \in [Node -> LastVote]
          /\ term \in [Node -> Term] /\ lastVote \in [Node -> LastVote]
      BY <2>0, <2>4 DEF StoreVote, StoreLastVote, TypeOK, LastVote, Request
    <3> QED BY <2>0, <2>4, <3>1, <3>2 DEF StoreVote, Request, Max2, Term, LastVote
  <2> QED BY <1>12, <2>1, <2>2, <2>3, <2>4 DEF Serving
<1>13. ASSUME NEW n \in Node, NEW t \in Term, LearnTerm(n, t) PROVE ControlInv'
  BY <1>11, <1>13 DEF LearnTerm
<1>14. ASSUME NEW n \in Node, StepDownFinish(n) PROVE ControlInv'
  BY <1>14 DEF StepDownFinish, TypeOK, Term
<1>15. ASSUME NEW n \in Node, StepDownCommand(n) PROVE ControlInv'
  BY <1>15 DEF StepDownCommand, TypeOK, Term
<1>16. ASSUME NEW n \in Node, NEW s \in Node, PrimaryWrite(n) \/ ApplyOps(n, s)
       PROVE  ControlInv'
  BY <1>16 DEF PrimaryWrite, ApplyOps
<1>17. ASSUME NEW n \in Node, Restart(n) PROVE ControlInv'
  BY <1>17 DEF Restart, TypeOK, Max2, Term, LastVote
<1>18. ASSUME NEW n \in Node, RestoreTerm(n) PROVE ControlInv'
  <2>1. Max2(lastApplied[n], durableVote[n].term) \in Term
    BY DEF TypeOK, LastVote, Max2
  <2>2. role[n] # "Leader" /\ UNCHANGED <<pendingTerm, steppingDown>>
    BY <1>18, <2>1, UpdateTermFacts DEF RestoreTerm
  <2>3. \A m \in Node \ {n} : term'[m] = term[m] /\ loading'[m] = loading[m]
    BY <1>18 DEF RestoreTerm, UpdateTerm, TypeOK
  <2>4. ~loading'[n]
    BY <1>18 DEF RestoreTerm, TypeOK
  <2> QED BY <1>18, <2>2, <2>3, <2>4 DEF RestoreTerm
<1> QED
  BY <1>1, <1>3, <1>5, <1>7, <1>8, <1>9, <1>10, <1>12, <1>13, <1>14, <1>15,
     <1>16, <1>17, <1>18 DEF Next, Candidacy

\* Calls survive a step unharmed if each has a counterpart before the step,
\* nothing the voter knew is forgotten, and the awaited ones still belong to
\* their sender's election.
LEMMA RequestsKept ==
    ASSUME TypeOK, RequestInv,
           \A r \in reqs' : \E q \in reqs :
              /\ r.to = q.to /\ r.term = q.term /\ r.stage = q.stage /\ r.dry = q.dry
              /\ r.live => /\ q.live /\ r.from = q.from
                           /\ phase'[r.from] = phase[r.from]
                           /\ electTerm'[r.from] = electTerm[r.from],
           \A r \in reqs' : r.stage # "sent" =>
              /\ steppingDown[r.to] => steppingDown'[r.to]
              /\ Max2(term[r.to], pendingTerm[r.to])
                    <= Max2(term'[r.to], pendingTerm'[r.to]),
           TypeOK'
    PROVE  RequestInv'
<1> SUFFICES ASSUME NEW r \in reqs' PROVE RequestInv!(r)'
  BY DEF RequestInv
<1>1. PICK q \in reqs :
         /\ r.to = q.to /\ r.term = q.term /\ r.stage = q.stage /\ r.dry = q.dry
         /\ r.live => /\ q.live /\ r.from = q.from
                      /\ phase'[r.from] = phase[r.from]
                      /\ electTerm'[r.from] = electTerm[r.from]
  OBVIOUS
<1>2. RequestInv!(q)
  BY DEF RequestInv
<1>3. r \in Request /\ q \in Request
  BY DEF TypeOK
<1>4. ASSUME r.stage # "sent" PROVE r.term <= Max2(term'[r.to], pendingTerm'[r.to])
  <2>1. /\ Max2(term[r.to], pendingTerm[r.to]) \in Nat
        /\ Max2(term'[r.to], pendingTerm'[r.to]) \in Nat
        /\ r.term \in Nat
    BY <1>3 DEF TypeOK, Term, Max2, Request
  <2> QED BY <1>1, <1>2, <1>4, <2>1
<1> QED BY <1>1, <1>2, <1>4

\* Every step keeps vote requests consistent with their voter and sender.
LEMMA RequestStep ==
    ASSUME TypeOK, TypeOK', ControlInv, RequestInv, Next
    PROVE  RequestInv'
<1> USE DEF coord, disk, candidacy, history, bounds
<1>0. reqs \subseteq Request /\ reqs' \subseteq Request
  BY DEF TypeOK
<1>a. \A m \in Node : Max2(term[m], pendingTerm[m]) <= Max2(term[m], pendingTerm[m])
  BY DEF TypeOK, Term, Max2
<1>b. \A r \in Request : r.to \in Node /\ r.from \in Node
  BY DEF Request
<1>1. ASSUME NEW n \in Node, StartDryRun(n) PROVE RequestInv'
  <2>1. \A r \in reqs : r.live => r.from # n
    BY <1>1 DEF StartDryRun, ControlInv, RequestInv
  <2>2. ASSUME NEW r \in reqs PROVE RequestInv!(r)'
    BY <1>0, <1>1, <1>b, <2>1, <2>2 DEF StartDryRun, RequestInv, TypeOK
  <2>3. ASSUME NEW r \in VoteRequests(n, term[n], TRUE) PROVE RequestInv!(r)'
    <3>1. /\ r.from = n /\ r.term = term[n] /\ r.dry = TRUE
          /\ r.stage = "sent" /\ r.live
      <4>1. term[n] \in Term /\ lastApplied \in [Node -> Term]
        BY DEF TypeOK
      <4> QED BY <2>3, <4>1, VoteRequestsFacts, Zenon
    <3>2. phase'[n] = "dryRun" /\ electTerm'[n] = term[n]
      BY <1>1 DEF StartDryRun, TypeOK
    <3> QED BY <3>1, <3>2
  <2> QED BY <1>1, <2>2, <2>3 DEF StartDryRun, RequestInv
<1>2. ASSUME NEW n \in Node, NEW t \in Term, reqs' = Abandon(n, reqs),
             t >= term[n], term' = [term EXCEPT ![n] = t],
             \A m \in Node \ {n} : phase'[m] = phase[m] /\ electTerm'[m] = electTerm[m],
             UNCHANGED <<pendingTerm, steppingDown>>
      PROVE  RequestInv'
  <2>1. ASSUME NEW r \in reqs'
        PROVE \E q \in reqs :
              /\ r.to = q.to /\ r.term = q.term /\ r.stage = q.stage /\ r.dry = q.dry
              /\ r.live => /\ q.live /\ r.from = q.from
                           /\ phase'[r.from] = phase[r.from]
                           /\ electTerm'[r.from] = electTerm[r.from]
    BY <1>0, <1>2, <1>b, <2>1, AbandonFacts
  <2>2. ASSUME NEW r \in reqs'
        PROVE  /\ steppingDown[r.to] => steppingDown'[r.to]
               /\ Max2(term[r.to], pendingTerm[r.to])
                     <= Max2(term'[r.to], pendingTerm'[r.to])
    BY <1>0, <1>2, <1>b, <2>2 DEF TypeOK, Term, Max2
  <2> QED BY <2>1, <2>2, RequestsKept
<1>3. ASSUME NEW n \in Node, NEW t \in Term, StartRealElection(n, t), t >= term[n]
      PROVE  RequestInv'
  <2>1. \A m \in Node \ {n} : phase'[m] = phase[m] /\ electTerm'[m] = electTerm[m]
    BY <1>3 DEF StartRealElection, TypeOK
  <2> QED BY <1>2, <1>3, <2>1 DEF StartRealElection
<1>4. ASSUME NEW n \in Node, StartSkippingDryRun(n) PROVE RequestInv'
  <2>1. term[n] + 1 \in Term /\ term[n] + 1 >= term[n]
    BY <1>4, BoundAssumption DEF StartSkippingDryRun, StartRealElection, TypeOK, Term
  <2> QED BY <1>3, <1>4, <2>1 DEF StartSkippingDryRun
<1>5. ASSUME NEW n \in Node, LoseElection(n),
             UNCHANGED <<term, pendingTerm, steppingDown>>
      PROVE  RequestInv'
  <2>1. \A m \in Node \ {n} : phase'[m] = phase[m] /\ electTerm'[m] = electTerm[m]
    BY <1>5 DEF LoseElection, TypeOK
  <2>2. term[n] \in Term /\ term[n] >= term[n] /\ term' = [term EXCEPT ![n] = term[n]]
    BY <1>5 DEF TypeOK, Term
  <2> QED BY <1>2, <1>5, <2>1, <2>2 DEF LoseElection
<1>6. ASSUME NEW n \in Node, ProcessDryRunResult(n) PROVE RequestInv'
  <2>1. CASE term[n] = electTerm[n] /\ StartRealElection(n, electTerm[n] + 1)
    <3>1. electTerm[n] + 1 \in Term /\ electTerm[n] + 1 >= term[n]
      BY <2>1, BoundAssumption DEF StartRealElection, TypeOK, Term
    <3> QED BY <1>3, <2>1, <3>1
  <2> QED BY <1>5, <1>6, <2>1 DEF ProcessDryRunResult
<1>7. ASSUME NEW n \in Node, WriteLastVoteForMyElection(n) PROVE RequestInv'
  <2>1. CASE LoseElection(n)
    BY <1>5, <1>7, <2>1 DEF WriteLastVoteForMyElection
  <2>2. CASE /\ phase' = [phase EXCEPT ![n] = "voting"]
             /\ reqs' = reqs \cup VoteRequests(n, electTerm[n], FALSE)
             /\ UNCHANGED electTerm
    <3>1. \A r \in reqs : r.live => r.from # n
      BY <1>7 DEF WriteLastVoteForMyElection, RequestInv
    <3>2. ASSUME NEW r \in reqs PROVE RequestInv!(r)'
      BY <1>0, <1>7, <1>b, <2>2, <3>1, <3>2
      DEF WriteLastVoteForMyElection, RequestInv, TypeOK
    <3>3. ASSUME NEW r \in VoteRequests(n, electTerm[n], FALSE) PROVE RequestInv!(r)'
      <4>1. /\ r.from = n /\ r.term = electTerm[n] /\ r.dry = FALSE
            /\ r.stage = "sent" /\ r.live
        <5>1. electTerm[n] \in Term /\ lastApplied \in [Node -> Term]
          BY DEF TypeOK
        <5> QED BY <3>3, <5>1, VoteRequestsFacts, Zenon
      <4>2. phase'[n] = "voting" /\ electTerm'[n] = electTerm[n]
        BY <2>2 DEF TypeOK
      <4> QED BY <4>1, <4>2
    <3> QED BY <2>2, <3>2, <3>3 DEF RequestInv
  <2> QED BY <1>7, <2>1, <2>2 DEF WriteLastVoteForMyElection
<1>8. ASSUME NEW n \in Node, LastVoteWriteFails(n) PROVE RequestInv'
  BY <1>5, <1>8 DEF LastVoteWriteFails
<1>9. ASSUME NEW n \in Node, OnVoteRequestComplete(n) PROVE RequestInv'
  <2>1. CASE LoseElection(n)
    BY <1>5, <1>9, <2>1 DEF OnVoteRequestComplete
  <2>2. CASE /\ phase' = [phase EXCEPT ![n] = "won"]
             /\ reqs' = Abandon(n, reqs) /\ UNCHANGED electTerm
    <3>1. \A m \in Node \ {n} : phase'[m] = phase[m] /\ electTerm'[m] = electTerm[m]
      BY <2>2 DEF TypeOK
    <3>2. term[n] \in Term /\ term[n] >= term[n] /\ term' = [term EXCEPT ![n] = term[n]]
      BY <1>9 DEF OnVoteRequestComplete, TypeOK, Term
    <3> QED BY <1>2, <1>9, <2>2, <3>1, <3>2 DEF OnVoteRequestComplete
  <2> QED BY <1>9, <2>1, <2>2 DEF OnVoteRequestComplete
<1>10. ASSUME NEW n \in Node, WinElection(n) PROVE RequestInv'
  BY <1>0, <1>10, <1>b DEF WinElection, RequestInv, TypeOK
<1>11. ASSUME NEW n \in Node, NEW t \in Term, UpdateTerm(n, t),
              NEW r \in reqs, UNCHANGED candidacy
       PROVE  RequestInv!(r)'
  <2>1. /\ Max2(term[r.to], pendingTerm[r.to]) <= Max2(term'[r.to], pendingTerm'[r.to])
        /\ steppingDown[r.to] => steppingDown'[r.to]
    BY <1>0, <1>11, <1>b, UpdateTermFacts
  <2>2. /\ Max2(term[r.to], pendingTerm[r.to]) \in Nat
        /\ Max2(term'[r.to], pendingTerm'[r.to]) \in Nat
        /\ r.term \in Nat
    BY <1>0 DEF TypeOK, Term, Max2, Request
  <2>3. RequestInv!(r)
    BY DEF RequestInv
  <2> QED BY <1>11, <2>1, <2>2, <2>3
<1>12. ASSUME NEW r \in reqs, Serving(r) PROVE RequestInv'
  <2>0. r \in Request
    BY DEF TypeOK
  <2>1. CASE ReceiveVoteRequest(r)
    <3>0. PICK s \in Request :
             s = [r EXCEPT !.stage = IF StartsStepDown(r.to, r.term)
                                     THEN "waiting" ELSE "termed"]
      BY <2>0 DEF Request
    <3>1. RequestInv!(r) /\ r.stage = "sent" /\ UpdateTerm(r.to, r.term)
      BY <2>1 DEF ReceiveVoteRequest, RequestInv
    <3>2. /\ r.term <= Max2(term'[r.to], pendingTerm'[r.to])
          /\ StartsStepDown(r.to, r.term) => steppingDown'[r.to]
      BY <2>0, <3>1, UpdateTermFacts DEF Request
    <3>3. /\ s.to = r.to /\ s.from = r.from /\ s.term = r.term /\ s.dry = r.dry
          /\ s.live = r.live /\ s.stage # "storing"
          /\ s.stage = "waiting" => StartsStepDown(r.to, r.term)
      BY <2>0, <3>0 DEF Request
    <3>4. RequestInv!(s)'
      <4>1. UNCHANGED <<phase, electTerm>>
        BY <2>1 DEF ReceiveVoteRequest
      <4> QED BY <3>1, <3>2, <3>3, <4>1
    <3>5. \A q \in reqs : RequestInv!(q)'
      BY <1>11, <1>b, <2>0, <2>1, <3>1 DEF ReceiveVoteRequest, Request
    <3> QED BY <2>1, <3>0, <3>4, <3>5 DEF ReceiveVoteRequest, RequestInv
  <2>2. CASE DenyVote(r) \/ GrantDryRunVote(r) \/ StoreVote(r) \/ StoreVoteFails(r)
    BY <2>2 DEF DenyVote, GrantDryRunVote, StoreVote, StoreVoteFails, RequestInv
  <2>3. CASE GrantVote(r)
    <3> DEFINE s == [r EXCEPT !.stage = "storing"]
    <3>1. RequestInv!(r) /\ r.stage = "termed" /\ ~r.dry
      BY <2>3 DEF GrantVote, RequestInv
    <3>2. /\ s.to = r.to /\ s.from = r.from /\ s.term = r.term /\ s.dry = r.dry
          /\ s.live = r.live /\ s.stage = "storing"
      BY <2>0 DEF Request
    <3>3. RequestInv!(s)'
      BY <2>3, <3>1, <3>2 DEF GrantVote
    <3> QED BY <2>3, <3>3 DEF GrantVote, RequestInv
  <2> QED BY <1>12, <2>1, <2>2, <2>3 DEF Serving
<1>13. ASSUME NEW n \in Node, NEW t \in Term, LearnTerm(n, t) PROVE RequestInv'
  BY <1>11, <1>13 DEF LearnTerm, RequestInv
<1>14. ASSUME NEW n \in Node, StepDownFinish(n) PROVE RequestInv'
  <2> SUFFICES ASSUME NEW r \in reqs' PROVE RequestInv!(r)'
    BY DEF RequestInv
  <2>1. PICK q \in reqs : r = IF q.to = n /\ q.stage = "waiting"
                             THEN [q EXCEPT !.stage = "termed"] ELSE q
    BY <1>14 DEF StepDownFinish
  <2>2. RequestInv!(q) /\ q \in Request
    BY DEF RequestInv, TypeOK
  <2>3. /\ r.to = q.to /\ r.from = q.from /\ r.term = q.term /\ r.dry = q.dry
        /\ r.live = q.live
        /\ q.stage = "sent" <=> r.stage = "sent"
        /\ r.stage = "storing" => q.stage = "storing"
        /\ r.stage = "waiting" => q.stage = "waiting" /\ r.to # n
    BY <2>1, <2>2 DEF Request
  <2>4. q.term <= Max2(term[q.to], pendingTerm[q.to])
           => q.term <= Max2(term'[q.to], pendingTerm'[q.to])
    BY <1>14, <2>2 DEF StepDownFinish, TypeOK, Request, Term, Max2
  <2>5. r.to # n => steppingDown'[r.to] = steppingDown[r.to]
    BY <1>14, <2>2, <2>3 DEF StepDownFinish, TypeOK, Request
  <2> QED BY <1>14, <2>2, <2>3, <2>4, <2>5 DEF StepDownFinish
<1>15. ASSUME NEW n \in Node, NEW s \in Node,
              StepDownCommand(n) \/ PrimaryWrite(n) \/ ApplyOps(n, s)
       PROVE  RequestInv'
  BY <1>15 DEF StepDownCommand, PrimaryWrite, ApplyOps, RequestInv
<1>16. ASSUME NEW n \in Node, Restart(n) PROVE RequestInv'
  <2>1. ASSUME NEW r \in reqs'
        PROVE \E q \in reqs :
              /\ r.to = q.to /\ r.term = q.term /\ r.stage = q.stage /\ r.dry = q.dry
              /\ r.live => /\ q.live /\ r.from = q.from
                           /\ phase'[r.from] = phase[r.from]
                           /\ electTerm'[r.from] = electTerm[r.from]
    <3>1. r \in Abandon(n, reqs)
      BY <1>16, <2>1, CrashFacts DEF Restart
    <3>2. \A m \in Node \ {n} : phase'[m] = phase[m] /\ electTerm'[m] = electTerm[m]
      BY <1>16 DEF Restart, TypeOK
    <3> QED BY <1>0, <1>b, <2>1, <3>1, <3>2, AbandonFacts
  <2>2. ASSUME NEW r \in reqs', r.stage # "sent"
        PROVE  /\ steppingDown[r.to] => steppingDown'[r.to]
               /\ Max2(term[r.to], pendingTerm[r.to])
                     <= Max2(term'[r.to], pendingTerm'[r.to])
    <3>1. r.to \in Node \ {n}
      BY <1>0, <1>16, <1>b, <2>2, CrashFacts DEF Restart
    <3>2. /\ term'[r.to] = term[r.to] /\ pendingTerm'[r.to] = pendingTerm[r.to]
          /\ steppingDown'[r.to] = steppingDown[r.to]
      <4>1. /\ term \in [Node -> Term] /\ pendingTerm \in [Node -> Term]
            /\ steppingDown \in [Node -> BOOLEAN]
        BY DEF TypeOK
      <4>2. /\ term' = [term EXCEPT ![n] = 0]
            /\ pendingTerm' = [pendingTerm EXCEPT ![n] = 0]
            /\ steppingDown' = [steppingDown EXCEPT ![n] = FALSE]
        BY <1>16 DEF Restart
      <4> QED BY <3>1, <4>1, <4>2
    <3> QED BY <1>a, <3>1, <3>2
  <2> QED BY <2>1, <2>2, RequestsKept
<1>17. ASSUME NEW n \in Node, RestoreTerm(n) PROVE RequestInv'
  <2>1. Max2(lastApplied[n], durableVote[n].term) \in Term
    BY DEF TypeOK, LastVote, Max2
  <2> QED BY <1>11, <1>17, <2>1 DEF RestoreTerm, RequestInv
<1> QED
  BY <1>1, <1>4, <1>6, <1>7, <1>8, <1>9, <1>10, <1>12, <1>13, <1>14, <1>15,
     <1>16, <1>17 DEF Next, Candidacy

-----------------------------------------------------------------------------
(* Votes. *)

\* Every step keeps a node's last vote within its current or pending term.
LEMMA LastVoteStep ==
    ASSUME TypeOK, TypeOK', ControlInv, RequestInv, LastVoteWithinTerm, Next
    PROVE  LastVoteWithinTerm'
<1> USE DEF coord, disk, candidacy, history, bounds
<1>t. \A m \in Node :
        /\ term[m] \in Nat /\ pendingTerm[m] \in Nat /\ lastVote[m].term \in Nat
        /\ term'[m] \in Nat /\ pendingTerm'[m] \in Nat /\ lastVote'[m].term \in Nat
        /\ Max2(term[m], pendingTerm[m]) \in Nat
        /\ Max2(term'[m], pendingTerm'[m]) \in Nat
  BY DEF TypeOK, Term, LastVote, Max2
<1>1. ASSUME UNCHANGED <<term, pendingTerm, lastVote, loading>>
      PROVE  LastVoteWithinTerm'
  BY <1>1 DEF LastVoteWithinTerm
<1>2. ASSUME NEW n \in Node, NEW t \in Term, StartRealElection(n, t)
      PROVE  LastVoteWithinTerm'
  <2> SUFFICES ASSUME NEW m \in Node PROVE LastVoteWithinTerm!(m)'
    BY DEF LastVoteWithinTerm
  <2>1. CASE m = n
    <3>1. term'[n] = t /\ lastVote'[n].term = t
      BY <1>2 DEF StartRealElection, TypeOK
    <3> QED BY <1>t, <2>1, <3>1 DEF Max2
  <2>2. CASE m # n
    BY <1>2, <2>2 DEF StartRealElection, LastVoteWithinTerm, TypeOK
  <2> QED BY <2>1, <2>2
<1>3. ASSUME NEW n \in Node, Candidacy(n) PROVE LastVoteWithinTerm'
  <2>1. CASE StartDryRun(n) \/ WriteLastVoteForMyElection(n) \/ LastVoteWriteFails(n)
             \/ OnVoteRequestComplete(n) \/ WinElection(n)
    BY <1>1, <2>1 DEF StartDryRun, WriteLastVoteForMyElection, LastVoteWriteFails,
                      OnVoteRequestComplete, WinElection
  <2>2. ASSUME NEW t, StartRealElection(n, t), t = term[n] + 1 \/ t = electTerm[n] + 1
        PROVE  t \in Term
    BY <2>2, BoundAssumption DEF StartRealElection, TypeOK, Term
  <2>3. CASE StartSkippingDryRun(n)
    BY <1>2, <2>2, <2>3 DEF StartSkippingDryRun
  <2>4. CASE ProcessDryRunResult(n)
    BY <1>1, <1>2, <2>2, <2>4 DEF ProcessDryRunResult
  <2> QED BY <1>3, <2>1, <2>3, <2>4 DEF Candidacy
<1>4. ASSUME NEW n \in Node, NEW t \in Term, UpdateTerm(n, t),
             UNCHANGED <<lastVote, loading>>
      PROVE  LastVoteWithinTerm'
  <2> SUFFICES ASSUME NEW m \in Node PROVE LastVoteWithinTerm!(m)'
    BY DEF LastVoteWithinTerm
  <2>1. Max2(term[m], pendingTerm[m]) <= Max2(term'[m], pendingTerm'[m])
    BY <1>4, UpdateTermFacts
  <2> QED BY <1>4, <1>t, <2>1 DEF LastVoteWithinTerm
<1>5. ASSUME NEW r \in reqs, Serving(r) PROVE LastVoteWithinTerm'
  <2>0. r \in Request /\ r.to \in Node /\ r.term \in Term
    BY DEF TypeOK, Request
  <2>1. CASE ReceiveVoteRequest(r)
    BY <1>4, <2>0, <2>1 DEF ReceiveVoteRequest
  <2>2. CASE DenyVote(r) \/ GrantDryRunVote(r) \/ StoreVote(r) \/ StoreVoteFails(r)
    BY <1>1, <2>2 DEF DenyVote, GrantDryRunVote, StoreVote, StoreVoteFails
  <2>3. CASE GrantVote(r)
    <3>1. r.term <= Max2(term[r.to], pendingTerm[r.to])
      BY <2>3 DEF GrantVote, RequestInv
    <3>2. lastVote'[r.to].term = r.term
      BY <2>0, <2>3 DEF GrantVote, TypeOK
    <3>3. \A m \in Node \ {r.to} : lastVote'[m] = lastVote[m]
      BY <2>0, <2>3 DEF GrantVote, TypeOK
    <3>4. UNCHANGED <<term, pendingTerm, loading>>
      BY <2>3 DEF GrantVote
    <3> QED BY <3>1, <3>2, <3>3, <3>4 DEF LastVoteWithinTerm
  <2> QED BY <1>5, <2>1, <2>2, <2>3 DEF Serving
<1>6. ASSUME NEW n \in Node, NEW t \in Term, LearnTerm(n, t) PROVE LastVoteWithinTerm'
  BY <1>4, <1>6 DEF LearnTerm
<1>7. ASSUME NEW n \in Node, StepDownFinish(n) PROVE LastVoteWithinTerm'
  BY <1>7, <1>t DEF StepDownFinish, LastVoteWithinTerm, TypeOK, Max2
<1>8. ASSUME NEW n \in Node, NEW s \in Node,
             StepDownCommand(n) \/ PrimaryWrite(n) \/ ApplyOps(n, s)
      PROVE  LastVoteWithinTerm'
  BY <1>1, <1>8 DEF StepDownCommand, PrimaryWrite, ApplyOps
<1>9. ASSUME NEW n \in Node, Restart(n) PROVE LastVoteWithinTerm'
  BY <1>9 DEF Restart, LastVoteWithinTerm, TypeOK
<1>10. ASSUME NEW n \in Node, RestoreTerm(n) PROVE LastVoteWithinTerm'
  <2> DEFINE t == Max2(lastApplied[n], durableVote[n].term)
  <2>1. t \in Term /\ durableVote[n].term <= t /\ durableVote[n].term \in Nat
    BY DEF TypeOK, LastVote, Max2, Term
  <2>2. /\ t <= term'[n] /\ term[n] <= term'[n]
    BY <1>10, <2>1, UpdateTermFacts DEF RestoreTerm, ControlInv
  <2>3. lastVote[n].term <= Max2(term[n], durableVote[n].term) /\ UNCHANGED lastVote
    BY <1>10 DEF RestoreTerm, ControlInv
  <2>4. lastVote'[n].term <= term'[n]
    <3> HIDE DEF t
    <3>1. t \in Nat
      BY <2>1 DEF Term
    <3> QED BY <1>t, <2>1, <2>2, <2>3, <3>1 DEF Max2
  <2>5. \A m \in Node \ {n} : /\ term'[m] = term[m] /\ loading'[m] = loading[m]
                              /\ pendingTerm'[m] = pendingTerm[m]
    BY <1>10 DEF RestoreTerm, UpdateTerm, TypeOK
  <2> QED BY <1>t, <2>3, <2>4, <2>5 DEF LastVoteWithinTerm, Max2
<1> QED
  BY <1>3, <1>5, <1>6, <1>7, <1>8, <1>9, <1>10 DEF Next

\* No step forgets a vote; a step that records one writes the document first.
LEMMA DurableStep ==
    ASSUME TypeOK, GrantedVotesDurable, Next
    PROVE  GrantedVotesDurable' /\ grants \subseteq grants'
           /\ \A n \in Node : durableVote[n].term <= durableVote'[n].term
<1> USE DEF coord, disk, candidacy, history, bounds
<1> DEFINE Goal == GrantedVotesDurable' /\ grants \subseteq grants'
                   /\ \A n \in Node : durableVote[n].term <= durableVote'[n].term
<1>1. ASSUME UNCHANGED <<grants, durableVote>> PROVE Goal
  BY <1>1 DEF GrantedVotesDurable, TypeOK, LastVote, Term
<1>2. ASSUME NEW n \in Node, NEW t \in Term, NEW c \in Node, StoreLastVote(n, t, c),
             grants' = grants \cup {[voter |-> n, cand |-> c, term |-> t]}
      PROVE  Goal
  <2>1. /\ t <= durableVote'[n].term
        /\ \A m \in Node : /\ durableVote[m].term \in Nat
                            /\ durableVote'[m].term \in Nat
                            /\ durableVote[m].term <= durableVote'[m].term
    BY <1>2 DEF StoreLastVote, TypeOK, LastVote, Term
  <2>2. \A g \in grants : g.voter \in Node /\ g.term \in Nat
    BY DEF TypeOK, Vote, Term
  <2>3. grants \subseteq grants'
    BY <1>2
  <2>4. ASSUME NEW g \in grants' PROVE durableVote'[g.voter].term >= g.term
    <3>1. CASE g \in grants
      BY <2>1, <2>2, <3>1 DEF GrantedVotesDurable
    <3>2. CASE g = [voter |-> n, cand |-> c, term |-> t]
      BY <2>1, <3>2 DEF Term
    <3> QED BY <1>2, <2>4, <3>1, <3>2
  <2> QED BY <2>1, <2>3, <2>4 DEF GrantedVotesDurable
<1>3. ASSUME NEW n \in Node, Candidacy(n) PROVE Goal
  <2>1. CASE WriteLastVoteForMyElection(n)
    BY <1>2, <2>1 DEF WriteLastVoteForMyElection, TypeOK
  <2>2. CASE ~WriteLastVoteForMyElection(n)
    BY <1>1, <1>3, <2>2 DEF Candidacy, StartDryRun, StartSkippingDryRun,
       ProcessDryRunResult, LastVoteWriteFails, OnVoteRequestComplete, WinElection
  <2> QED BY <2>1, <2>2
<1>4. ASSUME NEW r \in reqs, Serving(r) PROVE Goal
  <2>0. r.to \in Node /\ r.from \in Node /\ r.term \in Term
    BY DEF TypeOK, Request
  <2>1. CASE StoreVote(r)
    BY <1>2, <2>0, <2>1 DEF StoreVote
  <2>2. CASE ~StoreVote(r)
    BY <1>1, <1>4, <2>2 DEF Serving, ReceiveVoteRequest, DenyVote,
       GrantDryRunVote, GrantVote, StoreVoteFails
  <2> QED BY <2>1, <2>2
<1>5. CASE \E n \in Node, t \in Term : LearnTerm(n, t)
  BY <1>1, <1>5 DEF LearnTerm
<1>6. CASE \E n \in Node : StepDownFinish(n) \/ StepDownCommand(n) \/ PrimaryWrite(n)
                          \/ Restart(n) \/ RestoreTerm(n)
  BY <1>1, <1>6 DEF StepDownFinish, StepDownCommand, PrimaryWrite, Restart, RestoreTerm
<1>7. CASE \E n, s \in Node : ApplyOps(n, s)
  BY <1>1, <1>7 DEF ApplyOps
<1> QED
  BY <1>3, <1>4, <1>5, <1>6, <1>7 DEF Next

\* Every step keeps the votes counted in a real election among those recorded.
LEMMA TallyStep ==
    ASSUME TypeOK, RequestInv, TallyInv, Next, grants \subseteq grants'
    PROVE  TallyInv'
<1> USE DEF coord, disk, candidacy, history, bounds
<1>1. ASSUME NEW n \in Node,
             \A m \in Node \ {n} :
                phase'[m] = phase[m] /\ electTerm'[m] = electTerm[m] /\ tally'[m] = tally[m],
             phase'[n] \notin {"lastVote", "voting"} \/ TallyInv!(n)'
      PROVE  TallyInv'
  BY <1>1 DEF TallyInv
<1>2. ASSUME UNCHANGED candidacy PROVE TallyInv'
  BY <1>2 DEF TallyInv
<1>3. ASSUME NEW n \in Node, Candidacy(n) PROVE TallyInv'
  <2>0. \A m \in Node \ {n} :
           phase'[m] = phase[m] /\ electTerm'[m] = electTerm[m] /\ tally'[m] = tally[m]
    <3> USE DEF TypeOK
    <3>1. CASE StartDryRun(n)
      BY <3>1 DEF StartDryRun
    <3>2. CASE StartSkippingDryRun(n)
      BY <3>2 DEF StartSkippingDryRun, StartRealElection
    <3>3. CASE ProcessDryRunResult(n)
      BY <3>3 DEF ProcessDryRunResult, StartRealElection, LoseElection
    <3>4. CASE WriteLastVoteForMyElection(n)
      BY <3>4 DEF WriteLastVoteForMyElection, LoseElection
    <3>5. CASE LastVoteWriteFails(n)
      BY <3>5 DEF LastVoteWriteFails, LoseElection
    <3>6. CASE OnVoteRequestComplete(n)
      BY <3>6 DEF OnVoteRequestComplete, LoseElection
    <3>7. CASE WinElection(n)
      BY <3>7 DEF WinElection
    <3> QED BY <1>3, <3>1, <3>2, <3>3, <3>4, <3>5, <3>6, <3>7 DEF Candidacy
  <2>1. CASE StartDryRun(n) \/ LastVoteWriteFails(n) \/ OnVoteRequestComplete(n)
             \/ WinElection(n)
    <3>1. phase'[n] \notin {"lastVote", "voting"}
      BY <2>1 DEF StartDryRun, LastVoteWriteFails, OnVoteRequestComplete,
                  WinElection, LoseElection, TypeOK
    <3> QED BY <1>1, <2>0, <3>1
  <2>2. ASSUME NEW t, StartRealElection(n, t) PROVE TallyInv'
    <3>1. phase'[n] = "lastVote" /\ tally'[n] = NoTally
      BY <2>2 DEF StartRealElection, TypeOK
    <3> QED BY <1>1, <2>0, <3>1
  <2>3. ASSUME LoseElection(n) PROVE TallyInv'
    <3>1. phase'[n] = "none"
      BY <2>3 DEF LoseElection, TypeOK
    <3> QED BY <1>1, <2>0, <3>1
  <2>4. CASE StartSkippingDryRun(n)
    BY <2>2, <2>4 DEF StartSkippingDryRun
  <2>5. CASE ProcessDryRunResult(n)
    BY <2>2, <2>3, <2>5 DEF ProcessDryRunResult
  <2>6. CASE WriteLastVoteForMyElection(n) /\ ~LoseElection(n)
    <3>1. /\ phase'[n] = "voting" /\ electTerm'[n] = electTerm[n]
          /\ tally'[n] = NoTally
          /\ [voter |-> n, cand |-> n, term |-> electTerm[n]] \in grants'
      BY <2>6 DEF WriteLastVoteForMyElection, TypeOK, TallyInv
    <3>2. tally'[n].yes = {}
      BY <3>1 DEF NoTally
    <3> QED BY <1>1, <2>0, <3>1, <3>2
  <2> QED BY <1>3, <2>1, <2>3, <2>4, <2>5, <2>6
          DEF Candidacy, WriteLastVoteForMyElection
<1>4. ASSUME NEW r \in reqs, Serving(r) PROVE TallyInv'
  <2>0. r \in Request /\ r.from \in Node /\ r.to \in Node
    BY DEF TypeOK, Request
  <2>1. CASE ReceiveVoteRequest(r) \/ GrantVote(r) \/ StoreVoteFails(r)
    BY <1>2, <2>1 DEF ReceiveVoteRequest, GrantVote, StoreVoteFails
  <2>2. ASSUME NEW b \in BOOLEAN, Respond(r, b), UNCHANGED <<phase, electTerm>>,
               b => \/ r.dry
                    \/ [voter |-> r.to, cand |-> r.from, term |-> r.term] \in grants'
        PROVE  TallyInv'
    <3>1. CASE UNCHANGED tally
      BY <1>2, <2>2, <3>1
    <3>2. CASE /\ r.live
               /\ tally' = [tally EXCEPT ![r.from] =
                      [yes |-> IF b THEN @.yes \cup {r.to} ELSE @.yes,
                       stale |-> @.stale \/ (~b /\ term[r.to] > r.term)]]
      <4>1. \A m \in Node \ {r.from} : tally'[m] = tally[m]
        BY <2>0, <3>2 DEF TypeOK
      <4>2. phase[r.from] = (IF r.dry THEN "dryRun" ELSE "voting")
            /\ r.term = electTerm[r.from]
        BY <3>2 DEF RequestInv
      <4>3. CASE r.dry
        BY <1>1, <2>0, <2>2, <4>1, <4>2, <4>3
      <4>4. CASE ~r.dry
        <5>1. tally'[r.from].yes = IF b THEN tally[r.from].yes \cup {r.to}
                                        ELSE tally[r.from].yes
          BY <2>0, <3>2 DEF TypeOK
        <5>2. \A v \in tally[r.from].yes \cup {r.from} :
                 [voter |-> v, cand |-> r.from, term |-> electTerm[r.from]] \in grants'
          BY <2>0, <4>2, <4>4 DEF TallyInv
        <5>3. b => [voter |-> r.to, cand |-> r.from, term |-> electTerm[r.from]] \in grants'
          BY <2>2, <4>2, <4>4
        <5>4. \A v \in tally'[r.from].yes \cup {r.from} :
                 [voter |-> v, cand |-> r.from, term |-> electTerm[r.from]] \in grants'
          BY <5>1, <5>2, <5>3
        <5> QED BY <1>1, <2>0, <2>2, <4>1, <4>2, <4>4, <5>4
      <4> QED BY <4>3, <4>4
    <3> QED BY <2>2, <3>1, <3>2 DEF Respond
  <2>3. CASE DenyVote(r)
    BY <2>2, <2>3 DEF DenyVote
  <2>4. CASE GrantDryRunVote(r)
    BY <2>2, <2>4 DEF GrantDryRunVote
  <2>5. CASE StoreVote(r)
    BY <2>2, <2>5 DEF StoreVote
  <2> QED BY <1>4, <2>1, <2>3, <2>4, <2>5 DEF Serving
<1>5. CASE \E n \in Node, t \in Term : LearnTerm(n, t)
  BY <1>2, <1>5 DEF LearnTerm
<1>6. CASE \E n \in Node : StepDownFinish(n) \/ StepDownCommand(n) \/ PrimaryWrite(n)
                          \/ RestoreTerm(n)
  BY <1>2, <1>6 DEF StepDownFinish, StepDownCommand, PrimaryWrite, RestoreTerm
<1>7. CASE \E n, s \in Node : ApplyOps(n, s)
  BY <1>2, <1>7 DEF ApplyOps
<1>8. ASSUME NEW n \in Node, Restart(n) PROVE TallyInv'
  <2>1. \A m \in Node \ {n} :
           phase'[m] = phase[m] /\ electTerm'[m] = electTerm[m] /\ tally'[m] = tally[m]
    BY <1>8 DEF Restart, TypeOK
  <2>2. phase'[n] = "none"
    BY <1>8 DEF Restart, TypeOK
  <2> QED BY <1>1, <2>1, <2>2
<1> QED
  BY <1>3, <1>4, <1>5, <1>6, <1>7, <1>8 DEF Next

\* A vote once counted as a majority stays one, and a new success is counted
\* from recorded votes.
LEMMA ElectedStep ==
    ASSUME TypeOK, TallyInv, ElectedInv, Next, grants \subseteq grants'
    PROVE  ElectedInv'
<1> USE DEF coord, disk, candidacy, history, bounds
<1>1. ASSUME UNCHANGED elected PROVE ElectedInv'
  BY <1>1 DEF ElectedInv
<1>2. ASSUME NEW n \in Node, OnVoteRequestComplete(n), ~UNCHANGED elected
      PROVE  ElectedInv'
  <2>1. /\ phase[n] = "voting" /\ IsMajority(tally[n].yes \cup {n})
        /\ elected' = elected \cup {[node |-> n, term |-> electTerm[n]]}
    BY <1>2 DEF OnVoteRequestComplete, SuccessfullyElected
  <2>2. tally[n].yes \cup {n} \in SUBSET Node
    BY DEF TypeOK, Tally
  <2>3. \A v \in tally[n].yes \cup {n} :
           [voter |-> v, cand |-> n, term |-> electTerm[n]] \in grants'
    BY <2>1 DEF TallyInv
  <2>4. ASSUME NEW e \in elected'
        PROVE  \E Q \in SUBSET Node :
                 /\ IsMajority(Q)
                 /\ \A v \in Q : [voter |-> v, cand |-> e.node, term |-> e.term] \in grants'
    <3>1. CASE e \in elected
      BY <3>1 DEF ElectedInv
    <3>2. CASE e = [node |-> n, term |-> electTerm[n]]
      BY <2>1, <2>2, <2>3, <3>2
    <3> QED BY <2>1, <2>4, <3>1, <3>2
  <2> QED BY <2>4 DEF ElectedInv, IsMajority
<1>3. ASSUME NEW n \in Node, Candidacy(n) PROVE ElectedInv'
  BY <1>1, <1>2, <1>3 DEF Candidacy, StartDryRun, StartSkippingDryRun,
     ProcessDryRunResult, WriteLastVoteForMyElection, LastVoteWriteFails, WinElection
<1>4. ASSUME NEW r \in reqs, Serving(r) PROVE ElectedInv'
  BY <1>1, <1>4 DEF Serving, ReceiveVoteRequest, DenyVote, GrantDryRunVote,
     GrantVote, StoreVote, StoreVoteFails
<1>5. CASE \E n \in Node, t \in Term : LearnTerm(n, t)
  BY <1>1, <1>5 DEF LearnTerm
<1>6. CASE \E n \in Node : StepDownFinish(n) \/ StepDownCommand(n) \/ PrimaryWrite(n)
                          \/ Restart(n) \/ RestoreTerm(n)
  BY <1>1, <1>6 DEF StepDownFinish, StepDownCommand, PrimaryWrite, Restart, RestoreTerm
<1>7. CASE \E n, s \in Node : ApplyOps(n, s)
  BY <1>1, <1>7 DEF ApplyOps
<1> QED
  BY <1>3, <1>4, <1>5, <1>6, <1>7 DEF Next

\* Where a cast vote comes from.
LEMMA CastVotesFacts ==
    ASSUME NEW g
    PROVE  g \in CastVotes <=>
             \/ g \in grants
             \/ \E r \in reqs : /\ r.stage = "storing"
                               /\ g = [voter |-> r.to, cand |-> r.from, term |-> r.term]
             \/ \E n \in Node : /\ phase[n] = "lastVote"
                               /\ g = [voter |-> n, cand |-> n, term |-> electTerm[n]]
BY DEF CastVotes

\* Votes given, recorded or not, are votes.
LEMMA CastVotesType ==
    ASSUME TypeOK
    PROVE  CastVotes \subseteq Vote
BY DEF CastVotes, TypeOK, Vote, Request

\* Without new votes the invariant survives if last votes do not fall below
\* the votes that remain.
LEMMA VotesKept ==
    ASSUME VoteInv, CastVotes' \subseteq CastVotes, UNCHANGED voteRegressed,
           ~voteRegressed => \A g \in CastVotes' : g.term <= lastVote'[g.voter].term
    PROVE  VoteInv'
BY DEF VoteInv

\* A new vote in a term above the voter's last vote keeps the invariant.
LEMMA VoteAdded ==
    ASSUME TypeOK, VoteInv, NEW v \in Node, NEW c \in Node, NEW t \in Term,
           CastVotes' \subseteq CastVotes \cup {[voter |-> v, cand |-> c, term |-> t]},
           lastVote' = [lastVote EXCEPT ![v] = [term |-> t, cand |-> c]],
           ~voteRegressed' => ~voteRegressed /\ t > lastVote[v].term
    PROVE  VoteInv'
<1> SUFFICES ASSUME ~voteRegressed' PROVE VoteInv!2'
  BY DEF VoteInv
<1> DEFINE new == [voter |-> v, cand |-> c, term |-> t]
<1>1. /\ \A g \in CastVotes : g.term <= lastVote[g.voter].term
      /\ \A g, h \in CastVotes :
           g.voter = h.voter /\ g.term = h.term => g.cand = h.cand
  BY DEF VoteInv
<1>2. \A g \in CastVotes : g.voter \in Node /\ g.term \in Nat
  BY CastVotesType DEF Vote, Term
<1>3. t > lastVote[v].term /\ t \in Nat /\ lastVote[v].term \in Nat
  BY DEF TypeOK, LastVote, Term
<1>4. \A g \in CastVotes : g.voter = v => g.term < t
  BY <1>1, <1>2, <1>3
<1>5. lastVote'[v].term = t /\ \A m \in Node \ {v} : lastVote'[m] = lastVote[m]
  BY DEF TypeOK
<1>6. \A g \in CastVotes' : g \in CastVotes \/ g = new
  OBVIOUS
<1>7. ASSUME NEW g \in CastVotes' PROVE g.term <= lastVote'[g.voter].term
  <2>1. CASE g \in CastVotes /\ g.voter = v
    BY <1>2, <1>3, <1>4, <1>5, <2>1
  <2>2. CASE g \in CastVotes /\ g.voter # v
    BY <1>1, <1>2, <1>5, <2>2
  <2>3. CASE g = new
    BY <1>3, <1>5, <2>3
  <2> QED BY <1>6, <1>7, <2>1, <2>2, <2>3
<1>8. ASSUME NEW g \in CastVotes', NEW h \in CastVotes',
             g.voter = h.voter, g.term = h.term
      PROVE  g.cand = h.cand
  <2>1. new.voter = v /\ new.term = t
    OBVIOUS
  <2>2. \A f \in CastVotes : ~(f.voter = new.voter /\ f.term = new.term)
    BY <1>2, <1>3, <1>4, <2>1
  <2> HIDE DEF new
  <2> QED BY <1>1, <1>6, <1>8, <2>2
<1> QED BY <1>7, <1>8

\* Every step keeps votes unique per voter and term, unless one regresses.
LEMMA VoteStep ==
    ASSUME TypeOK, TypeOK', ControlInv, RequestInv, LastVoteWithinTerm,
           GrantedVotesDurable, VoteInv, Next
    PROVE  VoteInv'
<1> USE DEF coord, disk, candidacy, history, bounds
<1>0. ASSUME CastVotes' \subseteq CastVotes, UNCHANGED <<lastVote, voteRegressed>>
      PROVE  VoteInv'
  BY <1>0, VotesKept DEF VoteInv
<1>a. ASSUME NEW n \in Node, NEW g, reqs' = Abandon(n, reqs), grants' = grants,
             g \in CastVotes', g \notin CastVotes
      PROVE  \E m \in Node : /\ phase'[m] = "lastVote"
                             /\ g = [voter |-> m, cand |-> m, term |-> electTerm'[m]]
  <2>1. ASSUME NEW r \in reqs', r.stage = "storing",
               g = [voter |-> r.to, cand |-> r.from, term |-> r.term]
        PROVE  FALSE
    <3>1. \E q \in reqs : r.from = q.from /\ r.to = q.to /\ r.term = q.term
                          /\ r.stage = q.stage
      BY <1>a, <2>1, AbandonFacts DEF TypeOK
    <3> QED BY <1>a, <2>1, <3>1, CastVotesFacts
  <2>2. \/ g \in grants'
        \/ \E r \in reqs' : /\ r.stage = "storing"
                           /\ g = [voter |-> r.to, cand |-> r.from, term |-> r.term]
        \/ \E m \in Node : /\ phase'[m] = "lastVote"
                           /\ g = [voter |-> m, cand |-> m, term |-> electTerm'[m]]
    BY <1>a DEF CastVotes
  <2> QED BY <1>a, <2>1, <2>2, CastVotesFacts
<1>1. ASSUME NEW n \in Node, NEW t \in Term, StartRealElection(n, t), t > term[n],
             ~loading[n], role[n] # "Leader", UNCHANGED <<grants, voteRegressed>>
      PROVE  VoteInv'
  <2>1. ASSUME NEW g \in CastVotes'
        PROVE  g \in CastVotes \cup {[voter |-> n, cand |-> n, term |-> t]}
    <3>1. /\ \A m \in Node \ {n} : phase'[m] = phase[m] /\ electTerm'[m] = electTerm[m]
          /\ electTerm'[n] = t
      BY <1>1 DEF StartRealElection, TypeOK
    <3>2. reqs' = Abandon(n, reqs)
      BY <1>1 DEF StartRealElection
    <3> QED BY <1>1, <1>a, <2>1, <3>1, <3>2, CastVotesFacts
  <2>2. t > lastVote[n].term
    <3>1. pendingTerm[n] = 0
      BY <1>1 DEF ControlInv, TypeOK, Term
    <3>2. lastVote[n].term <= term[n]
      BY <1>1, <3>1 DEF LastVoteWithinTerm, Max2, TypeOK, Term
    <3> QED BY <1>1, <3>2 DEF TypeOK, Term, LastVote
  <2>3. lastVote' = [lastVote EXCEPT ![n] = [term |-> t, cand |-> n]]
    BY <1>1 DEF StartRealElection
  <2>4. CastVotes' \subseteq CastVotes \cup {[voter |-> n, cand |-> n, term |-> t]}
    BY <2>1
  <2>5. ~voteRegressed' => ~voteRegressed /\ t > lastVote[n].term
    BY <1>1, <2>2
  <2> QED BY <2>3, <2>4, <2>5, VoteAdded
<1>2. ASSUME NEW n \in Node, reqs' = Abandon(n, reqs),
             UNCHANGED <<grants, lastVote, voteRegressed>>,
             \A m \in Node : phase'[m] = "lastVote" =>
                phase[m] = "lastVote" /\ electTerm'[m] = electTerm[m]
      PROVE  VoteInv'
  <2>1. CastVotes' \subseteq CastVotes
    BY <1>2, <1>a, CastVotesFacts
  <2> QED BY <1>0, <1>2, <2>1
<1>3. ASSUME NEW n \in Node, LoseElection(n), UNCHANGED <<grants, lastVote, voteRegressed>>
      PROVE  VoteInv'
  <2>1. \A m \in Node : phase'[m] = "lastVote" =>
           phase[m] = "lastVote" /\ electTerm'[m] = electTerm[m]
    BY <1>3 DEF LoseElection, TypeOK
  <2> QED BY <1>2, <1>3, <2>1 DEF LoseElection
<1>4. ASSUME NEW n \in Node, Candidacy(n) PROVE VoteInv'
  <2>1. CASE StartDryRun(n)
    <3>1. \A m \in Node : phase'[m] = "lastVote" =>
             phase[m] = "lastVote" /\ electTerm'[m] = electTerm[m]
      BY <2>1 DEF StartDryRun, TypeOK
    <3>2. \A r \in reqs' : r \in reqs \/ r.stage = "sent"
      BY <2>1 DEF StartDryRun, VoteRequests
    <3>3. CastVotes' \subseteq CastVotes
      BY <2>1, <3>1, <3>2 DEF CastVotes, StartDryRun
    <3> QED BY <1>0, <2>1, <3>3 DEF StartDryRun
  <2>2. CASE StartSkippingDryRun(n)
    <3>1. term[n] + 1 \in Term /\ term[n] + 1 > term[n]
      BY <2>2, BoundAssumption DEF StartSkippingDryRun, StartRealElection, TypeOK, Term
    <3> QED BY <1>1, <2>2, <3>1 DEF StartSkippingDryRun
  <2>3. CASE ProcessDryRunResult(n)
    <3>1. CASE term[n] = electTerm[n] /\ StartRealElection(n, electTerm[n] + 1)
      <4>1. electTerm[n] + 1 \in Term /\ electTerm[n] + 1 > term[n]
        BY <3>1, BoundAssumption DEF StartRealElection, TypeOK, Term
      <4>2. role[n] = "Candidate" /\ ~loading[n]
        BY <2>3 DEF ProcessDryRunResult, ControlInv
      <4> QED BY <1>1, <2>3, <3>1, <4>1, <4>2 DEF ProcessDryRunResult
    <3> QED BY <1>3, <2>3, <3>1 DEF ProcessDryRunResult
  <2>4. CASE WriteLastVoteForMyElection(n)
    <3> DEFINE own == [voter |-> n, cand |-> n, term |-> electTerm[n]]
    <3>1. own \in CastVotes /\ grants' = grants \cup {own}
      BY <2>4, CastVotesFacts DEF WriteLastVoteForMyElection
    <3>2. \A m \in Node : phase'[m] = "lastVote" =>
             phase[m] = "lastVote" /\ electTerm'[m] = electTerm[m]
      <4>1. phase \in [Node -> {"none", "dryRun", "lastVote", "voting", "won"}]
        BY DEF TypeOK
      <4>2. electTerm \in [Node -> Term]
        BY DEF TypeOK
      <4>3. \/ /\ phase' = [phase EXCEPT ![n] = "voting"]
               /\ electTerm' = electTerm
            \/ /\ phase' = [phase EXCEPT ![n] = "none"]
               /\ electTerm' = [electTerm EXCEPT ![n] = 0]
        BY <2>4 DEF WriteLastVoteForMyElection, LoseElection
      <4> QED BY <4>1, <4>2, <4>3
    <3>3. ASSUME NEW r \in reqs', r.stage = "storing"
          PROVE  \E q \in reqs : r.from = q.from /\ r.to = q.to /\ r.term = q.term
                                /\ q.stage = "storing"
      <4>1. CASE reqs' = Abandon(n, reqs)
        BY <3>3, <4>1, AbandonFacts DEF TypeOK
      <4>2. CASE reqs' = reqs \cup VoteRequests(n, electTerm[n], FALSE)
        BY <3>3, <4>2 DEF VoteRequests
      <4> QED BY <2>4, <4>1, <4>2 DEF WriteLastVoteForMyElection, LoseElection
    <3> HIDE DEF own
    <3>4. CastVotes' \subseteq CastVotes
      <4> SUFFICES ASSUME NEW g \in CastVotes' PROVE g \in CastVotes
        OBVIOUS
      <4>1. \/ g \in grants'
            \/ \E r \in reqs' : /\ r.stage = "storing"
                               /\ g = [voter |-> r.to, cand |-> r.from, term |-> r.term]
            \/ \E m \in Node : /\ phase'[m] = "lastVote"
                               /\ g = [voter |-> m, cand |-> m, term |-> electTerm'[m]]
        BY DEF CastVotes
      <4> QED BY <3>1, <3>2, <3>3, <4>1, CastVotesFacts
    <3> QED BY <1>0, <2>4, <3>4 DEF WriteLastVoteForMyElection
  <2>5. CASE LastVoteWriteFails(n)
    BY <1>3, <2>5 DEF LastVoteWriteFails
  <2>6. CASE OnVoteRequestComplete(n)
    <3>1. CASE LoseElection(n)
      BY <1>3, <2>6, <3>1 DEF OnVoteRequestComplete
    <3>2. CASE phase' = [phase EXCEPT ![n] = "won"] /\ reqs' = Abandon(n, reqs)
               /\ UNCHANGED electTerm
      <4>1. \A m \in Node : phase'[m] = "lastVote" =>
               phase[m] = "lastVote" /\ electTerm'[m] = electTerm[m]
        BY <3>2 DEF TypeOK
      <4> QED BY <1>2, <2>6, <3>2, <4>1 DEF OnVoteRequestComplete
    <3> QED BY <2>6, <3>1, <3>2 DEF OnVoteRequestComplete
  <2>7. CASE WinElection(n)
    <3>1. \A m \in Node : phase'[m] = "lastVote" =>
             phase[m] = "lastVote" /\ electTerm'[m] = electTerm[m]
      BY <2>7 DEF WinElection, TypeOK
    <3>2. CastVotes' \subseteq CastVotes
      BY <2>7, <3>1 DEF CastVotes, WinElection
    <3> QED BY <1>0, <2>7, <3>2 DEF WinElection
  <2> QED BY <1>4, <2>1, <2>2, <2>3, <2>4, <2>5, <2>6, <2>7 DEF Candidacy
<1>5. ASSUME NEW r \in reqs, Serving(r) PROVE VoteInv'
  <2>0. r \in Request /\ r.to \in Node /\ r.from \in Node /\ r.term \in Term
    BY DEF TypeOK, Request
  <2>1. CASE ReceiveVoteRequest(r)
    <3>1. \A q \in reqs' : q \in reqs \/ q.stage # "storing"
      BY <2>0, <2>1 DEF ReceiveVoteRequest, Request
    <3>2. CastVotes' \subseteq CastVotes
      BY <2>1, <3>1 DEF CastVotes, ReceiveVoteRequest
    <3> QED BY <1>0, <2>1, <3>2 DEF ReceiveVoteRequest
  <2>2. CASE DenyVote(r) \/ GrantDryRunVote(r) \/ StoreVoteFails(r)
    <3>1. CastVotes' \subseteq CastVotes
      BY <2>2 DEF CastVotes, DenyVote, GrantDryRunVote, StoreVoteFails
    <3> QED BY <1>0, <2>2, <3>1 DEF DenyVote, GrantDryRunVote, StoreVoteFails
  <2>3. CASE GrantVote(r)
    <3> DEFINE s == [r EXCEPT !.stage = "storing"]
    <3>1. /\ s.to = r.to /\ s.from = r.from /\ s.term = r.term
      BY <2>0 DEF Request
    <3>2. reqs' = (reqs \ {r}) \cup {s} /\ UNCHANGED <<grants, phase, electTerm>>
      BY <2>3 DEF GrantVote
    <3> HIDE DEF s
    <3>3. CastVotes' \subseteq
             CastVotes \cup {[voter |-> r.to, cand |-> r.from, term |-> r.term]}
      BY <3>1, <3>2 DEF CastVotes
    <3>4. ~voteRegressed' => ~voteRegressed /\ ~(r.term < lastVote[r.to].term)
      BY <2>3 DEF GrantVote
    <3>5. lastVote[r.to].term # r.term
      BY <2>3 DEF GrantVote, MustDeny
    <3>6. ~voteRegressed' => ~voteRegressed /\ r.term > lastVote[r.to].term
      <4>1. lastVote[r.to].term \in Term
        BY <2>0 DEF TypeOK, LastVote
      <4>2. r.term < lastVote[r.to].term \/ r.term > lastVote[r.to].term
        BY <2>0, <3>5, <4>1, BoundAssumption DEF Term
      <4> QED BY <3>4, <4>2
    <3>7. lastVote' = [lastVote EXCEPT ![r.to] = [term |-> r.term, cand |-> r.from]]
      BY <2>3 DEF GrantVote
    <3> QED BY <2>0, <3>3, <3>6, <3>7, VoteAdded
  <2>4. CASE StoreVote(r)
    <3>1. [voter |-> r.to, cand |-> r.from, term |-> r.term] \in CastVotes
      BY <2>4, CastVotesFacts DEF StoreVote
    <3>2. CastVotes' \subseteq CastVotes
      BY <2>4, <3>1 DEF CastVotes, StoreVote
    <3> QED BY <1>0, <2>4, <3>2 DEF StoreVote
  <2> QED BY <1>5, <2>1, <2>2, <2>3, <2>4 DEF Serving
<1>6. CASE \E n \in Node, t \in Term : LearnTerm(n, t)
  <2>1. CastVotes' = CastVotes
    BY <1>6 DEF LearnTerm, CastVotes
  <2> QED BY <1>0, <1>6, <2>1 DEF LearnTerm
<1>7. ASSUME NEW n \in Node, StepDownFinish(n) PROVE VoteInv'
  <2>1. \A q \in reqs' : q \in reqs \/ q.stage = "termed"
    BY <1>7 DEF StepDownFinish, TypeOK, Request
  <2>2. CastVotes' \subseteq CastVotes
    BY <1>7, <2>1 DEF StepDownFinish, CastVotes
  <2> QED BY <1>0, <1>7, <2>2 DEF StepDownFinish
<1>8. CASE \E n, s \in Node : \/ StepDownCommand(n) \/ PrimaryWrite(n)
                             \/ RestoreTerm(n) \/ ApplyOps(n, s)
  <2>1. CastVotes' = CastVotes
    BY <1>8 DEF StepDownCommand, PrimaryWrite, ApplyOps, RestoreTerm, CastVotes
  <2> QED BY <1>0, <1>8, <2>1 DEF StepDownCommand, PrimaryWrite, ApplyOps, RestoreTerm
<1>9. ASSUME NEW n \in Node, Restart(n) PROVE VoteInv'
  <2>1. /\ \A m \in Node : phase'[m] = "lastVote" =>
             m # n /\ phase[m] = "lastVote" /\ electTerm'[m] = electTerm[m]
        /\ lastVote'[n] = durableVote[n]
        /\ \A m \in Node \ {n} : lastVote'[m] = lastVote[m]
        /\ UNCHANGED <<grants, voteRegressed>>
    BY <1>9 DEF Restart, TypeOK
  <2>2. ASSUME NEW r \in reqs', r.stage = "storing"
        PROVE  r.to # n /\ \E q \in reqs : /\ r.from = q.from /\ r.to = q.to
                                         /\ r.term = q.term /\ q.stage = "storing"
    <3>1. r \in Abandon(n, reqs) /\ r.to # n
      BY <1>9, <2>2, CrashFacts DEF Restart
    <3> QED BY <2>2, <3>1, AbandonFacts DEF TypeOK
  <2>3. ASSUME NEW g \in CastVotes'
        PROVE  g \in CastVotes /\ (g.voter = n => g \in grants)
    <3>1. \/ g \in grants
          \/ \E r \in reqs' : /\ r.stage = "storing"
                             /\ g = [voter |-> r.to, cand |-> r.from, term |-> r.term]
          \/ \E m \in Node : /\ phase'[m] = "lastVote"
                             /\ g = [voter |-> m, cand |-> m, term |-> electTerm'[m]]
      BY <2>1, <2>3 DEF CastVotes
    <3> QED BY <2>1, <2>2, <3>1, CastVotesFacts
  <2>4. CastVotes \subseteq Vote
    BY CastVotesType
  <2>5. ASSUME ~voteRegressed, NEW g \in CastVotes'
        PROVE  g.term <= lastVote'[g.voter].term
    <3>1. CASE g.voter = n
      <4>1. g \in grants /\ durableVote[n].term >= g.term
        BY <2>3, <2>5, <3>1 DEF GrantedVotesDurable
      <4>2. g.term \in Nat /\ durableVote[n].term \in Nat
        BY <4>1 DEF TypeOK, Vote, Term, LastVote
      <4> QED BY <2>1, <3>1, <4>1, <4>2
    <3>2. CASE g.voter # n
      <4>1. g \in CastVotes /\ g.voter \in Node \ {n}
        BY <2>3, <2>4, <2>5, <3>2 DEF Vote
      <4> QED BY <2>1, <2>5, <4>1 DEF VoteInv
    <3> QED BY <3>1, <3>2
  <2> QED BY <2>1, <2>3, <2>5, VotesKept
<1> QED
  BY <1>4, <1>5, <1>6, <1>7, <1>8, <1>9 DEF Next

-----------------------------------------------------------------------------
(* The inductive invariant and what follows from it. *)

\* The inductive invariant holds when the replica set starts.
LEMMA ElectionInvInit == Init => ElectionInv
<1> SUFFICES ASSUME Init PROVE ElectionInv
  OBVIOUS
<1>1. TypeOK
  BY TypeInit
<1>2. ControlInv /\ RequestInv /\ LastVoteWithinTerm
  BY DEF Init, ControlInv, RequestInv, LastVoteWithinTerm, Max2
<1>3. CastVotes = {}
  BY DEF Init, CastVotes
<1>4. GrantedVotesDurable /\ TallyInv /\ VoteInv /\ ElectedInv
  BY <1>3 DEF Init, GrantedVotesDurable, TallyInv, VoteInv, ElectedInv
<1> QED BY <1>1, <1>2, <1>4 DEF ElectionInv

\* The inductive invariant is kept by every step.
LEMMA ElectionInvStep == ElectionInv /\ [Next]_vars => ElectionInv'
<1> SUFFICES ASSUME ElectionInv, [Next]_vars PROVE ElectionInv'
  OBVIOUS
<1>1. CASE Next
  <2>1. TypeOK'
    BY TypeStep DEF ElectionInv
  <2> QED BY <1>1, <2>1, ControlStep, RequestStep, LastVoteStep, DurableStep,
             TallyStep, VoteStep, ElectedStep DEF ElectionInv
<1>2. CASE UNCHANGED vars
  <2> USE DEF vars, coord, disk, candidacy, history, bounds
  <2>1. TypeOK'
    BY <1>2, TypeStep DEF ElectionInv
  <2>2. ControlInv' /\ RequestInv' /\ LastVoteWithinTerm'
    BY <1>2 DEF ElectionInv, ControlInv, RequestInv, LastVoteWithinTerm
  <2>3. CastVotes' = CastVotes
    BY <1>2 DEF CastVotes
  <2>4. GrantedVotesDurable' /\ TallyInv' /\ VoteInv' /\ ElectedInv'
    BY <1>2, <2>3 DEF ElectionInv, GrantedVotesDurable, TallyInv, VoteInv, ElectedInv
  <2> QED BY <2>1, <2>2, <2>4 DEF ElectionInv
<1> QED BY <1>1, <1>2

\* The inductive invariant holds in every reachable state.
LEMMA ElectionInvariance == Spec => []ElectionInv
BY ElectionInvInit, ElectionInvStep, PTL DEF Spec

\* A voter never gives two votes in one term, over all its restarts, unless
\* some voter has granted a vote below its last vote.
THEOREM VotesUnique == Spec => []OneVotePerTermUnlessRegressed
<1>1. ElectionInv => OneVotePerTermUnlessRegressed
  BY CastVotesFacts DEF ElectionInv, VoteInv, OneVotePerTermUnlessRegressed, OneVotePerTerm
<1> QED BY <1>1, ElectionInvariance, PTL

\* No two nodes count a majority of the votes of one term, for any number of
\* voters, elections and restarts, unless a vote has regressed.
THEOREM ElectionSafety == Spec => []OneElectedPerTerm
<1>1. ElectionInv => OneElectedPerTerm
  <2> SUFFICES ASSUME ElectionInv, ~voteRegressed, NEW e \in elected, NEW f \in elected,
                      e.term = f.term
               PROVE  e.node = f.node
    BY DEF OneElectedPerTerm
  <2>1. PICK P \in SUBSET Node :
           /\ IsMajority(P)
           /\ \A v \in P : [voter |-> v, cand |-> e.node, term |-> e.term] \in grants
    BY DEF ElectionInv, ElectedInv
  <2>2. PICK Q \in SUBSET Node :
           /\ IsMajority(Q)
           /\ \A v \in Q : [voter |-> v, cand |-> f.node, term |-> f.term] \in grants
    BY DEF ElectionInv, ElectedInv
  <2>3. PICK v : v \in P \cap Q
    <3>1. IsFiniteSet(P) /\ IsFiniteSet(Q) /\ IsFiniteSet(Node)
      BY FS_Subset, NodeAssumption
    <3>2. /\ Cardinality(P) \in Nat /\ Cardinality(Q) \in Nat
          /\ Cardinality(Node) \in Nat
      BY <3>1, FS_CardinalityType
    <3>3. Cardinality(P) + Cardinality(Q) > Cardinality(Node)
      BY <2>1, <2>2, <3>2 DEF IsMajority
    <3> QED BY <3>1, <3>3, FS_MajoritiesIntersect
  <2>4. OneVotePerTerm
    BY CastVotesFacts DEF ElectionInv, VoteInv, OneVotePerTerm
  <2> DEFINE g == [voter |-> v, cand |-> e.node, term |-> e.term]
             h == [voter |-> v, cand |-> f.node, term |-> f.term]
  <2>5. g \in grants /\ h \in grants
    BY <2>1, <2>2, <2>3
  <2>6. g.voter = h.voter /\ g.term = h.term
    OBVIOUS
  <2>7. g.cand = h.cand
    BY <2>4, <2>5, <2>6 DEF OneVotePerTerm
  <2> QED BY <2>7
<1> QED BY <1>1, ElectionInvariance, PTL

\* A vote that a candidate may have counted is never lost by a restart.
THEOREM VotesDurable == Spec => []GrantedVotesDurable
<1>1. ElectionInv => GrantedVotesDurable
  BY DEF ElectionInv
<1> QED BY <1>1, ElectionInvariance, PTL

\* A last vote is never beyond the term its node has or is about to adopt.
THEOREM LastVotesWithinTerm == Spec => []LastVoteWithinTerm
<1>1. ElectionInv => LastVoteWithinTerm
  BY DEF ElectionInv
<1> QED BY <1>1, ElectionInvariance, PTL

=============================================================================
