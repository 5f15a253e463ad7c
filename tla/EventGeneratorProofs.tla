------------------------ MODULE EventGeneratorProofs ------------------------
(***************************************************************************)
(* Proofs about EventGenerator, for every set of objects, search bases,    *)
(* pollers and processes and every bound.                                  *)
(***************************************************************************)
EXTENDS EventGenerator, FiniteSetTheorems, TLAPS

-----------------------------------------------------------------------------
(* Type correctness. *)

LEMMA InitTypeOK == Init => TypeOK
BY BoundsAssumption DEF Init, TypeOK, LastRun

\* Ending any set of cycles keeps the types of what it touches.
LEMMA EndCyclesTypeOK ==
  ASSUME TypeOK, NEW P, EndCycles(P)
  PROVE  /\ pc' \in [Pollers -> {"idle", "insert", "lock", "search", "publish"}]
         /\ todo' \in [Pollers -> SUBSET Objects]
         /\ found' \in [Pollers -> SUBSET Objects]
         /\ timestamp' \in [Pollers -> Nat \cup {NoStamp}]
         /\ pending' \in [Pollers -> SUBSET Objects]
         /\ lock' \in [Bases -> Pollers \cup {Nobody}]
BY DEF TypeOK, EndCycles

LEMMA NextTypeOK == TypeOK /\ [Next]_vars => TypeOK'
<1> SUFFICES ASSUME TypeOK, [Next]_vars PROVE TypeOK'
  OBVIOUS
<1> USE PollersAssumption, BoundsAssumption
<1>1. CASE Tick
  BY <1>1 DEF Tick, TypeOK, db, cycle, events
<1>2. ASSUME NEW o \in Objects, NEW S \in SUBSET Bases, Write(o, S)
      PROVE  TypeOK'
  BY <1>2 DEF Write, TypeOK, db, cycle, events
<1>3. ASSUME NEW p \in Pollers, EnsureRow(p) PROVE TypeOK'
  BY <1>3 DEF EnsureRow, TypeOK, db, cycle, events, ldap
<1>4. ASSUME NEW p \in Pollers, InsertRow(p) PROVE TypeOK'
  BY ZenonT(60), <1>4 DEF InsertRow, TypeOK, db, cycle, events, ldap
<1>5. ASSUME NEW p \in Pollers, LockRow(p) PROVE TypeOK'
  BY <1>5 DEF LockRow, TypeOK, db, cycle, events, ldap
<1>6. ASSUME NEW p \in Pollers, SearchPage(p) PROVE TypeOK'
  <2>1. PICK page \in SUBSET todo[p] :
          LET hits == {o \in page : Matches(o, BaseOf[p])}
              stamps == {mtime[o] : o \in hits} \cup ({timestamp[p]} \ {NoStamp})
          IN /\ todo' = [todo EXCEPT ![p] = @ \ page]
             /\ found' = [found EXCEPT ![p] = @ \cup hits]
             /\ \E t \in stamps \cup {NoStamp} :
                  timestamp' = [timestamp EXCEPT ![p] = t]
    BY <1>6 DEF SearchPage
  <2> DEFINE hits == {o \in page : Matches(o, BaseOf[p])}
             stamps == {mtime[o] : o \in hits} \cup ({timestamp[p]} \ {NoStamp})
  <2>2. hits \subseteq Objects
    BY <2>1 DEF TypeOK
  <2>3. stamps \subseteq Nat
    BY <2>2 DEF TypeOK
  <2>4. PICK t \in stamps \cup {NoStamp} :
          timestamp' = [timestamp EXCEPT ![p] = t]
    BY <2>1
  <2>5. timestamp' \in [Pollers -> Nat \cup {NoStamp}]
    BY <2>3, <2>4 DEF TypeOK
  <2>6. todo' \in [Pollers -> SUBSET Objects] /\ found' \in [Pollers -> SUBSET Objects]
    BY <2>1, <2>2 DEF TypeOK
  <2> QED
    BY <1>6, <2>5, <2>6 DEF SearchPage, TypeOK, db, cycle, events, ldap
<1>7. ASSUME NEW p \in Pollers, Decide(p) PROVE TypeOK'
  BY <1>7 DEF Decide, TypeOK, db, cycle, events, ldap
<1>8. ASSUME NEW p \in Pollers, NEW o \in Objects, Send(p, o) PROVE TypeOK'
  BY <1>8 DEF Send, TypeOK, db, cycle, events, ldap
<1>9. ASSUME NEW p \in Pollers, Commit(p) PROVE TypeOK'
  <2>1. NewLastRun(p) \in LastRun
    BY DEF NewLastRun, TypeOK, LastRun
  <2>2. lastRun' \in [Bases -> LastRun]
    BY <1>9, <2>1 DEF Commit, TypeOK
  <2> QED
    BY <1>9, <2>2, EndCyclesTypeOK DEF Commit, TypeOK, ldap, events
<1>10. ASSUME NEW p \in Pollers, Fail(p) PROVE TypeOK'
  BY <1>10, EndCyclesTypeOK DEF Fail, TypeOK, ldap, events
<1>11. ASSUME NEW q \in Processes, Shutdown(q) PROVE TypeOK'
  BY <1>11 DEF Shutdown, TypeOK, db, cycle, events, ldap
<1>12. ASSUME NEW q \in Processes, Crash(q) PROVE TypeOK'
  BY <1>12, EndCyclesTypeOK DEF Crash, TypeOK, ldap, events
<1>13. ASSUME NEW q \in Processes, Restart(q) PROVE TypeOK'
  BY <1>13, EndCyclesTypeOK DEF Restart, TypeOK, ldap, events
<1>14. CASE UNCHANGED vars
  BY <1>14 DEF vars, TypeOK
<1> QED
  BY <1>1, <1>2, <1>3, <1>4, <1>5, <1>6, <1>7, <1>8, <1>9, <1>10, <1>11, <1>12,
     <1>13, <1>14 DEF Next, PollerStep

\* The variables keep their types in every reachable state.
THEOREM TypeCorrect == Spec => []TypeOK
BY InitTypeOK, NextTypeOK, PTL DEF Spec

-----------------------------------------------------------------------------
(* The steps of EventGenerator, by what they mean for the invariant.  Under   *)
(* SinglePage a search is one step.                                           *)

\* EnsureRow, InsertRow, Shutdown and stuttering: nobody enters or leaves the
\* second transaction.
Quiet ==
  /\ UNCHANGED <<ldap, events, lastRun, lock, cycle>>
  /\ \A p \in Pollers : InTransaction(p) \/ InTransaction(p)' => pc'[p] = pc[p]

Hits(p) == {o \in Objects : Matches(o, BaseOf[p])}

FullSearch(p) ==
  /\ pc[p] = "search" /\ todo[p] # {}
  /\ todo' = [todo EXCEPT ![p] = {}]
  /\ found' = [found EXCEPT ![p] = Hits(p)]
  /\ \E t \in Nat \cup {NoStamp} :
       /\ IsLatest(t, {mtime[o] : o \in Hits(p)})
       /\ timestamp' = [timestamp EXCEPT ![p] = t]
  /\ UNCHANGED <<ldap, events, db, pc, pending>>

\* Fail, Crash and Restart: some cycles end without a commit.
Abort(P) == EndCycles(P) /\ UNCHANGED <<ldap, events, lastRun>>

\* A page can only be full if it holds every object, so it is the last one.
LEMMA PageIsWhole ==
  ASSUME SinglePage, NEW page \in SUBSET Objects, NEW hits \in SUBSET page
  PROVE  Cardinality(hits) # PageSize
<1>1. hits \subseteq Objects
  OBVIOUS
<1>2. Cardinality(hits) <= Cardinality(Objects)
  BY <1>1, FS_Subset DEF SinglePage
<1>3. Cardinality(hits) \in Nat /\ Cardinality(Objects) \in Nat
  BY <1>1, FS_Subset, FS_CardinalityType DEF SinglePage
<1> QED
  BY <1>2, <1>3, BoundsAssumption DEF SinglePage

LEMMA SearchIsFull ==
  ASSUME SinglePage, TypeOK, CleanLocals, NEW p \in Pollers, SearchPage(p)
  PROVE  FullSearch(p)
<1>1. todo[p] = Objects /\ found[p] = {} /\ timestamp[p] = NoStamp
  BY DEF SearchPage, CleanLocals
<1>2. PICK page \in SUBSET Objects :
        LET hits == {o \in page : Matches(o, BaseOf[p])}
            stamps == {mtime[o] : o \in hits} \cup ({timestamp[p]} \ {NoStamp})
        IN /\ \/ page = todo[p] /\ Cardinality(hits) <= PageSize
              \/ Cardinality(hits) = PageSize
           /\ todo' = [todo EXCEPT ![p] = @ \ page]
           /\ found' = [found EXCEPT ![p] = @ \cup hits]
           /\ \E t \in stamps \cup {NoStamp} :
                /\ IsLatest(t, stamps)
                /\ timestamp' = [timestamp EXCEPT ![p] = t]
  BY <1>1 DEF SearchPage
<1> DEFINE hits == {o \in page : Matches(o, BaseOf[p])}
<1>3. Cardinality(hits) # PageSize
  BY PageIsWhole
<1>4. page = Objects /\ hits = Hits(p)
  BY <1>1, <1>2, <1>3 DEF Hits
<1>5. todo' = [todo EXCEPT ![p] = {}] /\ found' = [found EXCEPT ![p] = Hits(p)]
  BY <1>1, <1>2, <1>4 DEF TypeOK
<1> DEFINE stamps == {mtime[o] : o \in Hits(p)}
<1>6. {mtime[o] : o \in hits} \cup ({timestamp[p]} \ {NoStamp}) = stamps
  BY <1>1, <1>4
<1>7. PICK t \in stamps \cup {NoStamp} :
        IsLatest(t, stamps) /\ timestamp' = [timestamp EXCEPT ![p] = t]
  BY <1>2, <1>6
<1>8. t \in Nat \cup {NoStamp}
  BY <1>7 DEF Hits, TypeOK
<1> QED
  BY <1>5, <1>7, <1>8 DEF FullSearch, SearchPage

LEMMA StepKinds ==
  ASSUME SinglePage, TypeOK, CleanLocals, [Next]_vars
  PROVE  \/ Quiet
         \/ Tick
         \/ \E o \in Objects, S \in SUBSET Bases : Write(o, S)
         \/ \E p \in Pollers : \/ LockRow(p) \/ FullSearch(p) \/ Decide(p)
                               \/ Commit(p)
                               \/ \E o \in Objects : Send(p, o)
         \/ \E P : Abort(P)
<1>1. ASSUME NEW p \in Pollers, EnsureRow(p) PROVE Quiet
  BY <1>1 DEF EnsureRow, Quiet, InTransaction, TypeOK, db
<1>2. ASSUME NEW p \in Pollers, InsertRow(p) PROVE Quiet
  BY <1>2 DEF InsertRow, Quiet, InTransaction, TypeOK
<1>3. ASSUME NEW q \in Processes, Shutdown(q) PROVE Quiet
  BY <1>3 DEF Shutdown, Quiet, InTransaction, db
<1>4. CASE UNCHANGED vars
  BY <1>4 DEF vars, Quiet, InTransaction, ldap, events, cycle
<1>5. ASSUME NEW p \in Pollers, Fail(p) PROVE Abort({p})
  BY <1>5 DEF Fail, Abort
<1>6. ASSUME NEW q \in Processes, Crash(q) \/ Restart(q) PROVE Abort(Crew(q))
  BY <1>6 DEF Crash, Restart, Abort
<1> QED
  BY <1>1, <1>2, <1>3, <1>4, <1>5, <1>6, SearchIsFull DEF Next, PollerStep

-----------------------------------------------------------------------------
(* The inductive invariant, one lemma per kind of step. *)

LEMMA InitIndInv == Init => IndInv
<1> SUFFICES ASSUME Init PROVE IndInv
  OBVIOUS
<1>1. HoldsRow /\ CleanLocals /\ PollIsComplete /\ Promised
  BY DEF Init, HoldsRow, CleanLocals, PollIsComplete, Promised, InTransaction
<1>2. BehindClock
  BY BoundsAssumption, PollersAssumption DEF Init, BehindClock
<1>3. NothingForgotten
  BY BoundsAssumption
  DEF Init, NothingForgotten, Feed!NothingForgotten, Feed!DoneBefore
<1> QED
  BY <1>1, <1>2, <1>3, InitTypeOK DEF IndInv

LEMMA QuietStep ==
  ASSUME IndInv, TypeOK', Quiet
  PROVE  IndInv'
<1> USE DEF IndInv, Quiet, ldap, events, cycle
<1>1. \A p \in Pollers : InTransaction(p)' <=> InTransaction(p)
  BY DEF InTransaction
<1>2. HoldsRow'
  BY <1>1 DEF HoldsRow
<1>3. CleanLocals'
  BY <1>1 DEF CleanLocals, InTransaction
<1>4. BehindClock'
  BY DEF BehindClock
<1>5. PollIsComplete'
  BY <1>1 DEF PollIsComplete, InTransaction, Matches
<1>6. Promised'
  BY <1>1 DEF Promised, InTransaction
<1>7. NothingForgotten'
  BY DEF NothingForgotten, Feed!NothingForgotten, Feed!DoneBefore
<1> QED
  BY <1>2, <1>3, <1>4, <1>5, <1>6, <1>7

LEMMA TickStep ==
  ASSUME IndInv, TypeOK', Tick
  PROVE  IndInv'
<1> USE DEF IndInv, Tick, events, cycle, db
<1>1. HoldsRow' /\ CleanLocals' /\ PollIsComplete' /\ Promised'
  BY DEF HoldsRow, CleanLocals, PollIsComplete, Promised, InTransaction, Matches
<1>2. BehindClock'
  BY PollersAssumption, BoundsAssumption DEF BehindClock, TypeOK, LastRun
<1>3. NothingForgotten'
  BY DEF NothingForgotten, Feed!NothingForgotten, Feed!DoneBefore
<1> QED
  BY <1>1, <1>2, <1>3

\* A write is stamped with the LDAP clock, which no row and no search is ahead
\* of: it is never before a second that counts as done.
LEMMA WriteStep ==
  ASSUME IndInv, TypeOK', NEW x \in Objects, NEW S \in SUBSET Bases, Write(x, S)
  PROVE  IndInv'
<1> USE DEF IndInv, events, cycle, db
<1>1. HoldsRow' /\ CleanLocals'
  BY DEF Write, HoldsRow, CleanLocals, InTransaction
<1>2. BehindClock'
  BY BoundsAssumption, PollersAssumption DEF Write, BehindClock, TypeOK, LastRun
<1>3. \A o \in Objects : o # x =>
        within'[o] = within[o] /\ mtime'[o] = mtime[o] /\ ver'[o] = ver[o]
  BY DEF Write, TypeOK
<1>4. mtime'[x] = now
  BY DEF Write, TypeOK
<1>5. \A p \in Pollers : timestamp[p] # NoStamp => ~(mtime'[x] < timestamp[p])
  BY <1>4, BoundsAssumption DEF BehindClock, TypeOK
<1>6. \A b \in Bases : ~(mtime'[x] < lastRun[b].datetime)
  BY <1>4, BoundsAssumption DEF BehindClock, TypeOK, LastRun
<1>7. PollIsComplete'
  BY <1>3, <1>5, PollersAssumption DEF Write, PollIsComplete, Matches
<1>8. Promised'
  BY <1>3, <1>5 DEF Write, Promised
<1>9. NothingForgotten'
  BY <1>3, <1>6
  DEF Write, NothingForgotten, Feed!NothingForgotten, Feed!DoneBefore
<1> QED
  BY <1>1, <1>2, <1>7, <1>8, <1>9

LEMMA LockRowStep ==
  ASSUME IndInv, TypeOK', NEW q \in Pollers, LockRow(q)
  PROVE  IndInv'
<1> USE PollersAssumption DEF IndInv, LockRow, ldap, events
<1>1. HoldsRow'
  BY DEF HoldsRow, InTransaction, TypeOK
<1>2. CleanLocals'
  BY DEF CleanLocals, InTransaction, TypeOK
<1>3. BehindClock'
  BY DEF BehindClock
<1>4. found[q] = {} /\ timestamp[q] = NoStamp
  BY DEF CleanLocals, InTransaction
<1>5. PollIsComplete'
  BY <1>4 DEF PollIsComplete, Matches, TypeOK
<1>6. Promised'
  BY <1>4 DEF Promised, TypeOK
<1>7. NothingForgotten'
  BY DEF NothingForgotten, Feed!NothingForgotten, Feed!DoneBefore
<1> QED
  BY <1>1, <1>2, <1>3, <1>5, <1>6, <1>7

LEMMA FullSearchStep ==
  ASSUME IndInv, TypeOK', NEW q \in Pollers, FullSearch(q)
  PROVE  IndInv'
<1> USE PollersAssumption DEF IndInv, ldap, events, db
<1> DEFINE stamps == {mtime[o] : o \in Hits(q)}
<1>1. PICK t \in Nat \cup {NoStamp} :
        IsLatest(t, stamps) /\ timestamp' = [timestamp EXCEPT ![q] = t]
  BY DEF FullSearch
<1>2. \A p \in Pollers : p # q =>
        todo'[p] = todo[p] /\ found'[p] = found[p] /\ timestamp'[p] = timestamp[p]
  BY <1>1 DEF FullSearch, TypeOK
<1>3. todo'[q] = {} /\ found'[q] = Hits(q) /\ timestamp'[q] = t
  BY <1>1 DEF FullSearch, TypeOK
<1>4. HoldsRow'
  BY DEF FullSearch, HoldsRow, InTransaction
<1>5. CleanLocals'
  BY <1>2, <1>3 DEF FullSearch, CleanLocals, InTransaction
<1>6. t # NoStamp => lastRun[BaseOf[q]].datetime <= t /\ t <= now
  <2> SUFFICES ASSUME t # NoStamp
               PROVE  lastRun[BaseOf[q]].datetime <= t /\ t <= now
    OBVIOUS
  <2>1. t \in stamps
    BY <1>1 DEF IsLatest
  <2>2. PICK o \in Objects : Matches(o, BaseOf[q]) /\ t = mtime[o]
    BY <2>1 DEF Hits
  <2> QED
    BY <2>2 DEF Matches, BehindClock, TypeOK, LastRun
<1>7. BehindClock'
  BY <1>2, <1>3, <1>6 DEF FullSearch, BehindClock
<1>8. PollIsComplete'
  <2>1. \A p \in Pollers : p # q => BaseOf[p] # BaseOf[q] \/ ~InTransaction(p)
    BY DEF HoldsRow, InTransaction, FullSearch
  <2> QED
    BY <1>2, <1>3 DEF FullSearch, PollIsComplete, Matches, Hits
<1>9. Promised'
  BY <1>2, <1>3 DEF FullSearch, Promised
<1>10. NothingForgotten'
  BY DEF FullSearch, NothingForgotten, Feed!NothingForgotten, Feed!DoneBefore
<1> QED
  BY <1>4, <1>5, <1>7, <1>8, <1>9, <1>10

\* What is older than the second found is either older than the row's second,
\* hence announced, or was found: then it is sent, unless the second found is
\* the row's own, which leaves nothing in between.
LEMMA DecideStep ==
  ASSUME IndInv, TypeOK', NEW q \in Pollers, Decide(q)
  PROVE  IndInv'
<1> USE PollersAssumption DEF IndInv, ldap, events, db
<1>1. HoldsRow'
  BY DEF Decide, HoldsRow, InTransaction, TypeOK
<1>2. CleanLocals'
  BY DEF Decide, CleanLocals, InTransaction, TypeOK
<1>3. BehindClock'
  BY DEF Decide, BehindClock
<1>4. PollIsComplete'
  BY DEF Decide, PollIsComplete, Matches, TypeOK
<1>5. ASSUME timestamp[q] # NoStamp,
             NEW o \in Objects, BaseOf[q] \in within[o], mtime[o] < timestamp[q]
      PROVE  o \in pending'[q] \/ covered[o] = ver[o]
  <2>1. CASE mtime[o] < lastRun[BaseOf[q]].datetime
    BY <1>5, <2>1 DEF NothingForgotten, Feed!NothingForgotten, Feed!DoneBefore
  <2>2. CASE ~(mtime[o] < lastRun[BaseOf[q]].datetime)
    <3>1. mtime[o] \in Nat /\ lastRun[BaseOf[q]].datetime \in Nat
          /\ timestamp[q] \in Nat
      BY <1>5 DEF TypeOK, LastRun
    <3>2. mtime[o] >= lastRun[BaseOf[q]].datetime
      BY <2>2, <3>1
    <3>3. o \in found[q]
      BY <1>5, <3>2 DEF PollIsComplete, Decide, Matches
    <3>4. Differs(q)
      BY <1>5, <3>1, <3>2 DEF Differs
    <3> QED
      BY <3>3, <3>4 DEF Decide, TypeOK
  <2> QED
    BY <2>1, <2>2
<1>6. Promised'
  <2>1. \A p \in Pollers : p # q => pc'[p] = pc[p] /\ pending'[p] = pending[p]
    BY DEF Decide, TypeOK
  <2> QED
    BY <1>5, <2>1 DEF Decide, Promised
<1>7. NothingForgotten'
  BY DEF Decide, NothingForgotten, Feed!NothingForgotten, Feed!DoneBefore
<1> QED
  BY <1>1, <1>2, <1>3, <1>4, <1>6, <1>7

LEMMA SendStep ==
  ASSUME IndInv, TypeOK', NEW q \in Pollers, NEW x \in Objects, Send(q, x)
  PROVE  IndInv'
<1> USE DEF IndInv, ldap, db
<1>1. HoldsRow' /\ CleanLocals' /\ BehindClock' /\ PollIsComplete'
  BY DEF Send, HoldsRow, CleanLocals, BehindClock, PollIsComplete, InTransaction,
         Matches
<1>2. \A o \in Objects : IF o = x THEN covered'[o] = ver[o]
                                  ELSE covered'[o] = covered[o]
  BY DEF Send, TypeOK
<1>3. \A p \in Pollers : \A o \in pending[p] : o \in pending'[p] \/ o = x
  BY DEF Send, TypeOK
<1>4. Promised'
  BY <1>2, <1>3 DEF Send, Promised
<1>5. NothingForgotten'
  BY <1>2 DEF Send, NothingForgotten, Feed!NothingForgotten, Feed!DoneBefore
<1> QED
  BY <1>1, <1>4, <1>5

\* Ended cycles are idle with empty locals; the others are as they were, and
\* keep their locks.
LEMMA EndedCycles ==
  ASSUME TypeOK, NEW P, EndCycles(P), NEW p \in Pollers
  PROVE  /\ p \in P => /\ pc'[p] = "idle" /\ todo'[p] = {} /\ found'[p] = {}
                       /\ timestamp'[p] = NoStamp /\ pending'[p] = {}
         /\ p \notin P => /\ pc'[p] = pc[p] /\ todo'[p] = todo[p]
                          /\ found'[p] = found[p] /\ pending'[p] = pending[p]
                          /\ timestamp'[p] = timestamp[p]
                          /\ lock[BaseOf[p]] = p => lock'[BaseOf[p]] = p
BY PollersAssumption DEF EndCycles, TypeOK

LEMMA EndCyclesKeeps ==
  ASSUME TypeOK, HoldsRow, CleanLocals, NEW P, EndCycles(P)
  PROVE  HoldsRow' /\ CleanLocals'
<1>1. ASSUME NEW p \in Pollers, InTransaction(p)' PROVE (lock[BaseOf[p]] = p)'
  BY <1>1, EndedCycles DEF HoldsRow, InTransaction
<1>2. CleanLocals'
  BY EndedCycles DEF CleanLocals, InTransaction
<1> QED
  BY <1>1, <1>2 DEF HoldsRow

LEMMA AbortStep ==
  ASSUME IndInv, TypeOK', NEW P, Abort(P)
  PROVE  IndInv'
<1> USE EndedCycles DEF IndInv, Abort, ldap, events
<1>1. HoldsRow' /\ CleanLocals'
  BY EndCyclesKeeps
<1>2. BehindClock'
  BY DEF BehindClock
<1>3. PollIsComplete'
  BY DEF PollIsComplete, Matches
<1>4. Promised'
  BY DEF Promised
<1>5. NothingForgotten'
  BY DEF NothingForgotten, Feed!NothingForgotten, Feed!DoneBefore
<1> QED
  BY <1>1, <1>2, <1>3, <1>4, <1>5

\* The second a commit moves the row to is not before the row's, not ahead of
\* the LDAP clock, and everything written before it is announced.
LEMMA CommitMovesRow ==
  ASSUME IndInv, NEW q \in Pollers, Commit(q)
  PROVE  LET b == BaseOf[q]
             t == NewLastRun(q).datetime
         IN /\ b \in Bases
            /\ lastRun[b].datetime \in Nat /\ t \in Nat /\ now \in Nat
            /\ lastRun[b].datetime <= t /\ t <= now
            /\ \A o \in Objects :
                 b \in within[o] /\ mtime[o] < t => covered[o] = ver[o]
            /\ \A c \in Bases : lastRun'[c].datetime =
                                  IF c = b THEN t ELSE lastRun[c].datetime
<1> DEFINE b == BaseOf[q]
           t == NewLastRun(q).datetime
<1> USE PollersAssumption, BoundsAssumption DEF IndInv
<1>1. b \in Bases /\ lastRun[b].datetime \in Nat /\ now \in Nat
  BY DEF TypeOK, LastRun
<1>2. \A c \in Bases : lastRun'[c].datetime =
                         IF c = b THEN t ELSE lastRun[c].datetime
  BY DEF Commit, TypeOK
<1>3. CASE timestamp[q] = NoStamp
  <2>1. t = lastRun[b].datetime
    BY <1>3 DEF NewLastRun
  <2> QED
    BY <1>1, <1>2, <2>1
    DEF BehindClock, NothingForgotten, Feed!NothingForgotten, Feed!DoneBefore
<1>4. CASE timestamp[q] # NoStamp
  <2>1. t = timestamp[q] /\ t \in Nat
    BY <1>4 DEF NewLastRun, TypeOK
  <2>2. \A o \in Objects : b \in within[o] /\ mtime[o] < t => covered[o] = ver[o]
    BY <1>4, <2>1 DEF Promised, Commit
  <2> QED
    BY <1>1, <1>2, <1>4, <2>1, <2>2 DEF BehindClock
<1> QED
  BY <1>3, <1>4

LEMMA CommitStep ==
  ASSUME IndInv, TypeOK', NEW q \in Pollers, Commit(q)
  PROVE  IndInv'
<1> USE PollersAssumption DEF IndInv, ldap, events
<1>1. EndCycles({q})
  BY DEF Commit
<1>2. HoldsRow' /\ CleanLocals'
  BY <1>1, EndCyclesKeeps
<1>3. \A p \in Pollers :
        InTransaction(p)' => p # q /\ InTransaction(p) /\ BaseOf[p] # BaseOf[q]
  BY <1>1, EndedCycles DEF Commit, HoldsRow, InTransaction
<1>4. \A p \in Pollers : InTransaction(p)' =>
        lastRun'[BaseOf[p]] = lastRun[BaseOf[p]]
  BY <1>3 DEF Commit, TypeOK
<1>5. BehindClock'
  <2>1. UNCHANGED <<mtime, now>>
    BY DEF Commit
  <2>2. \A b \in Bases : lastRun'[b].datetime <= now
    BY CommitMovesRow DEF BehindClock
  <2>3. ASSUME NEW p \in Pollers, timestamp'[p] # NoStamp
        PROVE  lastRun'[BaseOf[p]].datetime <= timestamp'[p] /\ timestamp'[p] <= now
    <3>1. InTransaction(p)'
      BY <1>2, <2>3 DEF CleanLocals
    <3>2. timestamp'[p] = timestamp[p]
      BY <1>1, <1>3, <3>1, EndedCycles
    <3> QED
      BY <1>4, <2>3, <3>1, <3>2 DEF BehindClock
  <2> QED
    BY <2>1, <2>2, <2>3 DEF BehindClock
<1>6. PollIsComplete'
  <2> SUFFICES ASSUME NEW p \in Pollers, InTransaction(p)', todo'[p] = {},
                      timestamp'[p] # NoStamp, NEW o \in Objects,
                      Matches(o, BaseOf[p])', mtime'[o] < timestamp'[p]
               PROVE  o \in found'[p]
    BY DEF PollIsComplete, InTransaction
  <2>1. p # q /\ InTransaction(p) /\ lastRun'[BaseOf[p]] = lastRun[BaseOf[p]]
    BY <1>3, <1>4
  <2>2. todo'[p] = todo[p] /\ found'[p] = found[p] /\ timestamp'[p] = timestamp[p]
    BY <1>1, <2>1, EndedCycles
  <2> QED
    BY <2>1, <2>2 DEF Commit, PollIsComplete, InTransaction, Matches
<1>7. Promised'
  BY <1>1, EndedCycles DEF Commit, Promised
<1>8. NothingForgotten'
  BY ZenonT(60), CommitMovesRow
  DEF Commit, NothingForgotten, Feed!NothingForgotten, Feed!DoneBefore
<1> QED
  BY <1>2, <1>5, <1>6, <1>7, <1>8

LEMMA NextIndInv == SinglePage /\ IndInv /\ [Next]_vars => IndInv'
<1> SUFFICES ASSUME SinglePage, IndInv, [Next]_vars PROVE IndInv'
  OBVIOUS
<1>1. TypeOK /\ CleanLocals
  BY DEF IndInv
<1>2. TypeOK'
  BY <1>1, NextTypeOK
<1> QED
  BY <1>1, <1>2, StepKinds, QuietStep, TickStep, WriteStep, LockRowStep,
     FullSearchStep, DecideStep, SendStep, CommitStep, AbortStep

LEMMA Invariance == SinglePage => (Spec => []IndInv)
<1> SUFFICES ASSUME SinglePage PROVE Spec => []IndInv
  OBVIOUS
<1>1. IndInv /\ [Next]_vars => IndInv'
  BY NextIndInv
<1> QED
  BY <1>1, InitIndInv, PTL DEF Spec

\* No change is forgotten: what was written before the second a row stands at
\* has been announced since, whatever crashes, failed sends or second processes
\* did, as long as every search fits one page.
THEOREM NeverForgets == SinglePage => (Spec => []NothingForgotten)
<1>1. IndInv => NothingForgotten
  BY DEF IndInv
<1> QED
  BY <1>1, Invariance, PTL

\* A poll returns every object that changed since the row's second and before
\* the second it returns, as long as every search fits one page.
THEOREM PollsAreComplete == SinglePage => (Spec => []PollIsComplete)
<1>1. IndInv => PollIsComplete
  BY DEF IndInv
<1> QED
  BY <1>1, Invariance, PTL

\* The generator implements ChangeFeed: every step of a poller is a
\* notification, a move of one cursor the feed allows, or invisible.
THEOREM ImplementsChangeFeed == SinglePage => (Spec => ImplementsFeed)
<1> SUFFICES ASSUME SinglePage PROVE Spec => ImplementsFeed
  OBVIOUS
<1>1. Init => Feed!Init
  BY DEF Init, Feed!Init
<1>2. ASSUME IndInv, [Next]_vars PROVE [Feed!Next]_(Feed!vars)
  <2> DEFINE cursors == [b \in Bases |-> lastRun[b].datetime]
  <2> USE DEF Feed!vars, Feed!Next, ldap, events, cycle, db
  <2>1. CASE Quiet
    BY <2>1 DEF Quiet
  <2>2. CASE Tick
    BY <2>2 DEF Tick, Feed!Tick
  <2>3. ASSUME NEW o \in Objects, NEW S \in SUBSET Bases, Write(o, S)
        PROVE  [Feed!Next]_(Feed!vars)
    BY <2>3 DEF Write, Feed!Write
  <2>4. ASSUME NEW p \in Pollers, LockRow(p) \/ FullSearch(p) \/ Decide(p)
        PROVE  [Feed!Next]_(Feed!vars)
    BY <2>4 DEF LockRow, FullSearch, Decide
  <2>5. ASSUME NEW p \in Pollers, NEW o \in Objects, Send(p, o)
        PROVE  [Feed!Next]_(Feed!vars)
    BY <2>5 DEF Send, Feed!Notify
  <2>6. ASSUME NEW p \in Pollers, Commit(p) PROVE [Feed!Next]_(Feed!vars)
    <3> DEFINE b == BaseOf[p]
               t == NewLastRun(p).datetime
    <3>1. /\ b \in Bases
          /\ lastRun[b].datetime \in Nat /\ t \in Nat /\ now \in Nat
          /\ lastRun[b].datetime <= t /\ t <= now
          /\ \A o \in Objects :
               b \in within[o] /\ mtime[o] < t => covered[o] = ver[o]
          /\ \A c \in Bases : lastRun'[c].datetime =
                                IF c = b THEN t ELSE lastRun[c].datetime
      BY <1>2, <2>6, CommitMovesRow
    <3>2. t \in cursors[b] .. now
      BY <3>1
    <3>3. cursors' = [cursors EXCEPT ![b] = t]
      BY <3>1
    <3>4. UNCHANGED <<now, within, mtime, ver, covered>>
      BY <2>6 DEF Commit
    <3>5. Feed!Advance(b, t)
      BY <3>1, <3>3, <3>4 DEF Feed!Advance, Feed!DoneBefore
    <3> HIDE DEF b, t
    <3>6. \E c \in Bases : \E u \in cursors[c] .. now : Feed!Advance(c, u)
      BY <3>1, <3>2, <3>5 DEF Feed!Advance
    <3> QED
      BY <3>6
  <2>7. ASSUME NEW P, Abort(P) PROVE [Feed!Next]_(Feed!vars)
    BY <2>7 DEF Abort
  <2> QED
    BY <1>2, <2>1, <2>2, <2>3, <2>4, <2>5, <2>6, <2>7, StepKinds DEF IndInv
<1> QED
  BY <1>1, <1>2, Invariance, PTL DEF Spec, ImplementsFeed, Feed!Spec

-----------------------------------------------------------------------------
(* What OnlySameSecondWritesAreLost says is reached, as an invariant: when no *)
(* search has anything left to send, the exception is the only one.  It needs *)
(* to know in which second the events of a row's uuids were sent.             *)

\* No event was sent ahead of the LDAP clock, or after a write it misses.
SentBehindClock ==
  \A o \in Objects :
    sentAt[o] # NoStamp =>
      sentAt[o] <= now /\ (covered[o] # ver[o] => sentAt[o] <= mtime[o])

\* Every uuid a row holds was sent, and not before the row's second.
RowsWereSent ==
  \A b \in Bases : \A o \in lastRun[b].uuids :
    sentAt[o] # NoStamp /\ lastRun[b].datetime <= sentAt[o]

\* So was everything found that publish_uuids is done with.
FoundWasSent ==
  \A p \in Pollers :
    pc[p] = "publish" /\ timestamp[p] # NoStamp =>
      \A o \in found[p] \ pending[p] :
        sentAt[o] # NoStamp /\ timestamp[p] <= sentAt[o]

SentInv == IndInv /\ SentBehindClock /\ RowsWereSent /\ FoundWasSent

\* A search of b would find nothing, or just what the row says.
NothingToSend(b) ==
  LET hits == {o \in Objects : Matches(o, b)}
  IN \/ hits = {}
     \/ /\ hits = lastRun[b].uuids
        /\ IsLatest(lastRun[b].datetime, {mtime[o] : o \in hits})

LEMMA InitSentInv == Init => SentInv
BY InitIndInv DEF Init, SentInv, SentBehindClock, RowsWereSent, FoundWasSent

\* A write is stamped now, and nothing was sent later than now.
LEMMA WriteKeepsSent ==
  ASSUME SentInv, NEW x \in Objects, NEW S \in SUBSET Bases, Write(x, S)
  PROVE  SentBehindClock' /\ RowsWereSent' /\ FoundWasSent'
<1> USE DEF SentInv, events, db, cycle
<1>1. \A o \in Objects : IF o = x THEN mtime'[o] = now
                                  ELSE mtime'[o] = mtime[o] /\ ver'[o] = ver[o]
  BY DEF Write, IndInv, TypeOK
<1>2. SentBehindClock'
  BY <1>1 DEF Write, SentBehindClock
<1> QED
  BY <1>2 DEF Write, RowsWereSent, FoundWasSent

\* An event sent now is sent at no earlier second than any row or search knows,
\* and covers its object.
LEMMA SendKeepsSent ==
  ASSUME SentInv, NEW q \in Pollers, NEW x \in Objects, Send(q, x)
  PROVE  SentBehindClock' /\ RowsWereSent' /\ FoundWasSent'
<1> USE BoundsAssumption DEF SentInv, ldap, db
<1>1. now \in Nat /\ UNCHANGED <<now, mtime, ver, lastRun, pc, timestamp, found>>
  BY DEF Send, IndInv, TypeOK
<1>2. \A o \in Objects :
        IF o = x THEN sentAt'[o] = now /\ covered'[o] = ver[o]
                 ELSE sentAt'[o] = sentAt[o] /\ covered'[o] = covered[o]
  BY DEF Send, IndInv, TypeOK
<1>3. \A p \in Pollers : \A o \in pending[p] : o \in pending'[p] \/ o = x
  BY DEF Send, IndInv, TypeOK
<1>4. now # NoStamp
  BY <1>1
<1>5. SentBehindClock'
  BY <1>1, <1>2 DEF SentBehindClock
<1>6. RowsWereSent'
  <2> SUFFICES ASSUME NEW b \in Bases, NEW o \in lastRun[b].uuids
               PROVE  sentAt'[o] # NoStamp /\ lastRun[b].datetime <= sentAt'[o]
    BY <1>1 DEF RowsWereSent
  <2>1. o \in Objects
    BY DEF IndInv, TypeOK, LastRun
  <2>2. lastRun[b].datetime <= now
    BY DEF IndInv, BehindClock
  <2> QED
    BY <1>2, <1>4, <2>1, <2>2 DEF RowsWereSent
<1>7. FoundWasSent'
  <2> SUFFICES ASSUME NEW p \in Pollers, pc[p] = "publish", timestamp[p] # NoStamp,
                      NEW o \in found[p] \ pending'[p]
               PROVE  sentAt'[o] # NoStamp /\ timestamp[p] <= sentAt'[o]
    BY <1>1 DEF FoundWasSent
  <2>1. o \in Objects
    BY DEF IndInv, TypeOK
  <2>2. timestamp[p] <= now
    BY DEF IndInv, BehindClock
  <2>3. o # x => o \in found[p] \ pending[p]
    BY <1>3
  <2> QED
    BY <1>2, <1>4, <2>1, <2>2, <2>3 DEF FoundWasSent
<1> QED
  BY <1>5, <1>6, <1>7

\* What the check lets a poller leave unsent is what the row already says, and
\* that was sent.
LEMMA DecideKeepsSent ==
  ASSUME SentInv, NEW q \in Pollers, Decide(q)
  PROVE  SentBehindClock' /\ RowsWereSent' /\ FoundWasSent'
<1> USE PollersAssumption DEF SentInv, ldap, events, db
<1>1. SentBehindClock' /\ RowsWereSent'
  BY DEF Decide, SentBehindClock, RowsWereSent
<1>2. \A p \in Pollers : p # q => pc'[p] = pc[p] /\ pending'[p] = pending[p]
  BY DEF Decide, IndInv, TypeOK
<1>3. pending'[q] = IF Differs(q) THEN found[q] ELSE {}
  BY DEF Decide, IndInv, TypeOK
<1>4. ASSUME NEW o \in found[q] \ pending'[q]
      PROVE  sentAt[o] # NoStamp /\ timestamp[q] <= sentAt[o]
  <2>1. ~Differs(q)
    BY <1>3, <1>4
  <2> QED
    BY <1>4, <2>1 DEF Differs, RowsWereSent
<1>5. UNCHANGED <<sentAt, found, timestamp>>
  BY DEF Decide
<1>6. FoundWasSent'
  BY <1>2, <1>4, <1>5 DEF FoundWasSent
<1> QED
  BY <1>1, <1>6

\* A commit stores what was found, all of it sent.
LEMMA CommitKeepsSent ==
  ASSUME SentInv, NEW q \in Pollers, Commit(q)
  PROVE  SentBehindClock' /\ RowsWereSent' /\ FoundWasSent'
<1> USE PollersAssumption DEF SentInv, ldap, events
<1>1. UNCHANGED <<now, mtime, ver, covered, sentAt>>
  BY DEF Commit
<1>2. SentBehindClock'
  BY <1>1 DEF SentBehindClock
<1>3. RowsWereSent'
  <2>1. \A b \in Bases : lastRun'[b] = IF b = BaseOf[q] THEN NewLastRun(q)
                                                        ELSE lastRun[b]
    BY DEF Commit, IndInv, TypeOK
  <2>2. \A o \in NewLastRun(q).uuids :
          sentAt[o] # NoStamp /\ NewLastRun(q).datetime <= sentAt[o]
    <3>1. CASE timestamp[q] = NoStamp
      BY <3>1 DEF NewLastRun, RowsWereSent
    <3>2. CASE timestamp[q] # NoStamp
      BY <3>2 DEF NewLastRun, FoundWasSent, Commit
    <3> QED
      BY <3>1, <3>2
  <2> QED
    BY <1>1, <2>1, <2>2 DEF RowsWereSent
<1>4. FoundWasSent'
  BY <1>1, EndedCycles DEF Commit, IndInv, FoundWasSent
<1> QED
  BY <1>2, <1>3, <1>4

LEMMA NextSentInv == SinglePage /\ SentInv /\ [Next]_vars => SentInv'
<1> SUFFICES ASSUME SinglePage, SentInv, [Next]_vars PROVE SentInv'
  OBVIOUS
<1>1. IndInv /\ TypeOK /\ CleanLocals
  BY DEF SentInv, IndInv
<1>2. IndInv'
  BY <1>1, NextIndInv
<1> USE DEF SentInv, ldap, events, db, cycle
<1>3. ASSUME Quiet PROVE SentInv'
  <2>1. \A p \in Pollers : pc'[p] = "publish" => pc[p] = "publish"
    BY <1>3 DEF Quiet, InTransaction
  <2>2. FoundWasSent'
    BY <1>3, <2>1 DEF Quiet, FoundWasSent
  <2> QED
    BY <1>2, <1>3, <2>2 DEF Quiet, SentBehindClock, RowsWereSent
<1>4. ASSUME Tick PROVE SentInv'
  <2>1. SentBehindClock'
    BY <1>1, <1>4, BoundsAssumption DEF Tick, SentBehindClock, TypeOK
  <2> QED
    BY <1>2, <1>4, <2>1 DEF Tick, RowsWereSent, FoundWasSent
<1>5. ASSUME NEW p \in Pollers, LockRow(p) \/ FullSearch(p) PROVE SentInv'
  <2>1. \A r \in Pollers : pc'[r] = "publish" =>
          /\ pc[r] = "publish" /\ found'[r] = found[r] /\ pending'[r] = pending[r]
          /\ timestamp'[r] = timestamp[r]
    BY <1>1, <1>5 DEF LockRow, FullSearch, TypeOK
  <2>2. UNCHANGED <<now, mtime, ver, covered, sentAt, lastRun>>
    BY <1>5 DEF LockRow, FullSearch
  <2> QED
    BY <1>2, <2>1, <2>2 DEF SentBehindClock, RowsWereSent, FoundWasSent
<1>6. ASSUME NEW P, Abort(P) PROVE SentInv'
  <2>1. FoundWasSent'
    BY <1>1, <1>6, EndedCycles DEF Abort, FoundWasSent
  <2> QED
    BY <1>2, <1>6, <2>1 DEF Abort, SentBehindClock, RowsWereSent
<1> QED
  BY <1>1, <1>2, <1>3, <1>4, <1>5, <1>6, StepKinds, WriteKeepsSent, SendKeepsSent,
     DecideKeepsSent, CommitKeepsSent

\* When a search of b has nothing to send, every object of b is announced as it
\* is, unless an event about it went out in the second it was last written.
LEMMA QuietBaseIsAnnounced ==
  ASSUME SentInv, NEW b \in Bases, NothingToSend(b), NEW o \in Objects
  PROVE  Announced(o, b, ver[o]) \/ sentAt[o] = mtime[o]
<1> SUFFICES ASSUME b \in within[o], covered[o] # ver[o]
             PROVE  sentAt[o] = mtime[o]
  BY DEF Announced, SentInv, IndInv, TypeOK
<1>1. /\ mtime[o] \in Nat /\ lastRun[b].datetime \in Nat
      /\ sentAt[o] \in Nat \cup {NoStamp}
  BY DEF SentInv, IndInv, TypeOK, LastRun
<1>2. Matches(o, b)
  BY <1>1
  DEF Matches, SentInv, IndInv, NothingForgotten, Feed!NothingForgotten, Feed!DoneBefore
<1>3. o \in lastRun[b].uuids
  BY <1>2 DEF NothingToSend
<1>4. mtime[o] <= lastRun[b].datetime
  BY <1>2 DEF NothingToSend, IsLatest
<1>5. lastRun[b].datetime <= sentAt[o] /\ sentAt[o] # NoStamp
  BY <1>3 DEF SentInv, RowsWereSent
<1>6. sentAt[o] <= mtime[o]
  BY <1>5 DEF SentInv, SentBehindClock
<1> QED
  BY <1>1, <1>4, <1>5, <1>6

\* Once a search of b has nothing left to send, the check that stops repeated
\* events (lines 265-270) has cost no write, but one in whose own second an event
\* about the object went out: whatever crashed, failed or ran at the same time, as
\* long as every search fits one page.
THEOREM LostInTheSameSecond ==
  SinglePage =>
    (Spec => [](\A b \in Bases : NothingToSend(b) =>
                  \A o \in Objects :
                    Announced(o, b, ver[o]) \/ sentAt[o] = mtime[o]))
<1> SUFFICES ASSUME SinglePage
             PROVE  Spec => [](\A b \in Bases : NothingToSend(b) =>
                                 \A o \in Objects :
                                   Announced(o, b, ver[o]) \/ sentAt[o] = mtime[o])
  OBVIOUS
<1>1. SentInv /\ [Next]_vars => SentInv'
  BY NextSentInv
<1>2. SentInv => \A b \in Bases : NothingToSend(b) =>
                   \A o \in Objects :
                     Announced(o, b, ver[o]) \/ sentAt[o] = mtime[o]
  BY QuietBaseIsAnnounced
<1> QED
  BY <1>1, <1>2, InitSentInv, PTL DEF Spec

-----------------------------------------------------------------------------
(* The feed by itself, with cursors of its own instead of the rows.          *)

VARIABLE cursor
Promise == INSTANCE ChangeFeed

\* A write is stamped with the clock, which no cursor is ahead of.
CursorsBehind == /\ now \in Nat
                 /\ cursor \in [Bases -> Nat]
                 /\ \A b \in Bases : cursor[b] <= now

FeedInv == Promise!TypeOK /\ CursorsBehind /\ Promise!NothingForgotten

LEMMA FeedInit == Promise!Init => FeedInv
BY BoundsAssumption
DEF Promise!Init, FeedInv, Promise!TypeOK, CursorsBehind, Promise!NothingForgotten, Promise!DoneBefore

LEMMA FeedNext ==
  ASSUME FeedInv, [Promise!Next]_(Promise!vars)
  PROVE  FeedInv'
<1> USE BoundsAssumption DEF FeedInv, Promise!TypeOK, CursorsBehind
<1>1. CASE Promise!Tick
  BY <1>1 DEF Promise!Tick, Promise!NothingForgotten, Promise!DoneBefore
<1>2. ASSUME NEW x \in Objects, NEW S \in SUBSET Bases, Promise!Write(x, S)
      PROVE  FeedInv'
  <2>1. Promise!TypeOK' /\ CursorsBehind'
    BY <1>2 DEF Promise!Write
  <2>2. \A o \in Objects : o # x =>
          within'[o] = within[o] /\ mtime'[o] = mtime[o] /\ ver'[o] = ver[o]
    BY <1>2 DEF Promise!Write
  <2>3. \A b \in Bases : ~(mtime'[x] < cursor[b])
    BY <1>2 DEF Promise!Write
  <2> QED
    BY <1>2, <2>1, <2>2, <2>3 DEF Promise!Write, Promise!NothingForgotten, Promise!DoneBefore
<1>3. ASSUME NEW o \in Objects, Promise!Notify(o) PROVE FeedInv'
  BY <1>3 DEF Promise!Notify, Promise!NothingForgotten, Promise!DoneBefore
<1>4. ASSUME NEW b \in Bases, NEW t \in cursor[b] .. now, Promise!Advance(b, t)
      PROVE  FeedInv'
  BY <1>4 DEF Promise!Advance, Promise!NothingForgotten, Promise!DoneBefore
<1>5. CASE UNCHANGED Promise!vars
  BY <1>5 DEF Promise!vars, Promise!NothingForgotten, Promise!DoneBefore
<1> QED
  BY <1>1, <1>2, <1>3, <1>4, <1>5 DEF Promise!Next

\* Whatever only makes the moves of ChangeFeed never forgets a change.
THEOREM FeedNeverForgets == Promise!Spec => []Promise!NothingForgotten
<1>1. FeedInv /\ [Promise!Next]_(Promise!vars) => FeedInv'
  BY FeedNext
<1>2. FeedInv => Promise!NothingForgotten
  BY DEF FeedInv
<1> QED
  BY FeedInit, <1>1, <1>2, PTL DEF Promise!Spec
=============================================================================
