--------------------------- MODULE EventGenerator ---------------------------
(***************************************************************************)
(* ldap_event_generator.py: every poller repeatedly searches its search    *)
(* base for objects whose modifyTimestamp is at or after the datetime of a *)
(* row in the integration's database, sends one event per object found,    *)
(* and stores what it found in that row.  Search, events and the row's     *)
(* update happen under one row lock, in one database transaction.          *)
(*                                                                         *)
(* A poller is the _poller task of one process for one search base.  Two   *)
(* processes may run at once (a rolling restart); the row lock is theirs   *)
(* to share.  The consumers of an event read the object's current state,   *)
(* so an event covers every write made before it was sent.                 *)
(***************************************************************************)
EXTENDS Naturals, FiniteSets

CONSTANTS
  Objects,     \* LDAP objects, by their unique LDAP uuid
  Bases,       \* combine_dn_strings([ou, ldap_search_base]) of each ou searched
  Processes,   \* running copies of the program
  Pollers,     \* the _poller tasks
  BaseOf,      \* BaseOf[p]: the search base poller p was set up with
  ProcessOf,   \* ProcessOf[p]: the process poller p runs in
  PageSize,    \* searchParameters["paged_size"]
  Epoch,       \* MICROSOFT_EPOCH
  NoStamp,     \* max(timestamps, default=None) of an empty search
  Nobody,      \* the row is not locked
  MaxTime,     \* bound: last second of the LDAP clock
  MaxWrites,   \* bound: writes of one object, its creation included
  MaxFaults    \* bound: failed cycles, shutdowns and crashes together

ASSUME PollersAssumption == /\ BaseOf \in [Pollers -> Bases]
                            /\ ProcessOf \in [Pollers -> Processes]
                            /\ Nobody \notin Pollers
ASSUME BoundsAssumption == /\ PageSize \in Nat \ {0}
                           /\ Epoch \in Nat
                           /\ MaxTime \in Nat /\ Epoch < MaxTime
                           /\ MaxWrites \in Nat
                           /\ MaxFaults \in Nat
                           /\ NoStamp \notin Nat

VARIABLES
  now, within, mtime, ver,  \* the LDAP server, as in ChangeFeed
  covered,     \* covered[o]: the last write an event about o covers (history)
  sentAt,      \* sentAt[o]: the LDAP second of the last event about o (history)
  rows,        \* search bases that have a LastRun row
  lastRun,     \* lastRun[b]: that row's datetime and uuids, or their defaults
  lock,        \* lock[b]: the poller holding the row's FOR UPDATE lock
  pc,          \* pc[p]: where p's _generate_events stands
  alive,       \* alive[p]: the _poller task is not done
  todo,        \* todo[p]: objects the paged search has not yet looked at
  found,       \* found[p]: uuids of the responses so far
  timestamp,   \* timestamp[p]: latest modifyTimestamp of the responses so far
  pending,     \* pending[p]: uuids publish_uuids has still to send
  faults       \* failures injected so far

ldap == <<now, within, mtime, ver>>
db == <<rows, lastRun, lock>>
events == <<covered, sentAt>>
cycle == <<todo, found, timestamp, pending>>
vars == <<now, within, mtime, ver, covered, sentAt, rows, lastRun, lock,
          pc, alive, todo, found, timestamp, pending, faults>>

Feed == INSTANCE ChangeFeed
          WITH cursor <- [b \in Bases |-> lastRun[b].datetime]

LastRun == [datetime : Nat, uuids : SUBSET Objects]

TypeOK ==
  /\ now \in Epoch .. MaxTime
  /\ within \in [Objects -> SUBSET Bases]
  /\ mtime \in [Objects -> Nat]
  /\ ver \in [Objects -> Nat]
  /\ covered \in [Objects -> Nat]
  /\ sentAt \in [Objects -> Nat \cup {NoStamp}]
  /\ rows \subseteq Bases
  /\ lastRun \in [Bases -> LastRun]
  /\ lock \in [Bases -> Pollers \cup {Nobody}]
  /\ pc \in [Pollers -> {"idle", "insert", "lock", "search", "publish"}]
  /\ alive \in [Pollers -> BOOLEAN]
  /\ todo \in [Pollers -> SUBSET Objects]
  /\ found \in [Pollers -> SUBSET Objects]
  /\ timestamp \in [Pollers -> Nat \cup {NoStamp}]
  /\ pending \in [Pollers -> SUBSET Objects]
  /\ faults \in 0 .. MaxFaults

Init ==
  /\ now = Epoch + 1
  /\ within \in [Objects -> SUBSET Bases]
  /\ mtime = [o \in Objects |-> Epoch]
  /\ ver = [o \in Objects |-> 1]
  /\ covered = [o \in Objects |-> 0]
  /\ sentAt = [o \in Objects |-> NoStamp]
  /\ rows = {}
  /\ lastRun = [b \in Bases |-> [datetime |-> Epoch, uuids |-> {}]]
  /\ lock = [b \in Bases |-> Nobody]
  /\ pc = [p \in Pollers |-> "idle"]
  /\ alive = [p \in Pollers |-> TRUE]
  /\ todo = [p \in Pollers |-> {}]
  /\ found = [p \in Pollers |-> {}]
  /\ timestamp = [p \in Pollers |-> NoStamp]
  /\ pending = [p \in Pollers |-> {}]
  /\ faults = 0

-----------------------------------------------------------------------------
(* The LDAP server. *)

Tick ==
  /\ now < MaxTime
  /\ now' = now + 1
  /\ UNCHANGED <<within, mtime, ver, events, db, pc, alive, cycle, faults>>

Write(o, S) ==
  /\ ver[o] < MaxWrites
  /\ within' = [within EXCEPT ![o] = S]
  /\ mtime' = [mtime EXCEPT ![o] = now]
  /\ ver' = [ver EXCEPT ![o] = @ + 1]
  /\ UNCHANGED <<now, events, db, pc, alive, cycle, faults>>

-----------------------------------------------------------------------------
(* One cycle of _generate_events. *)

\* First transaction: look for the row.  An existing row is locked, so this
\* waits for whoever holds it, and left as it was.
EnsureRow(p) ==
  /\ pc[p] = "idle" /\ alive[p]
  /\ \/ BaseOf[p] \notin rows /\ pc' = [pc EXCEPT ![p] = "insert"]
     \/ /\ BaseOf[p] \in rows /\ lock[BaseOf[p]] = Nobody
        /\ pc' = [pc EXCEPT ![p] = "lock"]
  /\ UNCHANGED <<ldap, events, db, alive, cycle, faults>>

\* No row was seen, and FOR UPDATE locks nothing then: of two pollers that get
\* here the second runs into search_base's unique index, and its task ends.
InsertRow(p) ==
  /\ pc[p] = "insert"
  /\ rows' = rows \cup {BaseOf[p]}
  /\ IF BaseOf[p] \in rows
       THEN /\ pc' = [pc EXCEPT ![p] = "idle"]
            /\ alive' = [alive EXCEPT ![p] = FALSE]
       ELSE /\ pc' = [pc EXCEPT ![p] = "lock"]
            /\ UNCHANGED alive
  /\ UNCHANGED <<ldap, events, lastRun, lock, cycle, faults>>

\* Second transaction: SELECT ... FOR UPDATE, then the search starts.
LockRow(p) ==
  /\ pc[p] = "lock" /\ lock[BaseOf[p]] = Nobody
  /\ lock' = [lock EXCEPT ![BaseOf[p]] = p]
  /\ pc' = [pc EXCEPT ![p] = "search"]
  /\ todo' = [todo EXCEPT ![p] = Objects]
  /\ UNCHANGED <<ldap, events, rows, lastRun, alive, found, timestamp, pending,
                 faults>>

\* The search filter: in scope, and modifyTimestamp>=last_run.datetime.
Matches(o, b) == b \in within[o] /\ mtime[o] >= lastRun[b].datetime

IsLatest(t, stamps) ==
  IF stamps = {} THEN t = NoStamp ELSE t \in stamps /\ \A u \in stamps : u <= t

\* One page of _paged_search: the server goes through some more objects, in an
\* order of its own, until the page is full or none are left.  Each page is
\* answered from the objects as they are at that moment.
SearchPage(p) ==
  /\ pc[p] = "search" /\ todo[p] # {}
  /\ \E page \in SUBSET todo[p] :
       LET hits == {o \in page : Matches(o, BaseOf[p])}
           stamps == {mtime[o] : o \in hits} \cup ({timestamp[p]} \ {NoStamp})
       IN /\ \/ page = todo[p] /\ Cardinality(hits) <= PageSize
             \/ Cardinality(hits) = PageSize
          /\ todo' = [todo EXCEPT ![p] = @ \ page]
          /\ found' = [found EXCEPT ![p] = @ \cup hits]
          /\ \E t \in stamps \cup {NoStamp} :
               /\ IsLatest(t, stamps)
               /\ timestamp' = [timestamp EXCEPT ![p] = t]
  /\ UNCHANGED <<ldap, events, db, pc, alive, pending, faults>>

\* Mutants of Differs: both must differ; repeat whatever the row says.
DiffersInBoth(p) == /\ found[p] # lastRun[BaseOf[p]].uuids
                    /\ timestamp[p] # lastRun[BaseOf[p]].datetime
DiffersAlways(p) == pc[p] = "search"

\* Events are sent only if what was found differs from what the row says.
Differs(p) == \/ found[p] # lastRun[BaseOf[p]].uuids
              \/ timestamp[p] # lastRun[BaseOf[p]].datetime

Decide(p) ==
  /\ pc[p] = "search" /\ todo[p] = {}
  /\ pc' = [pc EXCEPT ![p] = "publish"]
  /\ pending' = [pending EXCEPT ![p] = IF Differs(p) THEN found[p] ELSE {}]
  /\ UNCHANGED <<ldap, events, db, alive, todo, found, timestamp, faults>>

\* The tasks of publish_uuids run concurrently: any order.
Send(p, o) ==
  /\ pc[p] = "publish" /\ o \in pending[p]
  /\ covered' = [covered EXCEPT ![o] = ver[o]]
  /\ sentAt' = [sentAt EXCEPT ![o] = now]
  /\ pending' = [pending EXCEPT ![p] = @ \ {o}]
  /\ UNCHANGED <<ldap, db, pc, alive, todo, found, timestamp, faults>>

\* Mutant: an empty search is stored too.
NewLastRunOfAny(p) == [datetime |-> timestamp[p], uuids |-> found[p]]

\* Nothing found keeps the row; otherwise it takes the search's result.
NewLastRun(p) ==
  IF timestamp[p] = NoStamp
    THEN lastRun[BaseOf[p]]
    ELSE [datetime |-> timestamp[p], uuids |-> found[p]]

\* The cycles of the pollers in P are gone, with their locals and their locks.
EndCycles(P) ==
  /\ pc' = [p \in Pollers |-> IF p \in P THEN "idle" ELSE pc[p]]
  /\ todo' = [p \in Pollers |-> IF p \in P THEN {} ELSE todo[p]]
  /\ found' = [p \in Pollers |-> IF p \in P THEN {} ELSE found[p]]
  /\ timestamp' = [p \in Pollers |-> IF p \in P THEN NoStamp ELSE timestamp[p]]
  /\ pending' = [p \in Pollers |-> IF p \in P THEN {} ELSE pending[p]]
  /\ lock' = [b \in Bases |-> IF lock[b] \in P THEN Nobody ELSE lock[b]]

\* Mutant of Commit: does not wait for the events to be sent.
CommitUnsent(p) ==
  /\ pc[p] = "publish"
  /\ lastRun' = [lastRun EXCEPT ![BaseOf[p]] = NewLastRun(p)]
  /\ EndCycles({p})
  /\ UNCHANGED <<ldap, events, rows, alive, faults>>

\* The transaction commits once every event is sent, and the lock is released.
Commit(p) ==
  /\ pc[p] = "publish" /\ pending[p] = {}
  /\ lastRun' = [lastRun EXCEPT ![BaseOf[p]] = NewLastRun(p)]
  /\ EndCycles({p})
  /\ UNCHANGED <<ldap, events, rows, alive, faults>>

-----------------------------------------------------------------------------
(* Failures. *)

\* The search, an event or the database fails: the transaction rolls back, the
\* other sends are cancelled, and the exception ends the _poller task.
Fail(p) ==
  /\ faults < MaxFaults /\ pc[p] # "idle"
  /\ faults' = faults + 1
  /\ alive' = [alive EXCEPT ![p] = FALSE]
  /\ EndCycles({p})
  /\ UNCHANGED <<ldap, events, rows, lastRun>>

Crew(q) == {p \in Pollers : ProcessOf[p] = q}

\* __aexit__ cancels the pollers; asyncio.shield lets a cycle that is under way
\* run on until it ends or the process does.
Shutdown(q) ==
  /\ faults < MaxFaults
  /\ faults' = faults + 1
  /\ alive' = [p \in Pollers |-> alive[p] /\ p \notin Crew(q)]
  /\ UNCHANGED <<ldap, events, db, pc, cycle>>

\* The process ends: its transactions roll back, its sends stop.
Crash(q) ==
  /\ faults < MaxFaults
  /\ faults' = faults + 1
  /\ alive' = [p \in Pollers |-> alive[p] /\ p \notin Crew(q)]
  /\ EndCycles(Crew(q))
  /\ UNCHANGED <<ldap, events, rows, lastRun>>

\* healthcheck is false once a poller is done: the process is replaced.
Restart(q) ==
  /\ \E p \in Crew(q) : ~alive[p]
  /\ alive' = [p \in Pollers |-> alive[p] \/ p \in Crew(q)]
  /\ EndCycles(Crew(q))
  /\ UNCHANGED <<ldap, events, rows, lastRun, faults>>

-----------------------------------------------------------------------------

PollerStep(p) ==
  \/ EnsureRow(p) \/ InsertRow(p) \/ LockRow(p)
  \/ SearchPage(p) \/ Decide(p) \/ Commit(p)
  \/ \E o \in Objects : Send(p, o)

Next ==
  \/ Tick
  \/ \E o \in Objects, S \in SUBSET Bases : Write(o, S)
  \/ \E p \in Pollers : PollerStep(p) \/ Fail(p)
  \/ \E q \in Processes : Shutdown(q) \/ Crash(q) \/ Restart(q)

\* The pollers run (an event loop runs every task that is ready) and a process
\* that reports itself unhealthy is restarted.  LDAP owes nobody a write.
Fairness ==
  /\ \A p \in Pollers : WF_vars(PollerStep(p))
  /\ \A q \in Processes : WF_vars(Restart(q))

Spec == Init /\ [][Next]_vars
FairSpec == Spec /\ Fairness

-----------------------------------------------------------------------------
(* Properties. *)

\* No change is forgotten: every object last written before the second a row
\* stands at has been announced since that write, whatever crashed, failed to
\* send, or ran at the same time (_generate_events, lines 250-279).
NothingForgotten == Feed!NothingForgotten

\* The generator implements the feed: rows never go back, never run ahead of
\* the LDAP clock and never pass a write that was not announced.
ImplementsFeed == Feed!Spec

Announced(o, b, v) == covered[o] >= v \/ b \notin within[o]

\* An object's last write is announced in the end, unless an event about the same
\* object went out in the very second of the write: the check that stops repeated events (lines
\* 265-270), crashes, failed sends and racing pollers cost no other change.
OnlySameSecondWritesAreLost ==
  \A o \in Objects, b \in Bases :
    []<>(Announced(o, b, ver[o]) \/ sentAt[o] = mtime[o])

\* When LDAP is quiet the queue becomes quiet: the events of the last second
\* are not sent again at every poll (the comment in lines 265-268).
EventuallySilent ==
  <>[][\A p \in Pollers, o \in Objects : ~Send(p, o)]_vars

\* What lines 289-291 say of the second-precision filter: an object modified in
\* the same second as the search is not missed.
NoChangeMissed ==
  \A o \in Objects, b \in Bases, v \in 1 .. MaxWrites :
    ver[o] = v ~> Announced(o, b, v)

\* What poll returns (docstring, lines 165-166): the objects changed since the
\* last search.  Nothing that changed since then, and before the second the
\* search returns, is left out of it.
PollIsComplete ==
  \A p \in Pollers :
    pc[p] \in {"search", "publish"} /\ todo[p] = {} /\ timestamp[p] # NoStamp =>
      \A o \in Objects :
        Matches(o, BaseOf[p]) /\ mtime[o] < timestamp[p] => o \in found[p]

-----------------------------------------------------------------------------
(* The inductive invariant behind NothingForgotten, in named parts.  It holds *)
(* when every search fits one page (the assumption of its theorem).           *)

SinglePage == IsFiniteSet(Objects) /\ Cardinality(Objects) < PageSize

InTransaction(p) == pc[p] \in {"search", "publish"}

\* Whoever searches or publishes holds the row.
HoldsRow == \A p \in Pollers : InTransaction(p) => lock[BaseOf[p]] = p

\* Outside a transaction there is nothing left of the last search; a search not
\* finished has not started; a finished one leaves nothing to look at.
CleanLocals ==
  \A p \in Pollers :
    /\ ~InTransaction(p) => found[p] = {} /\ timestamp[p] = NoStamp
    /\ pc[p] = "search" /\ todo[p] # {} =>
         todo[p] = Objects /\ found[p] = {} /\ timestamp[p] = NoStamp
    /\ pc[p] = "publish" => todo[p] = {}

\* No stored time is ahead of the LDAP clock, and a search does not return an
\* earlier second than the row's.
BehindClock ==
  /\ \A o \in Objects : mtime[o] <= now
  /\ \A b \in Bases : lastRun[b].datetime <= now
  /\ \A p \in Pollers :
       timestamp[p] # NoStamp =>
         lastRun[BaseOf[p]].datetime <= timestamp[p] /\ timestamp[p] <= now

\* While publishing, what was written before the second the row will move to is
\* announced or about to be.
Promised ==
  \A p \in Pollers :
    pc[p] = "publish" /\ timestamp[p] # NoStamp =>
      \A o \in Objects :
        BaseOf[p] \in within[o] /\ mtime[o] < timestamp[p] =>
          o \in pending[p] \/ covered[o] = ver[o]

IndInv == /\ TypeOK /\ HoldsRow /\ CleanLocals /\ BehindClock
          /\ PollIsComplete /\ Promised /\ NothingForgotten
=============================================================================
