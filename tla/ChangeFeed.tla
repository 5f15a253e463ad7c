----------------------------- MODULE ChangeFeed -----------------------------
(***************************************************************************)
(* What the LDAP event generator promises, without saying how.             *)
(*                                                                         *)
(* LDAP objects are written at the seconds of the LDAP server's clock.  A  *)
(* notification of an object tells the consumers to read it again, so it   *)
(* covers every write made so far.  One durable cursor per search base     *)
(* says which seconds are done with; it only moves forward, and never past *)
(* a write that no notification has covered.                               *)
(***************************************************************************)
EXTENDS Naturals

CONSTANTS
  Objects,     \* LDAP objects, by their unique LDAP uuid
  Bases,       \* search bases scanned for changes
  Epoch,       \* MICROSOFT_EPOCH, before which there is no timestamp
  MaxTime,     \* bound: last second of the LDAP clock
  MaxWrites    \* bound: writes of one object

VARIABLES
  now,         \* the LDAP server's clock, in seconds
  within,      \* within[o]: the search bases whose search can return o
  mtime,       \* mtime[o]: o's modifyTimestamp
  ver,         \* ver[o]: how many times o has been written (history)
  covered,     \* covered[o]: the last write an event about o covers (history)
  cursor       \* cursor[b]: the second up to which b is done

ldap == <<now, within, mtime, ver>>
vars == <<now, within, mtime, ver, covered, cursor>>

TypeOK ==
  /\ now \in Epoch .. MaxTime
  /\ within \in [Objects -> SUBSET Bases]
  /\ mtime \in [Objects -> Nat]
  /\ ver \in [Objects -> Nat]
  /\ covered \in [Objects -> Nat]
  /\ cursor \in [Bases -> Nat]

Init ==
  /\ now = Epoch + 1
  /\ within \in [Objects -> SUBSET Bases]
  /\ mtime = [o \in Objects |-> Epoch]
  /\ ver = [o \in Objects |-> 1]
  /\ covered = [o \in Objects |-> 0]
  /\ cursor = [b \in Bases |-> Epoch]

Tick ==
  /\ now < MaxTime
  /\ now' = now + 1
  /\ UNCHANGED <<within, mtime, ver, covered, cursor>>

\* Any LDAP client adds, changes, moves or deletes o (S = {}: no search base
\* finds it any more); the server stamps it with its own clock.
Write(o, S) ==
  /\ ver[o] < MaxWrites
  /\ within' = [within EXCEPT ![o] = S]
  /\ mtime' = [mtime EXCEPT ![o] = now]
  /\ ver' = [ver EXCEPT ![o] = @ + 1]
  /\ UNCHANGED <<now, covered, cursor>>

Notify(o) ==
  /\ covered' = [covered EXCEPT ![o] = ver[o]]
  /\ UNCHANGED <<now, within, mtime, ver, cursor>>

\* Every write of an object of b before second t is covered by an event.
DoneBefore(b, t) ==
  \A o \in Objects : b \in within[o] /\ mtime[o] < t => covered[o] = ver[o]

Advance(b, t) ==
  /\ DoneBefore(b, t)
  /\ cursor' = [cursor EXCEPT ![b] = t]
  /\ UNCHANGED <<now, within, mtime, ver, covered>>

Next ==
  \/ Tick
  \/ \E o \in Objects, S \in SUBSET Bases : Write(o, S)
  \/ \E o \in Objects : Notify(o)
  \/ \E b \in Bases : \E t \in cursor[b] .. now : Advance(b, t)

Spec == Init /\ [][Next]_vars

\* No change is forgotten: whatever was written before the cursor's second has
\* been announced since.  A crash may repeat events, never skip one.
NothingForgotten == \A b \in Bases : DoneBefore(b, cursor[b])
=============================================================================
