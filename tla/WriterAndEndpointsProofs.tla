---------------------- MODULE WriterAndEndpointsProofs ----------------------
(* What holds of LdapWrite for every number of handlers, names and values,  *)
(* and then of Endpoints, of its three parts one after the other, for any   *)
(* keys, pages, calls, addresses, accounts and bounds.                      *)
EXTENDS LdapWrite, Endpoints, FiniteSetTheorems, TLAPS

\* A step of a handler that leaves the object and MO alone.
Local(h) == \/ Take(h) \/ FindDN(h) \/ Render(h) \/ Read(h) \/ Identify(h)
            \/ Confirm(h) \/ Gone(h) \/ Fail(h)

(* The actions that Next is made of, for the case analyses below.           *)
LEMMA StepKinds ==
  ASSUME [Next]_vars
  PROVE  \/ UNCHANGED vars
         \/ \E s \in State : MoWrite(s)
         \/ \E s \in State, place \in Places : OthersWrite(place, s)
         \/ \E h \in Handlers : Local(h) \/ Modify(h) \/ Rename(h)
  BY DEF Next, HandlerStep, Local

(* A record of one of its fields changed is still a state.                  *)
LEMMA StateFields ==
  /\ \A s \in State, n \in Names : [s EXCEPT !.name = n] \in State
  /\ \A s \in State, v \in Values : [s EXCEPT !.value = v] \in State
  /\ \A s \in State : s.name \in Names /\ s.value \in Values
  BY DEF State

-----------------------------------------------------------------------------
(* Type correctness.  What Modify and Rename write is in the types only      *)
(* because the locals they use are set by then.                             *)

LEMMA InitTyped == Init => Typed
  BY LimitsAssumption DEF Init, Typed, TypeOK, LocalsSet

LEMMA LocalTyped ==
  ASSUME Typed, NEW h \in Handlers, Local(h)
  PROVE  Typed'
<1> USE LimitsAssumption DEF Typed
<1>1. CASE Take(h)
  BY <1>1 DEF TypeOK, LocalsSet, Take, Goto, object, locals
<1>2. CASE FindDN(h)
  <2>1. ObjectDN \in DN
    BY DEF TypeOK, ObjectDN, DN, State
  <2> QED
    BY <1>2, <2>1 DEF TypeOK, LocalsSet, FindDN, Goto, object
<1>3. CASE Render(h)
  BY <1>3 DEF TypeOK, LocalsSet, Render, Goto, object
<1>4. CASE Read(h)
  <2>1. entry.name = dn[h].name
    BY <1>4 DEF Read, Reachable, ObjectDN
  <2> QED
    BY <1>4, <2>1 DEF TypeOK, LocalsSet, Read, Goto, object
<1>5. CASE Identify(h)
  BY <1>5 DEF TypeOK, LocalsSet, Identify, Goto, object, locals
<1>6. CASE Confirm(h)
  BY <1>6 DEF TypeOK, LocalsSet, Confirm, Forget, Goto, object
<1>7. CASE Gone(h)
  BY <1>7 DEF TypeOK, LocalsSet, Gone, GiveBack, Forget, Goto, object
<1>8. CASE Fail(h)
  BY <1>8 DEF TypeOK, LocalsSet, Fail, GiveBack, Forget, Goto, object
<1> QED
  BY <1>1, <1>2, <1>3, <1>4, <1>5, <1>6, <1>7, <1>8 DEF Local

LEMMA ModifyTyped ==
  ASSUME Typed, NEW h \in Handlers, Modify(h)
  PROVE  Typed'
<1>1. desired[h] \in State /\ entry \in State
  BY DEF Typed, TypeOK, LocalsSet, Modify
<1>2. [entry EXCEPT !.value = desired[h].value] \in State
  BY <1>1, StateFields
<1>3. entry' \in State /\ queued' \in BOOLEAN /\ written' \in 0 .. MaxMoWrites
  BY <1>1, <1>2 DEF Typed, TypeOK, Modify, ComesBack
<1>4. undisturbed' \in [Handlers -> BOOLEAN]
  BY DEF Typed, TypeOK, Modify, Disturbs
<1>5. /\ \/ pc' = [pc EXCEPT ![h] = "confirm"]
         \/ pc' = [pc EXCEPT ![h] = "rename"] /\ dn[h].ou \in Writable
      /\ pc[h] = "modify"
      /\ UNCHANGED <<settings, mo, moVer, ou, dn, desired, old, seen, ldapWrites, faults>>
  BY DEF Modify, Goto, locals
<1>6. TypeOK'
  BY <1>3, <1>4, <1>5 DEF Typed, TypeOK
<1>7. LocalsSet'
  BY <1>5 DEF Typed, TypeOK, LocalsSet
<1> QED
  BY <1>6, <1>7 DEF Typed

LEMMA RenameTyped ==
  ASSUME Typed, NEW h \in Handlers, Rename(h)
  PROVE  Typed'
<1>1. desired[h] \in State /\ entry \in State
  BY DEF Typed, TypeOK, LocalsSet, Rename
<1>2. [entry EXCEPT !.name = desired[h].name] \in State
  BY <1>1, StateFields
<1>3. entry' \in State /\ queued' \in BOOLEAN /\ written' \in 0 .. MaxMoWrites
  BY <1>1, <1>2 DEF Typed, TypeOK, Rename, ComesBack
<1>4. undisturbed' \in [Handlers -> BOOLEAN]
  BY DEF Typed, TypeOK, Rename, Disturbs
<1>5. /\ pc' = [pc EXCEPT ![h] = "confirm"] /\ pc[h] = "rename"
      /\ UNCHANGED <<settings, mo, moVer, ou, dn, desired, old, seen, ldapWrites, faults>>
  BY DEF Rename, Goto, locals
<1>6. TypeOK'
  BY <1>3, <1>4, <1>5 DEF Typed, TypeOK
<1>7. LocalsSet'
  BY <1>5 DEF Typed, TypeOK, LocalsSet
<1> QED
  BY <1>6, <1>7 DEF Typed

LEMMA NextTyped == Typed /\ [Next]_vars => Typed'
<1> SUFFICES ASSUME Typed, [Next]_vars PROVE Typed'
  OBVIOUS
<1>1. CASE UNCHANGED vars
  BY <1>1 DEF Typed, TypeOK, LocalsSet, vars
<1>2. ASSUME NEW s \in State, MoWrite(s) PROVE Typed'
  BY <1>2, LimitsAssumption
     DEF Typed, TypeOK, LocalsSet, MoWrite, object, locals
<1>3. ASSUME NEW s \in State, NEW place \in Places, OthersWrite(place, s)
      PROVE Typed'
  BY <1>3, LimitsAssumption
     DEF Typed, TypeOK, LocalsSet, OthersWrite, ComesBack, locals
<1> QED
  BY <1>1, <1>2, <1>3, StepKinds, LocalTyped, ModifyTyped, RenameTyped

(* Every reachable state is in the types, however handlers interleave.      *)
THEOREM TypeCorrect == Spec => []TypeOK
<1>1. Spec => []Typed
  BY InitTyped, NextTyped, PTL DEF Spec
<1>2. Typed => TypeOK
  BY DEF Typed
<1> QED
  BY <1>1, <1>2, PTL

-----------------------------------------------------------------------------
(* Acknowledged is written.                                                 *)

LEMMA LocalHonest ==
  ASSUME Typed, Honest, NEW h \in Handlers, Local(h)
  PROVE  Honest'
<1> USE DEF Honest, Typed
<1>1. UNCHANGED <<mo, ou, entry>>
  BY DEF Local, Take, FindDN, Render, Read, Identify, Confirm, Gone, Fail,
         GiveBack, object
<1>2. CASE Take(h) \/ FindDN(h) \/ Render(h)
  BY <1>1, <1>2
     DEF TypeOK, Progress, AcknowledgedIsWritten, Take, FindDN, Render, Goto,
         locals
<1>3. CASE Read(h)
  BY <1>1, <1>3 DEF TypeOK, Progress, AcknowledgedIsWritten, Read, Goto
<1>4. CASE Identify(h)
  BY <1>1, <1>4
     DEF TypeOK, Progress, AcknowledgedIsWritten, Identify, Goto, locals
<1>5. CASE Confirm(h) \/ Gone(h) \/ Fail(h)
  BY <1>1, <1>5
     DEF TypeOK, Progress, AcknowledgedIsWritten, Confirm, Gone, Fail,
         GiveBack, Forget, Goto
<1> QED
  BY <1>2, <1>3, <1>4, <1>5 DEF Local

LEMMA ModifyHonest ==
  ASSUME Typed, Honest, NEW h \in Handlers, Modify(h)
  PROVE  Honest'
<1> USE DEF Honest, Typed
<1>1. /\ pc[h] = "modify" /\ h \in DOMAIN pc
      /\ UNCHANGED <<dn, desired, old>>
      /\ desired[h] \in State /\ old[h] \in State /\ entry \in State
      /\ undisturbed[h] => entry = old[h]
  BY DEF TypeOK, LocalsSet, Progress, Modify, locals
<1>2. CASE UNCHANGED <<entry, undisturbed>>
  <2>1. CASE Goto(h, "confirm") /\ dn[h].ou \notin Writable
    BY <1>1, <1>2, <2>1 DEF TypeOK, Progress, AcknowledgedIsWritten, Goto
  <2>2. CASE Goto(h, "confirm") /\ desired[h] = old[h]
    BY <1>1, <1>2, <2>2 DEF TypeOK, Progress, AcknowledgedIsWritten, Goto
  <2>3. CASE Goto(h, "rename") /\ desired[h].value = old[h].value
    <3>1. old[h] = [name |-> old[h].name, value |-> desired[h].value]
      BY <1>1, <2>3 DEF State
    <3> QED
      BY <1>1, <1>2, <2>3, <3>1
         DEF TypeOK, Progress, AcknowledgedIsWritten, Goto
  <2>4. CASE /\ Goto(h, "rename") /\ Disturbs(h)
             /\ entry' = [entry EXCEPT !.value = desired[h].value]
    <3>1. undisturbed[h] =>
            entry' = [name |-> old[h].name, value |-> desired[h].value]
      BY <1>1, <2>4 DEF State
    <3> QED
      BY <1>1, <1>2, <2>4, <3>1
         DEF TypeOK, Progress, AcknowledgedIsWritten, Goto
  <2> QED
    BY <2>1, <2>2, <2>3, <2>4 DEF Modify
<1>3. CASE /\ Goto(h, "rename") /\ Disturbs(h)
           /\ entry' = [entry EXCEPT !.value = desired[h].value]
  <2>1. undisturbed[h] =>
          entry' = [name |-> old[h].name, value |-> desired[h].value]
    BY <1>1, <1>3 DEF State
  <2>2. \A g \in Handlers : undisturbed'[g] => g = h /\ undisturbed[h]
    BY <1>3 DEF Disturbs
  <2> QED
    BY <1>1, <1>3, <2>1, <2>2
       DEF TypeOK, Progress, AcknowledgedIsWritten, Goto
<1> QED
  BY <1>2, <1>3 DEF Modify

LEMMA RenameHonest ==
  ASSUME Typed, Honest, NEW h \in Handlers, Rename(h)
  PROVE  Honest'
<1> USE DEF Honest, Typed
<1>1. /\ pc[h] = "rename" /\ pc' = [pc EXCEPT ![h] = "confirm"]
      /\ UNCHANGED <<dn, desired, old>>
      /\ desired[h] \in State /\ old[h].name = dn[h].name
      /\ undisturbed[h] =>
           entry = [name |-> old[h].name, value |-> desired[h].value]
  BY DEF TypeOK, LocalsSet, Progress, Rename, Goto, locals
<1>2. \A g \in Handlers :
        undisturbed'[g] =>
          undisturbed[g] /\ (g = h \/ UNCHANGED entry)
  BY DEF Rename, Disturbs
<1>3. undisturbed'[h] => entry' = desired[h]
  <2>1. desired[h] = [name |-> desired[h].name, value |-> desired[h].value]
    BY <1>1 DEF State
  <2> QED
    BY <1>1, <1>2, <2>1 DEF Rename
<1> QED
  BY <1>1, <1>2, <1>3 DEF TypeOK, Progress, AcknowledgedIsWritten

LEMMA NextHonest == Typed /\ Honest /\ [Next]_vars => Honest'
<1> SUFFICES ASSUME Typed, Honest, [Next]_vars PROVE Honest'
  OBVIOUS
<1>1. CASE UNCHANGED vars
  BY <1>1 DEF Honest, Progress, AcknowledgedIsWritten, vars
<1>2. ASSUME NEW s \in State, MoWrite(s) PROVE Honest'
  BY <1>2
     DEF Honest, Progress, AcknowledgedIsWritten, MoWrite, object, locals
<1>3. ASSUME NEW s \in State, NEW place \in Places, OthersWrite(place, s)
      PROVE Honest'
  BY <1>3 DEF Honest, Progress, AcknowledgedIsWritten, OthersWrite
<1> QED
  BY <1>1, <1>2, <1>3, StepKinds, LocalHonest, ModifyHonest, RenameHonest

(* However many handlers write the object, and wherever they stop, an event *)
(* is acknowledged with the object written in full, or written by others.   *)
THEOREM AcknowledgedWrites == Spec => []AcknowledgedIsWritten
<1>1. Init => Typed /\ Honest
  BY InitTyped DEF Init, Honest, Progress, AcknowledgedIsWritten
<1>2. Typed /\ Honest /\ [Next]_vars => (Typed /\ Honest)'
  BY NextTyped, NextHonest
<1>3. Typed /\ Honest => AcknowledgedIsWritten
  BY DEF Honest
<1> QED
  BY <1>1, <1>2, <1>3, PTL DEF Spec

-----------------------------------------------------------------------------
(* Taking turns, no handler writes the past.                                *)

LEMMA SettingsStay == ASSUME [Next]_vars PROVE settings' = settings
  BY StepKinds
     DEF vars, MoWrite, OthersWrite, Local, Take, FindDN, Render, Read, Identify,
         Modify, Rename, Confirm, Gone, Fail, GiveBack

LEMMA NextTurns == Typed /\ Turns /\ [Next]_vars => Turns'
<1> SUFFICES ASSUME settings.exclusive, Typed, OneAtATime, KnowsWritten, [Next]_vars
             PROVE  OneAtATime' /\ KnowsWritten'
  BY SettingsStay DEF Turns
<1> USE DEF Typed
<1>1. CASE UNCHANGED vars
  BY <1>1 DEF OneAtATime, KnowsWritten, vars
<1>2. ASSUME NEW s \in State, MoWrite(s) PROVE OneAtATime' /\ KnowsWritten'
  BY <1>2, LimitsAssumption
     DEF TypeOK, OneAtATime, KnowsWritten, MoWrite, object, locals
<1>3. ASSUME NEW s \in State, NEW place \in Places, OthersWrite(place, s)
      PROVE OneAtATime' /\ KnowsWritten'
  BY <1>3 DEF OneAtATime, KnowsWritten, OthersWrite, locals
<1>4. ASSUME NEW h \in Handlers, Take(h) PROVE OneAtATime' /\ KnowsWritten'
  BY <1>4 DEF TypeOK, OneAtATime, KnowsWritten, Take, Goto, object, locals
<1>5. ASSUME NEW h \in Handlers,
             FindDN(h) \/ Render(h) \/ Read(h) \/ Identify(h)
      PROVE OneAtATime' /\ KnowsWritten'
  BY <1>5, LimitsAssumption
     DEF TypeOK, OneAtATime, KnowsWritten, FindDN, Render, Read, Identify,
         Goto, object, locals
<1>6. ASSUME NEW h \in Handlers, Modify(h) \/ Rename(h) PROVE OneAtATime' /\ KnowsWritten'
  <2>1. pc[h] \in {"modify", "rename"}
    BY <1>6 DEF Modify, Rename
  <2>2. \A g \in Handlers : pc[g] # "idle" => g = h
    BY <2>1 DEF OneAtATime
  <2>3. written' \in {written, seen[h]} /\ UNCHANGED <<moVer, seen>>
    BY <1>6 DEF Modify, Rename, locals
  <2>4. written <= seen[h] /\ seen[h] <= moVer
    BY <2>1 DEF KnowsWritten
  <2>5. pc' \in {[pc EXCEPT ![h] = "rename"], [pc EXCEPT ![h] = "confirm"]}
    BY <1>6 DEF Modify, Rename, Goto
  <2>6. OneAtATime'
    BY <2>1, <2>5 DEF TypeOK, OneAtATime
  <2>7. KnowsWritten'
    BY <2>1, <2>2, <2>3, <2>4, <2>5, LimitsAssumption DEF TypeOK, KnowsWritten
  <2> QED
    BY <2>6, <2>7
<1>7. ASSUME NEW h \in Handlers, Confirm(h) \/ Gone(h) \/ Fail(h)
      PROVE OneAtATime' /\ KnowsWritten'
  BY <1>7
     DEF TypeOK, OneAtATime, KnowsWritten, Confirm, Gone, Fail, GiveBack,
         Forget, Goto, object
<1> QED
  BY <1>1, <1>2, <1>3, <1>4, <1>5, <1>6, <1>7, StepKinds DEF Local

LEMMA NotStale ==
  Typed /\ Turns /\ [Next]_vars => [settings.exclusive => written' >= written]_vars
<1> SUFFICES ASSUME Typed, KnowsWritten, [Next]_vars
             PROVE  written' >= written
  BY DEF Turns
<1>1. written \in Nat
  BY LimitsAssumption DEF Typed, TypeOK
<1>2. ASSUME NEW s \in State, MoWrite(s) PROVE written' >= written
  BY <1>1, <1>2 DEF MoWrite
<1>3. ASSUME NEW s \in State, NEW place \in Places, OthersWrite(place, s)
      PROVE written' >= written
  BY <1>1, <1>3 DEF OthersWrite
<1>4. ASSUME NEW h \in Handlers, Local(h) PROVE written' >= written
  BY <1>1, <1>4
     DEF Local, Take, FindDN, Render, Read, Identify, Confirm, Gone, Fail,
         GiveBack
<1>5. ASSUME NEW h \in Handlers, Modify(h) \/ Rename(h)
      PROVE written' >= written
  <2>1. written <= seen[h] /\ seen[h] \in Nat
    BY <1>5, LimitsAssumption
       DEF Typed, TypeOK, KnowsWritten, Modify, Rename
  <2>2. written' \in {written, seen[h]}
    BY <1>5 DEF Modify, Rename
  <2> QED
    BY <1>1, <2>1, <2>2
<1>6. CASE UNCHANGED vars
  BY <1>1, <1>6 DEF vars
<1> QED
  BY <1>2, <1>3, <1>4, <1>5, <1>6, StepKinds

(* While handlers of a person take turns, LDAP never goes back to a state   *)
(* of MO older than one already written there.                              *)
THEOREM NeverStale == Spec => NoStaleWrite
<1>1. Init => Typed /\ Turns
  BY InitTyped, LimitsAssumption
     DEF Init, Turns, OneAtATime, KnowsWritten
<1>2. Typed /\ Turns /\ [Next]_vars => (Typed /\ Turns)'
  BY NextTyped, NextTurns
<1>3. Spec => [](Typed /\ Turns)
  BY <1>1, <1>2, PTL DEF Spec
<1>4. Typed /\ Turns /\ [Next]_vars => [settings.exclusive => written' >= written]_vars
  BY NotStale
<1> QED
  BY <1>3, <1>4, PTL DEF Spec, NoStaleWrite

-----------------------------------------------------------------------------
(* At rest the object is synchronized.                                       *)

\* An object that is as MO wants it, by its fields.
LEMMA StateOf ==
  ASSUME NEW s \in State, NEW t \in State, s.name = t.name, s.value = t.value
  PROVE  s = t
  BY DEF State

\* Whoever attends goes on to attend, as long as nobody writes.
LEMMA GoesOn ==
  ASSUME Typed, NEW h \in Handlers, mo' = mo, ou' = ou, entry' = entry,
         Local(h) \/ Modify(h) \/ Rename(h), ~queued', Attends(h)
  PROVE  Attends(h)' \/ (pc'[h] = "idle" /\ Synchronized')
<1> USE DEF Typed
<1>1. /\ (Synchronized' <=> Synchronized) /\ ObjectDN' = ObjectDN
      /\ ObjectDN = [ou |-> ou, name |-> entry.name]
  BY DEF Synchronized, ObjectDN
<1>2. CASE Take(h)
  BY <1>2 DEF TypeOK, Take, Goto, Attends
<1>3. CASE FindDN(h)
  BY <1>1, <1>3 DEF TypeOK, FindDN, Goto, Attends, Reachable
<1>4. CASE Render(h)
  BY <1>1, <1>4 DEF TypeOK, Render, Goto, Attends, Reachable
<1>5. CASE Read(h)
  BY <1>1, <1>5 DEF TypeOK, Read, Goto, Attends, Reachable
<1>6. CASE Identify(h)
  BY <1>1, <1>6 DEF TypeOK, Identify, Goto, Attends, Reachable, locals
<1>7. CASE Confirm(h)
  BY <1>1, <1>7 DEF TypeOK, Confirm, Forget, Goto, Attends
<1>8. CASE Gone(h) \/ Fail(h)
  BY <1>8 DEF Gone, Fail, GiveBack
<1>9. CASE Modify(h)
  <2>1. /\ pc[h] = "modify" /\ Reachable(h) /\ desired[h] = mo /\ old[h] = entry
        /\ UNCHANGED <<dn, desired, old>>
    BY <1>9 DEF Modify, Attends, locals
  <2>2. CASE dn[h].ou \notin Writable \/ desired[h] = old[h]
    <3>1. pc'[h] = "confirm" /\ entry' = entry
      BY <1>9, <2>2 DEF TypeOK, Modify, Goto
    <3>2. Synchronized
      BY <1>1, <2>1, <2>2 DEF Synchronized, Reachable
    <3> QED
      BY <1>1, <3>1, <3>2 DEF Attends
  <2>3. CASE /\ dn[h].ou \in Writable /\ desired[h] # old[h]
             /\ pc' = [pc EXCEPT ![h] = "rename"] /\ desired[h].value = old[h].value
    BY <1>1, <2>1, <2>3 DEF TypeOK, Attends, Reachable
  <2>4. CASE /\ dn[h].ou \in Writable /\ desired[h].value # old[h].value
             /\ entry' = [entry EXCEPT !.value = desired[h].value]
    BY <2>1, <2>4, StateFields DEF TypeOK, State
  <2> QED
    BY <1>9, <2>2, <2>3, <2>4 DEF Modify, Goto
<1>10. CASE Rename(h)
  <2>1. /\ pc[h] = "rename" /\ Reachable(h) /\ desired[h] = mo /\ entry.value = mo.value
        /\ entry \in State /\ mo \in State
    BY <1>10 DEF Rename, Attends, TypeOK
  <2>2. dn[h].name = entry.name
    BY <1>1, <2>1 DEF Reachable
  <2>3. CASE desired[h].name = dn[h].name
    <3>1. pc'[h] = "confirm"
      BY <1>10 DEF TypeOK, Rename, Goto
    <3>2. Synchronized
      BY <1>1, <2>1, <2>2, <2>3, StateOf DEF Synchronized
    <3> QED
      BY <1>1, <3>1, <3>2 DEF Attends
  <2>4. CASE /\ desired[h].name # dn[h].name
             /\ entry' = [entry EXCEPT !.name = desired[h].name]
    BY <2>1, <2>2, <2>4 DEF State
  <2> QED
    BY <1>10, <2>3, <2>4 DEF Rename
<1> QED
  BY <1>2, <1>3, <1>4, <1>5, <1>6, <1>7, <1>8, <1>9, <1>10 DEF Local

\* A step of another handler that does not write leaves it to attend.
LEMMA StillAttends ==
  ASSUME Typed, NEW g \in Handlers, NEW h \in Handlers, g # h,
         mo' = mo, ou' = ou, entry' = entry, Local(h) \/ Modify(h) \/ Rename(h)
  PROVE  /\ Attends(g)' <=> Attends(g)
         /\ pc'[g] = pc[g]
<1>1. /\ pc'[g] = pc[g] /\ dn'[g] = dn[g] /\ desired'[g] = desired[g] /\ old'[g] = old[g]
  BY DEF Typed, TypeOK, Local, Take, FindDN, Render, Read, Identify, Confirm, Gone, Fail, GiveBack,
         Forget, Modify, Rename, Goto, locals
<1>2. (Synchronized' <=> Synchronized) /\ ObjectDN' = ObjectDN
  BY DEF Synchronized, ObjectDN
<1> QED
  BY <1>1, <1>2 DEF Attends, Reachable

\* The step of a handler that writes, when nothing comes back and it is alone.
LEMMA WritesForMo ==
  ASSUME Typed, NEW h \in Handlers, Modify(h) \/ Rename(h), Attends(h), entry' # entry
  PROVE  Attends(h)'
<1> USE DEF Typed
<1>1. /\ mo' = mo /\ ou' = ou /\ UNCHANGED <<dn, desired, old>>
      /\ entry \in State /\ mo \in State /\ dn[h] = ObjectDN /\ desired[h] = mo
      /\ ObjectDN = [ou |-> ou, name |-> entry.name]
  BY DEF Modify, Rename, locals, Attends, Reachable, ObjectDN, TypeOK
<1>2. CASE Modify(h)
  <2>1. /\ pc' = [pc EXCEPT ![h] = "rename"]
        /\ entry' = [entry EXCEPT !.value = mo.value]
    BY <1>1, <1>2 DEF Modify, Goto
  <2>2. entry'.name = entry.name /\ entry'.value = mo.value
    BY <1>1, <2>1 DEF State
  <2>3. ObjectDN' = ObjectDN
    BY <1>1, <2>2 DEF ObjectDN
  <2> QED
    BY <1>1, <2>1, <2>2, <2>3 DEF TypeOK, Attends, Reachable
<1>3. CASE Rename(h)
  <2>1. /\ pc' = [pc EXCEPT ![h] = "confirm"]
        /\ entry' = [entry EXCEPT !.name = mo.name]
        /\ entry.value = mo.value
    BY <1>1, <1>3 DEF Rename, Goto, Attends
  <2>2. entry' \in State /\ entry'.name = mo.name /\ entry'.value = mo.value
    BY <1>1, <2>1, StateFields DEF State
  <2>3. entry' = mo
    BY <1>1, <2>2, StateOf
  <2> QED
    BY <1>1, <2>1, <2>3 DEF TypeOK, Attends, Synchronized
<1> QED
  BY <1>2, <1>3

LEMMA HandlerAttended ==
  ASSUME Typed, Turns, Attended, NEW h \in Handlers,
         Local(h) \/ Modify(h) \/ Rename(h)
  PROVE  Attended'
<1>0. /\ mo' = mo /\ ou' = ou /\ settings' = settings /\ ldapWrites' = ldapWrites
      /\ (Unnoticed' <=> Unnoticed)
  BY DEF Local, Take, FindDN, Render, Read, Identify, Confirm, Gone, Fail, GiveBack, Modify, Rename,
         object, Unnoticed
<1> SUFFICES ASSUME ~queued', ~Unnoticed
             PROVE  Attended'
  BY <1>0 DEF Attended
<1>1. ~settings.listening => settings.exclusive /\ OneAtATime
  BY LimitsAssumption DEF Unnoticed, Turns, Typed, TypeOK
<1>2. CASE Take(h)
  <2>1. pc' = [pc EXCEPT ![h] = "find"] /\ pc'[h] = "find"
    BY <1>2 DEF Take, Goto, Typed, TypeOK
  <2>2. Attends(h)'
    BY <2>1 DEF Attends
  <2>3. ~settings.listening => \A g \in Handlers : pc'[g] # "idle" => g = h
    BY <1>1, <1>2, <2>1 DEF Take, Typed, TypeOK
  <2> QED
    BY <1>0, <2>2, <2>3 DEF Attended
<1>3. CASE ~Take(h)
  <2>1. pc[h] # "idle" /\ ~queued
    <3>1. CASE FindDN(h) \/ Render(h) \/ Read(h) \/ Identify(h) \/ Confirm(h)
      BY <3>1 DEF FindDN, Render, Read, Identify, Confirm
    <3>2. CASE Gone(h) \/ Fail(h)
      BY <3>2 DEF Gone, Fail, GiveBack
    <3>3. CASE Modify(h) \/ Rename(h)
      <4>1. queued' = queued \/ ComesBack
        BY <3>3 DEF Modify, Rename
      <4>2. queued => queued'
        BY <4>1 DEF ComesBack
      <4>3. pc[h] # "idle"
        BY <3>3 DEF Modify, Rename
      <4> QED
        BY <4>2, <4>3
    <3> QED
      BY <1>3, <3>1, <3>2, <3>3 DEF Local
  <2>2. /\ Synchronized \/ \E g \in Handlers : Attends(g)
        /\ settings.listening \/ \A g \in Handlers : pc[g] # "idle" => Attends(g)
    BY <2>1 DEF Attended
  <2>3. CASE entry' = entry
    <3>1. /\ Synchronized' <=> Synchronized
          /\ \A g \in Handlers : Attends(g) => Attends(g)' \/ (pc'[g] = "idle" /\ Synchronized')
      <4>1. Attends(h) => Attends(h)' \/ (pc'[h] = "idle" /\ Synchronized')
        BY <1>0, <2>3, GoesOn
      <4>2. \A g \in Handlers \ {h} : Attends(g) => Attends(g)'
        BY <1>0, <2>3, StillAttends
      <4> QED
        BY <1>0, <2>3, <4>1, <4>2 DEF Synchronized
    <3>2. Synchronized' \/ \E g \in Handlers : Attends(g)'
      BY <2>2, <3>1
    <3>3. ASSUME ~settings.listening, NEW g \in Handlers, pc'[g] # "idle"
          PROVE  Attends(g)'
      <4>1. pc[g] # "idle"
        BY <1>0, <2>1, <2>3, <3>3, StillAttends
      <4>2. g = h /\ Attends(h)
        BY <1>1, <2>1, <2>2, <3>3, <4>1 DEF OneAtATime
      <4> QED
        BY <3>1, <3>3, <4>2
    <3> QED
      BY <1>0, <3>2, <3>3 DEF Attended
  <2>4. CASE entry' # entry
    <3>1. Modify(h) \/ Rename(h)
      BY <2>4 DEF Local, Take, FindDN, Render, Read, Identify, Confirm, Gone, Fail, GiveBack, object
    <3>2. ~settings.listening
      BY <2>4, <3>1 DEF Modify, Rename, ComesBack
    <3>3. Attends(h) /\ \A g \in Handlers : pc[g] # "idle" => g = h
      BY <1>1, <2>1, <2>2, <3>2 DEF OneAtATime
    <3>4. Attends(h)'
      BY <2>4, <3>1, <3>3, WritesForMo
    <3>5. \A g \in Handlers : pc'[g] # "idle" => g = h
      BY <3>1, <3>3 DEF Modify, Rename, Goto, Typed, TypeOK
    <3> QED
      BY <1>0, <3>4, <3>5 DEF Attended
  <2> QED
    BY <2>3, <2>4
<1> QED
  BY <1>2, <1>3

LEMMA NextAttended == Typed /\ Turns /\ Attended /\ [Next]_vars => Attended'
<1> SUFFICES ASSUME Typed, Turns, Attended, [Next]_vars PROVE Attended'
  OBVIOUS
<1>1. CASE UNCHANGED vars
  <2>1. /\ mo' = mo /\ ou' = ou /\ entry' = entry /\ queued' = queued /\ pc' = pc
        /\ settings' = settings /\ ldapWrites' = ldapWrites /\ dn' = dn
        /\ desired' = desired /\ old' = old
    BY <1>1 DEF vars, object, locals
  <2>2. /\ Synchronized' <=> Synchronized
        /\ Unnoticed' <=> Unnoticed
        /\ ObjectDN' = ObjectDN
    BY <2>1 DEF Synchronized, Unnoticed, ObjectDN
  <2>3. \A h \in Handlers : Attends(h)' <=> Attends(h)
    BY <2>1, <2>2 DEF Attends, Reachable
  <2> QED
    BY <2>1, <2>2, <2>3 DEF Attended
<1>2. ASSUME NEW s \in State, MoWrite(s) PROVE Attended'
  BY <1>2 DEF MoWrite, Attended
<1>3. ASSUME NEW s \in State, NEW place \in Places, OthersWrite(place, s) PROVE Attended'
  <2>1. ldapWrites \in Nat
    BY LimitsAssumption DEF Typed, TypeOK
  <2>2. settings' = settings /\ ldapWrites' = ldapWrites + 1 /\ ComesBack
    BY <1>3 DEF OthersWrite
  <2>3. ldapWrites' > 0
    BY <2>1, <2>2
  <2>4. queued' \/ ~settings'.listening
    BY <2>2 DEF ComesBack
  <2> QED
    BY <2>3, <2>4 DEF Attended, Unnoticed
<1> QED
  BY <1>1, <1>2, <1>3, StepKinds, HandlerAttended

(* When no event waits and no handler is at work, an object this program may  *)
(* write is as MO wants it, unless writes of others go unnoticed.  That      *)
(* handlers come to rest is EchoEnds; Converges is both together.            *)
THEOREM SynchronizedAtRest == Spec => []RestsSynchronized
<1>1. Init => Typed /\ Turns /\ Attended
  BY InitTyped, LimitsAssumption
     DEF Init, Turns, OneAtATime, KnowsWritten, Attended
<1>2. Typed /\ Turns /\ Attended /\ [Next]_vars => (Typed /\ Turns /\ Attended)'
  BY NextTyped, NextTurns, NextAttended
<1>3. Attended => RestsSynchronized
  BY DEF Attended, RestsSynchronized, AtRest, Attends
<1> QED
  BY <1>1, <1>2, <1>3, PTL DEF Spec

-----------------------------------------------------------------------------
(* Endpoints: a step is one of the part that is called.                     *)

LEMMA PartSteps ==
  ASSUME [EndpointsNext]_endpointsVars
  PROVE  /\ [Fixups!Next]_fixupVars
         /\ [AddressPurge!Next]_purgeVars
         /\ [Discriminator!Next]_lookupVars
  BY DEF EndpointsNext, Fixup, Purge, LookUp, InFixup, InPurge, InLookUp, endpointsVars

-----------------------------------------------------------------------------
(* The fixups of links.  Nothing that is absent is found or linked, and what *)
(* is present is found when its page is read; so what is bad is not present, *)
(* and nothing absent and current is overlooked on a page of MO once read.   *)

Known ==
  /\ absent \cap ldap = {} /\ present \subseteq ldap
  /\ outcome # "none" => fixup = "idle"
  /\ fixup = "ldap" =>
       /\ found \cap absent = {} /\ bad = {}
       /\ \A k \in present : where[k] < page => k \in found
  /\ fixup \in {"mo", "terminate"} =>
       /\ found \cap absent = {} /\ bad \cap found = {}
       /\ present \subseteq found

Overlooked == {k \in before \cap absent : links[k] = "current" /\ k \notin bad}

Complete ==
  /\ fixup = "mo" => \A k \in Overlooked : Page[k] >= page
  /\ fixup = "terminate" => Overlooked = {}
  /\ fixup = "idle" /\ outcome = "deleted" =>
       \A k \in before \cap absent : links[k] # "current"

FixupInv == Fixups!TypeOK /\ Known /\ Complete

\* Unless its event waits, an account that lost its link, and is found without, is
\* linked again, or its link lapsed.
Announced ==
  /\ taken \subseteq ldap
  /\ maker = "export" =>
       \A k \in taken \cap matched : k \in Fixups!Current \/ k \in lapsed \/ k \in pending

LEMMA FixupInit == EndpointsInit => FixupInv /\ Announced
<1> SUFFICES ASSUME EndpointsInit PROVE FixupInv /\ Announced
  OBVIOUS
<1> USE EndpointsAssumption DEF Fixups!FixupsAssumption
<1>1. CASE Fixups!Init
  <2>1. PICK linked \in SUBSET Keys :
          /\ links = [k \in Keys |-> IF k \in linked THEN "current" ELSE "none"]
          /\ pending = IF maker = "export" THEN ldap \ linked ELSE {}
    BY <1>1 DEF Fixups!Init
  <2> QED
    BY <1>1, <2>1 DEF Fixups!Init, FixupInv, Announced, Fixups!TypeOK, Fixups!Current, Known, Complete, Overlooked
<1>2. CASE NoFixup
  BY <1>2 DEF NoFixup, FixupInv, Announced, Fixups!TypeOK, Fixups!Current, Known, Complete, Overlooked
<1> QED
  BY <1>1, <1>2 DEF EndpointsInit

LEMMA PagesTurn ==
  /\ Pages \in Nat \ {0} /\ 1 \in 1 .. Pages
  /\ \A p \in 1 .. Pages : p < Pages => p + 1 \in 1 .. Pages
  /\ \A k \in Keys : Page[k] \in 1 .. Pages /\ Page[k] >= 1
  BY EndpointsAssumption DEF Fixups!FixupsAssumption

LEMMA FixupBounds ==
  ASSUME Fixups!TypeOK
  PROVE  /\ page \in 1 .. Pages /\ page \in Nat
         /\ \A k \in Keys : Page[k] \in Nat /\ where[k] \in 1 .. Pages
         /\ Fixups!Happens => outside' \in 0 .. MaxOutside
<1>1. page \in 1 .. Pages /\ outside \in 0 .. MaxOutside /\ \A k \in Keys : where[k] \in 1 .. Pages
  BY DEF Fixups!TypeOK
<1>2. MaxOutside \in Nat
  BY EndpointsAssumption DEF Fixups!FixupsAssumption
<1>3. Fixups!Happens => outside' \in 0 .. MaxOutside
  BY <1>1, <1>2 DEF Fixups!Happens
<1> QED
  BY <1>1, <1>3, PagesTurn

LEMMA FixupTyped ==
  ASSUME Fixups!TypeOK, [Fixups!Next]_fixupVars
  PROVE  Fixups!TypeOK'
<1> USE EndpointsAssumption DEF Fixups!FixupsAssumption, Fixups!TypeOK, Fixups!history, Fixups!seenSince,
          Fixups!world, Fixups!call
<1>1. CASE Fixups!Begin
  BY <1>1 DEF Fixups!Begin, Fixups!Current
<1>2. CASE Fixups!LoadLdapAttributeValues
  <2>1. page' \in 1 .. Pages /\ fixup' \in {"ldap", "mo"}
    BY <1>2, PagesTurn DEF Fixups!LoadLdapAttributeValues, Fixups!TurnTo
  <2>2. found' \subseteq Keys
    BY <1>2 DEF Fixups!LoadLdapAttributeValues
  <2> QED
    BY <1>2, <2>1, <2>2 DEF Fixups!LoadLdapAttributeValues
<1>3. CASE Fixups!LoadAllCurrentItUsers
  <2>1. page' \in 1 .. Pages /\ fixup' \in {"mo", "terminate"}
    BY <1>3, PagesTurn DEF Fixups!LoadAllCurrentItUsers, Fixups!TurnTo
  <2>2. bad' \subseteq Keys
    BY <1>3 DEF Fixups!LoadAllCurrentItUsers, Fixups!Missing, Fixups!Current
  <2> QED
    BY <1>3, <2>1, <2>2 DEF Fixups!LoadAllCurrentItUsers
<1>4. CASE Fixups!Terminate
  <2>1. pending' \subseteq Keys /\ links' \in [Keys -> {"none", "current", "ending", "ended"}]
    BY <1>4 DEF Fixups!Terminate, Fixups!Announce
  <2>2. bad' \subseteq Keys /\ taken' \subseteq Keys
    BY <1>4 DEF Fixups!Terminate
  <2> QED
    BY <1>4, <2>1, <2>2 DEF Fixups!Terminate
<1>5. ASSUME NEW o \in {"dryRun", "deleted", "failed"}, Fixups!End(o), outside' \in 0 .. MaxOutside,
             UNCHANGED <<Fixups!world, links, pending, Fixups!history>>
      PROVE  Fixups!TypeOK'
  <2>1. /\ outcome' \in {"none", "dryRun", "deleted", "failed"}
        /\ fixup' \in {"idle", "ldap", "mo", "terminate"} /\ at' \in {"today", "later"}
        /\ page' \in 1 .. Pages /\ dryRun' \in BOOLEAN /\ found' \subseteq Keys /\ bad' \subseteq Keys
    BY <1>5, PagesTurn DEF Fixups!End
  <2> QED
    BY <1>5, <2>1
<1>6. CASE Fixups!Return \/ Fixups!Fail
  BY <1>5, <1>6, FixupBounds DEF Fixups!Return, Fixups!Fail
<1>7. CASE Fixups!Midnight
  BY <1>7 DEF Fixups!Midnight
<1>8. ASSUME NEW k \in Keys, Fixups!Link(k) PROVE Fixups!TypeOK'
  BY <1>8 DEF Fixups!Link, Fixups!Linked
<1>9. ASSUME NEW k \in Keys, Fixups!Import(k) PROVE Fixups!TypeOK'
  BY <1>9 DEF Fixups!Import
<1>10. ASSUME NEW k \in Keys, Fixups!Delete(k) PROVE Fixups!TypeOK'
  <2>1. ldap' \subseteq Keys /\ outside' \in 0 .. MaxOutside
    BY <1>10, FixupBounds DEF Fixups!Delete
  <2> QED
    BY <1>10, <2>1 DEF Fixups!Delete
<1>11. ASSUME NEW k \in Keys, Fixups!Add(k) PROVE Fixups!TypeOK'
  <2>1. pending' \subseteq Keys /\ ldap' \subseteq Keys /\ outside' \in 0 .. MaxOutside
    BY <1>11, FixupBounds DEF Fixups!Add, Fixups!Announce
  <2>2. where' \in [Keys -> 1 .. Pages]
    BY <1>11 DEF Fixups!Add
  <2> QED
    BY <1>11, <2>1, <2>2 DEF Fixups!Add
<1>12. ASSUME NEW k \in Keys, Fixups!Relocate(k) PROVE Fixups!TypeOK'
  <2>1. where' \in [Keys -> 1 .. Pages] /\ outside' \in 0 .. MaxOutside
    BY <1>12, FixupBounds DEF Fixups!Relocate
  <2> QED
    BY <1>12, <2>1 DEF Fixups!Relocate
<1>13. CASE UNCHANGED fixupVars
  BY <1>13 DEF fixupVars
<1> QED
  BY <1>1, <1>2, <1>3, <1>4, <1>6, <1>7, <1>8, <1>9, <1>10, <1>11, <1>12, <1>13
     DEF Fixups!Next, Fixups!Call

LEMMA FixupKnown ==
  ASSUME Fixups!TypeOK, Known, [Fixups!Next]_fixupVars
  PROVE  Known'
<1> USE EndpointsAssumption DEF Fixups!FixupsAssumption, Fixups!TypeOK, Known, Fixups!history,
          Fixups!seenSince, Fixups!world, Fixups!call
<1>1. CASE Fixups!Begin
  BY <1>1 DEF Fixups!Begin
<1>2. CASE Fixups!LoadLdapAttributeValues
  <2>1. fixup = "ldap" /\ found' = found \cup {k \in ldap : where[k] = page}
    BY <1>2 DEF Fixups!LoadLdapAttributeValues
  <2>2. absent' = absent /\ present' = present /\ ldap' = ldap /\ where' = where /\ bad' = bad /\ outcome' = outcome
    BY <1>2 DEF Fixups!LoadLdapAttributeValues
  <2>3. found' \cap absent = {}
    BY <2>1
  <2> HIDE DEF Fixups!TypeOK
  <2>4. page \in Nat /\ \A k \in present : where[k] \in 1 .. Pages /\ where[k] \in Nat
    BY FixupBounds, PagesTurn DEF Fixups!TypeOK
  <2>5. \A k \in present : where[k] <= page => k \in found'
    BY <2>1, <2>4
  <2>6. outcome = "none"
    BY <2>1
  <2>7. CASE page < Pages /\ page' = page + 1 /\ fixup' = fixup
    <3>1. \A k \in present : where[k] < page' => k \in found'
      BY <2>4, <2>5, <2>7
    <3> QED
      BY <2>1, <2>2, <2>3, <2>6, <2>7, <3>1
  <2>8. CASE ~(page < Pages) /\ fixup' = "mo"
    <3>1. present \subseteq found'
      BY PagesTurn, <2>4, <2>5, <2>8
    <3> QED
      BY <2>1, <2>2, <2>3, <2>6, <2>8, <3>1
  <2> QED
    BY <1>2, <2>7, <2>8 DEF Fixups!LoadLdapAttributeValues, Fixups!TurnTo
<1>3. CASE Fixups!LoadAllCurrentItUsers
  BY <1>3 DEF Fixups!LoadAllCurrentItUsers, Fixups!TurnTo, Fixups!Missing
<1>4. CASE Fixups!Terminate
  BY <1>4 DEF Fixups!Terminate
<1>5. CASE Fixups!Return
  BY <1>5 DEF Fixups!Return, Fixups!End
<1>6. CASE Fixups!Fail
  BY <1>6 DEF Fixups!Fail, Fixups!End
<1>7. CASE Fixups!Midnight
  BY <1>7 DEF Fixups!Midnight
<1>8. ASSUME NEW k \in Keys, Fixups!Link(k) PROVE Known'
  BY <1>8 DEF Fixups!Link
<1>9. ASSUME NEW k \in Keys, Fixups!Import(k) PROVE Known'
  BY <1>9 DEF Fixups!Import
<1>10. ASSUME NEW k \in Keys, Fixups!Delete(k) PROVE Known'
  BY <1>10 DEF Fixups!Delete
<1>11. ASSUME NEW k \in Keys, Fixups!Add(k) PROVE Known'
  BY <1>11 DEF Fixups!Add
<1>12. ASSUME NEW k \in Keys, Fixups!Relocate(k) PROVE Known'
  BY <1>12 DEF Fixups!Relocate
<1>13. CASE UNCHANGED fixupVars
  BY <1>13 DEF fixupVars
<1> QED
  BY <1>1, <1>2, <1>3, <1>4, <1>5, <1>6, <1>7, <1>8, <1>9, <1>10, <1>11, <1>12, <1>13
     DEF Fixups!Next, Fixups!Call

LEMMA FixupComplete ==
  ASSUME FixupInv, [Fixups!Next]_fixupVars
  PROVE  Complete'
<1> USE EndpointsAssumption DEF FixupInv, Fixups!FixupsAssumption, Fixups!TypeOK, Known, Complete,
          Overlooked, Fixups!history, Fixups!seenSince, Fixups!world, Fixups!call
<1>1. CASE Fixups!Begin
  BY <1>1 DEF Fixups!Begin
<1>2. CASE Fixups!LoadLdapAttributeValues
  <2>1. fixup = "ldap" /\ before' = before /\ outcome' = outcome
    BY <1>2 DEF Fixups!LoadLdapAttributeValues
  <2>2. CASE fixup' = fixup
    BY <2>1, <2>2
  <2>3. CASE page' = 1 /\ fixup' = "mo"
    <3>1. \A k \in Overlooked' : k \in Keys
      BY <2>1
    <3>2. \A k \in Keys : Page[k] >= 1
      BY PagesTurn, Zenon
    <3> QED
      BY <2>3, <3>1, <3>2
  <2> QED
    BY <1>2, <2>2, <2>3 DEF Fixups!LoadLdapAttributeValues, Fixups!TurnTo
<1>3. CASE Fixups!LoadAllCurrentItUsers
  <2>1. \A k \in Overlooked' : k \in Overlooked /\ Page[k] # page
    BY <1>3 DEF Fixups!LoadAllCurrentItUsers, Fixups!Missing, Fixups!Current
  <2> HIDE DEF Fixups!TypeOK
  <2>2. page \in Nat /\ \A k \in before : Page[k] \in 1 .. Pages /\ Page[k] \in Nat
    BY FixupBounds, PagesTurn DEF Fixups!TypeOK
  <2>3. before' = before /\ fixup = "mo"
    BY <1>3 DEF Fixups!LoadAllCurrentItUsers
  <2>4. \A k \in Overlooked' : Page[k] > page
    BY <2>1, <2>2, <2>3
  <2>5. CASE page < Pages /\ page' = page + 1 /\ fixup' = fixup
    BY <2>2, <2>3, <2>4, <2>5
  <2>6. CASE ~(page < Pages) /\ fixup' = "terminate"
    <3>1. Overlooked' = {}
      BY PagesTurn, <2>2, <2>3, <2>4, <2>6
    <3> QED
      BY <2>6, <3>1
  <2> QED
    BY <1>3, <2>5, <2>6 DEF Fixups!LoadAllCurrentItUsers, Fixups!TurnTo
<1>4. CASE Fixups!Terminate
  BY <1>4 DEF Fixups!Terminate, Fixups!Current
<1>5. CASE Fixups!Return
  BY <1>5 DEF Fixups!Return, Fixups!End
<1>6. CASE Fixups!Fail
  BY <1>6 DEF Fixups!Fail, Fixups!End
<1>7. CASE Fixups!Midnight
  BY <1>7 DEF Fixups!Midnight
<1>8. ASSUME NEW k \in Keys, Fixups!Link(k) PROVE Complete'
  BY <1>8 DEF Fixups!Link, Fixups!Linked
<1>9. ASSUME NEW k \in Keys, Fixups!Import(k) PROVE Complete'
  BY <1>9 DEF Fixups!Import
<1>10. ASSUME NEW k \in Keys, Fixups!Delete(k) PROVE Complete'
  BY <1>10 DEF Fixups!Delete
<1>11. ASSUME NEW k \in Keys, Fixups!Add(k) PROVE Complete'
  BY <1>11 DEF Fixups!Add
<1>12. ASSUME NEW k \in Keys, Fixups!Relocate(k) PROVE Complete'
  BY <1>12 DEF Fixups!Relocate
<1>13. CASE UNCHANGED fixupVars
  BY <1>13 DEF fixupVars
<1> QED
  BY <1>1, <1>2, <1>3, <1>4, <1>5, <1>6, <1>7, <1>8, <1>9, <1>10, <1>11, <1>12, <1>13
     DEF Fixups!Next, Fixups!Call

LEMMA FixupAnnounced ==
  ASSUME Fixups!TypeOK, Announced, [Fixups!Next]_fixupVars
  PROVE  Announced'
<1> USE DEF Fixups!TypeOK, Announced, Fixups!Current, Fixups!history, Fixups!seenSince, Fixups!world, Fixups!call
<1>1. CASE Fixups!Begin \/ Fixups!LoadLdapAttributeValues \/ Fixups!LoadAllCurrentItUsers
           \/ Fixups!Return \/ Fixups!Fail
  BY <1>1 DEF Fixups!Begin, Fixups!LoadLdapAttributeValues, Fixups!LoadAllCurrentItUsers,
              Fixups!Return, Fixups!Fail
<1>2. CASE Fixups!Terminate
  BY <1>2 DEF Fixups!Terminate, Fixups!Announce
<1>3. CASE Fixups!Midnight
  BY <1>3 DEF Fixups!Midnight
<1>4. ASSUME NEW k \in Keys, Fixups!Link(k) PROVE Announced'
  BY <1>4 DEF Fixups!Link, Fixups!Linked
<1>5. ASSUME NEW k \in Keys, Fixups!Import(k) PROVE Announced'
  BY <1>5 DEF Fixups!Import
<1>6. ASSUME NEW k \in Keys, Fixups!Delete(k) \/ Fixups!Add(k) \/ Fixups!Relocate(k) PROVE Announced'
  BY <1>6 DEF Fixups!Delete, Fixups!Add, Fixups!Relocate, Fixups!Announce
<1>7. CASE UNCHANGED fixupVars
  BY <1>7 DEF fixupVars
<1> QED
  BY <1>1, <1>2, <1>3, <1>4, <1>5, <1>6, <1>7 DEF Fixups!Next, Fixups!Call

LEMMA FixupInductive ==
  ASSUME FixupInv /\ Announced, [EndpointsNext]_endpointsVars
  PROVE  (FixupInv /\ Announced)'
<1>1. [Fixups!Next]_fixupVars
  BY PartSteps
<1> QED
  BY <1>1, FixupTyped, FixupKnown, FixupComplete, FixupAnnounced DEF FixupInv

LEMMA FixupInvariant == EndpointsSpec => [](FixupInv /\ Announced)
<1> QED
  BY FixupInit, FixupInductive, PTL DEF EndpointsSpec

(* A call of a fixup terminates nothing that LDAP had all along, and leaves  *)
(* nothing current that was there when it began and that LDAP never had,     *)
(* whatever is added, deleted, linked or lapses while it reads page by page. *)
THEOREM OnlyTheMissing == EndpointsSpec => []TerminatesTheMissing
<1>1. FixupInv => TerminatesTheMissing
  BY DEF FixupInv, Known, Complete, TerminatesTheMissing, Fixups!TerminatesTheMissing
<1> QED
  BY <1>1, FixupInvariant, PTL

(* A termination of a link by a fixup is announced: of what Relinked says is *)
(* reached, an account that lost its link though LDAP had it, and that the   *)
(* export finds without, is linked, or lapsed, or its event still waits.     *)
THEOREM RelinkedAtRest ==
  EndpointsSpec => [](maker = "export" =>
    \A k \in taken \cap matched : k \notin pending => k \in Fixups!Current \/ k \in lapsed)
<1>1. Announced => (maker = "export" =>
        \A k \in taken \cap matched : k \notin pending => k \in Fixups!Current \/ k \in lapsed)
  BY DEF Announced
<1> QED
  BY <1>1, FixupInvariant, PTL

-----------------------------------------------------------------------------
(* The purge of addresses.  A call that terminates leaves one of those it read, *)
(* and one more at most is left by an import that has found a single one, or    *)
(* none; so once a call has published, and its event was taken, a person has at *)
(* most one address, whichever midnights come.  And unless an event waits, an   *)
(* import is to write, or a call is still at it, that address is as LDAP has it. *)

Published == \E c \in Calls : purge[c] = "published"
AtIt(c) == c \notin dry /\ purge[c] \in {"find", "terminate"}
Right == \E a \in Addresses : AddressPurge!Present = {a} /\ addresses[a] = account /\ a \notin ending
Purged == Published /\ \A c \in Calls : purge[c] # "failed"

\* An import is about to write the only address there is.
WritesTheOne == writing => AddressPurge!AtMostOne(target) /\ AddressPurge!Present \subseteq target

PurgeInv ==
  /\ AddressPurge!TypeOK
  /\ ending \subseteq AddressPurge!Present
  /\ \A c \in Calls : purge[c] \in {"terminate", "published"} => account # Nothing /\ c \notin dry
  /\ announced \/ writing => Published
  /\ Published => announced \/ AddressPurge!AtMostOne(AddressPurge!Present)
  /\ WritesTheOne
  /\ Purged => announced \/ writing \/ Right \/ \E c \in Calls : AtIt(c)

LEMMA PurgeInit == EndpointsInit => PurgeInv
<1> SUFFICES ASSUME EndpointsInit PROVE PurgeInv
  OBVIOUS
<1>1. CASE AddressPurge!Init
  BY <1>1 DEF AddressPurge!Init, PurgeInv, AddressPurge!TypeOK, Published, Purged, WritesTheOne
<1>2. CASE NoPurge
  BY <1>2 DEF NoPurge, PurgeInv, AddressPurge!TypeOK, Published, Purged, WritesTheOne
<1> QED
  BY <1>1, <1>2 DEF EndpointsInit

LEMMA PurgeTyped ==
  ASSUME AddressPurge!TypeOK, [AddressPurge!Next]_purgeVars
  PROVE  AddressPurge!TypeOK'
<1> USE DEF AddressPurge!TypeOK, AddressPurge!Step, AddressPurge!Forget, AddressPurge!flags, AddressPurge!import
<1>1. ASSUME NEW c \in Calls, AddressPurge!ReadCleanupAddresses(c) PROVE AddressPurge!TypeOK'
  BY <1>1 DEF AddressPurge!ReadCleanupAddresses, AddressPurge!Present
<1>2. ASSUME NEW c \in Calls, AddressPurge!FindAccount(c) PROVE AddressPurge!TypeOK'
  BY <1>2 DEF AddressPurge!FindAccount
<1>3. ASSUME NEW c \in Calls, AddressPurge!AddressTerminate(c) PROVE AddressPurge!TypeOK'
  BY <1>3 DEF AddressPurge!AddressTerminate, AddressPurge!Present
<1>4. ASSUME NEW c \in Calls, AddressPurge!Publish(c) PROVE AddressPurge!TypeOK'
  BY <1>4 DEF AddressPurge!Publish
<1>5. ASSUME NEW c \in Calls, AddressPurge!Fail(c) PROVE AddressPurge!TypeOK'
  BY <1>5 DEF AddressPurge!Fail
<1>6. CASE AddressPurge!ImportFind
  BY <1>6 DEF AddressPurge!ImportFind, AddressPurge!Present
<1>7. CASE AddressPurge!ImportWrite
  BY <1>7 DEF AddressPurge!ImportWrite
<1>8. CASE AddressPurge!Midnight
  BY <1>8 DEF AddressPurge!Midnight
<1>9. CASE AddressPurge!Remove
  BY <1>9 DEF AddressPurge!Remove, AddressPurge!Present
<1>10. CASE UNCHANGED purgeVars
  BY <1>10 DEF purgeVars
<1> QED
  BY <1>1, <1>2, <1>3, <1>4, <1>5, <1>6, <1>7, <1>8, <1>9, <1>10
     DEF AddressPurge!Next, AddressPurge!Call, AddressPurge!Import

LEMMA PurgeInductive ==
  ASSUME PurgeInv, [EndpointsNext]_endpointsVars
  PROVE  PurgeInv'
<1>0. [AddressPurge!Next]_purgeVars
  BY PartSteps
<1>t. AddressPurge!TypeOK'
  BY <1>0, PurgeTyped DEF PurgeInv
<1> DEFINE P == AddressPurge!Present
<1> USE DEF PurgeInv, AddressPurge!Step, AddressPurge!flags, AddressPurge!import, AddressPurge!AtMostOne,
          WritesTheOne, Published, AtIt, Right, Purged
<1>1. ASSUME NEW c \in Calls,
             \/ AddressPurge!ReadCleanupAddresses(c) \/ AddressPurge!FindAccount(c) \/ AddressPurge!Fail(c)
      PROVE  PurgeInv'
  <2>1. /\ addresses' = addresses /\ account' = account /\ dry' = dry /\ ending' = ending
        /\ announced' = announced /\ writing' = writing /\ target' = target
    BY <1>1 DEF AddressPurge!ReadCleanupAddresses, AddressPurge!FindAccount, AddressPurge!Fail
  <2>2. P' = P
    BY <2>1 DEF AddressPurge!Present
  <2>3. \A d \in Calls : purge'[d] = purge[d] \/ d = c
    BY <1>1 DEF AddressPurge!ReadCleanupAddresses, AddressPurge!FindAccount, AddressPurge!Fail, AddressPurge!TypeOK
  <2>4. \/ purge[c] = "read" /\ purge'[c] \in {"find", "skipped"}
        \/ purge[c] = "find" /\ account = Nothing /\ purge'[c] = "skipped"
        \/ purge[c] = "find" /\ c \in dry /\ purge'[c] = "dryRun"
        \/ purge[c] = "find" /\ account # Nothing /\ c \notin dry /\ purge'[c] = "terminate"
        \/ purge[c] # "published" /\ purge'[c] = "failed"
    BY <1>1 DEF AddressPurge!ReadCleanupAddresses, AddressPurge!FindAccount, AddressPurge!Fail, AddressPurge!TypeOK
  <2>5. Published' <=> Published
    BY <2>3, <2>4
  <2>6. \A d \in Calls : purge'[d] \in {"terminate", "published"} => account # Nothing /\ d \notin dry
    BY <2>3, <2>4
  <2>7. Right' <=> Right
    BY <2>1, <2>2
  <2>8. Purged' => announced \/ writing \/ Right \/ \E d \in Calls : AtIt(d)'
    <3>1. SUFFICES ASSUME Purged', NEW d \in Calls, AtIt(d), ~AtIt(d)' PROVE FALSE
      BY <2>3, <2>4, <2>5
    <3>2. d = c
      BY <2>1, <2>3, <3>1
    <3>3. account # Nothing
      BY <2>5, <3>1
    <3> QED
      BY <2>1, <2>4, <3>1, <3>2, <3>3
  <2> QED
    BY <1>t, <2>1, <2>2, <2>5, <2>6, <2>7, <2>8
<1>2. ASSUME NEW c \in Calls, AddressPurge!AddressTerminate(c) PROVE PurgeInv'
  <2>1. /\ account' = account /\ dry' = dry /\ purge' = purge /\ purge[c] = "terminate"
        /\ announced' = announced /\ writing' = writing /\ target' = target
    BY <1>2 DEF AddressPurge!AddressTerminate
  <2>2. P' \subseteq P /\ ending' \subseteq P'
    BY <1>2 DEF AddressPurge!AddressTerminate, AddressPurge!Present, AddressPurge!TypeOK
  <2>3. AtIt(c)'
    BY <2>1
  <2> QED
    BY <1>t, <2>1, <2>2, <2>3
<1>3. ASSUME NEW c \in Calls, AddressPurge!Publish(c) PROVE PurgeInv'
  <2>1. /\ addresses' = addresses /\ account' = account /\ dry' = dry /\ ending' = ending
        /\ announced' /\ writing' = writing /\ target' = target
    BY <1>3 DEF AddressPurge!Publish
  <2>2. P' = P
    BY <2>1 DEF AddressPurge!Present
  <2>3. \A d \in Calls : purge'[d] = purge[d] \/ d = c
    BY <1>3 DEF AddressPurge!Publish, AddressPurge!TypeOK
  <2>4. purge[c] = "terminate" /\ purge'[c] = "published"
    BY <1>3 DEF AddressPurge!Publish, AddressPurge!TypeOK
  <2>5. account # Nothing /\ c \notin dry
    BY <2>4
  <2> QED
    BY <1>t, <2>1, <2>2, <2>3, <2>4, <2>5
<1>4. CASE AddressPurge!ImportFind
  <2>1. /\ addresses' = addresses /\ account' = account /\ dry' = dry /\ ending' = ending /\ purge' = purge
        /\ announced /\ AddressPurge!AtMostOne(P) /\ target' = (IF writing' THEN P ELSE {})
        /\ writing' = ~AddressPurge!Identical(P)
    BY <1>4 DEF AddressPurge!ImportFind
  <2>2. P' = P
    BY <2>1 DEF AddressPurge!Present
  <2>3. ~writing' => Right'
    BY <2>1, <2>2 DEF AddressPurge!Identical, AddressPurge!Present
  <2> QED
    BY <1>t, <2>1, <2>2, <2>3
<1>5. CASE AddressPurge!ImportWrite
  <2>1. PICK a \in IF target = {} THEN Addresses ELSE target :
          addresses' = [addresses EXCEPT ![a] = account] /\ ending' = ending \ {a}
    BY <1>5 DEF AddressPurge!ImportWrite
  <2>2. /\ account' = account /\ dry' = dry /\ purge' = purge /\ announced' = announced
        /\ writing /\ ~writing' /\ target' = {}
    BY <1>5 DEF AddressPurge!ImportWrite
  <2>3. account # Nothing /\ P \subseteq {a} /\ a \in Addresses
    BY <2>1, <2>2 DEF AddressPurge!TypeOK
  <2>4. addresses'[a] = account /\ P' = {a} /\ ending' = {}
    BY <2>1, <2>3 DEF AddressPurge!Present, AddressPurge!TypeOK
  <2>5. Right'
    BY <2>2, <2>3, <2>4
  <2> QED
    BY <1>t, <2>2, <2>4, <2>5
<1>6. CASE AddressPurge!Midnight
  <2>1. PICK S \in (SUBSET ending) \ {{}} :
          /\ addresses' = [a \in Addresses |-> IF a \in S THEN Nothing ELSE addresses[a]]
          /\ ending' = ending \ S
    BY <1>6 DEF AddressPurge!Midnight
  <2>2. /\ account' = account /\ dry' = dry /\ purge' = purge /\ announced' = announced
        /\ writing' = writing /\ target' = target
    BY <1>6 DEF AddressPurge!Midnight
  <2>3. P' = P \ S
    BY <2>1 DEF AddressPurge!Present
  <2>4. ~Right
    BY <2>1
  <2> QED
    BY <1>t, <2>1, <2>2, <2>3, <2>4
<1>7. CASE AddressPurge!Remove
  <2>1. PICK a \in P : addresses' = [addresses EXCEPT ![a] = Nothing] /\ ending' = ending \ {a}
    BY <1>7 DEF AddressPurge!Remove
  <2>2. /\ account' = account /\ dry' = dry /\ purge' = purge /\ announced' = announced
        /\ writing' = writing /\ target' = target
    BY <1>7 DEF AddressPurge!Remove
  <2>3. P' = P \ {a}
    BY <2>1 DEF AddressPurge!Present, AddressPurge!TypeOK
  <2>4. \E c \in Calls : AtIt(c)'
    BY <1>7, <2>2 DEF AddressPurge!Remove
  <2> QED
    BY <1>t, <2>1, <2>2, <2>3, <2>4
<1>8. CASE UNCHANGED purgeVars
  <2>1. P' = P
    BY <1>8 DEF purgeVars, AddressPurge!Present
  <2> QED
    BY <1>t, <1>8, <2>1 DEF purgeVars
<1> QED
  BY <1>0, <1>1, <1>2, <1>3, <1>4, <1>5, <1>6, <1>7, <1>8
     DEF AddressPurge!Next, AddressPurge!Call, AddressPurge!Import

\* No event waits, no import is to write, and all calls have ended, one by publishing,
\* none by failing.
PurgesOver ==
  /\ Published /\ ~announced /\ ~writing
  /\ \A c \in Calls : purge[c] \notin {"read", "find", "terminate", "failed"}

(* Whatever terminated what in between, at once or at midnights to come, was *)
(* imported or removed: what RightValueLeft says is reached holds when       *)
(* nothing is left to do.                                                    *)
THEOREM RightAtRest == EndpointsSpec => [](PurgesOver => Right)
<1>1. PurgeInv => (PurgesOver => Right)
  BY DEF PurgeInv, PurgesOver, Purged, AtIt
<1> QED
  BY <1>1, PurgeInit, PurgeInductive, PTL DEF EndpointsSpec

-----------------------------------------------------------------------------
(* The choice of an account.  Accounts are apart; of those an answer is made *)
(* of, and of the it-users that were cemented, there is one at most; and     *)
(* what is read under the name of the it-user has a DN its account has held. *)

One(S) == \A x, y \in S : x = y

OwnDNs == {o.dn : o \in {p \in accounts : p.name \in itusers}}

Considering ==
  /\ Discriminator!Apart(accounts) /\ Discriminator!Apart(objects)
  /\ Discriminator!IsFiniteSet(accounts)
  /\ lookup # "answered" => answer = "none"
  /\ lookup \in {"itusers", "names"} => mode = "legacy" /\ OwnDNs \subseteq held
  /\ lookup \in {"ask", "itusers"} => chosen = {}
  /\ lookup = "names" => One(itusers) /\ \A o \in chosen : o.dn \in held

ChoosesOne == mode = "legacy" => One(chosen)

Cemented ==
  /\ One(cemented)
  /\ cemented # {} => mode = "legacy" /\ itusers = cemented

LookupInv == Discriminator!TypeOK /\ Considering /\ ChoosesOne /\ Cemented

\* Finiteness and cardinality are those of FiniteSets.
LEMMA SameFinite ==
  /\ \A S : Discriminator!IsFiniteSet(S) <=> IsFiniteSet(S)
  /\ \A S : Discriminator!Cardinality(S) = Cardinality(S)
  BY DEF Discriminator!IsFiniteSet, IsFiniteSet, Discriminator!Cardinality, Cardinality

LEMMA Counts ==
  ASSUME NEW S, Discriminator!IsFiniteSet(S)
  PROVE  /\ Discriminator!Cardinality(S) \in Nat
         /\ Discriminator!Cardinality(S) = 0 <=> S = {}
         /\ Discriminator!Cardinality(S) = 1 => One(S)
         /\ \A T \in SUBSET S : Discriminator!IsFiniteSet(T)
<1>1. IsFiniteSet(S) /\ Discriminator!Cardinality(S) = Cardinality(S)
  BY SameFinite
<1>2. Cardinality(S) \in Nat /\ (Cardinality(S) = 0 <=> S = {})
  BY <1>1, FS_CardinalityType, FS_EmptySet
<1>3. Cardinality(S) = 1 => \E x : S = {x}
  BY <1>1, FS_Singleton
<1>4. \A T \in SUBSET S : IsFiniteSet(T)
  BY <1>1, FS_Subset
<1> QED
  BY <1>1, <1>2, <1>3, <1>4, SameFinite DEF One

\* The ways a request goes on from a question to LDAP or MO.
LEMMA AskAnswers ==
  ASSUME Discriminator!TypeOK, Considering, Discriminator!Ask
  PROVE  /\ lookup = "ask"
         /\ mode' = mode /\ filters' = filters /\ accounts' = accounts
         /\ itusers' = itusers /\ cemented' = cemented /\ moves' = moves
         /\ \/ \E a \in {"none", "ambiguous", "error"} : Discriminator!Answer(a, {})
            \/ \E S \in SUBSET accounts :
                 /\ Discriminator!Answer("found", S)
                 /\ mode = "legacy" => S = Discriminator!filter_dns(accounts) /\ One(S)
            \/ /\ mode = "legacy" /\ lookup' = "itusers" /\ objects' \subseteq accounts
               /\ held' = OwnDNs /\ answer' = answer /\ chosen' = chosen
<1> DEFINE S == Discriminator!filter_dns(accounts)
           best == Discriminator!ByTemplates(S)
<1>1. /\ lookup = "ask"
      /\ mode' = mode /\ filters' = filters /\ accounts' = accounts
      /\ itusers' = itusers /\ cemented' = cemented /\ moves' = moves
  BY DEF Discriminator!Ask
<1>2. S \subseteq accounts /\ best \subseteq S
  BY DEF Discriminator!filter_dns, Discriminator!ByTemplates
<1>3. Discriminator!IsFiniteSet(S) /\ Discriminator!IsFiniteSet(best)
  BY <1>2, Counts DEF Considering
<1>4. CASE filters /\ ~Discriminator!Mapped(accounts)
  BY <1>1, <1>4 DEF Discriminator!Ask
<1>5. CASE ~(filters /\ ~Discriminator!Mapped(accounts)) /\ S = {}
  BY <1>1, <1>5 DEF Discriminator!Ask
<1>6. CASE S # {} /\ Discriminator!AnswerAmong(S)
  <2> HIDE DEF S, best
  <2>1. mode \in {"none", "templates", "legacy"}
    BY DEF Discriminator!TypeOK
  <2>2. \/ Discriminator!Cardinality(S) = 1 /\ One(S) /\ ~(Discriminator!Cardinality(S) > 1)
        \/ Discriminator!Cardinality(S) > 1 /\ Discriminator!Cardinality(S) # 1
    BY <1>3, <1>6, Counts
  <2>3. \/ best = {} \/ Discriminator!Cardinality(best) = 1 \/ Discriminator!Cardinality(best) > 1
    BY <1>3, Counts
  <2>4. CASE mode = "legacy"
    BY <1>1, <1>2, <1>6, <2>2, <2>4 DEF Discriminator!AnswerAmong, S, OwnDNs
  <2>5. CASE mode = "none"
    <3>1. CASE Discriminator!Cardinality(S) = 1
      <4>1. Discriminator!Answer("found", S)
        BY <1>6, <2>2, <2>5, <3>1 DEF Discriminator!AnswerAmong
      <4> QED
        BY <1>1, <1>2, <2>5, <4>1
    <3>2. CASE Discriminator!Cardinality(S) > 1 /\ Discriminator!Cardinality(S) # 1
      <4>1. Discriminator!Answer("error", {})
        BY <1>6, <2>5, <3>2 DEF Discriminator!AnswerAmong
      <4> QED
        BY <1>1, <4>1
    <3> QED
      BY <2>2, <3>1, <3>2
  <2>6. CASE mode = "templates"
    BY <1>1, <1>2, <1>6, <2>3, <2>6 DEF Discriminator!AnswerAmong, best
  <2> QED
    BY <2>1, <2>4, <2>5, <2>6
<1> QED
  BY <1>4, <1>5, <1>6 DEF Discriminator!Ask

LEMMA LookupInit == EndpointsInit => LookupInv
<1> SUFFICES ASSUME EndpointsInit PROVE LookupInv
  OBVIOUS
<1> USE EndpointsAssumption DEF Discriminator!DiscriminatorAssumption
<1>1. Discriminator!IsFiniteSet({})
  BY SameFinite, FS_EmptySet
<1>2. CASE NoLookup
  <2>1. moves \in 0 .. MaxMoves
    BY <1>2 DEF NoLookup
  <2>2. Discriminator!TypeOK
    BY <1>2, <2>1 DEF NoLookup, Discriminator!TypeOK
  <2> QED
    BY <1>1, <1>2, <2>2 DEF NoLookup, LookupInv, Considering, ChoosesOne, Cemented, One, Discriminator!Apart
<1>3. CASE Discriminator!Init
  <2>1. accounts \subseteq Discriminator!Objects /\ Discriminator!Apart(accounts)
    <3>1. PICK N \in SUBSET AccountNames : \E f \in [N -> {o \in Discriminator!Objects : Discriminator!Relevant(o)}] :
            accounts = {f[n] : n \in N}
      BY <1>3 DEF Discriminator!Init
    <3> QED
      BY <1>3, <3>1 DEF Discriminator!Init
  <2>2. Discriminator!IsFiniteSet(accounts)
    <3> DEFINE name == [o \in accounts |-> o.name]
    <3>1. name \in Injection(accounts, AccountNames)
      BY <2>1 DEF Injection, IsInjective, Discriminator!Objects, Discriminator!Apart
    <3>2. IsFiniteSet(AccountNames)
      BY SameFinite
    <3> HIDE DEF name
    <3>3. IsFiniteSet(accounts)
      BY <3>1, <3>2, FS_Injection
    <3> QED
      BY <3>3, SameFinite
  <2>3. itusers \subseteq AccountNames
    BY <1>3 DEF Discriminator!Init
  <2> QED
    BY <1>3, <2>1, <2>2, <2>3 DEF Discriminator!Init, LookupInv, Discriminator!TypeOK, Considering, ChoosesOne, Cemented, One, Discriminator!Apart
<1> QED
  BY <1>2, <1>3 DEF EndpointsInit

LEMMA LowestIsOne ==
  ASSUME NEW S, S \subseteq Discriminator!Objects, Discriminator!Apart(S)
  PROVE  One(Discriminator!Lowest(S)) /\ Discriminator!Lowest(S) \subseteq S
<1>1. \A o \in S : o.dn \in Nat
  BY EndpointsAssumption DEF Discriminator!DiscriminatorAssumption, Discriminator!Objects
<1>2. \A o, p \in Discriminator!Lowest(S) : o.dn <= p.dn /\ p.dn <= o.dn /\ o \in S /\ p \in S
  BY DEF Discriminator!Lowest
<1>3. \A o, p \in Discriminator!Lowest(S) : o.dn = p.dn
  BY <1>1, <1>2
<1> QED
  BY <1>2, <1>3 DEF One, Discriminator!Lowest, Discriminator!Apart

LEMMA LoadItUsersAnswers ==
  ASSUME Discriminator!TypeOK, Considering, Discriminator!LoadItUsers
  PROVE  /\ lookup = "itusers"
         /\ mode' = mode /\ filters' = filters /\ accounts' = accounts
         /\ itusers' = itusers /\ cemented' = cemented /\ moves' = moves
         /\ \/ Discriminator!Answer("ambiguous", {})
            \/ itusers = {} /\ Discriminator!Answer("found", Discriminator!Lowest(objects))
            \/ /\ One(itusers) /\ lookup' = "names"
               /\ objects' = objects /\ answer' = answer /\ chosen' = chosen /\ held' = held
<1>1. Discriminator!IsFiniteSet(itusers)
  BY EndpointsAssumption, Counts DEF Discriminator!DiscriminatorAssumption, Discriminator!TypeOK
<1>2. \/ itusers = {} /\ Discriminator!Cardinality(itusers) = 0
      \/ itusers # {} /\ Discriminator!Cardinality(itusers) = 1 /\ One(itusers)
      \/ itusers # {} /\ Discriminator!Cardinality(itusers) > 1
  BY <1>1, Counts
<1>0. /\ lookup = "itusers"
      /\ mode' = mode /\ filters' = filters /\ accounts' = accounts
      /\ itusers' = itusers /\ cemented' = cemented /\ moves' = moves
  BY DEF Discriminator!LoadItUsers
<1>3. CASE itusers = {} /\ Discriminator!Cardinality(itusers) = 0
  <2>1. ~(Discriminator!Cardinality(itusers) > 1) /\ Discriminator!Cardinality(itusers) # 1
    BY <1>3
  <2>2. Discriminator!Answer("found", Discriminator!Lowest(objects))
    BY <1>3, <2>1 DEF Discriminator!LoadItUsers
  <2> QED
    BY <1>0, <1>3, <2>2
<1>4. CASE itusers # {} /\ Discriminator!Cardinality(itusers) = 1 /\ One(itusers)
  <2>1. ~(Discriminator!Cardinality(itusers) > 1)
    BY <1>4
  <2> QED
    BY <1>0, <1>4, <2>1 DEF Discriminator!LoadItUsers
<1>5. CASE itusers # {} /\ Discriminator!Cardinality(itusers) > 1
  <2>1. Discriminator!Cardinality(itusers) # 1
    BY <1>5
  <2>2. Discriminator!Answer("ambiguous", {})
    BY <1>5, <2>1 DEF Discriminator!LoadItUsers
  <2> QED
    BY <1>0, <2>2
<1> QED
  BY <1>2, <1>3, <1>4, <1>5

LEMMA LoadNameAnswers ==
  ASSUME Discriminator!TypeOK, Considering, Discriminator!LoadName
  PROVE  /\ lookup = "names"
         /\ mode' = mode /\ filters' = filters /\ accounts' = accounts
         /\ itusers' = itusers /\ cemented' = cemented /\ moves' = moves
         /\ \E named \in SUBSET (objects \cup chosen) :
              /\ \A o \in named : o.dn \in held
              /\ One(chosen) => One(named)
              /\ \/ Discriminator!Answer("error", {})
                 \/ named # {} /\ Discriminator!Answer("found", named)
                 \/ /\ objects' \subseteq objects /\ chosen' = named
                    /\ lookup' = lookup /\ answer' = answer /\ held' = held
<1>1. /\ lookup = "names"
      /\ mode' = mode /\ filters' = filters /\ accounts' = accounts
      /\ itusers' = itusers /\ cemented' = cemented /\ moves' = moves
  BY DEF Discriminator!LoadName
<1>2. PICK o \in objects :
        LET now == {p \in accounts : p.dn = o.dn}
            named == IF \E p \in now : p.name \in itusers THEN {o} ELSE chosen
        IN  IF now = {} THEN Discriminator!Answer("error", {})
            ELSE IF objects # {o}
            THEN objects' = objects \ {o} /\ chosen' = named /\ UNCHANGED <<lookup, answer, held>>
            ELSE IF named = {} THEN Discriminator!Answer("error", {})
            ELSE Discriminator!Answer("found", named)
  BY DEF Discriminator!LoadName
<1> DEFINE now == {p \in accounts : p.dn = o.dn}
           named == IF \E p \in now : p.name \in itusers THEN {o} ELSE chosen
<1>3. named \in SUBSET (objects \cup chosen)
  OBVIOUS
<1>4. \A p \in named : p.dn \in held
  BY <1>1 DEF Considering, OwnDNs
<1>5. One(chosen) => One(named)
  BY DEF One
<1>6. \/ Discriminator!Answer("error", {})
      \/ named # {} /\ Discriminator!Answer("found", named)
      \/ /\ objects' \subseteq objects /\ chosen' = named
         /\ lookup' = lookup /\ answer' = answer /\ held' = held
  BY <1>2
<1> HIDE DEF named
<1> QED
  BY <1>1, <1>3, <1>4, <1>5, <1>6

LEMMA LookupTyped ==
  ASSUME LookupInv, [Discriminator!Next]_lookupVars
  PROVE  Discriminator!TypeOK'
<1> USE DEF LookupInv, Discriminator!TypeOK, Discriminator!Answer
<1>1. CASE Discriminator!Ask
  <2>1. OwnDNs \subseteq DNs
    BY DEF OwnDNs, Discriminator!Objects
  <2> QED
    BY <1>1, <2>1, AskAnswers
<1>2. CASE Discriminator!LoadItUsers
  <2>1. Discriminator!Lowest(objects) \subseteq Discriminator!Objects
    BY DEF Discriminator!Lowest
  <2> QED
    BY <1>2, <2>1, LoadItUsersAnswers
<1>3. CASE Discriminator!LoadName
  BY <1>3, LoadNameAnswers
<1>4. CASE Discriminator!Again
  BY <1>4 DEF Discriminator!Again
<1>5. CASE Discriminator!Cement
  <2>1. {o.name : o \in chosen} \subseteq AccountNames
    BY DEF Discriminator!Objects
  <2> QED
    BY <1>5, <2>1 DEF Discriminator!Cement
<1>6. CASE Discriminator!Move
  <2>1. accounts' \subseteq Discriminator!Objects
    BY <1>6 DEF Discriminator!Move
  <2>2. held' \subseteq DNs
    BY <1>6 DEF Discriminator!Move, Discriminator!Objects
  <2>3. moves' \in 0 .. MaxMoves
    BY <1>6, EndpointsAssumption DEF Discriminator!Move, Discriminator!DiscriminatorAssumption
  <2> QED
    BY <1>6, <2>1, <2>2, <2>3 DEF Discriminator!Move
<1>7. CASE UNCHANGED lookupVars
  BY <1>7 DEF lookupVars
<1> QED
  BY <1>1, <1>2, <1>3, <1>4, <1>5, <1>6, <1>7 DEF Discriminator!Next

\* A part of accounts that are apart is apart.
LEMMA PartApart ==
  ASSUME NEW S, NEW T, T \subseteq S, Discriminator!Apart(S)
  PROVE  Discriminator!Apart(T)
  BY DEF Discriminator!Apart

LEMMA LookupConsidering ==
  ASSUME LookupInv, [Discriminator!Next]_lookupVars
  PROVE  Considering' /\ ChoosesOne' /\ Cemented'
<1> USE DEF LookupInv, Discriminator!Answer
<1>e. Discriminator!Apart({}) /\ One({})
  BY DEF Discriminator!Apart, One
<1>1. CASE Discriminator!Ask
  <2>1. objects' \subseteq accounts => Discriminator!Apart(objects')
    BY PartApart DEF Considering
  <2> QED
    BY <1>1, <1>e, <2>1, AskAnswers DEF Considering, ChoosesOne, Cemented, OwnDNs, One, Discriminator!Apart
<1>2. CASE Discriminator!LoadItUsers
  <2>1. One(Discriminator!Lowest(objects))
    BY LowestIsOne DEF Considering, Discriminator!TypeOK
  <2> QED
    BY <1>2, <1>e, <2>1, LoadItUsersAnswers DEF Considering, ChoosesOne, Cemented, OwnDNs, One, Discriminator!Apart
<1>3. CASE Discriminator!LoadName
  <2>1. objects' \subseteq objects => Discriminator!Apart(objects')
    BY PartApart DEF Considering
  <2> QED
    BY <1>3, <1>e, <2>1, LoadNameAnswers DEF Considering, ChoosesOne, Cemented, OwnDNs, One, Discriminator!Apart
<1>4. CASE Discriminator!Again
  BY <1>4, <1>e DEF Discriminator!Again, Considering, ChoosesOne, Cemented, One, OwnDNs, Discriminator!Apart
<1>5. CASE Discriminator!Cement
  <2>1. lookup = "answered"
    BY <1>5 DEF Discriminator!Cement, Considering
  <2>2. One({o.name : o \in chosen})
    BY <1>5 DEF Discriminator!Cement, ChoosesOne, One
  <2> QED
    BY <1>5, <2>1, <2>2 DEF Discriminator!Cement, Considering, ChoosesOne, Cemented, One, Discriminator!Apart
<1>6. CASE Discriminator!Move
  <2>1. /\ mode' = mode /\ itusers' = itusers /\ lookup' = lookup /\ objects' = objects
        /\ answer' = answer /\ chosen' = chosen /\ cemented' = cemented /\ held \subseteq held'
    BY <1>6 DEF Discriminator!Move
  <2>2. CASE \E o \in accounts : accounts' = accounts \ {o} /\ UNCHANGED held
    <3>1. accounts' \subseteq accounts /\ OwnDNs' \subseteq OwnDNs /\ held' = held
      BY <2>1, <2>2 DEF OwnDNs
    <3>2. Discriminator!Apart(accounts') /\ Discriminator!IsFiniteSet(accounts')
      BY <3>1, PartApart, Counts DEF Considering
    <3> QED
      BY <2>1, <3>1, <3>2 DEF Considering, ChoosesOne, Cemented, One, Discriminator!Apart
  <2>3. ASSUME NEW o \in Discriminator!Objects,
               accounts' = {p \in accounts : p.name # o.name} \cup {o},
               Discriminator!Apart(accounts'),
               held' = IF lookup \in {"itusers", "names"} /\ o.name \in itusers
                       THEN held \cup {o.dn} ELSE held
        PROVE  Considering' /\ ChoosesOne' /\ Cemented'
    <3> DEFINE rest_ == {p \in accounts : p.name # o.name}
    <3>1. IsFiniteSet(rest_)
      BY FS_Subset, SameFinite DEF Considering
    <3>2. IsFiniteSet(rest_ \cup {o})
      BY <3>1, FS_AddElement
    <3>3. Discriminator!IsFiniteSet(accounts')
      BY <2>3, <3>2, SameFinite
    <3>4. OwnDNs' \subseteq OwnDNs \cup (IF o.name \in itusers THEN {o.dn} ELSE {})
      BY <2>1, <2>3 DEF OwnDNs
    <3>5. lookup \in {"itusers", "names"} => OwnDNs' \subseteq held'
      BY <2>3, <3>4 DEF Considering
    <3> QED
      BY <2>1, <2>3, <3>3, <3>5 DEF Considering, ChoosesOne, Cemented, One, Discriminator!Apart
  <2> QED
    BY <1>6, <2>2, <2>3 DEF Discriminator!Move
<1>7. CASE UNCHANGED lookupVars
  BY <1>7 DEF lookupVars, Considering, ChoosesOne, Cemented, One, OwnDNs, Discriminator!Apart
<1> QED
  BY <1>1, <1>2, <1>3, <1>4, <1>5, <1>6, <1>7 DEF Discriminator!Next

LEMMA LookupInductive ==
  ASSUME LookupInv, [EndpointsNext]_endpointsVars
  PROVE  LookupInv'
<1>1. [Discriminator!Next]_lookupVars
  BY PartSteps
<1> QED
  BY <1>1, LookupTyped, LookupConsidering DEF LookupInv

(* What is found is the account of the it-user, by a DN it has or had meanwhile. *)
LEMMA FoundIsTheOne ==
  ASSUME LookupInv, [EndpointsNext]_endpointsVars
  PROVE  lookup' = "answered" /\ answer' = "found" /\ lookup # "answered" /\ cemented # {} =>
           IF lookup = "ask"
           THEN \A o \in Discriminator!filter_dns(accounts) : o.name \in cemented => chosen' = {o}
           ELSE \E o \in chosen' : chosen' = {o} /\ o.dn \in held
<1> SUFFICES ASSUME lookup' = "answered", answer' = "found", lookup # "answered", cemented # {}
             PROVE  IF lookup = "ask"
                    THEN \A o \in Discriminator!filter_dns(accounts) : o.name \in cemented => chosen' = {o}
                    ELSE \E o \in chosen' : chosen' = {o} /\ o.dn \in held
  OBVIOUS
<1> USE DEF LookupInv, Discriminator!Answer
<1>0. [Discriminator!Next]_lookupVars
  BY PartSteps
<1>1. CASE Discriminator!Ask
  <2>1. mode = "legacy" /\ answer = "none" /\ lookup = "ask"
    BY <1>1, AskAnswers DEF Cemented, Considering
  <2>2. chosen' = Discriminator!filter_dns(accounts) /\ One(chosen')
    BY <1>1, <2>1, AskAnswers
  <2> QED
    BY <2>1, <2>2 DEF One
<1>2. CASE Discriminator!LoadItUsers
  BY <1>2, LoadItUsersAnswers DEF Cemented, Considering
<1>3. CASE Discriminator!LoadName
  <2>1. lookup = "names" /\ mode = "legacy" /\ One(chosen)
    BY <1>3, LoadNameAnswers DEF Cemented, Considering, ChoosesOne
  <2>2. chosen' # {} /\ One(chosen') /\ \A o \in chosen' : o.dn \in held
    BY <1>3, <2>1, LoadNameAnswers
  <2> QED
    BY <2>1, <2>2 DEF One
<1>4. CASE Discriminator!Again \/ Discriminator!Cement \/ Discriminator!Move \/ UNCHANGED lookupVars
  BY <1>4 DEF Discriminator!Again, Discriminator!Cement, Discriminator!Move, lookupVars
<1> QED
  BY <1>0, <1>1, <1>2, <1>3, <1>4 DEF Discriminator!Next

(* The account that was synchronized stays the one that is found, by any DN  *)
(* that it has while its name and those of the others are read one by one,   *)
(* whichever accounts are added, deleted or trade DNs, and however often.    *)
THEOREM TheOneStays == EndpointsSpec => StaysTheOne
<1>1. LookupInv /\ [EndpointsNext]_endpointsVars =>
        [lookup' = "answered" /\ answer' = "found" /\ lookup # "answered" /\ cemented # {} =>
           IF lookup = "ask"
           THEN \A o \in Discriminator!filter_dns(accounts) : o.name \in cemented => chosen' = {o}
           ELSE \E o \in chosen' : chosen' = {o} /\ o.dn \in held]_(Discriminator!vars)
  BY FoundIsTheOne
<1> QED
  BY <1>1, LookupInit, LookupInductive, PTL DEF EndpointsSpec, StaysTheOne, Discriminator!StaysTheOne

(* Type correctness of the three parts.                                      *)
THEOREM EndpointsTypeCorrect == EndpointsSpec => []EndpointsTypeOK
<1>1. FixupInv /\ PurgeInv /\ LookupInv => EndpointsTypeOK
  BY DEF FixupInv, PurgeInv, LookupInv, EndpointsTypeOK
<1> QED
  BY <1>1, FixupInvariant, PurgeInit, PurgeInductive, LookupInit, LookupInductive, PTL DEF EndpointsSpec
=============================================================================
