-------------------------- MODULE PersonSyncProofs --------------------------
(* What holds of PersonSync for every number of persons, accounts, names and *)
(* handlers.                                                                 *)
EXTENDS PersonSync, TLAPS

(* The steps of handlers and importers, for the case analyses below.         *)
LEMMA StepKinds ==
  ASSUME [Next]_vars
  PROVE  /\ UNCHANGED settings
         /\ \/ UNCHANGED vars
            \/ \E h \in Handlers, p \in Persons : Take(h, p)
            \/ \E h \in Handlers :
                 \/ FindByItsystem(h) \/ FindByCpr(h) \/ Choose(h) \/ MakeDN(h)
                 \/ Add(h) \/ Update(h) \/ Identify(h) \/ CheckLink(h)
                 \/ CreateLink(h) \/ Fail(h)
            \/ \E i \in Importers, u \in Accounts : StartImport(i, u)
            \/ \E i \in Importers :
                 FindAccounts(i) \/ CheckImport(i) \/ CreateImport(i) \/ FailImport(i)
            \/ \E u \in Accounts : Delete(u)
            \/ \E p \in Persons : ChangePerson(p)
  BY DEF Next, HandlerStep, ImporterStep, World, vars

(* While one is left, the server's new LDAP uuid is one nobody has had.      *)
LEMMA FreshIsUnused ==
  Unused # {} => Fresh \in Accounts /\ owner[Fresh] = None
  BY DEF Fresh, Unused

(* An account that is there is under a name.                                 *)
LEMMA Placed ==
  ASSUME TypeOK, NEW u \in Accounts, Exists(u)
  PROVE  name[u] \in Names
  BY DEF TypeOK, Exists

-----------------------------------------------------------------------------
(* Type correctness.  An event goes back to a queue with the subject that    *)
(* whoever handles it still has.                                             *)

LEMMA InitTyped == Init => Typed
  BY SetupAssumption DEF Init, Typed, TypeOK, Busy

(* What a handler does at its end, with its event acknowledged or given back. *)
LEMMA DoneTyped ==
  ASSUME UNCHANGED settings, Typed, NEW h \in Handlers, Done(h), UNCHANGED imports
  PROVE  /\ pc' \in [Handlers -> {"idle", "find", "choose", "update", "name",
                                  "add", "identify", "check", "link"}]
         /\ who' \in [Handlers -> Persons \cup {None}]
         /\ asks' \in [Handlers -> SUBSET {"itsystem", "cpr"}]
         /\ found' \in [Handlers -> SUBSET Names]
         /\ dn' \in [Handlers -> Names \cup {None}]
         /\ uuid' \in [Handlers -> Accounts \cup {None}]
         /\ Busy'
  BY DEF Typed, TypeOK, Busy, Done, Goto, imports

LEMMA TakeTyped ==
  ASSUME UNCHANGED settings, Typed, NEW h \in Handlers, NEW p \in Persons, Take(h, p)
  PROVE  Typed'
  BY SetupAssumption DEF Typed, TypeOK, Busy, Take, Goto, ldap, imports

LEMMA FindByItsystemTyped ==
  ASSUME UNCHANGED settings, Typed, NEW h \in Handlers, FindByItsystem(h)
  PROVE  Typed'
<1>1. who[h] \in Persons
  BY DEF Typed, Busy, FindByItsystem
<1>2. {name[u] : u \in Pass({v \in Linked(who[h]) : Exists(v)})} \subseteq Names
  BY Placed DEF Typed, Linked, Pass
<1>3. CASE GiveBack(h) /\ UNCHANGED links
  BY <1>1, <1>3, DoneTyped
     DEF Typed, TypeOK, GiveBack, FindByItsystem, ldap, imports
<1>4. CASE Answered(h, "itsystem") /\ UNCHANGED <<queued, who, dn, uuid>>
  <2>1. found' \in [Handlers -> SUBSET Names]
    <3>1. ASSUME NEW S, S \subseteq Names, found' = [found EXCEPT ![h] = @ \cup S]
          PROVE  found' \in [Handlers -> SUBSET Names]
      BY <3>1 DEF Typed, TypeOK
    <3>2. UNCHANGED found => found' \in [Handlers -> SUBSET Names]
      BY DEF Typed, TypeOK
    <3>3. pc'[h] # "idle"
      BY <1>4 DEF Typed, TypeOK, Answered, Goto
    <3>4. GiveBack(h) => pc'[h] = "idle"
      BY DEF Typed, TypeOK, GiveBack, Done, Goto
    <3> QED
      BY <1>2, <3>1, <3>2, <3>3, <3>4, Zenon DEF FindByItsystem
  <2>2. links' \in [Persons -> [Accounts -> Nat]]
    BY <1>4 DEF Typed, TypeOK, FindByItsystem, Current
  <2>3. Busy'
    BY <1>1, <1>4
       DEF Typed, TypeOK, Busy, FindByItsystem, Answered, Goto, imports
  <2> QED
    BY <1>4, <2>1, <2>2, <2>3
       DEF Typed, TypeOK, FindByItsystem, Answered, Goto, ldap, imports
<1> QED
  BY <1>3, <1>4 DEF FindByItsystem

LEMMA FindByCprTyped ==
  ASSUME UNCHANGED settings, Typed, NEW h \in Handlers, FindByCpr(h)
  PROVE  Typed'
<1>1. who[h] \in Persons
  BY DEF Typed, Busy, FindByCpr
<1>2. {name[u] : u \in Pass(Correlated(who[h]))} \subseteq Names
  BY Placed DEF Typed, Correlated, Pass
<1>3. found' \in [Handlers -> SUBSET Names]
  BY <1>2 DEF Typed, TypeOK, FindByCpr
<1>4. Busy'
  BY <1>1 DEF Typed, TypeOK, Busy, FindByCpr, Answered, Goto, imports
<1> QED
  BY <1>3, <1>4
     DEF Typed, TypeOK, FindByCpr, Answered, Goto, ldap, imports

LEMMA ChooseTyped ==
  ASSUME UNCHANGED settings, Typed, NEW h \in Handlers, Choose(h)
  PROVE  Typed'
<1>1. who[h] \in Persons
  BY DEF Typed, Busy, Choose
<1>2. CASE Done(h) /\ queued' \in {queued, queued \cup {who[h]}}
  BY <1>1, <1>2, DoneTyped DEF Typed, TypeOK, Choose, ldap, imports
<1>3. CASE /\ Goto(h, "update") \/ Goto(h, "name")
           /\ dn' \in [Handlers -> Names \cup {None}]
           /\ UNCHANGED <<queued, who, asks, found, uuid>>
  BY <1>1, <1>3 DEF Typed, TypeOK, Busy, Choose, Goto, ldap, imports
<1>4. ASSUME NEW n \in found[h], dn' = [dn EXCEPT ![h] = n]
      PROVE  dn' \in [Handlers -> Names \cup {None}]
  BY <1>4 DEF Typed, TypeOK
<1>5. UNCHANGED dn => dn' \in [Handlers -> Names \cup {None}]
  BY DEF Typed, TypeOK
<1> QED
  BY <1>2, <1>3, <1>4, <1>5 DEF Choose, GiveBack

LEMMA MakeDNTyped ==
  ASSUME UNCHANGED settings, Typed, NEW h \in Handlers, MakeDN(h)
  PROVE  Typed'
<1>1. who[h] \in Persons
  BY DEF Typed, Busy, MakeDN
<1>2. CASE GiveBack(h)
  BY <1>1, <1>2, DoneTyped DEF Typed, TypeOK, GiveBack, MakeDN, ldap, imports
<1>3. CASE /\ \E n \in FreeNames : dn' = [dn EXCEPT ![h] = n]
           /\ Goto(h, "add") /\ UNCHANGED <<queued, who, asks, found, uuid>>
  BY <1>1, <1>3 DEF Typed, TypeOK, Busy, MakeDN, FreeNames, Goto, ldap, imports
<1> QED
  BY <1>2, <1>3 DEF MakeDN

LEMMA AddTyped ==
  ASSUME UNCHANGED settings, Typed, NEW h \in Handlers, Add(h)
  PROVE  Typed'
<1>1. who[h] \in Persons
  BY DEF Typed, Busy, Add
<1>2. CASE GiveBack(h) /\ UNCHANGED <<ldap, announced>>
  BY <1>1, <1>2, DoneTyped DEF Typed, TypeOK, GiveBack, Add, ldap, imports
<1>3. CASE /\ Unused # {} /\ name' = [name EXCEPT ![Fresh] = dn[h]]
           /\ owner' = [owner EXCEPT ![Fresh] = who[h]]
           /\ announced' = announced \cup {Fresh}
           /\ Goto(h, "identify")
           /\ UNCHANGED <<queued, who, asks, found, dn, uuid>>
  BY <1>1, <1>3, FreshIsUnused DEF Typed, TypeOK, Busy, Add, Goto, imports
<1> QED
  BY <1>2, <1>3 DEF Add

LEMMA UpdateTyped ==
  ASSUME UNCHANGED settings, Typed, NEW h \in Handlers, Update(h)
  PROVE  Typed'
<1>1. who[h] \in Persons
  BY DEF Typed, Busy, Update
<1>2. CASE GiveBack(h)
  BY <1>1, <1>2, DoneTyped DEF Typed, TypeOK, GiveBack, Update, ldap, imports
<1>3. CASE Goto(h, "identify") /\ UNCHANGED <<queued, who, asks, found, dn, uuid>>
  BY <1>1, <1>3 DEF Typed, TypeOK, Busy, Update, Goto, ldap, imports
<1> QED
  BY <1>2, <1>3 DEF Update

LEMMA IdentifyTyped ==
  ASSUME UNCHANGED settings, Typed, NEW h \in Handlers, Identify(h)
  PROVE  Typed'
<1>1. who[h] \in Persons
  BY DEF Typed, Busy, Identify
<1>2. CASE Done(h) /\ queued' \in {queued, queued \cup {who[h]}}
  BY <1>1, <1>2, DoneTyped DEF Typed, TypeOK, Identify, ldap, imports
<1>3. CASE /\ \E u \in At(dn[h]) : uuid' = [uuid EXCEPT ![h] = u]
           /\ Goto(h, "check") /\ UNCHANGED <<queued, who, asks, found, dn>>
  BY <1>1, <1>3 DEF Typed, TypeOK, Busy, Identify, At, Goto, ldap, imports
<1> QED
  BY <1>2, <1>3 DEF Identify, GiveBack

LEMMA LinkTyped ==
  ASSUME UNCHANGED settings, Typed, NEW h \in Handlers, CheckLink(h) \/ CreateLink(h)
  PROVE  Typed'
<1>1. who[h] \in Persons
  BY DEF Typed, Busy, CheckLink, CreateLink
<1>2. CASE Done(h) /\ UNCHANGED links
  BY <1>2, DoneTyped
     DEF Typed, TypeOK, CheckLink, CreateLink, ldap, imports
<1>3. CASE Goto(h, "link") /\ UNCHANGED <<locals, links>>
  BY <1>1, <1>3
     DEF Typed, TypeOK, Busy, CheckLink, CreateLink, Goto, locals, ldap, imports
<1>4. CASE CreateLink(h)
  <2>1. links' \in [Persons -> [Accounts -> Nat]]
    <3>1. uuid[h] \in Accounts
      BY <1>4 DEF Typed, Busy, CreateLink
    <3> QED
      BY <1>1, <1>4, <3>1 DEF Typed, TypeOK, CreateLink
  <2> QED
    BY <1>4, <2>1, DoneTyped DEF Typed, TypeOK, CreateLink, ldap, imports
<1> QED
  BY <1>2, <1>3, <1>4 DEF CheckLink

LEMMA FailTyped ==
  ASSUME UNCHANGED settings, Typed, NEW h \in Handlers, Fail(h)
  PROVE  Typed'
<1>1. who[h] \in Persons
  BY DEF Typed, Busy, Fail
<1> QED
  BY <1>1, DoneTyped, SetupAssumption
     DEF Typed, TypeOK, GiveBack, Fail, ldap, imports

LEMMA ImportTyped ==
  ASSUME UNCHANGED settings, Typed, NEW i \in Importers,
         \/ \E u \in Accounts : StartImport(i, u)
         \/ FindAccounts(i) \/ CheckImport(i) \/ CreateImport(i) \/ FailImport(i)
  PROVE  Typed'
<1>1. ASSUME NEW u \in Accounts, StartImport(i, u) PROVE Typed'
  <2>1. CASE UNCHANGED imports
    BY <1>1, <2>1
       DEF Typed, TypeOK, Busy, StartImport, ldap, locals, imports
  <2>2. ASSUME NEW p \in Persons, imported' = [imported EXCEPT ![i] = p],
               importing' = [importing EXCEPT ![i] = u],
               stage' = [stage EXCEPT ![i] = "accounts"]
        PROVE  Typed'
    BY <1>1, <2>2 DEF Typed, TypeOK, Busy, StartImport, ldap, locals
  <2> QED
    BY <1>1, <2>1, <2>2 DEF StartImport
<1>2. CASE FindAccounts(i)
  <2>1. importing[i] \in Accounts /\ imported[i] \in Persons
    BY <1>2 DEF Typed, Busy, FindAccounts
  <2>2. links' \in [Persons -> [Accounts -> Nat]]
    BY <1>2 DEF Typed, TypeOK, FindAccounts, Current
  <2>3. \A v \in AccountsOf(imported[i]) : v \in Accounts
    BY DEF AccountsOf, Linked, Correlated, Pass
  <2>4. CASE EndImport(i) /\ announced' \in {announced, announced \cup {importing[i]}}
    BY <1>2, <2>1, <2>2, <2>4
       DEF Typed, TypeOK, Busy, FindAccounts, EndImport, ldap, locals
  <2>5. CASE /\ \E v \in AccountsOf(imported[i]) :
                  importing' = [importing EXCEPT ![i] = v]
             /\ stage' = [stage EXCEPT ![i] = "check"]
             /\ UNCHANGED <<announced, imported>>
    BY <1>2, <2>1, <2>2, <2>3, <2>5
       DEF Typed, TypeOK, Busy, FindAccounts, ldap, locals
  <2> QED
    BY <1>2, <2>4, <2>5 DEF FindAccounts, RetryImport
<1>3. CASE CheckImport(i)
  <2>1. importing[i] \in Accounts /\ imported[i] \in Persons
    BY <1>3 DEF Typed, Busy, CheckImport
  <2>2. links' \in [Persons -> [Accounts -> Nat]]
    <3>1. ASSUME NEW v \in Accounts
          PROVE  [links EXCEPT ![imported[i]][v] = 0,
                               ![imported[i]][importing[i]] = 1]
                   \in [Persons -> [Accounts -> Nat]]
      <4> DEFINE L == [links EXCEPT ![imported[i]][v] = 0]
      <4>1. L \in [Persons -> [Accounts -> Nat]]
        BY <2>1 DEF Typed, TypeOK
      <4> HIDE DEF L
      <4>2. [L EXCEPT ![imported[i]][importing[i]] = 1]
              \in [Persons -> [Accounts -> Nat]]
        BY <2>1, <4>1
      <4> QED
        BY <4>2 DEF L
    <3>2. UNCHANGED links => links' \in [Persons -> [Accounts -> Nat]]
      BY DEF Typed, TypeOK
    <3> QED
      BY ZenonT(60), <1>3, <3>1, <3>2 DEF CheckImport
  <2>3. CASE EndImport(i) /\ announced' \in {announced, announced \cup {importing[i]}}
    BY <1>3, <2>1, <2>2, <2>3
       DEF Typed, TypeOK, Busy, CheckImport, EndImport, ldap, locals
  <2>4. CASE /\ stage' = [stage EXCEPT ![i] = "create"]
             /\ UNCHANGED <<announced, importing, imported>>
    BY <1>3, <2>1, <2>2, <2>4
       DEF Typed, TypeOK, Busy, CheckImport, ldap, locals
  <2> QED
    BY <1>3, <2>3, <2>4 DEF CheckImport, RetryImport
<1>4. CASE CreateImport(i)
  <2>1. links' \in [Persons -> [Accounts -> Nat]]
    <3>1. importing[i] \in Accounts /\ imported[i] \in Persons
      BY <1>4 DEF Typed, Busy, CreateImport
    <3> QED
      BY <1>4, <3>1 DEF Typed, TypeOK, CreateImport
  <2> QED
    BY <1>4, <2>1 DEF Typed, TypeOK, Busy, CreateImport, EndImport, ldap, locals
<1>5. CASE FailImport(i)
  <2>1. importing[i] \in Accounts
    BY <1>5 DEF Typed, Busy, FailImport
  <2> QED
    BY <1>5, <2>1, SetupAssumption
       DEF Typed, TypeOK, Busy, FailImport, RetryImport, EndImport, ldap, locals
<1> QED
  BY <1>1, <1>2, <1>3, <1>4, <1>5

LEMMA NextTyped == Typed /\ [Next]_vars => Typed'
<1> SUFFICES ASSUME Typed, [Next]_vars PROVE Typed'
  OBVIOUS
<1>1. CASE UNCHANGED vars
  BY <1>1 DEF Typed, TypeOK, Busy, vars
<1>2. ASSUME NEW u \in Accounts, Delete(u) PROVE Typed'
  BY <1>2, StepKinds, SetupAssumption DEF Typed, TypeOK, Busy, Delete, locals, imports
<1>3. ASSUME NEW p \in Persons, ChangePerson(p) PROVE Typed'
  BY <1>3, StepKinds, SetupAssumption
     DEF Typed, TypeOK, Busy, ChangePerson, ldap, locals, imports
<1> QED
  BY <1>1, <1>2, <1>3, StepKinds, TakeTyped, FindByItsystemTyped,
     FindByCprTyped, ChooseTyped, MakeDNTyped, AddTyped, UpdateTyped,
     IdentifyTyped, LinkTyped, FailTyped, ImportTyped

(* Every reachable state is in the types.                                   *)
THEOREM TypeCorrect == Spec => []TypeOK
<1>1. Spec => []Typed
  BY InitTyped, NextTyped, PTL DEF Spec
<1>2. Typed => TypeOK
  BY DEF Typed
<1> QED
  BY <1>1, <1>2, PTL

-----------------------------------------------------------------------------
(* One account per CPR number, while handlers of a person take turns.        *)

(* A handler that ends forgets all that the invariant is about.              *)
LEMMA DoneAlone ==
  ASSUME UNCHANGED settings, Typed, Alone, NEW h \in Handlers, Done(h), UNCHANGED ldap
  PROVE  Alone'
<1>1. TakingTurns'
  BY DEF Typed, TypeOK, Alone, TakingTurns, Done
<1>2. AddsIfNone'
  BY DEF Typed, TypeOK, Alone, AddsIfNone, Done, Goto
<1>3. StillNone'
  BY DEF Typed, TypeOK, Alone, StillNone, Pass, Done, Goto, ldap, Exists
<1>4. OneAccount'
  BY DEF Alone, OneAccount, Pass, ldap, Exists
<1> QED
  BY <1>1, <1>2, <1>3, <1>4 DEF Alone

LEMMA TakeAlone ==
  ASSUME UNCHANGED settings, Exclusive, Typed, Alone, NEW h \in Handlers, NEW p \in Persons, Take(h, p)
  PROVE  Alone'
<1>1. TakingTurns'
  BY DEF Typed, TypeOK, Alone, TakingTurns, Take
<1>2. AddsIfNone'
  BY DEF Typed, TypeOK, Alone, AddsIfNone, Take, Goto
<1>3. StillNone'
  BY DEF Typed, TypeOK, Alone, StillNone, Pass, Take, Goto, ldap, Exists
<1>4. OneAccount'
  BY DEF Alone, OneAccount, Pass, Take, ldap, Exists
<1> QED
  BY <1>1, <1>2, <1>3, <1>4 DEF Alone

(* A lookup by links finds more or nothing; either way what the lookup by    *)
(* CPR number did not find is still not there.                               *)
LEMMA FindByItsystemAlone ==
  ASSUME UNCHANGED settings, Typed, Alone, NEW h \in Handlers, FindByItsystem(h)
  PROVE  Alone'
<1>1. CASE Done(h)
  BY <1>1, DoneAlone DEF FindByItsystem, ldap
<1>2. CASE /\ Answered(h, "itsystem") /\ UNCHANGED who
           /\ UNCHANGED found \/ \E F : found' = [found EXCEPT ![h] = @ \cup F]
  <2>1. pc[h] = "find" /\ UNCHANGED ldap
    BY DEF FindByItsystem
  <2>2. TakingTurns' /\ OneAccount'
    BY <1>2, <2>1 DEF Alone, TakingTurns, OneAccount, Pass, ldap, Exists
  <2>3. \A g \in Handlers : g # h => pc'[g] = pc[g] /\ asks'[g] = asks[g] /\ found'[g] = found[g]
    BY <1>2 DEF Typed, TypeOK, Answered, Goto
  <2>4. /\ asks'[h] = asks[h] \ {"itsystem"}
        /\ pc'[h] = (IF asks[h] = {"itsystem"} THEN "choose" ELSE "find")
        /\ found'[h] = {} => found[h] = {}
    BY <1>2 DEF Typed, TypeOK, Answered, Goto
  <2>5. AddsIfNone'
    BY <2>3, <2>4 DEF Alone, AddsIfNone
  <2>6. StillNone'
    BY <1>2, <2>1, <2>3, <2>4 DEF Alone, StillNone, Pass, ldap, Exists
  <2> QED
    BY <2>2, <2>5, <2>6 DEF Alone
<1> QED
  BY <1>1, <1>2 DEF FindByItsystem, GiveBack

(* The lookup by CPR number that finds nothing: there is no such account.    *)
LEMMA FindByCprAlone ==
  ASSUME UNCHANGED settings, Typed, Alone, NEW h \in Handlers, FindByCpr(h)
  PROVE  Alone'
<1>1. pc[h] = "find" /\ UNCHANGED <<ldap, who>>
  BY DEF FindByCpr
<1>2. TakingTurns' /\ OneAccount'
  BY <1>1 DEF Alone, TakingTurns, OneAccount, Pass, ldap, Exists
<1>3. \A g \in Handlers : g # h => pc'[g] = pc[g] /\ asks'[g] = asks[g] /\ found'[g] = found[g]
  BY DEF Typed, TypeOK, FindByCpr, Answered, Goto
<1>4. /\ asks'[h] = asks[h] \ {"cpr"}
      /\ pc'[h] = (IF asks[h] = {"cpr"} THEN "choose" ELSE "find")
      /\ found'[h] = found[h] \cup {name[u] : u \in Pass(Correlated(who[h]))}
  BY DEF Typed, TypeOK, FindByCpr, Answered, Goto
<1>5. AddsIfNone'
  BY <1>3, <1>4 DEF Alone, AddsIfNone
<1>6. who[h] \in HasCpr /\ found'[h] = {} =>
        \A u \in Pass(Accounts) : owner[u] = who[h] => ~Exists(u)
  BY <1>4 DEF Correlated, Pass
<1>7. StillNone'
  BY <1>1, <1>3, <1>4, <1>6 DEF Alone, StillNone, Pass, ldap, Exists
<1> QED
  BY <1>2, <1>5, <1>7 DEF Alone

(* Going on with what was found changes nothing the invariant is about.      *)
LEMMA MoveAlone ==
  ASSUME UNCHANGED settings, Typed, Alone, NEW h \in Handlers, UNCHANGED <<ldap, who, asks, found>>,
         \/ pc[h] = "choose" /\ Goto(h, "update")
         \/ pc[h] = "choose" /\ found[h] = {} /\ Goto(h, "name")
         \/ pc[h] = "name" /\ Goto(h, "add")
         \/ Goto(h, "identify")
         \/ Goto(h, "check")
         \/ Goto(h, "link")
  PROVE  Alone'
<1>1. TakingTurns' /\ OneAccount'
  BY DEF Alone, TakingTurns, OneAccount, Pass, ldap, Exists
<1>2. \A g \in Handlers : g # h => pc'[g] = pc[g]
  BY DEF Typed, TypeOK, Goto
<1>3. \/ pc'[h] \notin {"find", "choose", "name", "add"}
      \/ /\ pc'[h] \in {"name", "add"} /\ found[h] = {}
         /\ asks[h] = {} /\ pc[h] \in {"choose", "name"}
  BY DEF Typed, TypeOK, Goto, Alone, AddsIfNone
<1>4. AddsIfNone'
  BY <1>2, <1>3 DEF Alone, AddsIfNone
<1>5. StillNone'
  BY <1>2, <1>3 DEF Alone, StillNone, Pass, ldap, Exists
<1> QED
  BY <1>1, <1>4, <1>5 DEF Alone

(* The account added is its person's first, and no other handler is waiting  *)
(* to add one for the same person.                                           *)
LEMMA AddAlone ==
  ASSUME UNCHANGED settings, Typed, Alone, NEW h \in Handlers, Add(h)
  PROVE  Alone'
<1>1. CASE Done(h) /\ UNCHANGED ldap
  BY <1>1, DoneAlone
<1>2. CASE /\ Unused # {} /\ name' = [name EXCEPT ![Fresh] = dn[h]]
           /\ owner' = [owner EXCEPT ![Fresh] = who[h]]
           /\ Goto(h, "identify") /\ UNCHANGED <<who, asks, found>>
  <2>1. pc[h] = "add" /\ who[h] \in Persons
    BY DEF Typed, Busy, Add
  <2>2. Fresh \in Accounts /\ owner[Fresh] = None
    BY <1>2, FreshIsUnused
  <2>3. \A u \in Accounts :
          u # Fresh => owner'[u] = owner[u] /\ (Exists(u)' <=> Exists(u))
    BY <1>2, <2>2 DEF Typed, TypeOK, Exists
  <2>4. owner'[Fresh] = who[h]
    BY <1>2, <2>2 DEF Typed, TypeOK
  <2>5. TakingTurns'
    BY <1>2 DEF Alone, TakingTurns
  <2>6. \A g \in Handlers : g # h => pc'[g] = pc[g]
    BY <1>2 DEF Typed, TypeOK, Goto
  <2>7. pc'[h] = "identify"
    BY <1>2 DEF Typed, TypeOK, Goto
  <2>8. AddsIfNone'
    BY <1>2, <2>6, <2>7 DEF Alone, AddsIfNone
  <2>9. StillNone'
    <3> SUFFICES ASSUME NEW g \in Handlers,
                        pc'[g] \in {"find", "choose", "name", "add"},
                        who[g] \in HasCpr, "cpr" \notin asks[g], found[g] = {},
                        NEW u \in Pass(Accounts), owner'[u] = who[g]
                 PROVE  ~Exists(u)'
      BY <1>2 DEF StillNone, Pass
    <3>1. g # h /\ pc[g] = pc'[g]
      BY <2>6, <2>7
    <3>2. who[g] # None
      BY SetupAssumption
    <3>3. who[g] # who[h]
      BY <3>1, <3>2, <2>1, SetupAssumption DEF Alone, TakingTurns
    <3>4. u # Fresh
      BY <2>4, <3>3
    <3> QED
      BY <2>3, <3>1, <3>4 DEF Alone, StillNone, Pass
  <2>10. who[h] \in HasCpr => \A u \in Pass(Accounts) : owner[u] = who[h] => ~Exists(u)
    BY <2>1 DEF Alone, AddsIfNone, StillNone, Pass
  <2>11. OneAccount'
    <3> SUFFICES ASSUME NEW u \in Pass(Accounts), NEW v \in Pass(Accounts), Exists(u)',
                        Exists(v)', owner'[u] = owner'[v], owner'[u] \in HasCpr,
                        u # v
                 PROVE  FALSE
      BY DEF OneAccount, Pass
    <3>1. CASE u # Fresh /\ v # Fresh
      BY <2>3, <3>1 DEF Alone, OneAccount, Pass
    <3>2. CASE u = Fresh
      BY <2>3, <2>4, <2>10, <3>2 DEF Pass
    <3>3. CASE v = Fresh
      BY <2>3, <2>4, <2>10, <3>3 DEF Pass
    <3> QED
      BY <3>1, <3>2, <3>3
  <2> QED
    BY <2>5, <2>8, <2>9, <2>11 DEF Alone
<1> QED
  BY <1>1, <1>2 DEF Add, GiveBack

(* Steps that touch neither a handler nor an account.                        *)
LEMMA OutsideAlone ==
  ASSUME UNCHANGED settings, Alone, UNCHANGED <<ldap, pc, who, asks, found>>
  PROVE  Alone'
  BY DEF Alone, TakingTurns, AddsIfNone, StillNone, Pass, OneAccount, ldap, Exists

LEMMA DeleteAlone ==
  ASSUME UNCHANGED settings, Typed, Alone, NEW u \in Accounts, Delete(u)
  PROVE  Alone'
<1>1. \A v \in Accounts : Exists(v)' => Exists(v)
  BY DEF Typed, TypeOK, Delete, Exists
<1>2. UNCHANGED <<owner, pc, who, asks, found>>
  BY DEF Delete, locals
<1>3. TakingTurns' /\ AddsIfNone'
  BY <1>2 DEF Alone, TakingTurns, AddsIfNone
<1>4. StillNone'
  BY <1>1, <1>2 DEF Alone, StillNone, Pass
<1>5. OneAccount'
  BY <1>1, <1>2 DEF Alone, OneAccount, Pass
<1> QED
  BY <1>3, <1>4, <1>5 DEF Alone

LEMMA NextAlone == Exclusive /\ Typed /\ Alone /\ [Next]_vars => Alone'
<1> SUFFICES ASSUME Exclusive, Typed, Alone, [Next]_vars PROVE Alone'
  OBVIOUS
<1>0. UNCHANGED settings
  BY StepKinds
<1>1. CASE UNCHANGED vars
  BY <1>0, <1>1, OutsideAlone DEF vars, ldap
<1>2. ASSUME NEW h \in Handlers, Choose(h) PROVE Alone'
  BY <1>0, <1>2, MoveAlone, DoneAlone DEF Choose, GiveBack, ldap
<1>3. ASSUME NEW h \in Handlers, MakeDN(h) PROVE Alone'
  BY <1>0, <1>3, MoveAlone, DoneAlone DEF MakeDN, GiveBack, ldap
<1>4. ASSUME NEW h \in Handlers, Update(h) PROVE Alone'
  BY <1>0, <1>4, MoveAlone, DoneAlone DEF Update, GiveBack, ldap
<1>5. ASSUME NEW h \in Handlers, Identify(h) PROVE Alone'
  BY <1>0, <1>5, MoveAlone, DoneAlone DEF Identify, GiveBack, ldap
<1>6. ASSUME NEW h \in Handlers, CheckLink(h) PROVE Alone'
  BY <1>0, <1>6, MoveAlone, DoneAlone DEF CheckLink, locals, ldap
<1>7. ASSUME NEW h \in Handlers, CreateLink(h) \/ Fail(h) PROVE Alone'
  BY <1>0, <1>7, DoneAlone DEF CreateLink, Fail, GiveBack, ldap
<1>8. ASSUME NEW i \in Importers,
             \/ \E u \in Accounts : StartImport(i, u)
             \/ FindAccounts(i) \/ CheckImport(i) \/ CreateImport(i)
             \/ FailImport(i)
      PROVE Alone'
  BY <1>0, <1>8, OutsideAlone
     DEF StartImport, FindAccounts, CheckImport, CreateImport, FailImport,
         ldap, locals
<1>9. ASSUME NEW p \in Persons, ChangePerson(p) PROVE Alone'
  BY <1>0, <1>9, OutsideAlone DEF ChangePerson, ldap, locals
<1> QED
  BY <1>0, <1>1, <1>2, <1>3, <1>4, <1>5, <1>6, <1>7, <1>8, <1>9, StepKinds,
     TakeAlone, FindByItsystemAlone, FindByCprAlone, AddAlone, DeleteAlone

LEMMA InitAlone == Init => Typed /\ Alone
<1> SUFFICES ASSUME Init PROVE Alone
  BY InitTyped
<1>1. TakingTurns /\ AddsIfNone
  BY DEF Init, TakingTurns, AddsIfNone
<1>2. StillNone /\ OneAccount
  BY SetupAssumption DEF Init, StillNone, OneAccount, Pass, Exists
<1> QED
  BY <1>1, <1>2 DEF Alone

(* While handlers of a person take turns, no crash, retry, deletion or       *)
(* import gives a person with a CPR number a second account.                 *)
THEOREM NeverTwoAccounts == Exclusive => (Spec => []OneAccount)
<1> SUFFICES ASSUME Exclusive PROVE Spec => []OneAccount
  OBVIOUS
<1>1. Init => Typed /\ Alone
  BY InitAlone
<1>2. Typed /\ Alone /\ [Next]_vars => (Typed /\ Alone)'
  BY NextTyped, NextAlone
<1>3. Typed /\ Alone => OneAccount
  BY DEF Alone
<1> QED
  BY <1>1, <1>2, <1>3, PTL DEF Spec
-----------------------------------------------------------------------------
(* One link per account, while handlers of a person take turns and nothing   *)
(* imports the link.                                                         *)

(* Steps that make no link, and bring nobody to the point of making one.     *)
LEMMA QuietUnlinked ==
  ASSUME StillUnlinked, UNCHANGED <<settings, links, stage>>,
         \A g \in Handlers : pc'[g] = "link" =>
           pc[g] = "link" /\ who'[g] = who[g] /\ uuid'[g] = uuid[g]
  PROVE  StillUnlinked'
  BY DEF StillUnlinked

LEMMA MoveUnlinked ==
  ASSUME Typed, StillUnlinked, UNCHANGED <<settings, links, stage>>,
         NEW h \in Handlers,
         \/ Done(h)
         \/ \E place \in {"find", "choose", "update", "name", "add", "identify", "check"} :
              /\ Goto(h, place)
              /\ UNCHANGED who \/ \E p : who' = [who EXCEPT ![h] = p]
              /\ UNCHANGED uuid \/ \E u : uuid' = [uuid EXCEPT ![h] = u]
  PROVE  StillUnlinked'
<1>1. \A g \in Handlers : g # h => pc'[g] = pc[g] /\ who'[g] = who[g] /\ uuid'[g] = uuid[g]
  BY DEF Typed, TypeOK, Done, Goto
<1>2. pc'[h] # "link"
  BY DEF Typed, TypeOK, Done, Goto
<1> QED
  BY <1>1, <1>2, QuietUnlinked

(* The lookup by links only takes links away.                                *)
LEMMA FindByItsystemUnlinked ==
  ASSUME UNCHANGED settings, Typed, StillUnlinked, NEW h \in Handlers, FindByItsystem(h)
  PROVE  StillUnlinked'
<1>1. CASE GiveBack(h) /\ UNCHANGED links
  BY <1>1, MoveUnlinked DEF GiveBack, FindByItsystem, imports
<1>2. CASE Answered(h, "itsystem") /\ UNCHANGED <<queued, who, dn, uuid>>
  <2>1. who[h] \in Persons
    BY DEF Typed, Busy, FindByItsystem
  <2>2. pc[h] = "find" /\ UNCHANGED stage
    BY DEF FindByItsystem, imports
  <2>3. pc'[h] # "link" /\ \A g \in Handlers : g # h => pc'[g] = pc[g]
    BY <1>2 DEF Typed, TypeOK, Answered, Goto
  <2>4. \A p \in Persons, u \in Accounts : links'[p][u] \in {0, links[p][u]}
    BY <1>2, <2>1 DEF Typed, TypeOK, FindByItsystem, Current
  <2>5. \A g \in Handlers : pc'[g] = "link" => pc[g] = "link" /\ who[g] \in Persons /\ uuid[g] \in Accounts
    BY <2>3 DEF Typed, Busy
  <2> QED
    BY <1>2, <2>2, <2>4, <2>5 DEF StillUnlinked, Typed, TypeOK
<1> QED
  BY <1>1, <1>2 DEF FindByItsystem

LEMMA CheckLinkUnlinked ==
  ASSUME UNCHANGED settings, Typed, StillUnlinked, NEW h \in Handlers, CheckLink(h)
  PROVE  StillUnlinked'
<1>1. CASE Done(h)
  BY <1>1, MoveUnlinked DEF CheckLink, imports
<1>2. CASE links[who[h]][uuid[h]] = 0 /\ Goto(h, "link") /\ UNCHANGED locals
  BY <1>2 DEF StillUnlinked, CheckLink, Typed, TypeOK, Goto, locals, imports
<1> QED
  BY <1>1, <1>2 DEF CheckLink

(* Nobody else makes a link of this person between the check and this.       *)
LEMMA CreateLinkUnlinked ==
  ASSUME UNCHANGED settings, Typed, TakingTurns, StillUnlinked,
         NEW h \in Handlers, CreateLink(h)
  PROVE  StillUnlinked'
<1>1. who[h] \in Persons /\ who[h] # None /\ uuid[h] \in Accounts
  BY SetupAssumption DEF Typed, Busy, CreateLink
<1>2. \A g \in Handlers : g # h => pc'[g] = pc[g] /\ who'[g] = who[g] /\ uuid'[g] = uuid[g]
  BY DEF Typed, TypeOK, CreateLink, Done, Goto
<1>3. pc[h] = "link" /\ pc'[h] = "idle"
  BY DEF Typed, TypeOK, CreateLink, Done, Goto
<1>4. ASSUME NEW g \in Handlers, pc'[g] = "link"
      PROVE  /\ pc[g] = "link" /\ who'[g] = who[g] /\ uuid'[g] = uuid[g]
             /\ who[g] # who[h] /\ who[g] \in Persons /\ uuid[g] \in Accounts
  BY <1>1, <1>2, <1>3, <1>4 DEF TakingTurns, Typed, Busy
<1>5. \A p \in Persons, u \in Accounts :
        links'[p][u] = IF p = who[h] /\ u = uuid[h] THEN links[p][u] + 1 ELSE links[p][u]
  BY <1>1 DEF Typed, TypeOK, CreateLink
<1>6. UNCHANGED stage
  BY DEF CreateLink, imports
<1>7. CASE settings.imports
  BY <1>7 DEF StillUnlinked
<1>8. CASE ~settings.imports
  <2>1. \A p \in Persons, u \in Accounts : links'[p][u] <= 1
    BY <1>1, <1>3, <1>5, <1>8 DEF StillUnlinked, Typed, TypeOK
  <2>2. \A g \in Handlers : pc'[g] = "link" => links'[who'[g]][uuid'[g]] = 0
    BY <1>4, <1>5, <1>8 DEF StillUnlinked
  <2> QED
    BY <1>6, <1>8, <2>1, <2>2 DEF StillUnlinked
<1> QED
  BY <1>7, <1>8

LEMMA NextUnlinked ==
  Exclusive /\ Typed /\ Alone /\ StillUnlinked /\ [Next]_vars => StillUnlinked'
<1> SUFFICES ASSUME Exclusive, Typed, Alone, StillUnlinked, [Next]_vars
             PROVE  StillUnlinked'
  OBVIOUS
<1>0. UNCHANGED settings
  BY StepKinds
<1>1. CASE UNCHANGED vars
  BY <1>1, QuietUnlinked DEF vars
<1>2. ASSUME NEW h \in Handlers, NEW p \in Persons, Take(h, p) PROVE StillUnlinked'
  BY <1>0, <1>2, MoveUnlinked DEF Take, imports
<1>3. ASSUME NEW h \in Handlers, FindByCpr(h) PROVE StillUnlinked'
  BY <1>0, <1>3, MoveUnlinked DEF FindByCpr, Answered, imports
<1>4. ASSUME NEW h \in Handlers, Choose(h) \/ MakeDN(h) PROVE StillUnlinked'
  BY <1>0, <1>4, MoveUnlinked DEF Choose, MakeDN, GiveBack, imports
<1>5. ASSUME NEW h \in Handlers, Add(h) \/ Update(h) PROVE StillUnlinked'
  BY <1>0, <1>5, MoveUnlinked DEF Add, Update, GiveBack, imports
<1>6. ASSUME NEW h \in Handlers, Identify(h) PROVE StillUnlinked'
  BY <1>0, <1>6, MoveUnlinked DEF Identify, GiveBack, imports
<1>7. ASSUME NEW h \in Handlers, Fail(h) PROVE StillUnlinked'
  BY <1>0, <1>7, MoveUnlinked DEF Fail, GiveBack, imports
<1>8. ASSUME NEW i \in Importers,
             \/ \E u \in Accounts : StartImport(i, u)
             \/ FindAccounts(i) \/ CheckImport(i) \/ CreateImport(i)
             \/ FailImport(i)
      PROVE StillUnlinked'
  <2>1. settings.imports
    BY <1>8
       DEF StillUnlinked, StartImport, FindAccounts, CheckImport, CreateImport, FailImport
  <2> QED
    BY <1>0, <2>1 DEF StillUnlinked
<1>9. ASSUME \/ \E u \in Accounts : Delete(u)
             \/ \E p \in Persons : ChangePerson(p)
      PROVE StillUnlinked'
  BY <1>0, <1>9, QuietUnlinked DEF Delete, ChangePerson, locals, imports
<1> QED
  BY <1>0, <1>1, <1>2, <1>3, <1>4, <1>5, <1>6, <1>7, <1>8, <1>9, StepKinds,
     FindByItsystemUnlinked, CheckLinkUnlinked, CreateLinkUnlinked DEF Alone

(* While handlers of a person take turns and no mapping imports the link, an *)
(* account is linked once, through every crash, retry and deletion.          *)
THEOREM LinkedOnlyOnce == Exclusive => (Spec => []LinkedOnce)
<1> SUFFICES ASSUME Exclusive PROVE Spec => []LinkedOnce
  OBVIOUS
<1>1. Init => Typed /\ Alone /\ StillUnlinked
  BY InitAlone DEF Init, StillUnlinked
<1>2. Typed /\ Alone /\ StillUnlinked /\ [Next]_vars => (Typed /\ Alone /\ StillUnlinked)'
  BY NextTyped, NextAlone, NextUnlinked
<1>3. StillUnlinked => LinkedOnce
  BY DEF StillUnlinked, LinkedOnce
<1> QED
  BY <1>1, <1>2, <1>3, PTL DEF Spec

-----------------------------------------------------------------------------
(* Nobody is linked to the account of another, as long as no account of his  *)
(* is gone.                                                                  *)

(* All accounts that were added for a person are there.                      *)
There(p) == \A u \in Accounts : owner[u] = p => Exists(u)

(* A name is one account's, and whoever has an account was given it.         *)
OneName ==
  /\ \A u, v \in Accounts : Exists(u) /\ name[u] = name[v] => u = v
  /\ \A u \in Accounts : Exists(u) => owner[u] # None

(* What a handler has found, has chosen or made, and has identified, is its  *)
(* person's.                                                                 *)
OwnAt(n, p) == \E u \in Accounts : name[u] = n /\ owner[u] = p

Faithful(h) ==
  /\ \A n \in found[h] : OwnAt(n, who[h])
  /\ pc[h] \in {"update", "identify"} => OwnAt(dn[h], who[h])
  /\ pc[h] \in {"check", "link"} => owner[uuid[h]] = who[h]

OwnHandler(h) ==
  /\ pc[h] = "idle" => found[h] = {}
  /\ There(who[h]) => Faithful(h)
OwnImport(i) ==
  stage[i] # "idle" /\ There(imported[i]) => owner[importing[i]] = imported[i]
OwnLinks ==
  \A p \in Persons, u \in Accounts : There(p) /\ links[p][u] > 0 => owner[u] = p

Own ==
  /\ OneName /\ OwnLinks
  /\ \A h \in Handlers : OwnHandler(h)
  /\ \A i \in Importers : OwnImport(i)

(* Accounts as they were, they are there as they were.                       *)
LEMMA SameAccounts ==
  ASSUME UNCHANGED ldap
  PROVE  /\ \A u \in Accounts : Exists(u)' <=> Exists(u)
         /\ \A p : There(p)' <=> There(p)
         /\ \A n, p : OwnAt(n, p)' <=> OwnAt(n, p)
         /\ OneName' <=> OneName
  BY DEF ldap, Exists, There, OwnAt, OneName

(* Steps that leave accounts and links alone, of one handler.                *)
LEMMA HandlerOwn ==
  ASSUME Typed, Own, NEW h \in Handlers, UNCHANGED <<ldap, links, imports>>,
         \A g \in Handlers : g # h =>
           /\ pc'[g] = pc[g] /\ who'[g] = who[g] /\ found'[g] = found[g]
           /\ dn'[g] = dn[g] /\ uuid'[g] = uuid[g],
         OwnHandler(h)'
  PROVE  Own'
<1>1. OneName' /\ \A p : There(p)' <=> There(p)
  BY SameAccounts DEF Own
<1>2. ASSUME NEW g \in Handlers, g # h
      PROVE  OwnHandler(g)'
  <2>1. OwnHandler(g)
    BY DEF Own
  <2> QED
    BY <1>2, <2>1 DEF OwnHandler, There, Exists, Faithful, OwnAt, ldap
<1>3. OwnLinks' /\ \A i \in Importers : OwnImport(i)'
  BY DEF Own, OwnLinks, OwnImport, There, Exists, ldap, imports
<1> QED
  BY <1>1, <1>2, <1>3 DEF Own

LEMMA DoneOwn ==
  ASSUME Typed, Own, NEW h \in Handlers, Done(h), UNCHANGED <<ldap, links, imports>>
  PROVE  Own'
<1>1. OwnHandler(h)'
  BY DEF Typed, TypeOK, Done, Goto, OwnHandler, Faithful
<1> QED
  BY <1>1, HandlerOwn DEF Typed, TypeOK, Done, Goto

LEMMA TakeOwn ==
  ASSUME Typed, Own, NEW h \in Handlers, NEW p \in Persons, Take(h, p)
  PROVE  Own'
<1>1. OwnHandler(h)'
  BY DEF Own, OwnHandler, Typed, TypeOK, Take, Goto, Faithful
<1> QED
  BY <1>1, HandlerOwn DEF Typed, TypeOK, Take, Goto

(* What the lookups find is an account of the person: by a link, or by the   *)
(* CPR number.                                                               *)
LEMMA FoundOwn ==
  ASSUME Typed, Own, NEW p \in Persons, There(p),
         NEW u \in Linked(p) \cup Correlated(p)
  PROVE  owner[u] = p /\ OwnAt(name[u], p)
  BY DEF Own, OwnLinks, OwnAt, Linked, Correlated

LEMMA FindByItsystemOwn ==
  ASSUME Typed, Own, NEW h \in Handlers, FindByItsystem(h)
  PROVE  Own'
<1>1. who[h] \in Persons
  BY DEF Typed, Busy, FindByItsystem
<1>2. CASE GiveBack(h) /\ UNCHANGED links
  BY <1>2, DoneOwn DEF GiveBack, FindByItsystem
<1>3. CASE Answered(h, "itsystem") /\ UNCHANGED <<who, dn, uuid>>
  <2>1. /\ \A g \in Handlers : g # h =>
             pc'[g] = pc[g] /\ found'[g] = found[g]
        /\ pc'[h] \in {"choose", "find"}
        /\ UNCHANGED <<ldap, imports>>
    BY <1>3 DEF Typed, TypeOK, FindByItsystem, Answered, Goto, Done, GiveBack
  <2>2. found'[h] \subseteq found[h] \cup {name[u] : u \in Linked(who[h])}
    BY <1>3 DEF Typed, TypeOK, FindByItsystem, Pass, Answered, Goto, GiveBack, Done
  <2>3. \A p \in Persons, u \in Accounts : links'[p][u] \in {0, links[p][u]}
    BY <1>1, <1>3 DEF Typed, TypeOK, FindByItsystem, Current
  <2>4. OneName' /\ \A p : There(p)' <=> There(p)
    BY <2>1, SameAccounts DEF Own
  <2>5. There(who[h]) => \A n \in found'[h] : OwnAt(n, who[h])
    BY <1>1, <2>2, FoundOwn DEF Own, OwnHandler, Faithful
  <2>6. OwnHandler(h)'
    BY <1>3, <2>1, <2>5 DEF OwnHandler, There, Exists, Faithful, OwnAt, ldap
  <2>7. \A g \in Handlers : g # h => OwnHandler(g)'
    BY <1>3, <2>1 DEF Own, OwnHandler, There, Exists, Faithful, OwnAt, ldap
  <2>8. OwnLinks'
    BY <2>1, <2>3 DEF Own, OwnLinks, There, Exists, ldap
  <2>9. \A i \in Importers : OwnImport(i)'
    BY <2>1 DEF Own, OwnImport, There, Exists, ldap, imports
  <2> QED
    BY <2>4, <2>6, <2>7, <2>8, <2>9 DEF Own
<1> QED
  BY <1>2, <1>3 DEF FindByItsystem

LEMMA FindByCprOwn ==
  ASSUME Typed, Own, NEW h \in Handlers, FindByCpr(h)
  PROVE  Own'
<1>1. who[h] \in Persons
  BY DEF Typed, Busy, FindByCpr
<1>2. found'[h] \subseteq found[h] \cup {name[u] : u \in Correlated(who[h])}
  BY DEF Typed, TypeOK, FindByCpr, Pass
<1>3. There(who[h]) => \A n \in found'[h] : OwnAt(n, who[h])
  BY <1>1, <1>2, FoundOwn DEF Own, OwnHandler, Faithful
<1>4. OwnHandler(h)'
  <2>1. pc'[h] \in {"choose", "find"} /\ UNCHANGED <<who, ldap>>
    BY DEF Typed, TypeOK, FindByCpr, Answered, Goto
  <2> QED
    BY <1>3, <2>1 DEF OwnHandler, There, Exists, Faithful, OwnAt, ldap
<1> QED
  BY <1>4, HandlerOwn DEF Typed, TypeOK, FindByCpr, Answered, Goto

(* A handler goes on, with a DN of its person's or before it has any.        *)
LEMMA GoesOnOwn ==
  ASSUME Typed, Own, NEW h \in Handlers, UNCHANGED <<ldap, links, imports, who, found>>,
         NEW place \in {"update", "name", "add", "identify", "check", "link"}, Goto(h, place),
         \A g \in Handlers : g # h => dn'[g] = dn[g] /\ uuid'[g] = uuid[g],
         There(who[h]) => /\ place \in {"update", "identify"} => OwnAt(dn'[h], who[h])
                          /\ place \in {"check", "link"} => owner[uuid'[h]] = who[h]
  PROVE  Own'
<1>1. pc'[h] = place /\ \A g \in Handlers : g # h => pc'[g] = pc[g]
  BY DEF Typed, TypeOK, Goto
<1>2. There(who[h]) => \A n \in found[h] : OwnAt(n, who[h])
  BY DEF Own, OwnHandler, Faithful
<1>3. OwnHandler(h)'
  BY <1>1, <1>2 DEF OwnHandler, There, Exists, Faithful, OwnAt, ldap
<1> QED
  BY <1>1, <1>3, HandlerOwn

LEMMA ChooseOwn ==
  ASSUME Typed, Own, NEW h \in Handlers, Choose(h)
  PROVE  Own'
<1>1. CASE Done(h)
  BY <1>1, DoneOwn DEF Choose
<1>2. ASSUME NEW n \in found[h], dn' = [dn EXCEPT ![h] = n], Goto(h, "update"),
             UNCHANGED <<queued, who, asks, found, uuid>>
      PROVE  Own'
  <2>1. /\ dn'[h] = n /\ \A g \in Handlers : g # h => dn'[g] = dn[g]
        /\ There(who[h]) => OwnAt(n, who[h])
    BY <1>2 DEF Own, OwnHandler, Faithful, Typed, TypeOK
  <2> QED
    BY <1>2, <2>1, GoesOnOwn DEF Choose
<1>3. CASE Goto(h, "name") /\ UNCHANGED <<queued, who, asks, found, dn, uuid>>
  BY <1>3, GoesOnOwn DEF Choose
<1> QED
  BY <1>1, <1>2, <1>3 DEF Choose, GiveBack

LEMMA MakeDNOwn ==
  ASSUME Typed, Own, NEW h \in Handlers, MakeDN(h)
  PROVE  Own'
<1>1. CASE GiveBack(h)
  BY <1>1, DoneOwn DEF MakeDN, GiveBack
<1>2. ASSUME NEW n \in FreeNames, dn' = [dn EXCEPT ![h] = n], Goto(h, "add"),
             UNCHANGED <<queued, who, asks, found, uuid>>
      PROVE  Own'
  <2>1. \A g \in Handlers : g # h => dn'[g] = dn[g]
    BY <1>2 DEF Typed, TypeOK
  <2> QED
    BY <1>2, <2>1, GoesOnOwn DEF MakeDN
<1> QED
  BY <1>1, <1>2 DEF MakeDN

(* The DN was free, and so is the new account's own.                         *)
LEMMA AddOwn ==
  ASSUME Typed, Own, NEW h \in Handlers, Add(h)
  PROVE  Own'
<1>1. CASE GiveBack(h) /\ UNCHANGED ldap
  BY <1>1, DoneOwn DEF Add, GiveBack
<1>2. CASE /\ At(dn[h]) = {} /\ Unused # {}
           /\ name' = [name EXCEPT ![Fresh] = dn[h]]
           /\ owner' = [owner EXCEPT ![Fresh] = who[h]]
           /\ Goto(h, "identify")
           /\ UNCHANGED <<queued, who, asks, found, dn, uuid>>
  <2>1. who[h] \in Persons /\ who[h] # None
    BY SetupAssumption DEF Typed, Busy, Add
  <2>2. /\ Fresh \in Accounts /\ owner[Fresh] = None /\ name[Fresh] = None
        /\ owner'[Fresh] = who[h] /\ name'[Fresh] = dn[h]
    BY <1>2, FreshIsUnused DEF Typed, TypeOK, Own, OneName, Exists
  <2>3. \A u \in Accounts : u # Fresh => name'[u] = name[u] /\ owner'[u] = owner[u]
    BY <1>2 DEF Typed, TypeOK
  <2>4. \A u \in Accounts : name[u] # dn[h]
    BY <1>2 DEF At
  <2>5. OneName'
    BY <2>1, <2>2, <2>3, <2>4 DEF Own, OneName, Exists
  <2>6. \A p : p # None /\ There(p)' => There(p)
    BY <2>2, <2>3 DEF There, Exists
  <2>7. \A n, p : p # None /\ OwnAt(n, p) => OwnAt(n, p)'
    BY <2>2, <2>3 DEF OwnAt
  <2>8. OwnAt(dn[h], who[h])'
    BY <1>2, <2>2 DEF OwnAt
  <2>9. ASSUME NEW g \in Handlers
        PROVE  OwnHandler(g)'
    <3>1. pc[g] # "idle" => who[g] # None
      BY SetupAssumption DEF Typed, Busy
    <3>2. pc'[g] = (IF g = h THEN "identify" ELSE pc[g])
      BY <1>2 DEF Typed, TypeOK, Goto
    <3>3. CASE pc[g] = "idle"
      <4>1. g # h /\ found'[g] = {} /\ pc'[g] = "idle"
        BY <1>2, <3>2, <3>3 DEF Own, OwnHandler, Add
      <4> QED
        BY <4>1 DEF OwnHandler, Faithful
    <3>4. ASSUME pc[g] # "idle", There(who[g])'
          PROVE  Faithful(g)'
      <4>0. There(who[g])
        BY <1>2, <2>6, <3>1, <3>4 DEF There
      <4>1. Faithful(g)
        BY <4>0 DEF Own, OwnHandler
      <4>2. \A n \in found[g] : OwnAt(n, who[g])'
        BY <1>2, <2>7, <3>1, <3>4, <4>1 DEF Faithful, OwnAt
      <4>3. pc'[g] \in {"update", "identify"} => OwnAt(dn[g], who[g])'
        BY <1>2, <2>7, <2>8, <3>1, <3>2, <3>4, <4>1 DEF Faithful, OwnAt
      <4>4. pc'[g] \in {"check", "link"} => owner'[uuid[g]] = who[g]
        BY <2>2, <2>3, <3>1, <3>2, <3>4, <4>1 DEF Faithful, Typed, Busy
      <4> QED
        BY <1>2, <4>2, <4>3, <4>4 DEF Faithful, OwnAt
    <3> QED
      BY <1>2, <3>2, <3>3, <3>4 DEF OwnHandler, There
  <2>10. ASSUME NEW i \in Importers
         PROVE  OwnImport(i)'
    <3>1. UNCHANGED imports
      BY DEF Add
    <3>2. stage[i] # "idle" =>
            importing[i] \in Accounts /\ imported[i] # None
      BY SetupAssumption DEF Typed, Busy
    <3> QED
      BY <2>2, <2>3, <2>6, <3>1, <3>2 DEF Own, OwnImport, There, imports
  <2>11. OwnLinks'
    <3>1. UNCHANGED links /\ \A p \in Persons : p # None
      BY SetupAssumption DEF Add
    <3> QED
      BY <2>2, <2>3, <2>6, <3>1 DEF Own, OwnLinks, There
  <2> QED
    BY <2>5, <2>9, <2>10, <2>11 DEF Own
<1> QED
  BY <1>1, <1>2 DEF Add

LEMMA UpdateOwn ==
  ASSUME Typed, Own, NEW h \in Handlers, Update(h)
  PROVE  Own'
<1>1. CASE GiveBack(h)
  BY <1>1, DoneOwn DEF Update, GiveBack
<1>2. CASE Goto(h, "identify") /\ UNCHANGED <<queued, who, asks, found, dn, uuid>>
  <2>1. There(who[h]) => OwnAt(dn[h], who[h])
    BY DEF Own, OwnHandler, Faithful, Update
  <2> QED
    BY <1>2, <2>1, GoesOnOwn DEF Update
<1> QED
  BY <1>1, <1>2 DEF Update

(* Who is at the DN now is who was chosen or added: nobody else can be.      *)
LEMMA IdentifyOwn ==
  ASSUME Typed, Own, NEW h \in Handlers, Identify(h)
  PROVE  Own'
<1>1. CASE Done(h)
  BY <1>1, DoneOwn DEF Identify
<1>2. ASSUME NEW u \in At(dn[h]), uuid' = [uuid EXCEPT ![h] = u], Goto(h, "check"),
             UNCHANGED <<queued, who, asks, found, dn>>
      PROVE  Own'
  <2>1. ASSUME There(who[h])
        PROVE  owner[u] = who[h]
    <3>1. PICK v \in Accounts : name[v] = dn[h] /\ owner[v] = who[h]
      BY <2>1 DEF Own, OwnHandler, Faithful, OwnAt, Identify
    <3>2. Exists(v)
      BY <2>1, <3>1 DEF There
    <3> QED
      BY <1>2, <3>1, <3>2 DEF Own, OneName, At
  <2>2. uuid'[h] = u /\ \A g \in Handlers : g # h => uuid'[g] = uuid[g]
    BY <1>2 DEF Typed, TypeOK
  <2> QED
    BY <1>2, <2>1, <2>2, GoesOnOwn DEF Identify
<1> QED
  BY <1>1, <1>2 DEF Identify, GiveBack

LEMMA CheckLinkOwn ==
  ASSUME Typed, Own, NEW h \in Handlers, CheckLink(h)
  PROVE  Own'
<1>1. CASE Done(h)
  BY <1>1, DoneOwn DEF CheckLink
<1>2. CASE Goto(h, "link") /\ UNCHANGED locals
  <2>1. There(who[h]) => owner[uuid[h]] = who[h]
    BY DEF Own, OwnHandler, Faithful, CheckLink
  <2> QED
    BY <1>2, <2>1, GoesOnOwn DEF CheckLink, locals
<1> QED
  BY <1>1, <1>2 DEF CheckLink

LEMMA CreateLinkOwn ==
  ASSUME Typed, Own, NEW h \in Handlers, CreateLink(h)
  PROVE  Own'
<1>1. who[h] \in Persons /\ uuid[h] \in Accounts
  BY DEF Typed, Busy, CreateLink
<1>2. \A p \in Persons, u \in Accounts :
        links'[p][u] = IF p = who[h] /\ u = uuid[h] THEN links[p][u] + 1 ELSE links[p][u]
  BY <1>1 DEF Typed, TypeOK, CreateLink
<1>3. UNCHANGED <<ldap, imports>>
  BY DEF CreateLink
<1>4. OneName' /\ \A p : There(p)' <=> There(p)
  BY <1>3, SameAccounts DEF Own
<1>5. There(who[h]) => owner[uuid[h]] = who[h]
  BY DEF Own, OwnHandler, Faithful, CreateLink
<1>6. OwnLinks'
  BY <1>2, <1>3, <1>4, <1>5 DEF Own, OwnLinks, ldap
<1>7. OwnHandler(h)'
  BY DEF Typed, TypeOK, CreateLink, Done, Goto, OwnHandler, Faithful
<1>8. \A g \in Handlers : g # h => OwnHandler(g)'
  BY DEF Own, OwnHandler, There, Exists, Faithful, OwnAt, Typed, TypeOK, CreateLink, Done, Goto,
         ldap
<1>9. \A i \in Importers : OwnImport(i)'
  BY <1>3 DEF Own, OwnImport, There, Exists, ldap, imports
<1> QED
  BY <1>4, <1>6, <1>7, <1>8, <1>9 DEF Own

(* An import makes links of accounts it has looked up.                       *)
LEMMA ImportOwn ==
  ASSUME Typed, Own, NEW i \in Importers, UNCHANGED <<ldap, pc, locals>>,
         \A j \in Importers : j # i =>
           stage'[j] = stage[j] /\ importing'[j] = importing[j] /\ imported'[j] = imported[j],
         stage'[i] # "idle" /\ There(imported'[i]) => owner[importing'[i]] = imported'[i],
         \A p \in Persons, u \in Accounts : There(p) /\ links'[p][u] > 0 => owner[u] = p
  PROVE  Own'
<1>1. OneName' /\ \A p : There(p)' <=> There(p)
  BY SameAccounts DEF Own
<1>2. \A g \in Handlers : OwnHandler(g)'
  BY DEF Own, OwnHandler, There, Exists, Faithful, OwnAt, ldap, locals
<1>3. \A j \in Importers : OwnImport(j)'
  BY DEF Own, OwnImport, There, Exists, ldap
<1>4. OwnLinks'
  BY <1>1 DEF OwnLinks, ldap
<1> QED
  BY <1>1, <1>2, <1>3, <1>4 DEF Own

LEMMA EndImportOwn ==
  ASSUME Typed, Own, NEW i \in Importers, UNCHANGED <<ldap, pc, locals>>, EndImport(i),
         \A p \in Persons, u \in Accounts : There(p) /\ links'[p][u] > 0 => owner[u] = p
  PROVE  Own'
<1>1. /\ stage'[i] = "idle"
      /\ \A j \in Importers : j # i =>
           stage'[j] = stage[j] /\ importing'[j] = importing[j] /\ imported'[j] = imported[j]
  BY DEF Typed, TypeOK, EndImport
<1> QED
  BY <1>1, ImportOwn

LEMMA StartImportOwn ==
  ASSUME Typed, Own, NEW i \in Importers, NEW u \in Accounts, StartImport(i, u)
  PROVE  Own'
<1>0. /\ UNCHANGED <<ldap, pc, locals>>
      /\ \A p \in Persons, v \in Accounts : There(p) /\ links'[p][v] > 0 => owner[v] = p
  BY DEF StartImport, Own, OwnLinks
<1>1. CASE UNCHANGED imports
  <2>1. OwnImport(i)
    BY DEF Own
  <2> QED
    BY <1>0, <1>1, <2>1, ImportOwn DEF imports, OwnImport
<1>2. ASSUME NEW p \in Persons, PersonsOf(u) = {p},
             imported' = [imported EXCEPT ![i] = p],
             importing' = [importing EXCEPT ![i] = u],
             stage' = [stage EXCEPT ![i] = "accounts"]
      PROVE  Own'
  <2>1. There(p) => owner[u] = p
    BY <1>2 DEF PersonsOf, Own, OwnLinks
  <2>2. /\ imported'[i] = p /\ importing'[i] = u
        /\ \A j \in Importers : j # i =>
             stage'[j] = stage[j] /\ importing'[j] = importing[j] /\ imported'[j] = imported[j]
    BY <1>2 DEF Typed, TypeOK
  <2> QED
    BY <1>0, <2>1, <2>2, ImportOwn
<1> QED
  BY <1>1, <1>2 DEF StartImport

LEMMA FindAccountsOwn ==
  ASSUME Typed, Own, NEW i \in Importers, FindAccounts(i)
  PROVE  Own'
<1>1. imported[i] \in Persons /\ importing[i] \in Accounts
  BY DEF Typed, Busy, FindAccounts
<1>2. \A p \in Persons, u \in Accounts : There(p) /\ links'[p][u] > 0 => owner[u] = p
  <2>1. \A p \in Persons, u \in Accounts : links'[p][u] \in {0, links[p][u]}
    BY <1>1 DEF FindAccounts, Current, Typed, TypeOK
  <2> QED
    BY <2>1 DEF Own, OwnLinks
<1>3. CASE EndImport(i)
  BY <1>2, <1>3, EndImportOwn DEF FindAccounts
<1>4. ASSUME NEW v \in AccountsOf(imported[i]),
             importing' = [importing EXCEPT ![i] = v],
             stage' = [stage EXCEPT ![i] = "check"],
             UNCHANGED imported
      PROVE  Own'
  <2>1. v \in Linked(imported[i]) \cup Correlated(imported[i])
    BY DEF AccountsOf, Pass
  <2>2. There(imported[i]) => owner[v] = imported[i]
    BY <1>1, <2>1, FoundOwn
  <2>3. /\ importing'[i] = v /\ imported'[i] = imported[i]
        /\ \A j \in Importers : j # i =>
             stage'[j] = stage[j] /\ importing'[j] = importing[j] /\ imported'[j] = imported[j]
    BY <1>4 DEF Typed, TypeOK
  <2> QED
    BY <1>2, <2>2, <2>3, ImportOwn DEF FindAccounts
<1> QED
  BY <1>3, <1>4 DEF FindAccounts, RetryImport

LEMMA CheckImportOwn ==
  ASSUME Typed, Own, NEW i \in Importers, CheckImport(i)
  PROVE  Own'
<1>1. imported[i] \in Persons /\ importing[i] \in Accounts /\ stage[i] = "check"
  BY DEF Typed, Busy, CheckImport
<1>2. There(imported[i]) => owner[importing[i]] = imported[i]
  BY <1>1 DEF Own, OwnImport
<1>3. CASE stage' = [stage EXCEPT ![i] = "create"] /\ UNCHANGED <<links, importing, imported>>
  BY <1>2, <1>3, ImportOwn DEF CheckImport, Typed, TypeOK, Own, OwnLinks
<1>4. ASSUME NEW v \in Accounts, EndImport(i),
             links' = [links EXCEPT ![imported[i]][v] = 0, ![imported[i]][importing[i]] = 1]
      PROVE  Own'
  <2>1. \A p \in Persons, u \in Accounts : links'[p][u] > 0 =>
          links[p][u] > 0 \/ (p = imported[i] /\ u = importing[i])
    BY <1>1, <1>4 DEF Typed, TypeOK
  <2>2. \A p \in Persons, u \in Accounts : There(p) /\ links'[p][u] > 0 => owner[u] = p
    BY <1>2, <2>1 DEF Own, OwnLinks
  <2> QED
    BY <1>4, <2>2, EndImportOwn DEF CheckImport
<1>5. CASE EndImport(i) /\ UNCHANGED links
  BY <1>5, EndImportOwn DEF CheckImport, Own, OwnLinks
<1> QED
  BY <1>3, <1>4, <1>5 DEF CheckImport, RetryImport

LEMMA CreateImportOwn ==
  ASSUME Typed, Own, NEW i \in Importers, CreateImport(i)
  PROVE  Own'
<1>1. imported[i] \in Persons /\ importing[i] \in Accounts /\ stage[i] = "create"
  BY DEF Typed, Busy, CreateImport
<1>2. There(imported[i]) => owner[importing[i]] = imported[i]
  BY <1>1 DEF Own, OwnImport
<1>3. \A p \in Persons, u \in Accounts : links'[p][u] > 0 =>
        links[p][u] > 0 \/ (p = imported[i] /\ u = importing[i])
  BY <1>1 DEF Typed, TypeOK, CreateImport
<1>4. \A p \in Persons, u \in Accounts : There(p) /\ links'[p][u] > 0 => owner[u] = p
  BY <1>2, <1>3 DEF Own, OwnLinks
<1> QED
  BY <1>4, EndImportOwn DEF CreateImport

(* Whose account is deleted is out of the question; the others have what     *)
(* they had.                                                                 *)
LEMMA DeleteOwn ==
  ASSUME Typed, Own, NEW u \in Accounts, Delete(u)
  PROVE  Own'
<1>1. /\ Exists(u) /\ owner[u] # None /\ owner' = owner /\ name'[u] = None
      /\ \A v \in Accounts : v # u => name'[v] = name[v]
  BY DEF Delete, Own, OneName, Typed, TypeOK
<1>2. OneName'
  BY <1>1 DEF Own, OneName, Exists
<1>3. \A p : There(p)' => There(p) /\ p # owner[u]
  BY <1>1 DEF There, Exists
<1>4. \A n, p : p # owner[u] /\ OwnAt(n, p) => OwnAt(n, p)'
  BY <1>1 DEF OwnAt
<1>5. /\ links' = links /\ pc' = pc /\ who' = who /\ found' = found /\ dn' = dn
      /\ uuid' = uuid /\ UNCHANGED imports
  BY DEF Delete, locals
<1>6. ASSUME NEW h \in Handlers
      PROVE  OwnHandler(h)'
  <2>1. OwnHandler(h)
    BY DEF Own
  <2>2. There(who[h])' => Faithful(h)'
    <3> SUFFICES ASSUME There(who[h])' PROVE Faithful(h)'
      OBVIOUS
    <3>1. Faithful(h) /\ who[h] # owner[u]
      BY <1>3, <1>5, <2>1 DEF OwnHandler, There
    <3>2. \A n \in found[h] : OwnAt(n, who[h])'
      BY <1>4, <1>5, <3>1 DEF Faithful, OwnAt
    <3>3. ASSUME pc[h] \in {"update", "identify"}
          PROVE  OwnAt(dn[h], who[h])'
      <4>1. OwnAt(dn[h], who[h])
        BY <3>1, <3>3 DEF Faithful
      <4> QED
        BY <1>4, <1>5, <3>1, <4>1 DEF OwnAt
    <3> QED
      BY <1>1, <1>5, <3>1, <3>2, <3>3 DEF Faithful, OwnAt
  <2> QED
    BY <1>5, <2>1, <2>2 DEF OwnHandler
<1>7. \A i \in Importers : OwnImport(i)'
  BY <1>1, <1>3, <1>5 DEF Own, OwnImport, There, imports
<1>8. OwnLinks'
  BY <1>1, <1>3, <1>5 DEF Own, OwnLinks, There
<1> QED
  BY <1>2, <1>6, <1>7, <1>8 DEF Own

LEMMA NextOwn ==
  ASSUME Typed, Own, [Next]_vars
  PROVE  Own'
<1>1. CASE UNCHANGED <<ldap, links, imports, pc, locals>>
  BY <1>1 DEF Own, OneName, OwnLinks, OwnHandler, OwnImport, There, Faithful, OwnAt, Exists, ldap,
              locals, imports
<1>2. ASSUME NEW h \in Handlers, Fail(h)
      PROVE  Own'
  BY <1>2, DoneOwn DEF Fail, GiveBack
<1>3. ASSUME NEW i \in Importers, FailImport(i)
      PROVE  Own'
  BY <1>3, EndImportOwn DEF FailImport, RetryImport, Own, OwnLinks
<1>4. UNCHANGED vars \/ (\E p \in Persons : ChangePerson(p)) =>
        UNCHANGED <<ldap, links, imports, pc, locals>>
  BY DEF vars, ChangePerson, ldap, imports, locals
<1> QED
  BY <1>1, <1>2, <1>3, <1>4, StepKinds, TakeOwn, FindByItsystemOwn, FindByCprOwn,
     ChooseOwn, MakeDNOwn, AddOwn, UpdateOwn, IdentifyOwn, CheckLinkOwn, CreateLinkOwn,
     StartImportOwn, FindAccountsOwn, CheckImportOwn, CreateImportOwn, DeleteOwn

LEMMA InitOwn == Init => Own
  BY SetupAssumption DEF Init, Own, OneName, OwnLinks, OwnHandler, OwnImport, Faithful, Exists

(* As long as accounts are not deleted, nobody is linked to the account of   *)
(* another: whichever names persons compete for, however many handlers and   *)
(* importers there are, and whether or not they take turns.                  *)
THEOREM NeverAnothers == Spec => []LinkedToOwn
<1>1. Typed /\ Own /\ [Next]_vars => (Typed /\ Own)'
  BY NextTyped, NextOwn
<1>2. Own => LinkedToOwn
  BY SetupAssumption DEF Own, OwnLinks, There, LinkedToOwn
<1> QED
  BY <1>1, <1>2, InitTyped, InitOwn, PTL DEF Spec

-----------------------------------------------------------------------------
(* At rest a person is served.                                               *)

(* The steps of a handler.                                                   *)
HandlerActs(h) ==
  \/ \E p \in Persons : Take(h, p)
  \/ FindByItsystem(h) \/ FindByCpr(h) \/ Choose(h) \/ MakeDN(h)
  \/ Add(h) \/ Update(h) \/ Identify(h) \/ CheckLink(h) \/ CreateLink(h) \/ Fail(h)

(* A person whose account is there and is linked.                            *)
Joined(p) == \E u \in Accounts : Exists(u) /\ owner[u] = p /\ links[p][u] = 1

(* A handler that is done with its person, and has not given the event back, *)
(* has found the link or made it.                                            *)
LEMMA EndsJoined ==
  ASSUME LinkSystem, Typed, StillUnlinked, Own, UNCHANGED settings,
         NEW h \in Handlers, HandlerActs(h), NEW p \in MayCreate, who[h] = p, There(p)',
         who'[h] # p, p \notin queued', ~settings.imports, ~settings.discriminates
  PROVE  Joined(p)'
<1>1. p \in Persons /\ p # None
  BY SetupAssumption
<1>2. pc[h] # "idle"
  BY <1>1 DEF Typed, Busy
<1>3. ~GiveBack(h)
  BY DEF GiveBack
<1>4. (CheckLink(h) /\ Done(h)) \/ CreateLink(h)
  <2>1. ~\E q \in Persons : Take(h, q)
    BY <1>2 DEF Take
  <2>2. CASE FindByItsystem(h) \/ FindByCpr(h) \/ MakeDN(h) \/ Add(h) \/ Update(h) \/ Fail(h)
    BY <1>3, <2>2 DEF FindByItsystem, FindByCpr, MakeDN, Add, Update, Fail
  <2>3. CASE Choose(h)
    BY <1>3, <2>3 DEF Choose
  <2>4. CASE Identify(h)
    BY <1>3, <2>4 DEF Identify
  <2>5. CASE CheckLink(h)
    BY <2>5 DEF CheckLink, locals
  <2> QED
    BY <2>1, <2>2, <2>3, <2>4, <2>5 DEF HandlerActs
<1>5. UNCHANGED ldap /\ pc[h] \in {"check", "link"}
  BY <1>4 DEF CheckLink, CreateLink
<1>6. There(p)
  BY <1>5, SameAccounts
<1>7. uuid[h] \in Accounts /\ owner[uuid[h]] = p
  BY <1>5, <1>6 DEF Typed, Busy, Own, OwnHandler, Faithful
<1>8. Exists(uuid[h]) /\ name'[uuid[h]] = name[uuid[h]] /\ owner'[uuid[h]] = p
  BY <1>5, <1>6, <1>7 DEF There, ldap
<1>9. links'[p][uuid[h]] = 1
  <2>1. CASE CheckLink(h) /\ Done(h)
    <3>1. links[p][uuid[h]] > 0 /\ links' = links
      BY <1>2, <2>1 DEF CheckLink, Done, Goto, Typed, TypeOK
    <3>2. links[p][uuid[h]] <= 1 /\ links[p][uuid[h]] \in Nat
      BY <1>1, <1>7 DEF StillUnlinked, Typed, TypeOK
    <3> QED
      BY <3>1, <3>2
  <2>2. CASE CreateLink(h)
    <3>1. links[p][uuid[h]] = 0
      BY <2>2 DEF StillUnlinked, CreateLink
    <3> QED
      BY <1>1, <1>7, <2>2, <3>1 DEF CreateLink, Typed, TypeOK
  <2> QED
    BY <1>4, <2>1, <2>2
<1> QED
  BY <1>7, <1>8, <1>9 DEF Joined, Exists

(* A handler at work for somebody else leaves a person as it is.             *)
LEMMA OthersJoined ==
  ASSUME Typed, NEW h \in Handlers, HandlerActs(h), NEW p \in Persons, who[h] # p, Joined(p)
  PROVE  Joined(p)'
<1>1. PICK u \in Accounts : Exists(u) /\ owner[u] = p /\ links[p][u] = 1
  BY DEF Joined
<1>2. links'[p][u] = links[p][u]
  <2>1. CASE FindByItsystem(h)
    <3>1. who[h] \in Persons
      BY <2>1 DEF Typed, Busy, FindByItsystem
    <3> QED
      BY <2>1, <3>1 DEF FindByItsystem, Typed, TypeOK
  <2>2. CASE CreateLink(h)
    <3>1. who[h] \in Persons
      BY <2>2 DEF Typed, Busy, CreateLink
    <3> QED
      BY <2>2, <3>1 DEF CreateLink, Typed, TypeOK
  <2>3. CASE ~FindByItsystem(h) /\ ~CreateLink(h)
    BY <2>3 DEF HandlerActs, Take, FindByCpr, Choose, MakeDN, Add, Update, Identify, CheckLink, Fail
  <2> QED
    BY <2>1, <2>2, <2>3
<1>3. name'[u] = name[u] /\ owner'[u] = owner[u]
  <2>1. CASE UNCHANGED ldap
    BY <2>1 DEF ldap
  <2>2. CASE ~UNCHANGED ldap
    <3>1. /\ Unused # {} /\ name' = [name EXCEPT ![Fresh] = dn[h]]
          /\ owner' = [owner EXCEPT ![Fresh] = who[h]]
      BY <2>2 DEF HandlerActs, Take, FindByItsystem, FindByCpr, Choose, MakeDN, Add, Update,
                  Identify, CheckLink, CreateLink, Fail
    <3>2. u # Fresh
      BY <1>1, <3>1, FreshIsUnused, SetupAssumption
    <3> QED
      BY <3>1, <3>2 DEF Typed, TypeOK
  <2> QED
    BY <2>1, <2>2
<1> QED
  BY <1>1, <1>2, <1>3 DEF Joined, Exists

(* Who handles whom, and what waits, of all but one handler.                 *)
LEMMA ActsAlone ==
  ASSUME Typed, NEW h \in Handlers, HandlerActs(h)
  PROVE  /\ \A g \in Handlers : g # h => who'[g] = who[g]
         /\ \A p \in queued : p \in queued' \/ Take(h, p)
         /\ \A p \in Persons : Take(h, p) => who'[h] = p
<1>1. \A g \in Handlers : g # h => who'[g] = who[g]
  BY DEF HandlerActs, Take, FindByItsystem, FindByCpr, Choose, MakeDN, Add, Update, Identify,
         CheckLink, CreateLink, Fail, GiveBack, Done, Answered, locals, Typed, TypeOK
<1>2. \A p \in queued : p \in queued' \/ Take(h, p)
  <2>1. CASE \E q \in Persons : Take(h, q)
    BY <2>1 DEF Take, Typed, TypeOK
  <2>2. CASE ~\E q \in Persons : Take(h, q)
    <3>1. queued' = queued \/ GiveBack(h)
      BY <2>2 DEF HandlerActs, FindByItsystem, FindByCpr, Choose, MakeDN, Add, Update, Identify,
                  CheckLink, CreateLink, Fail, locals
    <3> QED
      BY <3>1 DEF GiveBack
  <2> QED
    BY <2>1, <2>2
<1>3. \A p \in Persons : Take(h, p) => who'[h] = p
  BY DEF Take, Typed, TypeOK
<1> QED
  BY <1>1, <1>2, <1>3

LEMMA HandlerServed ==
  ASSUME LinkSystem, Typed, StillUnlinked, Own, RestsServed, UNCHANGED settings,
         NEW h \in Handlers, HandlerActs(h), NEW p \in MayCreate, AtRest(p)', There(p)',
         There(p), ~settings.imports, ~settings.discriminates
  PROVE  Joined(p)'
<1>1. p \in Persons
  BY SetupAssumption
<1>2. p \notin queued' /\ \A g \in Handlers : who'[g] # p
  BY DEF AtRest
<1>3. CASE who[h] = p
  BY <1>2, <1>3, EndsJoined
<1>4. CASE who[h] # p
  <2>1. AtRest(p)
    BY <1>1, <1>2, <1>4, ActsAlone DEF AtRest
  <2>2. ServedNow(p)
    BY <2>1 DEF RestsServed
  <2>3. Joined(p)
    BY <2>2 DEF ServedNow, Joined, There
  <2> QED
    BY <1>1, <1>4, <2>3, OthersJoined
<1> QED
  BY <1>3, <1>4

LEMMA NextServed ==
  Exclusive /\ LinkSystem /\ Typed /\ StillUnlinked /\ Own /\ RestsServed /\ [Next]_vars
    => RestsServed'
<1> SUFFICES ASSUME Exclusive, LinkSystem, Typed, StillUnlinked, Own, RestsServed, [Next]_vars,
                    NEW p \in MayCreate, AtRest(p)', There(p)', ~settings'.imports,
                    ~settings'.discriminates
             PROVE  Joined(p)'
  BY DEF RestsServed, ServedNow, Joined, There
<1>1. UNCHANGED settings /\ ~settings.imports /\ ~settings.discriminates /\ p \in Persons
      /\ p # None
  BY StepKinds, SetupAssumption
<1>2. CASE \E h \in Handlers : HandlerActs(h)
  <2>1. PICK h \in Handlers : HandlerActs(h)
    BY <1>2
  <2>2. There(p)
    <3>1. CASE UNCHANGED ldap
      BY <3>1, SameAccounts
    <3>2. CASE ~UNCHANGED ldap
      <4>1. /\ Unused # {} /\ name' = [name EXCEPT ![Fresh] = dn[h]]
            /\ owner' = [owner EXCEPT ![Fresh] = who[h]]
        BY <2>1, <3>2 DEF HandlerActs, Take, FindByItsystem, FindByCpr, Choose, MakeDN, Add, Update,
                    Identify, CheckLink, CreateLink, Fail
      <4>2. \A u \in Accounts : u # Fresh => name'[u] = name[u] /\ owner'[u] = owner[u]
        BY <4>1 DEF Typed, TypeOK
      <4> QED
        BY <1>1, <4>1, <4>2, FreshIsUnused DEF There, Exists
    <3> QED
      BY <3>1, <3>2
  <2> QED
    BY <1>1, <2>1, <2>2, HandlerServed
<1>3. CASE /\ UNCHANGED <<links, who, owner>> /\ queued \subseteq queued'
           /\ \A u \in Accounts : name'[u] = name[u] \/ name'[u] = None
  <2>1. There(p)
    BY <1>3 DEF There, Exists
  <2>2. AtRest(p)
    BY <1>3 DEF AtRest
  <2>3. Joined(p)
    BY <1>1, <2>1, <2>2 DEF RestsServed, ServedNow, Joined, There
  <2> QED
    BY <1>3, <2>3 DEF Joined, There, Exists
<1>4. ~\E i \in Importers :
         \/ \E u \in Accounts : StartImport(i, u)
         \/ FindAccounts(i) \/ CheckImport(i) \/ CreateImport(i) \/ FailImport(i)
  BY <1>1 DEF StillUnlinked, StartImport, FindAccounts, CheckImport, CreateImport, FailImport
<1>5. CASE \E u \in Accounts : Delete(u)
  BY <1>3, <1>5 DEF Delete, locals, Typed, TypeOK
<1>6. CASE UNCHANGED vars \/ \E q \in Persons : ChangePerson(q)
  BY <1>3, <1>6 DEF ChangePerson, locals, ldap, vars
<1> QED
  BY <1>2, <1>4, <1>5, <1>6, StepKinds DEF HandlerActs

(* While handlers of a person take turns, whoever may have an account has    *)
(* one, with its link, once no event of the person waits and no handler is   *)
(* at work for the person; but for the exceptions of Served.                 *)
THEOREM ServedAtRest == Exclusive /\ LinkSystem => (Spec => []RestsServed)
<1> SUFFICES ASSUME Exclusive, LinkSystem PROVE Spec => []RestsServed
  OBVIOUS
<1>1. Init => Typed /\ Alone /\ StillUnlinked /\ Own /\ RestsServed
  <2>1. Init => RestsServed
    BY SetupAssumption DEF Init, RestsServed, AtRest
  <2> QED
    BY <2>1, InitAlone, InitOwn DEF Init, StillUnlinked
<1>2. Typed /\ Alone /\ StillUnlinked /\ Own /\ RestsServed /\ [Next]_vars
        => (Typed /\ Alone /\ StillUnlinked /\ Own /\ RestsServed)'
  BY NextTyped, NextAlone, NextUnlinked, NextOwn, NextServed
<1> QED
  BY <1>1, <1>2, PTL DEF Spec
=============================================================================
