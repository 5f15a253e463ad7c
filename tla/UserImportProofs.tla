-------------------------- MODULE UserImportProofs --------------------------
(* What holds of UserImport for every number of handlers and accounts.       *)
EXTENDS UserImport, TLAPS

(* The steps, for the case analyses below.                                   *)
LEMMA StepKinds ==
  ASSUME [Next]_vars
  PROVE  \/ UNCHANGED vars
         \/ \E h \in Handlers, u \in Accounts : Start(h, u)
         \/ \E h \in Handlers :
              \/ FindEmployee(h) \/ ChooseAccount(h) \/ Reread(h) \/ Fetch(h)
              \/ Create(h) \/ Terminate(h) \/ Edit(h) \/ Fail(h)
         \/ \E u \in Accounts : Delete(u)
         \/ \E u \in Accounts : \E entry \in Entries[u] : Change(u, entry)
         \/ \E k \in Keys, e \in Uuids : Note(k, e)
  BY DEF Next, HandlerStep

-----------------------------------------------------------------------------
(* Type correctness, with what is set where a handler stands.                *)

LEMMA MoObjectTyped ==
  ASSUME NEW value \in Values, NEW ends \in Dates, NEW note \in {"blank", "noted"}
  PROVE  MoObject(value, ends, note) \in Object
  BY DEF MoObject, Object

LEMMA InitTyped == Init => Typed
<1> SUFFICES ASSUME Init PROVE Typed
  OBVIOUS
<1>1. ldap \in [Accounts -> Entry \cup {None}]
  BY DomainAssumption DEF Init
<1>2. /\ mo \in [Keys -> [Uuids -> Object \cup {None}]]
      /\ addresses \in [Uuids -> Nat] /\ noted \subseteq Keys \X Uuids
  BY DEF Init
<1>3. changes \in 0 .. MaxChanges /\ faults \in 0 .. MaxFaults
  BY BoundAssumption DEF Init
<1> QED
  BY <1>1, <1>2, <1>3 DEF Init, Typed, TypeOK, LocalsSet, Busy, Keys

(* The locals of handlers are typed, whatever has become of the rest.        *)
LocalsTyped ==
  /\ pc \in [Handlers -> {"idle", "employee", "accounts", "reread", "fetch",
                          "create", "terminate", "edit"}]
  /\ subject \in [Handlers -> Accounts \cup {None}]
  /\ source \in [Handlers -> Accounts \cup {None}]
  /\ read \in [Handlers -> Entry \cup {None}]
  /\ employee \in [Handlers -> Uuids \cup {None}]
  /\ key \in [Handlers -> Keys]
  /\ fetched \in [Handlers -> Object \cup {None}]

(* Objects stay where they are.                                              *)
StoreGrows ==
  \A k \in Keys, e \in Uuids : mo[k][e] \in Object => mo'[k][e] \in Object

(* Any write of an object in MO.                                             *)
LEMMA PutTyped ==
  ASSUME Typed, NEW k \in Keys, NEW e \in Uuids, NEW object \in Object,
         mo' = mo \/ mo' = [mo EXCEPT ![k][e] = object]
  PROVE  mo' \in [Keys -> [Uuids -> Object \cup {None}]] /\ StoreGrows
<1>1. CASE mo' = mo
  BY <1>1 DEF Typed, TypeOK, StoreGrows
<1>2. CASE mo' = [mo EXCEPT ![k][e] = object]
  <2>1. \A l \in Keys, d \in Uuids :
          mo'[l][d] = IF l = k /\ d = e THEN object ELSE mo[l][d]
    BY <1>2 DEF Typed, TypeOK
  <2>2. mo' \in [Keys -> [Uuids -> Object \cup {None}]]
    BY <1>2 DEF Typed, TypeOK
  <2> QED
    BY <2>1, <2>2 DEF StoreGrows
<1> QED
  BY <1>1, <1>2

(* A handler that is done, or gives its event back, has nothing set.         *)
LEMMA DoneTyped ==
  ASSUME Typed, NEW h \in Handlers, Done(h), StoreGrows
  PROVE  LocalsTyped' /\ LocalsSet'
<1>1. LocalsTyped'
  BY DEF Typed, TypeOK, LocalsTyped, Done, Goto, Keys
<1>2. ASSUME NEW g \in Handlers, g # h
      PROVE  /\ pc'[g] = pc[g] /\ subject'[g] = subject[g] /\ source'[g] = source[g]
             /\ read'[g] = read[g] /\ employee'[g] = employee[g]
             /\ key'[g] = key[g] /\ fetched'[g] = fetched[g]
  BY <1>2 DEF Typed, TypeOK, Done, Goto
<1>3. pc'[h] = "idle"
  BY DEF Typed, TypeOK, Done, Goto
<1>4. LocalsSet'
  BY <1>2, <1>3 DEF Typed, TypeOK, LocalsSet, Busy, StoreGrows
<1> QED
  BY <1>1, <1>4

(* A handler goes on to the next mapping, or is done.                        *)
LEMMA NextKeyTyped ==
  ASSUME Typed, NEW h \in Handlers, NextKey(h), StoreGrows,
         pc[h] \in {"create", "edit"}
  PROVE  LocalsTyped' /\ LocalsSet'
<1>1. CASE key[h] = "Address" /\ Done(h)
  BY <1>1, DoneTyped
<1>2. CASE key[h] = "Employee"
  <2> USE <1>2
  <2>1. LocalsTyped'
    BY DEF Typed, TypeOK, LocalsTyped, NextKey, Goto, Keys
  <2>2. LocalsSet'
    BY DEF Typed, TypeOK, LocalsSet, NextKey, Goto, Busy, StoreGrows
  <2> QED
    BY <2>1, <2>2
<1> QED
  BY <1>1, <1>2 DEF NextKey

LEMMA StartTyped ==
  ASSUME Typed, NEW h \in Handlers, NEW u \in Accounts, Start(h, u)
  PROVE  Typed'
<1>1. overlapped' \in BOOLEAN
  BY DEF Typed, TypeOK, Start
<1>2. CASE ldap[u] = None
  BY <1>1, <1>2 DEF Typed, TypeOK, LocalsSet, Start, Busy, locals, store
<1>3. CASE ldap[u] # None
  <2>1. ldap[u] \in Entry
    BY <1>3 DEF Typed, TypeOK
  <2>2. LocalsTyped'
    <3>1. /\ subject' = [subject EXCEPT ![h] = u]
          /\ source' = [source EXCEPT ![h] = u]
          /\ read' = [read EXCEPT ![h] = ldap[u]]
          /\ pc' = [pc EXCEPT ![h] = "employee"]
          /\ employee' = employee /\ key' = key /\ fetched' = fetched
      BY <1>3 DEF Start, Goto
    <3>2. LocalsTyped
      BY DEF Typed, TypeOK, LocalsTyped
    <3> QED
      BY <2>1, <3>1, <3>2 DEF LocalsTyped
  <2>3. LocalsSet'
    BY <1>3, <2>1 DEF Typed, TypeOK, LocalsSet, Start, Goto, Busy, store
  <2> QED
    BY <1>1, <2>2, <2>3 DEF Typed, TypeOK, LocalsTyped, Start, store
<1> QED
  BY <1>2, <1>3

LEMMA FindEmployeeTyped ==
  ASSUME Typed, NEW h \in Handlers, FindEmployee(h)
  PROVE  Typed'
<1>1. CASE Done(h) /\ UNCHANGED announced
  BY <1>1, DoneTyped
     DEF Typed, TypeOK, LocalsTyped, StoreGrows, FindEmployee, store, history
<1>2. CASE GiveBack(h)
  BY <1>2, DoneTyped
     DEF Typed, TypeOK, LocalsTyped, LocalsSet, Busy, StoreGrows, FindEmployee,
         GiveBack, store, history
<1>3. ASSUME NEW e \in Uuids, employee' = [employee EXCEPT ![h] = e],
             Goto(h, "accounts"),
             UNCHANGED <<announced, subject, source, read, key, fetched>>
      PROVE  Typed'
  BY <1>3 DEF Typed, TypeOK, LocalsSet, Busy, FindEmployee, Goto, store, history
<1> QED
  BY <1>1, <1>2, <1>3 DEF FindEmployee

LEMMA ChooseAccountTyped ==
  ASSUME Typed, NEW h \in Handlers, ChooseAccount(h)
  PROVE  Typed'
<1>1. CASE Done(h) /\ UNCHANGED announced
  BY <1>1, DoneTyped
     DEF Typed, TypeOK, LocalsTyped, StoreGrows, ChooseAccount, store, history
<1>2. CASE GiveBack(h)
  BY <1>2, DoneTyped
     DEF Typed, TypeOK, LocalsTyped, LocalsSet, Busy, StoreGrows, ChooseAccount,
         GiveBack, store, history
<1>3. ASSUME NEW u \in Accounts, source' = [source EXCEPT ![h] = u],
             Goto(h, IF u = subject[h] THEN "fetch" ELSE "reread"),
             UNCHANGED <<announced, subject, read, employee, key, fetched>>
      PROVE  Typed'
  BY <1>3 DEF Typed, TypeOK, LocalsSet, Busy, ChooseAccount, Goto, store, history
<1> QED
  BY <1>1, <1>2, <1>3 DEF ChooseAccount

LEMMA RereadTyped ==
  ASSUME Typed, NEW h \in Handlers, Reread(h)
  PROVE  Typed'
<1>1. CASE GiveBack(h)
  BY <1>1, DoneTyped
     DEF Typed, TypeOK, LocalsTyped, LocalsSet, Busy, StoreGrows, Reread,
         GiveBack, store, history
<1>2. CASE ~GiveBack(h)
  <2>1. ldap[source[h]] \in Entry
    BY <1>2 DEF Typed, TypeOK, LocalsSet, Busy, Reread
  <2> QED
    BY <1>2, <2>1
       DEF Typed, TypeOK, LocalsSet, Busy, Reread, Goto, store, history
<1> QED
  BY <1>1, <1>2

LEMMA FetchTyped ==
  ASSUME Typed, NEW h \in Handlers, Fetch(h)
  PROVE  Typed'
<1>1. CASE GiveBack(h) /\ UNCHANGED mixed
  BY <1>1, DoneTyped
     DEF Typed, TypeOK, LocalsTyped, LocalsSet, Busy, StoreGrows, Fetch,
         GiveBack, store
<1>2. CASE ~(GiveBack(h) /\ UNCHANGED mixed)
  <2> DEFINE object == mo[key[h]][employee[h]]
  <2>1. employee[h] \in Uuids /\ key[h] \in Keys /\ object \in Object \cup {None}
    <3>1. pc[h] = "fetch"
      BY DEF Fetch
    <3> QED
      BY SMTT(30), <3>1 DEF Typed, TypeOK, LocalsSet
  <2>2. /\ fetched' = [fetched EXCEPT ![h] = object]
        /\ \E place \in {"create", "terminate", "edit"} :
             /\ place # "create" => object # None
             /\ pc' = [pc EXCEPT ![h] = place]
        /\ mixed' \in BOOLEAN
        /\ UNCHANGED <<announced, subject, source, read, employee, key>>
    BY <1>2 DEF Typed, TypeOK, Fetch, Goto
  <2> HIDE DEF object
  <2>3. LocalsSet'
    BY <2>1, <2>2 DEF Typed, TypeOK, LocalsSet, Busy, Fetch, store, object
  <2> QED
    BY <2>1, <2>2, <2>3 DEF Typed, TypeOK, Fetch, store
<1> QED
  BY <1>1, <1>2

LEMMA CreateTyped ==
  ASSUME Typed, NEW h \in Handlers, Create(h)
  PROVE  Typed'
<1>1. /\ employee[h] \in Uuids /\ key[h] \in Keys
      /\ MoObject(read[h].value, EndOf(h), "blank") \in Object
  BY MoObjectTyped DEF Typed, TypeOK, LocalsSet, Busy, Create, EndOf, Entry, Dates
<1>2. mo' \in [Keys -> [Uuids -> Object \cup {None}]] /\ StoreGrows
  BY <1>1, PutTyped DEF Create, store
<1>3. LocalsTyped' /\ LocalsSet'
  BY <1>2, NextKeyTyped DEF Create
<1>4. addresses' \in [Uuids -> Nat]
  BY <1>1 DEF Typed, TypeOK, Create, store
<1>5. UNCHANGED <<settings, ldap, announced, changes, faults, noted, crossed,
                  overlapped, mixed>>
  BY DEF Create, history
<1> QED
  BY <1>2, <1>3, <1>4, <1>5 DEF Typed, TypeOK, LocalsTyped

LEMMA TerminateTyped ==
  ASSUME Typed, NEW h \in Handlers, Terminate(h)
  PROVE  Typed'
<1>1. /\ employee[h] \in Uuids /\ key[h] \in Keys
      /\ MoObject(mo[key[h]][employee[h]].value, EndOf(h),
                  mo[key[h]][employee[h]].note) \in Object
  BY ZenonT(60), MoObjectTyped
     DEF Typed, TypeOK, LocalsSet, Busy, Terminate, EndOf, Entry, Object, Dates
<1>2. mo' \in [Keys -> [Uuids -> Object \cup {None}]] /\ StoreGrows
  BY <1>1, PutTyped DEF Terminate
<1> QED
  BY <1>1, <1>2
     DEF Typed, TypeOK, LocalsSet, Busy, Terminate, Goto, StoreGrows, locals, history

\* What an edit leaves in MO.
Edited(h) ==
  MoObject(read[h].value, Until(EndOf(h), mo[key[h]][employee[h]].ends),
           fetched[h].note)

LEMMA EditTyped ==
  ASSUME Typed, NEW h \in Handlers, Edit(h)
  PROVE  Typed'
<1> DEFINE new == Edited(h)
<1>1. /\ employee[h] \in Uuids /\ key[h] \in Keys /\ read[h].value \in Values
      /\ fetched[h] \in Object /\ EndOf(h) \in Dates
      /\ mo[key[h]][employee[h]].ends \in Dates
  BY DEF Typed, TypeOK, LocalsSet, Busy, Edit, EndOf, Entry, Object, Dates
<1>6. new \in Object
  BY <1>1 DEF Edited, MoObject, Until, Object, Dates
<1>7. UNCHANGED mo \/ mo' = [mo EXCEPT ![key[h]][employee[h]] = new]
  BY DEF Edit, Edited, MoObject
<1> HIDE DEF new
<1>2. mo' \in [Keys -> [Uuids -> Object \cup {None}]] /\ StoreGrows
  BY <1>1, <1>6, <1>7, PutTyped DEF Edit
<1>3. LocalsTyped' /\ LocalsSet'
  BY <1>2, NextKeyTyped DEF Edit
<1>4. addresses' \in [Uuids -> Nat]
  BY DEF Typed, TypeOK, Edit
<1>5. UNCHANGED <<settings, ldap, announced, changes, faults, noted, crossed,
                  overlapped, mixed>>
  BY DEF Edit, history
<1> QED
  BY <1>2, <1>3, <1>4, <1>5 DEF Typed, TypeOK, LocalsTyped

LEMMA FailTyped ==
  ASSUME Typed, NEW h \in Handlers, Fail(h)
  PROVE  Typed'
  BY DoneTyped, BoundAssumption
     DEF Typed, TypeOK, LocalsTyped, LocalsSet, Busy, StoreGrows, Fail,
         GiveBack, store, history

LEMMA OutsideTyped ==
  ASSUME Typed
  PROVE  /\ \A u \in Accounts : Delete(u) => Typed'
         /\ \A u \in Accounts : \A entry \in Entries[u] : Change(u, entry) => Typed'
         /\ \A k \in Keys, e \in Uuids : Note(k, e) => Typed'
<1>1. ASSUME NEW u \in Accounts, Delete(u) PROVE Typed'
  BY <1>1, BoundAssumption
     DEF Typed, TypeOK, LocalsSet, Busy, Delete, store, locals, history
<1>2. ASSUME NEW u \in Accounts, NEW entry \in Entries[u], Change(u, entry)
      PROVE  Typed'
  <2>1. entry \in Entry
    BY DomainAssumption
  <2> QED
    BY <1>2, <2>1, BoundAssumption
       DEF Typed, TypeOK, LocalsSet, Busy, Change, store, locals, history
<1>3. ASSUME NEW k \in Keys, NEW e \in Uuids, Note(k, e) PROVE Typed'
  <2>1. MoObject(mo[k][e].value, mo[k][e].ends, "noted") \in Object
    BY <1>3, MoObjectTyped DEF Typed, TypeOK, Note, Object
  <2>2. mo' \in [Keys -> [Uuids -> Object \cup {None}]] /\ StoreGrows
    BY <1>3, <2>1, PutTyped DEF Note
  <2> QED
    BY <1>3, <2>2
       DEF Typed, TypeOK, LocalsSet, Busy, Note, StoreGrows, locals
<1> QED
  BY <1>1, <1>2, <1>3

LEMMA NextTyped == Typed /\ [Next]_vars => Typed'
<1> SUFFICES ASSUME Typed, [Next]_vars PROVE Typed'
  OBVIOUS
<1>1. CASE UNCHANGED vars
  BY <1>1 DEF vars, Typed, TypeOK, LocalsSet, Busy
<1> QED
  BY <1>1, StepKinds, StartTyped, FindEmployeeTyped, ChooseAccountTyped,
     RereadTyped, FetchTyped, CreateTyped, TerminateTyped, EditTyped, FailTyped,
     OutsideTyped

(* Every variable keeps its type, and a handler that imports has an account, *)
(* what it read of it, an employee, and the object it is to edit.            *)
THEOREM TypeCorrect == Spec => []TypeOK
<1>1. Typed => TypeOK
  BY DEF Typed
<1> QED
  BY <1>1, InitTyped, NextTyped, PTL DEF Spec

-----------------------------------------------------------------------------
(* What a step of one handler leaves alone in the others, and in itself.     *)

HandlerSteps(h) ==
  \/ \E u \in Accounts : Start(h, u)
  \/ FindEmployee(h) \/ ChooseAccount(h) \/ Reread(h) \/ Fetch(h)
  \/ Create(h) \/ Terminate(h) \/ Edit(h) \/ Fail(h)

LEMMA OthersKeep ==
  ASSUME Typed, NEW h \in Handlers, HandlerSteps(h), NEW g \in Handlers, g # h
  PROVE  /\ pc'[g] = pc[g] /\ source'[g] = source[g] /\ key'[g] = key[g]
         /\ employee'[g] = employee[g] /\ fetched'[g] = fetched[g]
  BY DEF Typed, TypeOK, HandlerSteps, Start, FindEmployee, ChooseAccount, Reread,
         Fetch, Create, Terminate, Edit, Fail, GiveBack, NextKey, Done, Goto, locals

(* Where a handler goes, and with what.                                      *)
LEMMA Moves ==
  ASSUME Typed, NEW h \in Handlers, HandlerSteps(h)
  PROVE  \/ pc'[h] = "idle"
         \/ pc'[h] = "employee" /\ ~Busy(h) /\ \E u \in Accounts : Start(h, u)
         \/ pc[h] = "employee" /\ pc'[h] = "accounts" /\ FindEmployee(h)
         \/ /\ pc'[h] \in {"reread", "fetch"}
            /\ pc[h] \notin {"idle", "employee"} /\ employee'[h] = employee[h]
         \/ /\ pc[h] = "fetch" /\ Fetch(h)
            /\ pc'[h] \in {"create", "terminate", "edit"}
            /\ employee'[h] = employee[h] /\ key'[h] = key[h]
            /\ fetched'[h] = mo[key[h]][employee[h]]
            /\ pc'[h] = "create" <=> fetched'[h] = None
         \/ /\ pc[h] = "terminate" /\ pc'[h] = "edit" /\ Terminate(h)
            /\ employee'[h] = employee[h] /\ key'[h] = key[h]
            /\ fetched'[h] = fetched[h]
<1>1. ASSUME NEW u \in Accounts, Start(h, u)
      PROVE  pc'[h] = "idle" \/ (pc'[h] = "employee" /\ ~Busy(h))
  BY <1>1 DEF Typed, TypeOK, Start, Busy, Goto
<1>2. CASE FindEmployee(h)
  BY <1>2 DEF Typed, TypeOK, FindEmployee, GiveBack, Done, Goto
<1>3. CASE ChooseAccount(h) \/ Reread(h)
  BY <1>3 DEF Typed, TypeOK, ChooseAccount, Reread, GiveBack, Done, Goto
<1>4. CASE Fetch(h)
  BY <1>4 DEF Typed, TypeOK, Fetch, GiveBack, Done, Goto
<1>5. CASE Create(h) \/ Edit(h)
  BY <1>5 DEF Typed, TypeOK, Create, Edit, NextKey, Done, Goto
<1>6. CASE Terminate(h)
  BY <1>6 DEF Typed, TypeOK, Terminate, Goto, locals
<1>7. CASE Fail(h)
  BY <1>7 DEF Typed, TypeOK, Fail, GiveBack, Done, Goto
<1> QED
  BY <1>1, <1>2, <1>3, <1>4, <1>5, <1>6, <1>7 DEF HandlerSteps

(* What is written in MO: a create, a terminate, an edit, or nothing.        *)
LEMMA Writes ==
  ASSUME Typed, NEW h \in Handlers, HandlerSteps(h)
  PROVE  \/ mo' = mo /\ addresses' = addresses
         \/ /\ Locks(h) /\ employee[h] \in Uuids /\ key[h] \in Keys
            /\ \E object \in Object :
                 /\ mo' = [mo EXCEPT ![key[h]][employee[h]] = object]
                 /\ pc[h] = "terminate" =>
                      object.note = mo[key[h]][employee[h]].note
                 /\ pc[h] = "edit" => object.note = fetched[h].note
            /\ addresses' = IF pc[h] = "create" /\ key[h] = "Address"
                              THEN [addresses EXCEPT ![employee[h]] = @ + 1]
                              ELSE addresses
<1>1. CASE Create(h)
  <2>1. employee[h] \in Uuids /\ key[h] \in Keys /\ EndOf(h) \in Dates
        /\ read[h].value \in Values
    BY <1>1 DEF Typed, TypeOK, LocalsSet, Busy, Create, EndOf, Entry, Dates
  <2>2. MoObject(read[h].value, EndOf(h), "blank") \in Object
    BY <2>1, MoObjectTyped
  <2>3. key[h] # "Address" => [addresses EXCEPT ![employee[h]] = @] = addresses
    BY <2>1 DEF Typed, TypeOK
  <2> QED
    BY <1>1, <2>1, <2>2, <2>3 DEF Create, Locks, store, Keys
<1>2. CASE Terminate(h)
  <2> DEFINE old == mo[key[h]][employee[h]]
             new == MoObject(old.value, EndOf(h), old.note)
  <2>1. employee[h] \in Uuids /\ key[h] \in Keys /\ EndOf(h) \in Dates
        /\ old \in Object
    BY <1>2 DEF Typed, TypeOK, LocalsSet, Busy, Terminate, EndOf, Entry, Dates
  <2>2. new \in Object /\ new.note = old.note
    BY <2>1 DEF Object, MoObject
  <2> QED
    BY <1>2, <2>1, <2>2 DEF Terminate, Locks
<1>3. CASE Edit(h)
  <2> DEFINE new == Edited(h)
  <2>1. /\ employee[h] \in Uuids /\ key[h] \in Keys /\ EndOf(h) \in Dates
        /\ read[h].value \in Values /\ fetched[h] \in Object
        /\ mo[key[h]][employee[h]].ends \in Dates
    BY <1>3 DEF Typed, TypeOK, LocalsSet, Busy, Edit, EndOf, Entry, Object, Dates
  <2>2. new \in Object /\ new.note = fetched[h].note
    BY <2>1 DEF Edited, Until, Object, MoObject, Dates
  <2>3. mo' = mo \/ mo' = [mo EXCEPT ![key[h]][employee[h]] = new]
    BY <1>3 DEF Edit, Edited, MoObject
  <2> HIDE DEF new
  <2> QED
    BY <1>3, <2>1, <2>2, <2>3 DEF Edit, Locks
<1>4. CASE \/ \E u \in Accounts : Start(h, u)
           \/ FindEmployee(h) \/ ChooseAccount(h) \/ Reread(h) \/ Fetch(h) \/ Fail(h)
  BY <1>4 DEF Start, FindEmployee, ChooseAccount, Reread, Fetch, Fail, store
<1> QED
  BY <1>1, <1>2, <1>3, <1>4 DEF HandlerSteps

(* The steps of the world outside leave the handlers alone.                  *)
LEMMA OutsideKeeps ==
  ASSUME [Next]_vars
  PROVE  \/ \E h \in Handlers : HandlerSteps(h)
         \/ /\ UNCHANGED <<pc, locals, addresses, overlapped, mixed>>
            /\ \/ UNCHANGED <<mo, noted, crossed>>
               \/ \E k \in Keys, e \in Uuids : Note(k, e)
  BY StepKinds
     DEF HandlerSteps, Delete, Change, Note, vars, store, locals, history

-----------------------------------------------------------------------------
(* One employee.  As long as no two handlers were busy at one time, the one   *)
(* that is knows all employees there are: it found the only one, or it found  *)
(* none and has a uuid for the first.                                         *)

LEMMA InitAlone == Init => Alone
  BY DEF Init, Alone, KnowsEmployee, OneEmployee, Busy, Employees, Keys

LEMMA OverlapStays ==
  ASSUME [Next]_vars, overlapped
  PROVE  overlapped'
  BY StepKinds
     DEF Start, FindEmployee, ChooseAccount, Reread, Fetch, Create, Terminate,
         Edit, Fail, Delete, Change, Note, history, vars

LEMMA StartAlone ==
  ASSUME Typed, Alone, ~overlapped, ~overlapped',
         NEW h \in Handlers, NEW u \in Accounts, Start(h, u)
  PROVE  Alone'
<1>1. Employees' = Employees
  BY DEF Start, Employees, store
<1>2. CASE ldap[u] = None
  BY <1>1, <1>2 DEF Alone, KnowsEmployee, OneEmployee, Start, Busy, locals
<1>3. CASE ldap[u] # None
  <2>1. \A g \in Handlers : ~Busy(g)
    BY <1>3 DEF Start
  <2>2. pc' = [pc EXCEPT ![h] = "employee"]
    BY <1>3 DEF Start, Goto
  <2>3. KnowsEmployee'
    BY <2>1, <2>2 DEF Typed, TypeOK, KnowsEmployee, Busy
  <2> QED
    BY <1>1, <2>3 DEF Alone, OneEmployee
<1> QED
  BY <1>2, <1>3

(* A step of a handler, which is the only busy one.                          *)
LEMMA HandlerAlone ==
  ASSUME Typed, Alone, ~overlapped, ~overlapped',
         NEW h \in Handlers, HandlerSteps(h), Busy(h)
  PROVE  Alone'
<1>1. \A g \in Handlers : g # h => pc[g] = "idle" /\ pc'[g] = "idle"
  BY OthersKeep DEF Alone, KnowsEmployee, Busy
<1>2. pc[h] # "employee" => \A e \in Employees : e = employee[h]
  BY DEF Alone, KnowsEmployee, Busy
<1>3. \/ mo' = mo
      \/ pc[h] # "employee" /\ \A e \in Employees' : e = employee[h]
  <2>1. CASE mo' # mo
    <3>1. PICK object \in Object :
            mo' = [mo EXCEPT ![key[h]][employee[h]] = object]
      BY <2>1, Writes
    <3>2. Locks(h) /\ employee[h] \in Uuids /\ key[h] \in Keys
      BY <2>1, Writes
    <3>3. \A e \in Uuids : e # employee[h] => mo'["Employee"][e] = mo["Employee"][e]
      BY <3>1, <3>2 DEF Typed, TypeOK, Keys
    <3> QED
      BY <1>2, <3>2, <3>3 DEF Employees, Locks
  <2> QED
    BY <2>1
<1>4. OneEmployee'
  BY <1>3 DEF Alone, OneEmployee, Employees
<1>5. ASSUME pc'[h] \notin {"idle", "employee"}
      PROVE  \A e \in Employees' : e = employee'[h]
  <2>1. CASE pc[h] = "employee" /\ FindEmployee(h)
    <3>1. mo' = mo
      BY <2>1 DEF FindEmployee, store
    <3>2. PICK d \in Uuids : /\ Employees = {d} \/ Employees = {}
                             /\ employee' = [employee EXCEPT ![h] = d]
      BY <1>5, <2>1 DEF FindEmployee, GiveBack, Done, Goto, Typed, TypeOK
    <3> QED
      BY <3>1, <3>2 DEF Employees, Typed, TypeOK
  <2>2. CASE pc[h] # "employee" /\ employee'[h] = employee[h]
    BY <1>2, <1>3, <2>2 DEF Employees
  <2> QED
    BY <1>5, <2>1, <2>2, Moves
<1> QED
  BY <1>1, <1>4, <1>5 DEF Alone, KnowsEmployee, Busy

LEMMA NextAlone == Typed /\ Alone /\ [Next]_vars => Alone'
<1> SUFFICES ASSUME Typed, Alone, [Next]_vars PROVE Alone'
  OBVIOUS
<1>1. CASE overlapped'
  BY <1>1 DEF Alone, KnowsEmployee, OneEmployee
<1>2. CASE ~overlapped'
  <2>1. ~overlapped
    BY <1>2, OverlapStays
  <2>2. ASSUME NEW h \in Handlers, HandlerSteps(h) PROVE Alone'
    <3>1. CASE \E u \in Accounts : Start(h, u)
      BY <1>2, <2>1, <3>1, StartAlone
    <3>2. CASE ~\E u \in Accounts : Start(h, u)
      <4>1. Busy(h)
        BY <2>2, <3>2 DEF HandlerSteps, Busy, FindEmployee, ChooseAccount, Reread,
                          Fetch, Create, Terminate, Edit, Fail
      <4> QED
        BY <1>2, <2>1, <2>2, <4>1, HandlerAlone
    <3> QED
      BY <3>1, <3>2
  <2>3. CASE UNCHANGED <<pc, locals>> /\ Employees' = Employees
    BY <2>1, <2>3 DEF Alone, KnowsEmployee, OneEmployee, Busy, locals
  <2>4. ASSUME NEW k \in Keys, NEW e \in Uuids, Note(k, e)
        PROVE  Employees' = Employees
    BY <2>4, DomainAssumption, MoObjectTyped
       DEF Note, Employees, Typed, TypeOK, MoObject, Object, Keys
  <2> QED
    BY <2>2, <2>3, <2>4, OutsideKeeps DEF Employees, Note
<1> QED
  BY <1>1, <1>2

(* Handlers that take turns make one employee of one CPR number.             *)
THEOREM EmployeeIsOne == Spec => []OneEmployee
<1>1. Init => Typed /\ Alone
  BY InitTyped, InitAlone
<1>2. (Typed /\ Alone) /\ [Next]_vars => (Typed /\ Alone)'
  BY NextTyped, NextAlone
<1>3. Typed /\ Alone => OneEmployee
  BY DEF Alone
<1> QED
  BY <1>1, <1>2, <1>3, PTL DEF Spec

-----------------------------------------------------------------------------
(* One address.  As long as no two locks were held at one time, what a       *)
(* handler did not find under its lock still is not there when it creates it. *)

LEMMA InitOnce == Init => Once
  BY DEF Init, Once, OneLock, NoneCounted, CreatedOnce, Locks, Keys

LEMMA MixedStays ==
  ASSUME [Next]_vars, mixed
  PROVE  mixed'
  BY StepKinds
     DEF Start, FindEmployee, ChooseAccount, Reread, Fetch, Create, Terminate,
         Edit, Fail, Delete, Change, Note, history, vars

LEMMA HandlerOneLock ==
  ASSUME Typed, OneLock, ~mixed, ~mixed', NEW h \in Handlers, HandlerSteps(h)
  PROVE  OneLock'
<1>1. Locks(h)' => Locks(h) \/ \A g \in Handlers : ~Locks(g)
  <2> SUFFICES ASSUME Locks(h)', ~Locks(h) PROVE \A g \in Handlers : ~Locks(g)
    OBVIOUS
  <2>1. pc[h] = "fetch" /\ Fetch(h)
    BY Moves DEF Locks
  <2>2. ~GiveBack(h)
    BY DEF GiveBack, Done, Goto, Locks, Typed, TypeOK
  <2> QED
    BY <2>1, <2>2 DEF Fetch
<1>2. \A g \in Handlers : g # h => (Locks(g)' <=> Locks(g))
  BY OthersKeep DEF Locks
<1>3. \A f, g \in Handlers : Locks(f)' /\ Locks(g)' => f = g
  BY <1>1, <1>2 DEF OneLock
<1>4. ASSUME NEW g \in Handlers, pc'[g] = "create"
      PROVE  mo'[key'[g]][employee'[g]] = None
  <2>1. CASE g = h
    <3>1. /\ Fetch(h) /\ employee'[h] = employee[h] /\ key'[h] = key[h]
          /\ mo[key[h]][employee[h]] = None
      BY <1>4, <2>1, Moves
    <3> QED
      BY <2>1, <3>1 DEF Fetch, store
  <2>2. CASE g # h
    <3>1. /\ pc[g] = "create" /\ key'[g] = key[g] /\ employee'[g] = employee[g]
          /\ mo[key[g]][employee[g]] = None
      BY <1>4, <2>2, OthersKeep DEF OneLock
    <3>2. ~Locks(h)
      BY <2>2, <3>1 DEF OneLock, Locks
    <3> QED
      BY <3>1, <3>2, Writes
  <2> QED
    BY <2>1, <2>2
<1> QED
  BY <1>3, <1>4 DEF OneLock

LEMMA HandlerOnce ==
  ASSUME Typed, Once, NEW h \in Handlers, HandlerSteps(h), mixed => mixed'
  PROVE  NoneCounted' /\ CreatedOnce'
<1>1. CASE mo' = mo /\ addresses' = addresses
  BY <1>1 DEF Once, NoneCounted, CreatedOnce
<1>2. CASE ~(mo' = mo /\ addresses' = addresses)
  <2>1. /\ Locks(h) /\ employee[h] \in Uuids /\ key[h] \in Keys
        /\ addresses' = IF pc[h] = "create" /\ key[h] = "Address"
                          THEN [addresses EXCEPT ![employee[h]] = @ + 1]
                          ELSE addresses
    BY <1>2, Writes
  <2>2. PICK object \in Object :
          mo' = [mo EXCEPT ![key[h]][employee[h]] = object]
    BY <1>2, Writes
  <2>3. object # None
    BY DomainAssumption
  <2>4. ASSUME NEW e \in Uuids, mo'["Address"][e] = None
        PROVE  mo["Address"][e] = None /\ addresses'[e] = addresses[e]
    <3>1. ~(key[h] = "Address" /\ e = employee[h])
      BY <2>1, <2>2, <2>3, <2>4 DEF Typed, TypeOK, Keys
    <3>2. mo["Address"][e] = None
      BY <2>1, <2>2, <2>4, <3>1 DEF Typed, TypeOK, Keys
    <3> QED
      BY <2>1, <3>1, <3>2 DEF Typed, TypeOK
  <2>5. NoneCounted'
    BY <2>4 DEF Once, NoneCounted
  <2>6. ASSUME ~mixed', NEW e \in Uuids PROVE addresses'[e] <= 1
    <3>1. addresses[e] <= 1 /\ ~mixed
      BY <2>6 DEF Once, CreatedOnce
    <3>2. CASE pc[h] = "create" /\ key[h] = "Address" /\ e = employee[h]
      <4>1. addresses[e] = 0
        BY <3>1, <3>2 DEF Once, OneLock, NoneCounted
      <4> QED
        BY <2>1, <3>2, <4>1 DEF Typed, TypeOK
    <3>3. CASE ~(pc[h] = "create" /\ key[h] = "Address" /\ e = employee[h])
      BY <2>1, <3>1, <3>3 DEF Typed, TypeOK
    <3> QED
      BY <3>2, <3>3
  <2> QED
    BY <2>5, <2>6 DEF CreatedOnce
<1> QED
  BY <1>1, <1>2

(* An edit by a user, of an object that is there.                            *)
LEMMA NoteWrites ==
  ASSUME Typed, NEW k \in Keys, NEW e \in Uuids, Note(k, e)
  PROVE  /\ mo[k][e] \in Object /\ mo'[k][e] \in Object /\ mo'[k][e].note = "noted"
         /\ \A l \in Keys, d \in Uuids : <<l, d>> # <<k, e>> => mo'[l][d] = mo[l][d]
<1> DEFINE new == MoObject(mo[k][e].value, mo[k][e].ends, "noted")
<1>1. mo[k][e] \in Object
  BY DEF Typed, TypeOK, Note
<1>2. new \in Object /\ new.note = "noted"
  BY <1>1 DEF Object, MoObject
<1>3. mo' = [mo EXCEPT ![k][e] = new]
  BY DEF Note
<1> HIDE DEF new
<1> QED
  BY <1>1, <1>2, <1>3 DEF Typed, TypeOK

LEMMA NextOnce == Typed /\ Once /\ [Next]_vars => Once'
<1> SUFFICES ASSUME Typed, Once, [Next]_vars PROVE Once'
  OBVIOUS
<1>1. ASSUME NEW h \in Handlers, HandlerSteps(h) PROVE Once'
  <2>1. NoneCounted' /\ CreatedOnce'
    BY <1>1, HandlerOnce, MixedStays
  <2>2. OneLock'
    BY <1>1, HandlerOneLock, MixedStays DEF Once, OneLock
  <2> QED
    BY <2>1, <2>2 DEF Once
<1>2. CASE UNCHANGED <<pc, locals, addresses, mixed, mo>>
  BY <1>2 DEF Once, OneLock, NoneCounted, CreatedOnce, Locks, locals
<1>3. ASSUME UNCHANGED <<pc, locals, addresses, mixed>>,
             NEW k \in Keys, NEW e \in Uuids, Note(k, e)
      PROVE  Once'
  <2>1. \A l \in Keys, d \in Uuids : mo[l][d] = None <=> mo'[l][d] = None
    BY <1>3, NoteWrites, DomainAssumption
  <2>2. \A h \in Handlers : pc[h] = "create" =>
          key[h] \in Keys /\ employee[h] \in Uuids
    BY DEF Typed, TypeOK, LocalsSet
  <2> QED
    BY <1>3, <2>1, <2>2
       DEF Once, OneLock, NoneCounted, CreatedOnce, Locks, locals, Keys
<1> QED
  BY <1>1, <1>2, <1>3, OutsideKeeps

(* Handlers under one lock create one address of an employee.                *)
THEOREM AddressIsOne == Spec => []CreatedOnce
<1>1. Init => Typed /\ Once
  BY InitTyped, InitOnce
<1>2. (Typed /\ Once) /\ [Next]_vars => (Typed /\ Once)'
  BY NextTyped, NextOnce
<1>3. Typed /\ Once => CreatedOnce
  BY DEF Once
<1> QED
  BY <1>1, <1>2, <1>3, PTL DEF Spec

-----------------------------------------------------------------------------
(* What users write in unmapped attributes.  An import that does not cross    *)
(* their edit has fetched what it uploads.                                   *)

LEMMA InitKept == Init => Kept
  BY DEF Init, Kept, NotedStays, NoteFetched, UnmappedKept

LEMMA CrossedStays ==
  ASSUME [Next]_vars, crossed
  PROVE  crossed'
  BY StepKinds
     DEF Start, FindEmployee, ChooseAccount, Reread, Fetch, Create, Terminate,
         Edit, Fail, Delete, Change, Note, history, vars

LEMMA HandlerKept ==
  ASSUME Typed, Once, Kept, NEW h \in Handlers, HandlerSteps(h),
         mixed => mixed', crossed => crossed'
  PROVE  Kept'
<1>1. noted' = noted /\ noted \subseteq Keys \X Uuids
  BY DEF Typed, TypeOK, HandlerSteps, Start, FindEmployee, ChooseAccount, Reread,
         Fetch, Create, Terminate, Edit, Fail, history
<1>2. NotedStays'
  <2>1. CASE mo' = mo
    BY <1>1, <2>1 DEF Kept, NotedStays
  <2>2. CASE mo' # mo
    <3>1. PICK object \in Object :
            mo' = [mo EXCEPT ![key[h]][employee[h]] = object]
      BY <2>2, Writes
    <3>2. employee[h] \in Uuids /\ key[h] \in Keys
      BY <2>2, Writes
    <3>3. \A o \in noted : o[1] \in Keys /\ o[2] \in Uuids
      BY <1>1
    <3> QED
      BY <1>1, <3>1, <3>2, <3>3 DEF Kept, NotedStays, Typed, TypeOK
  <2> QED
    BY <2>1, <2>2
<1>3. ASSUME ~crossed', ~mixed', NEW o \in noted
      PROVE  mo'[o[1]][o[2]].note = "noted"
  <2>1. ~crossed /\ ~mixed /\ mo[o[1]][o[2]].note = "noted"
    BY <1>3 DEF Kept, UnmappedKept
  <2>2. o[1] \in Keys /\ o[2] \in Uuids /\ o = <<o[1], o[2]>>
    BY <1>1
  <2>3. CASE mo' = mo
    BY <2>1, <2>3
  <2>4. CASE mo' # mo
    <3>1. Locks(h) /\ employee[h] \in Uuids /\ key[h] \in Keys
      BY <2>4, Writes
    <3>2. PICK object \in Object :
            /\ mo' = [mo EXCEPT ![key[h]][employee[h]] = object]
            /\ pc[h] = "terminate" => object.note = mo[key[h]][employee[h]].note
            /\ pc[h] = "edit" => object.note = fetched[h].note
      BY <2>4, Writes
    <3>3. CASE o[1] = key[h] /\ o[2] = employee[h]
      <4>1. mo'[o[1]][o[2]] = object
        BY <3>1, <3>2, <3>3 DEF Typed, TypeOK
      <4>2. pc[h] # "create"
        BY <2>1, <3>3, DomainAssumption DEF Kept, NotedStays, Once, OneLock
      <4>3. fetched[h].note = "noted" \/ pc[h] # "edit"
        BY <2>1, <2>2, <3>3 DEF Kept, NoteFetched
      <4> QED
        BY <2>1, <3>1, <3>2, <3>3, <4>1, <4>2, <4>3 DEF Locks
    <3>4. CASE ~(o[1] = key[h] /\ o[2] = employee[h])
      BY <2>1, <2>2, <3>1, <3>2, <3>4 DEF Typed, TypeOK
    <3> QED
      BY <3>3, <3>4
  <2> QED
    BY <2>3, <2>4
<1>4. ASSUME ~crossed', ~mixed', NEW g \in Handlers, NEW o \in noted,
             pc'[g] \in {"terminate", "edit"}, o = <<key'[g], employee'[g]>>
      PROVE  fetched'[g].note = "noted"
  <2>1. ~crossed /\ ~mixed
    BY <1>4
  <2>2. CASE g # h
    BY <1>4, <2>1, <2>2, OthersKeep DEF Kept, NoteFetched
  <2>3. CASE g = h
    <3>1. CASE pc[h] = "fetch" /\ fetched'[h] = mo[key[h]][employee[h]]
               /\ employee'[h] = employee[h] /\ key'[h] = key[h]
      BY <1>4, <2>1, <2>3, <3>1 DEF Kept, UnmappedKept
    <3>2. CASE pc[h] = "terminate" /\ fetched'[h] = fetched[h]
               /\ employee'[h] = employee[h] /\ key'[h] = key[h]
      BY <1>4, <2>1, <2>3, <3>2 DEF Kept, NoteFetched
    <3> QED
      BY <1>4, <2>3, <3>1, <3>2, Moves
  <2> QED
    BY <2>2, <2>3
<1>5. NoteFetched' /\ UnmappedKept'
  BY <1>1, <1>3, <1>4 DEF NoteFetched, UnmappedKept
<1> QED
  BY <1>2, <1>5 DEF Kept

LEMMA NoteKept ==
  ASSUME Typed, Kept, UNCHANGED <<pc, locals, mixed>>, crossed => crossed',
         NEW k \in Keys, NEW e \in Uuids, Note(k, e)
  PROVE  Kept'
<1>1. noted' = noted \cup {<<k, e>>} /\ noted \subseteq Keys \X Uuids
  BY DEF Note, Typed, TypeOK
<1>2. \A o \in noted' : o[1] \in Keys /\ o[2] \in Uuids /\ o = <<o[1], o[2]>>
  BY <1>1
<1>3. NotedStays'
  BY <1>1, <1>2, NoteWrites DEF Kept, NotedStays
<1>4. ASSUME ~crossed', ~mixed', NEW o \in noted'
      PROVE  mo'[o[1]][o[2]].note = "noted"
  BY <1>1, <1>2, <1>4, NoteWrites DEF Kept, UnmappedKept
<1>5. ASSUME ~crossed', ~mixed', NEW g \in Handlers, NEW o \in noted',
             pc[g] \in {"terminate", "edit"}, o = <<key[g], employee[g]>>
      PROVE  fetched[g].note = "noted"
  <2>1. o # <<k, e>>
    BY <1>5 DEF Note, Locks
  <2> QED
    BY <1>1, <1>5, <2>1 DEF Kept, NoteFetched
<1>6. NoteFetched' /\ UnmappedKept'
  BY <1>4, <1>5 DEF NoteFetched, UnmappedKept, locals
<1> QED
  BY <1>3, <1>6 DEF Kept

LEMMA NextKept == Typed /\ Once /\ Kept /\ [Next]_vars => Kept'
<1> SUFFICES ASSUME Typed, Once, Kept, [Next]_vars PROVE Kept'
  OBVIOUS
<1>1. (mixed => mixed') /\ (crossed => crossed')
  BY MixedStays, CrossedStays
<1>2. CASE UNCHANGED <<pc, locals, mixed, mo, noted, crossed>>
  BY <1>2 DEF Kept, NotedStays, NoteFetched, UnmappedKept, locals
<1> QED
  BY <1>1, <1>2, HandlerKept, NoteKept, OutsideKeeps

(* No import undoes what a user wrote where no mapping writes.               *)
THEOREM UnmappedIsKept == Spec => []UnmappedKept
<1>1. Init => Typed /\ Once /\ Kept
  BY InitTyped, InitOnce, InitKept
<1>2. (Typed /\ Once /\ Kept) /\ [Next]_vars => (Typed /\ Once /\ Kept)'
  BY NextTyped, NextOnce, NextKept
<1>3. Typed /\ Once /\ Kept => UnmappedKept
  BY DEF Kept
<1> QED
  BY <1>1, <1>2, <1>3, PTL DEF Spec

-----------------------------------------------------------------------------
(* At rest MO is synchronized.                                               *)

\* A handler of a lone step, which knows what the best account says or will.
Lone(h) == Typed /\ KnowsEmployee /\ ~overlapped /\ ~Deleted /\ Busy(h) /\ Attends(h)

\* It goes on to attend, or it is done and MO is as the best account says.
GoesOn(h) == IF Busy(h)' THEN Attends(h)' ELSE Synced'

LEMMA GivesBack ==
  ASSUME Typed, NEW h \in Handlers, GiveBack(h)
  PROVE  announced' # {}
  BY DEF GiveBack

LEMMA NowIdle ==
  ASSUME Typed, NEW h \in Handlers, Done(h)
  PROVE  ~Busy(h)' /\ key'[h] = "Employee"
  BY DEF Typed, TypeOK, Done, Goto, Busy

\* LDAP as it was, the best account is as it was.
LEMMA SameBest ==
  ASSUME ldap' = ldap
  PROVE  Best' = Best /\ (Deleted' <=> Deleted)
<1>1. Good' = Good
  BY DEF Good
<1> QED
  BY <1>1 DEF Best, Deleted

LEMMA SameSynced ==
  ASSUME ldap' = ldap, mo' = mo, settings' = settings
  PROVE  Synced' <=> Synced
<1>1. Employees' = Employees
  BY DEF Employees
<1>2. ASSUME NEW u \in Accounts PROVE SyncedWith(ldap[u])' <=> SyncedWith(ldap[u])
  BY <1>1 DEF SyncedWith
<1> QED
  BY <1>2, SameBest DEF Synced

LEMMA FindGoesOn ==
  ASSUME NEW h \in Handlers, Lone(h), FindEmployee(h), announced' = {}
  PROVE  GoesOn(h)
<1> USE DEF Lone
<1>1. /\ ldap' = ldap /\ mo' = mo /\ settings' = settings /\ pc[h] = "employee"
  BY DEF FindEmployee, store
<1>2. CASE Employees = {} /\ ~settings.creates /\ Done(h)
  <2>1. Synced
    BY <1>2 DEF Synced, SyncedWith
  <2> QED
    BY <1>1, <1>2, <2>1, SameSynced, NowIdle DEF GoesOn
<1>3. ASSUME NEW e \in Uuids, employee' = [employee EXCEPT ![h] = e],
             Goto(h, "accounts"),
             UNCHANGED <<announced, subject, source, read, key, fetched>>
      PROVE  GoesOn(h)
  <2>1. pc'[h] = "accounts"
    BY <1>3 DEF Typed, TypeOK, Goto
  <2>2. /\ key'[h] = "Employee" /\ source'[h] = subject'[h]
        /\ read'[h] = ldap'[subject'[h]]
    BY <1>1, <1>3 DEF Attends
  <2> QED
    BY <2>1, <2>2 DEF GoesOn, Busy, Attends
<1> QED
  BY <1>2, <1>3, GivesBack DEF FindEmployee

LEMMA ChooseGoesOn ==
  ASSUME NEW h \in Handlers, Lone(h), ChooseAccount(h), announced' = {}
  PROVE  GoesOn(h)
<1> USE DEF Lone
<1>1. /\ ldap' = ldap /\ mo' = mo /\ settings' = settings /\ pc[h] = "accounts"
      /\ key[h] = "Employee" /\ read[h] = ldap[subject[h]]
  BY DEF ChooseAccount, store, Attends
<1>2. CASE Best = {} /\ Done(h)
  <2>1. Synced
    BY <1>2 DEF Synced
  <2> QED
    BY <1>1, <1>2, <2>1, SameSynced, NowIdle DEF GoesOn
<1>3. ASSUME NEW u \in Accounts, Best = {u}, source' = [source EXCEPT ![h] = u],
             Goto(h, IF u = subject[h] THEN "fetch" ELSE "reread"),
             UNCHANGED <<announced, subject, read, employee, key, fetched>>
      PROVE  GoesOn(h)
  <2>1. /\ pc'[h] = (IF u = subject[h] THEN "fetch" ELSE "reread")
        /\ source'[h] = u /\ key'[h] = "Employee" /\ read'[h] = read[h]
        /\ Best' = {u}
    BY <1>1, <1>3, SameBest DEF Typed, TypeOK, Goto
  <2>2. CASE u = subject[h]
    BY <1>1, <2>1, <2>2 DEF GoesOn, Busy, Attends, KnowsBest, KnowsObject
  <2>3. CASE u # subject[h]
    BY <2>1, <2>3 DEF GoesOn, Busy, Attends
  <2> QED
    BY <2>2, <2>3
<1> QED
  BY <1>2, <1>3, GivesBack DEF ChooseAccount

LEMMA RereadGoesOn ==
  ASSUME NEW h \in Handlers, Lone(h), Reread(h), announced' = {}
  PROVE  GoesOn(h)
<1> USE DEF Lone
<1>1. /\ ldap' = ldap /\ pc[h] = "reread" /\ key[h] = "Employee" /\ Best = {source[h]}
  BY DEF Reread, Attends
<1>2. /\ read' = [read EXCEPT ![h] = ldap[source[h]]]
      /\ Goto(h, "fetch")
      /\ UNCHANGED <<announced, subject, source, employee, key, fetched>>
  BY GivesBack DEF Reread
<1>3. /\ pc'[h] = "fetch" /\ read'[h] = ldap'[source'[h]] /\ key'[h] = "Employee"
      /\ Best' = {source'[h]}
  BY <1>1, <1>2, SameBest DEF Typed, TypeOK, Goto
<1> QED
  BY <1>3 DEF GoesOn, Busy, Attends, KnowsBest, KnowsObject

LEMMA FetchGoesOn ==
  ASSUME NEW h \in Handlers, Lone(h), Fetch(h), announced' = {}
  PROVE  GoesOn(h)
<1> USE DEF Lone
<1> DEFINE object == mo[key[h]][employee[h]]
<1>1. /\ ldap' = ldap /\ mo' = mo /\ settings' = settings /\ pc[h] = "fetch"
      /\ KnowsBest(h)
  BY DEF Fetch, Attends, store
<1>2. /\ fetched' = [fetched EXCEPT ![h] = object]
      /\ Goto(h, IF object = None THEN "create"
                 ELSE IF EndOf(h) # "never" /\ settings.terminates
                 THEN "terminate" ELSE "edit")
      /\ UNCHANGED <<announced, subject, source, read, employee, key>>
  BY GivesBack DEF Fetch
<1>3. /\ fetched'[h] = object /\ mo'[key'[h]][employee'[h]] = object
      /\ pc'[h] = (IF object = None THEN "create"
                   ELSE IF EndOf(h) # "never" /\ settings.terminates
                   THEN "terminate" ELSE "edit")
  BY <1>1, <1>2 DEF Typed, TypeOK, Goto
<1>4. EndOf(h)' = EndOf(h)
  BY <1>2 DEF EndOf
<1>5. KnowsObject(h)'
  BY <1>1, <1>3, <1>4 DEF KnowsObject
<1>6. KnowsBest(h)'
  BY <1>1, <1>2, SameBest DEF KnowsBest, Employees
<1> QED
  BY <1>3, <1>5, <1>6 DEF GoesOn, Busy, Attends

\* The employee is as the best account says; now the address.
LEMMA EmployeeDone ==
  ASSUME NEW h \in Handlers, Lone(h), NextKey(h), key[h] = "Employee", ldap' = ldap,
         pc[h] \in {"create", "edit"},
         Employees' = {employee[h]}, mo'["Employee"][employee[h]].value = read[h].value
  PROVE  GoesOn(h)
<1> USE DEF Lone
<1>1. /\ pc'[h] = "fetch" /\ key'[h] = "Address" /\ source'[h] = source[h]
      /\ read'[h] = read[h] /\ employee'[h] = employee[h]
  BY DEF Typed, TypeOK, NextKey, Goto
<1>2. Best' = {source'[h]} /\ read'[h] = ldap'[source'[h]]
  BY <1>1, SameBest DEF Attends, KnowsBest
<1>3. KnowsBest(h)' /\ KnowsObject(h)'
  BY <1>1, <1>2 DEF KnowsBest, KnowsObject
<1> QED
  BY <1>1, <1>3 DEF GoesOn, Busy, Attends

\* The address is as the best account says; MO is.
LEMMA AddressDone ==
  ASSUME NEW h \in Handlers, Lone(h), NextKey(h), key[h] = "Address", ldap' = ldap,
         settings' = settings, pc[h] \in {"create", "edit"},
         Employees' = Employees, mo'["Employee"] = mo["Employee"],
         LET address == mo'["Address"][employee[h]] IN
           \/ read[h].ends = "now" /\ (address = None \/ ~settings.terminates)
           \/ read[h].ends = "now" /\ address # None /\ address.ends = "now"
           \/ /\ read[h].ends # "now" /\ address # None
              /\ address.value = read[h].value
              /\ \/ address.ends = read[h].ends
                 \/ address.ends = "never" /\ ~settings.terminates
  PROVE  GoesOn(h)
<1> USE DEF Lone
<1>1. Done(h)
  BY DEF NextKey
<1>2. /\ Best = {source[h]} /\ read[h] = ldap[source[h]] /\ Employees = {employee[h]}
      /\ mo["Employee"][employee[h]].value = read[h].value
  BY DEF Attends, KnowsBest
<1>3. employee[h] \in Uuids
  BY DEF Typed, LocalsSet
<1>4. ASSUME NEW u \in Accounts, Best' = {u} PROVE SyncedWith(ldap[u])'
  <2>1. ldap'[u] = read[h]
    BY <1>2, <1>4, SameBest
  <2> QED
    BY <1>2, <1>3, <2>1 DEF SyncedWith
<1> QED
  BY <1>1, <1>4, NowIdle DEF GoesOn, Synced

LEMMA CreateGoesOn ==
  ASSUME NEW h \in Handlers, Lone(h), Create(h), announced' = {}
  PROVE  GoesOn(h)
<1> USE DEF Lone
<1> DEFINE object == MoObject(read[h].value, EndOf(h), "blank")
<1>1. /\ ldap' = ldap /\ settings' = settings /\ pc[h] = "create" /\ NextKey(h)
      /\ KnowsBest(h) /\ mo[key[h]][employee[h]] = None
  BY DEF Create, Attends, KnowsObject
<1>2. employee[h] \in Uuids /\ key[h] \in Keys /\ read[h] \in Entry
  BY <1>1 DEF Typed, TypeOK, LocalsSet, Busy
<1>3. object \in Object /\ object.value = read[h].value /\ object.ends = EndOf(h)
  BY <1>2, MoObjectTyped DEF MoObject, EndOf, Entry, Dates
<1>4. object # None
  BY <1>3, DomainAssumption
<1> HIDE DEF object
<1>5. EndOf(h) # "now" =>
        \A k \in Keys, e \in Uuids :
          mo'[k][e] = IF k = key[h] /\ e = employee[h] THEN object ELSE mo[k][e]
  BY <1>2 DEF Create, Typed, TypeOK, object
<1>6. CASE key[h] = "Employee"
  <2>1. EndOf(h) # "now" /\ mo'["Employee"][employee[h]] = object
    BY <1>2, <1>5, <1>6 DEF EndOf
  <2>2. Employees' \subseteq Employees \cup {employee[h]} /\ employee[h] \in Employees'
    BY <1>2, <1>4, <1>5, <1>6, <2>1 DEF Employees, Keys
  <2>3. \A e \in Employees : e = employee[h]
    BY <1>1 DEF KnowsEmployee
  <2> QED
    BY <1>1, <1>3, <1>6, <2>1, <2>2, <2>3, EmployeeDone
<1>7. CASE key[h] = "Address"
  <2>1. EndOf(h) = read[h].ends
    BY <1>7 DEF EndOf
  <2>2. CASE EndOf(h) = "now"
    <3>1. mo' = mo
      BY <2>2 DEF Create, store
    <3> QED
      BY <1>1, <1>7, <2>1, <2>2, <3>1, AddressDone DEF Employees
  <2>3. CASE EndOf(h) # "now"
    <3>1. mo'["Address"][employee[h]] = object
      BY <1>2, <1>5, <1>7, <2>3
    <3>2. mo'["Employee"] = mo["Employee"]
      BY <1>2, <1>7, <2>3 DEF Create, Typed, TypeOK, Keys
    <3> QED
      BY <1>1, <1>3, <1>4, <1>7, <2>1, <2>3, <3>1, <3>2, AddressDone DEF Employees
  <2> QED
    BY <2>2, <2>3
<1> QED
  BY <1>2, <1>6, <1>7 DEF Keys

LEMMA TerminateGoesOn ==
  ASSUME NEW h \in Handlers, Lone(h), Terminate(h), announced' = {}
  PROVE  GoesOn(h)
<1> USE DEF Lone
<1> DEFINE old == mo[key[h]][employee[h]]
           new == MoObject(old.value, EndOf(h), old.note)
<1>1. /\ ldap' = ldap /\ settings' = settings /\ pc[h] = "terminate"
      /\ UNCHANGED locals /\ KnowsBest(h) /\ KnowsObject(h)
      /\ pc' = [pc EXCEPT ![h] = "edit"]
  BY DEF Terminate, Attends, Goto
<1>2. /\ employee[h] \in Uuids /\ key[h] \in Keys /\ EndOf(h) # "never"
      /\ old.value = fetched[h].value
  BY <1>1 DEF Typed, TypeOK, LocalsSet, Busy, KnowsObject
<1>3. key[h] = "Address"
  BY <1>2 DEF EndOf, Keys
<1>4. new.value = old.value /\ new.ends = EndOf(h)
  BY DEF MoObject
<1>5. mo' = [mo EXCEPT ![key[h]][employee[h]] = new]
  BY DEF Terminate
<1> HIDE DEF new
<1>6. mo'["Address"][employee[h]] = new /\ mo'["Employee"] = mo["Employee"]
  BY <1>2, <1>3, <1>5 DEF Typed, TypeOK, Keys
<1>7. /\ pc'[h] = "edit" /\ key'[h] = "Address" /\ employee'[h] = employee[h]
      /\ source'[h] = source[h] /\ read'[h] = read[h] /\ fetched'[h] = fetched[h]
  BY <1>1, <1>3 DEF Typed, TypeOK, locals
<1>8. EndOf(h)' = EndOf(h)
  BY <1>3, <1>7 DEF EndOf
<1>9. KnowsObject(h)'
  BY <1>2, <1>4, <1>6, <1>7, <1>8 DEF KnowsObject
<1>10. KnowsBest(h)'
  <2>1. Employees' = Employees
    BY <1>6 DEF Employees
  <2> QED
    BY <1>1, <1>3, <1>6, <1>7, <2>1, SameBest DEF KnowsBest
<1> QED
  BY <1>7, <1>9, <1>10 DEF GoesOn, Busy, Attends

LEMMA EditGoesOn ==
  ASSUME NEW h \in Handlers, Lone(h), Edit(h), announced' = {}
  PROVE  GoesOn(h)
<1> USE DEF Lone
<1> DEFINE old == mo[key[h]][employee[h]]
           object == MoObject(read[h].value, EndOf(h), fetched[h].note)
           new == Edited(h)
<1>1. /\ ldap' = ldap /\ settings' = settings /\ pc[h] = "edit" /\ NextKey(h)
      /\ KnowsBest(h) /\ KnowsObject(h)
  BY DEF Edit, Attends
<1>2. /\ employee[h] \in Uuids /\ key[h] \in Keys /\ read[h] \in Entry
      /\ fetched[h] \in Object /\ old \in Object
  BY <1>1 DEF Typed, TypeOK, LocalsSet, Busy
<1>3. /\ new \in Object /\ new.value = read[h].value
      /\ new.ends = Until(EndOf(h), old.ends)
      /\ object.value = read[h].value /\ object.ends = EndOf(h)
  BY <1>2 DEF Edited, Until, MoObject, EndOf, Entry, Dates, Object
<1>4. old # None /\ new # None
  BY <1>2, <1>3, DomainAssumption
<1>5. \/ EndOf(h) = "now" /\ mo' = mo
      \/ object = fetched[h] /\ mo' = mo
      \/ EndOf(h) # "now" /\ mo' = [mo EXCEPT ![key[h]][employee[h]] = new]
  BY DEF Edit, Edited, MoObject
<1>6. /\ old.value = fetched[h].value /\ old.ends \in {fetched[h].ends, EndOf(h)}
      /\ EndOf(h) # "never" /\ settings.terminates => old.ends = EndOf(h)
  BY <1>1 DEF KnowsObject
<1> HIDE DEF old, object, new
<1>7. /\ mo'[key[h]][employee[h]] \in {old, new}
      /\ \A k \in Keys, e \in Uuids :
           (k # key[h] \/ e # employee[h]) => mo'[k][e] = mo[k][e]
  BY <1>2, <1>5 DEF Typed, TypeOK, old
<1>8. EndOf(h) # "now" => /\ mo'[key[h]][employee[h]].value = read[h].value
                          /\ \/ mo'[key[h]][employee[h]].ends = EndOf(h)
                             \/ /\ mo'[key[h]][employee[h]].ends = "never"
                                /\ ~settings.terminates
  <2>1. CASE object = fetched[h] /\ mo' = mo
    BY <1>3, <1>6, <2>1 DEF old
  <2>2. CASE mo' = [mo EXCEPT ![key[h]][employee[h]] = new]
    BY <1>2, <1>3, <1>6, <2>2 DEF Typed, TypeOK, Until
  <2> QED
    BY <1>5, <2>1, <2>2
<1>9. CASE key[h] = "Employee"
  <2>1. EndOf(h) # "now"
    BY <1>9 DEF EndOf
  <2>2. employee[h] \in Employees'
    BY <1>2, <1>4, <1>7, <1>9 DEF Employees
  <2>3. Employees' \subseteq Employees \cup {employee[h]}
    BY <1>2, <1>7, <1>9 DEF Employees, Keys
  <2>4. \A e \in Employees : e = employee[h]
    BY <1>1 DEF KnowsEmployee
  <2> QED
    BY <1>1, <1>8, <1>9, <2>1, <2>2, <2>3, <2>4, EmployeeDone
<1>10. CASE key[h] = "Address"
  <2>1. EndOf(h) = read[h].ends /\ mo'["Address"][employee[h]] # None
    BY <1>4, <1>7, <1>10 DEF EndOf
  <2>2. mo'["Employee"] = mo["Employee"]
    BY <1>2, <1>5, <1>10 DEF Typed, TypeOK, Keys
  <2>3. Employees' = Employees
    BY <2>2 DEF Employees
  <2>4. CASE EndOf(h) = "now"
    <3>1. mo' = mo
      BY <1>5, <2>4
    <3>2. settings.terminates => mo'["Address"][employee[h]].ends = "now"
      BY <1>1, <1>10, <2>4, <3>1 DEF KnowsObject
    <3> QED
      BY <1>1, <1>10, <2>1, <2>2, <2>3, <2>4, <3>2, AddressDone
  <2>5. CASE EndOf(h) # "now"
    BY <1>1, <1>8, <1>10, <2>1, <2>2, <2>3, <2>5, AddressDone
  <2> QED
    BY <2>4, <2>5
<1> QED
  BY <1>2, <1>9, <1>10 DEF Keys

\* A handler without an event has the first mapping before it.
LEMMA NextIdleReset == Typed /\ IdleReset /\ [Next]_vars => IdleReset'
<1> SUFFICES ASSUME Typed, IdleReset, [Next]_vars PROVE IdleReset'
  OBVIOUS
<1>1. ASSUME NEW h \in Handlers, HandlerSteps(h), ~Busy(h)' PROVE key'[h] = "Employee"
  <2>1. CASE \E u \in Accounts : Start(h, u)
    BY <1>1, <2>1 DEF Typed, TypeOK, IdleReset, Start, Busy, Goto, locals
  <2>2. CASE ~\E u \in Accounts : Start(h, u)
    <3>1. Busy(h)
      BY <1>1, <2>2 DEF HandlerSteps, Busy, FindEmployee, ChooseAccount, Reread,
                        Fetch, Create, Terminate, Edit, Fail
    <3>2. Done(h)
      BY <1>1, <2>2, <3>1 DEF Typed, TypeOK, HandlerSteps, FindEmployee, ChooseAccount, Reread,
                        Fetch, Create, Terminate, Edit, Fail, GiveBack, NextKey, Goto, Busy
    <3> QED
      BY <3>2, NowIdle
  <2> QED
    BY <2>1, <2>2
<1>2. ASSUME NEW h \in Handlers, HandlerSteps(h) PROVE IdleReset'
  BY <1>1, <1>2, OthersKeep DEF IdleReset, Busy
<1>3. CASE UNCHANGED <<pc, locals>>
  BY <1>3 DEF IdleReset, Busy, locals
<1> QED
  BY <1>2, <1>3, OutsideKeeps

LEMMA StartAttended ==
  ASSUME Typed, IdleReset, Attended, ~overlapped, ~Deleted, announced' = {}, ~overlapped',
         NEW h \in Handlers, NEW u \in Accounts, Start(h, u)
  PROVE  Attended'
<1>1. ldap[u] # None
  BY DEF Deleted
<1>2. /\ \A g \in Handlers : ~Busy(g)
      /\ subject' = [subject EXCEPT ![h] = u] /\ source' = [source EXCEPT ![h] = u]
      /\ read' = [read EXCEPT ![h] = ldap[u]] /\ key' = key /\ ldap' = ldap
      /\ pc' = [pc EXCEPT ![h] = "employee"]
  BY <1>1 DEF Start, Goto
<1>3. /\ pc'[h] = "employee" /\ key'[h] = "Employee" /\ source'[h] = subject'[h]
      /\ read'[h] = ldap'[subject'[h]]
  BY <1>2 DEF Typed, TypeOK, IdleReset
<1>4. Attends(h)' /\ Busy(h)'
  BY <1>3 DEF Attends, Busy
<1>5. \A g \in Handlers : g # h => ~Busy(g)'
  BY <1>2 DEF Typed, TypeOK, Busy
<1> QED
  BY <1>4, <1>5 DEF Attended

LEMMA HandlerAttended ==
  ASSUME Typed, KnowsEmployee, Attended, ~overlapped, ~Deleted, announced' = {},
         NEW h \in Handlers, HandlerSteps(h), Busy(h), announced = {}
  PROVE  Attended'
<1>1. Lone(h)
  BY DEF Lone, Attended
<1>2. ~Fail(h)
  BY GivesBack DEF Fail
<1>3. GoesOn(h)
  BY <1>1, <1>2, FindGoesOn, ChooseGoesOn, RereadGoesOn, FetchGoesOn, CreateGoesOn,
     TerminateGoesOn, EditGoesOn DEF HandlerSteps, Start
<1>4. \A g \in Handlers : g # h => ~Busy(g)'
  BY OthersKeep DEF KnowsEmployee, Busy
<1> QED
  BY <1>3, <1>4 DEF GoesOn, Attended

\* A note leaves alone what mappings have.
LEMMA NoteAttended ==
  ASSUME Typed, Attended, NEW k \in Keys, NEW e \in Uuids, Note(k, e)
  PROVE  Attended'
<1>1. /\ UNCHANGED locals /\ pc' = pc /\ settings' = settings /\ ldap' = ldap
      /\ announced' = announced /\ overlapped' = overlapped
  BY DEF Note
<1>2. \A l \in Keys, d \in Uuids :
        /\ mo'[l][d] = None <=> mo[l][d] = None
        /\ mo[l][d] # None => /\ mo'[l][d].value = mo[l][d].value
                              /\ mo'[l][d].ends = mo[l][d].ends
  <2>1. mo'[k][e].value = mo[k][e].value /\ mo'[k][e].ends = mo[k][e].ends
    BY DEF Note, Typed, TypeOK, MoObject
  <2> QED
    BY <2>1, NoteWrites, DomainAssumption
<1>3. Employees' = Employees
  BY <1>2 DEF Employees, Keys
<1>4. Best' = Best /\ (Deleted' <=> Deleted)
  BY <1>1, SameBest
<1>5. \A u \in Accounts : SyncedWith(ldap[u])' <=> SyncedWith(ldap[u])
  <2> SUFFICES ASSUME NEW u \in Accounts
               PROVE  SyncedWith(ldap[u])' <=> SyncedWith(ldap[u])
    OBVIOUS
  <2>1. ldap'[u] = ldap[u]
    BY <1>1
  <2>2. \A d \in Uuids :
          Employees = {d} => mo'["Employee"][d].value = mo["Employee"][d].value
    BY <1>2 DEF Employees, Keys
  <2> QED
    BY <1>1, <1>2, <1>3, <2>1, <2>2 DEF SyncedWith, Keys
<1>6. Synced' <=> Synced
  BY <1>1, <1>4, <1>5 DEF Synced
<1>7. ASSUME NEW h \in Handlers, Attends(h) PROVE Attends(h)'
  <2>1. /\ pc'[h] = pc[h] /\ subject'[h] = subject[h] /\ source'[h] = source[h]
        /\ read'[h] = read[h] /\ employee'[h] = employee[h] /\ key'[h] = key[h]
        /\ fetched'[h] = fetched[h] /\ EndOf(h)' = EndOf(h)
    BY <1>1 DEF locals, EndOf
  <2>2. CASE pc[h] \in {"employee", "accounts", "reread"}
    BY <1>1, <1>4, <1>7, <2>1, <2>2 DEF Attends
  <2>3. CASE pc[h] \in {"fetch", "create", "terminate", "edit"}
    <3>1. employee[h] \in Uuids /\ key[h] \in Keys /\ KnowsBest(h) /\ KnowsObject(h)
      BY <1>7, <2>3 DEF Typed, TypeOK, LocalsSet, Attends
    <3>2. Employees = {employee[h]} =>
            mo'["Employee"][employee[h]].value = mo["Employee"][employee[h]].value
      BY <1>2, <3>1 DEF Employees, Keys
    <3>3. KnowsBest(h)'
      BY <1>1, <1>3, <1>4, <2>1, <3>1, <3>2 DEF KnowsBest
    <3>4. pc[h] \in {"terminate", "edit"} => mo[key[h]][employee[h]] # None
      BY DomainAssumption DEF Typed, LocalsSet
    <3>5. KnowsObject(h)'
      BY <1>1, <1>2, <2>1, <3>1, <3>4 DEF KnowsObject
    <3> QED
      BY <2>1, <2>3, <3>3, <3>5 DEF Attends
  <2> QED
    BY <1>7, <2>2, <2>3 DEF Attends
<1> QED
  BY <1>1, <1>4, <1>6, <1>7 DEF Attended, Busy

LEMMA NextAttended ==
  Typed /\ KnowsEmployee /\ IdleReset /\ Attended /\ [Next]_vars => Attended'
<1> SUFFICES ASSUME Typed, KnowsEmployee, IdleReset, Attended, [Next]_vars,
                    ~overlapped', ~Deleted', announced' = {}
             PROVE  Attended'
  BY DEF Attended
<1>1. ~overlapped
  BY OverlapStays
<1>2. CASE \E u \in Accounts : Delete(u)
  BY <1>2 DEF Delete, Deleted, Typed, TypeOK
<1>3. CASE \E u \in Accounts : \E entry \in Entries[u] : Change(u, entry)
  BY <1>3 DEF Change
<1>4. CASE \E k \in Keys, e \in Uuids : Note(k, e)
  BY <1>4, NoteAttended
<1>5. CASE \E h \in Handlers : HandlerSteps(h)
  <2>1. PICK h \in Handlers : HandlerSteps(h)
    BY <1>5
  <2>2. ldap' = ldap
    BY <2>1 DEF HandlerSteps, Start, FindEmployee, ChooseAccount, Reread, Fetch, Create,
                Terminate, Edit, Fail
  <2>3. ~Deleted
    BY <2>2 DEF Deleted
  <2>4. CASE \E u \in Accounts : Start(h, u)
    BY <1>1, <2>3, <2>4, StartAttended
  <2>5. CASE ~\E u \in Accounts : Start(h, u)
    <3>1. Busy(h)
      BY <2>1, <2>5 DEF HandlerSteps, Busy, FindEmployee, ChooseAccount, Reread,
                        Fetch, Create, Terminate, Edit, Fail
    <3>2. announced = {}
      BY <2>1, <2>5 DEF HandlerSteps, FindEmployee, ChooseAccount, Reread,
                        Fetch, Create, Terminate, Edit, Fail, GiveBack
    <3> QED
      BY <1>1, <2>1, <2>3, <3>1, <3>2, HandlerAttended
  <2> QED
    BY <2>4, <2>5
<1>6. CASE UNCHANGED vars
  <2>1. /\ pc' = pc /\ UNCHANGED locals /\ mo' = mo /\ settings' = settings /\ ldap' = ldap
        /\ announced' = announced /\ overlapped' = overlapped
    BY <1>6 DEF vars, locals
  <2>2. Employees' = Employees /\ Best' = Best /\ (Synced' <=> Synced)
        /\ (Deleted' <=> Deleted)
    BY <2>1, SameBest, SameSynced DEF Employees
  <2>3. \A h \in Handlers : Attends(h)' <=> Attends(h)
    BY <2>1, <2>2 DEF Attends, KnowsBest, KnowsObject, EndOf, locals
  <2> QED
    BY <2>1, <2>2, <2>3 DEF Attended, Busy
<1> QED
  BY <1>2, <1>3, <1>4, <1>5, <1>6, StepKinds DEF HandlerSteps

(* When no event waits and no handler is at work, MO is as the best account   *)
(* says, whichever account was touched last, if no two handlers ran at one    *)
(* time and no account is gone.                                              *)
THEOREM SyncedAtRest == Spec => []RestsSynced
<1>1. Init => Typed /\ Alone /\ IdleReset /\ Attended
  <2>1. Init => IdleReset
    BY DEF Init, IdleReset
  <2>2. Init => announced # {} \/ Accounts = {}
    BY DEF Init
  <2>3. Accounts = {} => Synced
    BY DEF Synced
  <2>4. Init => \A h \in Handlers : ~Busy(h)
    BY DEF Init, Busy
  <2> QED
    BY <2>1, <2>2, <2>3, <2>4, InitTyped, InitAlone DEF Attended
<1>2. Typed /\ Alone /\ IdleReset /\ Attended /\ [Next]_vars
        => (Typed /\ Alone /\ IdleReset /\ Attended)'
  BY NextTyped, NextAlone, NextIdleReset, NextAttended DEF Alone
<1>3. Attended => RestsSynced
  BY DEF Attended, RestsSynced, AtRest
<1> QED
  BY <1>1, <1>2, <1>3, PTL DEF Spec
=============================================================================
