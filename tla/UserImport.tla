----------------------------- MODULE UserImport -----------------------------
(***************************************************************************)
(* import_single_user (import_export.py): what LDAP says of a person is    *)
(* written in MO.  A handler of an account's event finds the employee or   *)
(* generates a uuid for one, chooses the best of the person's accounts,    *)
(* and imports the mappings one by one, each under the lock of the DN that *)
(* it imports.  The account is read before, once, under no lock at all.    *)
(*                                                                         *)
(* One person, whose accounts all carry the person's CPR number.  Two      *)
(* mappings: "Employee", and "Address" for the objects that depend on it.  *)
(***************************************************************************)
EXTENDS Naturals, FiniteSets

CONSTANTS
  Handlers,    \* runs of http_process_uuid
  Accounts,    \* the person's LDAP accounts, with a DN each
  Uuids,       \* what uuid4 generates: employees of MO, or not
  Values,      \* of the mapped attributes
  Ranks,       \* rank 0: dropped by discriminator_filter, or good for nothing;
               \* else the higher, the earlier in discriminator_values
  None,        \* no account, no object
  Entries,     \* Entries[u]: what account u may hold
  Directories, \* what LDAP may hold at first
  MaxChanges,  \* bound: changes and deletions of accounts
  MaxNotes,    \* bound: edits by the users of MO
  MaxFaults    \* bound: handlers that fail or crash for no reason seen here

\* The termination date a template renders: none, one within a day, a later one.
Dates == {"never", "now", "later"}

\* An account: its attributes, as far as mappings and discriminators use them.
Entry == [rank : Ranks, value : Values, ends : Dates]

\* An object of MO: its mapped attributes, the end of its validity, and an
\* attribute no mapping has, of those that fetch_uuid_object loads (seniority is
\* not one of them).
Object == [value : Values, ends : Dates, note : {"blank", "noted"}]
MoObject(value, ends, note) == [value |-> value, ends |-> ends, note |-> note]

Keys == {"Employee", "Address"}

ASSUME DomainAssumption ==
  /\ Ranks \subseteq Nat
  /\ None \notin Accounts \cup Uuids \cup Entry \cup Object
  /\ IsFiniteSet(Uuids)
  /\ Entries \in [Accounts -> SUBSET Entry]
  /\ \A d \in Directories : d \in [Accounts -> Entry]
ASSUME BoundAssumption ==
  MaxChanges \in Nat /\ MaxNotes \in Nat /\ MaxFaults \in Nat

VARIABLES
  settings,   \* creates: _import_to_mo_ of Employee is "true", not "edit_only";
              \* terminates: _do_actually_terminate_
  ldap,       \* ldap[u]: the attributes of account u, None once it is deleted
  announced,  \* accounts with an event that waits to be handled
  mo,         \* mo[k][e]: employee e, and the address of e, None if there is none
  addresses,  \* addresses[e]: how many there are
  pc,         \* pc[h]: where handler h stands
  subject,    \* subject[h]: the account of its event
  source,     \* source[h]: the account it imports
  read,       \* read[h]: ldap_object
  employee,   \* employee[h]: employee_uuid
  key,        \* key[h]: the mapping it imports
  fetched,    \* fetched[h]: mo_object
  changes, faults,  \* counters of the bounds
  noted,      \* objects that a user of MO has edited (history)
  crossed,    \* one of those edits came between a fetch and an edit (history)
  overlapped, \* two handlers were busy at one time (history)
  mixed       \* and held the locks of different accounts (history)

locals == <<subject, source, read, employee, key, fetched>>
store == <<mo, addresses>>
history == <<noted, crossed, overlapped, mixed>>
vars == <<settings, ldap, announced, mo, addresses, pc, subject, source, read,
          employee, key, fetched, changes, faults, noted, crossed, overlapped,
          mixed>>

TypeOK ==
  /\ settings \in [creates : BOOLEAN, terminates : BOOLEAN]
  /\ ldap \in [Accounts -> Entry \cup {None}]
  /\ announced \subseteq Accounts
  /\ mo \in [Keys -> [Uuids -> Object \cup {None}]]
  /\ addresses \in [Uuids -> Nat]
  /\ pc \in [Handlers -> {"idle", "employee", "accounts", "reread", "fetch",
                          "create", "terminate", "edit"}]
  /\ subject \in [Handlers -> Accounts \cup {None}]
  /\ source \in [Handlers -> Accounts \cup {None}]
  /\ read \in [Handlers -> Entry \cup {None}]
  /\ employee \in [Handlers -> Uuids \cup {None}]
  /\ key \in [Handlers -> Keys]
  /\ fetched \in [Handlers -> Object \cup {None}]
  /\ changes \in 0 .. MaxChanges
  /\ faults \in 0 .. MaxFaults
  /\ noted \subseteq Keys \X Uuids
  /\ crossed \in BOOLEAN /\ overlapped \in BOOLEAN /\ mixed \in BOOLEAN

Init ==
  /\ settings \in [creates : BOOLEAN, terminates : BOOLEAN]
  /\ ldap \in Directories
  /\ announced = Accounts
  /\ mo = [k \in Keys |-> [e \in Uuids |-> None]]
  /\ addresses = [e \in Uuids |-> 0]
  /\ pc = [h \in Handlers |-> "idle"]
  /\ subject = [h \in Handlers |-> None]
  /\ source = [h \in Handlers |-> None]
  /\ read = [h \in Handlers |-> None]
  /\ employee = [h \in Handlers |-> None]
  /\ key = [h \in Handlers |-> "Employee"]
  /\ fetched = [h \in Handlers |-> None]
  /\ changes = 0 /\ faults = 0
  /\ noted = {}
  /\ crossed = FALSE /\ overlapped = FALSE /\ mixed = FALSE

-----------------------------------------------------------------------------
(* A handler: its event, the employee, the accounts. *)

Goto(h, place) == pc' = [pc EXCEPT ![h] = place]

\* The event is acknowledged.
Done(h) ==
  /\ Goto(h, "idle")
  /\ subject' = [subject EXCEPT ![h] = None]
  /\ source' = [source EXCEPT ![h] = None]
  /\ read' = [read EXCEPT ![h] = None]
  /\ employee' = [employee EXCEPT ![h] = None]
  /\ key' = [key EXCEPT ![h] = "Employee"]
  /\ fetched' = [fetched EXCEPT ![h] = None]

\* Mutant of GiveBack: the subject is forgotten first.
GiveBackLate(h) == Done(h) /\ announced' = announced \cup {subject'[h]}

\* An error: the event is delivered again.
GiveBack(h) == Done(h) /\ announced' = announced \cup {subject[h]}

Busy(h) == pc[h] # "idle"

\* http_process_uuid: an event about an account that is gone is acknowledged.
Start(h, u) ==
  /\ ~Busy(h) /\ u \in announced
  /\ announced' = announced \ {u}
  /\ \/ /\ ldap[u] = None
        /\ UNCHANGED <<pc, locals, overlapped>>
     \/ /\ ldap[u] # None
        /\ subject' = [subject EXCEPT ![h] = u]
        /\ source' = [source EXCEPT ![h] = u]
        /\ read' = [read EXCEPT ![h] = ldap[u]]
        /\ Goto(h, "employee")
        /\ overlapped' = (overlapped \/ \E g \in Handlers : Busy(g))
        /\ UNCHANGED <<employee, key, fetched>>
  /\ UNCHANGED <<settings, ldap, store, changes, faults, noted, crossed, mixed>>

Employees == {e \in Uuids : mo["Employee"][e] # None}

\* uuid4.
Fresh(e) == e \notin Employees /\ \A g \in Handlers : employee[g] # e

\* Mutant of FindEmployee: an employee that exists is not found.
FindNoEmployee(h) ==
  /\ pc[h] = "employee"
  /\ \/ \E e \in Uuids :
          /\ settings.creates /\ Fresh(e)
          /\ employee' = [employee EXCEPT ![h] = e]
          /\ Goto(h, "accounts")
          /\ UNCHANGED <<announced, subject, source, read, key, fetched>>
     \/ ~settings.creates /\ Done(h) /\ UNCHANGED announced
  /\ UNCHANGED <<settings, ldap, store, changes, faults, history>>

\* find_mo_employee_uuid, by the CPR number; an employee to be created gets an
\* uuid now.
FindEmployee(h) ==
  /\ pc[h] = "employee"
  /\ \/ \E e \in Uuids :
          /\ Employees = {e} \/ (Employees = {} /\ settings.creates /\ Fresh(e))
          /\ employee' = [employee EXCEPT ![h] = e]
          /\ Goto(h, "accounts")
          /\ UNCHANGED <<announced, subject, source, read, key, fetched>>
     \/ /\ Employees = {} /\ ~settings.creates
        /\ Done(h) /\ UNCHANGED announced
     \/ Cardinality(Employees) > 1 /\ GiveBack(h)
  /\ UNCHANGED <<settings, ldap, store, changes, faults, history>>

Good == {u \in Accounts : ldap[u] # None /\ ldap[u].rank > 0}
Best == {u \in Good : \A v \in Good : ldap[v].rank <= ldap[u].rank}

\* Mutant of ChooseAccount: any good account is good enough.
ChooseTouched(h) ==
  /\ pc[h] = "accounts"
  /\ \/ /\ subject[h] \in Good
        /\ Goto(h, "fetch")
        /\ UNCHANGED <<announced, locals>>
     \/ subject[h] \notin Good /\ Done(h) /\ UNCHANGED announced
  /\ UNCHANGED <<settings, ldap, store, changes, faults, history>>

\* find_mo_employee_dn or cpr2dns, then filter_dns and apply_discriminator: no
\* good account is the end of it, two equally good ones are an error, and the
\* best is read anew unless it is the event's.
ChooseAccount(h) ==
  /\ pc[h] = "accounts"
  /\ \/ \E u \in Accounts :
          /\ Best = {u}
          /\ source' = [source EXCEPT ![h] = u]
          /\ Goto(h, IF u = subject[h] THEN "fetch" ELSE "reread")
          /\ UNCHANGED <<announced, subject, read, employee, key, fetched>>
     \/ Best = {} /\ Done(h) /\ UNCHANGED announced
     \/ Cardinality(Best) > 1 /\ GiveBack(h)
  /\ UNCHANGED <<settings, ldap, store, changes, faults, history>>

\* get_object_by_dn of the best account.
Reread(h) ==
  /\ pc[h] = "reread"
  /\ \/ /\ ldap[source[h]] # None
        /\ read' = [read EXCEPT ![h] = ldap[source[h]]]
        /\ Goto(h, "fetch")
        /\ UNCHANGED <<announced, subject, source, employee, key, fetched>>
     \/ ldap[source[h]] = None /\ GiveBack(h)
  /\ UNCHANGED <<settings, ldap, store, changes, faults, history>>

-----------------------------------------------------------------------------
(* import_entity and import_single_entity, for the mapping key[h]. *)

Locks(h) == pc[h] \in {"create", "terminate", "edit"}

\* An employee has no validity of its own in a mapping.
EndOf(h) == IF key[h] = "Employee" THEN "never" ELSE read[h].ends

\* The next mapping, or the event is done.
NextKey(h) ==
  \/ /\ key[h] = "Employee"
     /\ key' = [key EXCEPT ![h] = "Address"]
     /\ fetched' = [fetched EXCEPT ![h] = None]
     /\ Goto(h, "fetch")
     /\ UNCHANGED <<subject, source, read, employee>>
  \/ key[h] = "Address" /\ Done(h)

\* Mutant of Fetch: no lock.
FetchUnlocked(h) ==
  /\ pc[h] = "fetch"
  /\ LET object == mo[key[h]][employee[h]] IN
       /\ fetched' = [fetched EXCEPT ![h] = object]
       /\ Goto(h, IF object = None THEN "create"
                  ELSE IF EndOf(h) # "never" /\ settings.terminates
                  THEN "terminate" ELSE "edit")
  /\ UNCHANGED <<settings, ldap, announced, store, subject, source, read,
                 employee, key, changes, faults, history>>

\* The lock of the DN, the uuid template, which fails on two objects, and
\* fetch_uuid_object.
Fetch(h) ==
  /\ pc[h] = "fetch"
  /\ \A g \in Handlers : Locks(g) => source[g] # source[h]
  /\ LET object == mo[key[h]][employee[h]] IN
       \/ /\ key[h] = "Address" => addresses[employee[h]] <= 1
          /\ fetched' = [fetched EXCEPT ![h] = object]
          /\ Goto(h, IF object = None THEN "create"
                     ELSE IF EndOf(h) # "never" /\ settings.terminates
                     THEN "terminate" ELSE "edit")
          /\ mixed' = (mixed \/ \E g \in Handlers : Locks(g))
          /\ UNCHANGED <<announced, subject, source, read, employee, key>>
       \/ /\ key[h] = "Address" /\ addresses[employee[h]] > 1
          /\ GiveBack(h)
          /\ UNCHANGED mixed
  /\ UNCHANGED <<settings, ldap, store, changes, faults, noted, crossed,
                 overlapped>>

\* A create; not of an object that would end within a day.
Create(h) ==
  /\ pc[h] = "create"
  /\ \/ EndOf(h) = "now" /\ UNCHANGED store
     \/ /\ EndOf(h) # "now"
        /\ mo' = [mo EXCEPT ![key[h]][employee[h]] =
                    MoObject(read[h].value, EndOf(h), "blank")]
        /\ addresses' = [addresses EXCEPT
                           ![employee[h]] = IF key[h] = "Address" THEN @ + 1 ELSE @]
  /\ NextKey(h)
  /\ UNCHANGED <<settings, ldap, announced, changes, faults, history>>

\* A termination, every time the template renders a date; updates follow.
Terminate(h) ==
  /\ pc[h] = "terminate"
  /\ LET object == mo[key[h]][employee[h]] IN
       mo' = [mo EXCEPT ![key[h]][employee[h]] =
                MoObject(object.value, EndOf(h), object.note)]
  /\ Goto(h, "edit")
  /\ UNCHANGED <<settings, ldap, announced, addresses, locals, changes, faults,
                 history>>

\* An edit covers the days until its end; MO keeps what it has of those after.
Until(end, old) == IF "never" \in {end, old} THEN "never" ELSE end

\* Mutant of Edit: uploads what the mapping renders and nothing else.
EditAnew(h) ==
  /\ pc[h] = "edit"
  /\ mo' = [mo EXCEPT ![key[h]][employee[h]] =
               MoObject(read[h].value, EndOf(h), "blank")]
  /\ NextKey(h)
  /\ UNCHANGED <<settings, ldap, announced, addresses, changes, faults, history>>

\* An edit, which uploads mo_object as it was fetched with what differs from it
\* replaced; not of an object that ends within a day, and not of its start alone.
\* Without a termination before it, it does not end the object.
Edit(h) ==
  /\ pc[h] = "edit"
  /\ LET object == MoObject(read[h].value, EndOf(h), fetched[h].note)
         ends == Until(EndOf(h), mo[key[h]][employee[h]].ends)
     IN  IF EndOf(h) = "now" \/ object = fetched[h] THEN UNCHANGED mo
         ELSE mo' = [mo EXCEPT ![key[h]][employee[h]] =
                       MoObject(object.value, ends, object.note)]
  /\ NextKey(h)
  /\ UNCHANGED <<settings, ldap, announced, addresses, changes, faults, history>>

\* Any other error, or the process ends.
Fail(h) ==
  /\ Busy(h) /\ faults < MaxFaults
  /\ faults' = faults + 1
  /\ GiveBack(h)
  /\ UNCHANGED <<settings, ldap, store, changes, history>>

-----------------------------------------------------------------------------
(* LDAP, whose event generator announces changes but no deletions, and the    *)
(* users of MO.                                                              *)

Change(u, entry) ==
  /\ changes < MaxChanges /\ ldap[u] # None /\ ldap[u] # entry
  /\ changes' = changes + 1
  /\ ldap' = [ldap EXCEPT ![u] = entry]
  /\ announced' = announced \cup {u}
  /\ UNCHANGED <<settings, store, pc, locals, faults, history>>

Delete(u) ==
  /\ changes < MaxChanges /\ ldap[u] # None
  /\ changes' = changes + 1
  /\ ldap' = [ldap EXCEPT ![u] = None]
  /\ UNCHANGED <<settings, announced, store, pc, locals, faults, history>>

Note(k, e) ==
  /\ Cardinality(noted) < MaxNotes
  /\ mo[k][e] # None /\ mo[k][e].note = "blank"
  /\ mo' = [mo EXCEPT ![k][e] = MoObject(mo[k][e].value, mo[k][e].ends, "noted")]
  /\ noted' = noted \cup {<<k, e>>}
  /\ crossed' = (crossed \/ \E h \in Handlers :
                   Locks(h) /\ key[h] = k /\ employee[h] = e)
  /\ UNCHANGED <<settings, ldap, announced, addresses, pc, locals, changes,
                 faults, overlapped, mixed>>

-----------------------------------------------------------------------------

HandlerStep(h) ==
  \/ \E u \in Accounts : Start(h, u)
  \/ FindEmployee(h) \/ ChooseAccount(h) \/ Reread(h)
  \/ Fetch(h) \/ Create(h) \/ Terminate(h) \/ Edit(h)

Next ==
  \/ \E h \in Handlers : HandlerStep(h) \/ Fail(h)
  \/ \E u \in Accounts : Delete(u) \/ \E entry \in Entries[u] : Change(u, entry)
  \/ \E k \in Keys, e \in Uuids : Note(k, e)

\* Events are delivered until they are acknowledged, and a request is served
\* to its end unless the process ends.
Spec == Init /\ [][Next]_vars
FairSpec == Spec /\ \A h \in Handlers : WF_vars(HandlerStep(h))

-----------------------------------------------------------------------------
(* Properties. *)

\* One CPR number, one employee: an event handled again, after a crash or an
\* error on the way, finds what was created (lines 384-395).  Only handlers at
\* one time, each of which finds nothing, create two.
OneEmployee == overlapped \/ \A d, e \in Employees : d = e

\* The lock of the DN makes the search for an object and its creation one step
\* (lines 521-523): handlers that import the same account create it once.
CreatedOnce == mixed \/ \A e \in Uuids : addresses[e] <= 1

\* What a user of MO writes in an attribute without a mapping is not undone by
\* an import (lines 719-770), unless it was written between fetch and edit.
UnmappedKept ==
  crossed \/ mixed \/ \A o \in noted : mo[o[1]][o[2]].note = "noted"

\* MO is as the best account says, if one account is the best.
SyncedWith(data) ==
  \/ Employees = {} /\ ~settings.creates
  \/ \E e \in Uuids :
       /\ Employees = {e} /\ mo["Employee"][e].value = data.value
       /\ LET address == mo["Address"][e] IN
            \/ data.ends = "now" /\ (address = None \/ ~settings.terminates)
            \/ data.ends = "now" /\ address # None /\ address.ends = "now"
            \/ /\ data.ends # "now" /\ address # None
               /\ address.value = data.value
               /\ \/ address.ends = data.ends
                  \/ address.ends = "never" /\ ~settings.terminates
Synced == \A u \in Accounts : Best = {u} => SyncedWith(ldap[u])
Deleted == \E u \in Accounts : ldap[u] = None

\* In the end MO is as the best account says, whichever account was touched
\* last (lines 440-442), if handlers do not run at one time.
SyncedInTurn == <>[](overlapped \/ Deleted \/ Synced)

-----------------------------------------------------------------------------
(* The inductive invariants behind OneEmployee, CreatedOnce, UnmappedKept.   *)

\* What is set, where a handler stands; what was found in MO stays there.
LocalsSet ==
  \A h \in Handlers :
    /\ Busy(h) => subject[h] \in Accounts /\ source[h] \in Accounts /\ read[h] \in Entry
    /\ pc[h] \notin {"idle", "employee"} => employee[h] \in Uuids
    /\ pc[h] \in {"terminate", "edit"} =>
         fetched[h] \in Object /\ mo[key[h]][employee[h]] \in Object

\* A lone handler knows of every employee there is.
KnowsEmployee ==
  ~overlapped =>
    /\ \A g, h \in Handlers : Busy(g) /\ Busy(h) => g = h
    /\ \A h \in Handlers : pc[h] \notin {"idle", "employee"} =>
         \A e \in Employees : e = employee[h]

\* Of handlers with one account one holds the lock, and what it did not find
\* still is not there.
OneLock ==
  ~mixed =>
    /\ \A g, h \in Handlers : Locks(g) /\ Locks(h) => g = h
    /\ \A h \in Handlers : pc[h] = "create" => mo[key[h]][employee[h]] = None

NoneCounted == \A e \in Uuids : mo["Address"][e] = None => addresses[e] = 0

NotedStays == \A o \in noted : mo[o[1]][o[2]] \in Object

\* What a user wrote has been fetched by whoever is to edit the object.
NoteFetched ==
  crossed \/ mixed \/
    \A h \in Handlers : \A o \in noted :
      pc[h] \in {"terminate", "edit"} /\ o = <<key[h], employee[h]>> =>
        fetched[h].note = "noted"

Typed == TypeOK /\ LocalsSet
Alone == KnowsEmployee /\ OneEmployee
Once == OneLock /\ NoneCounted /\ CreatedOnce
Kept == NotedStays /\ NoteFetched /\ UnmappedKept

-----------------------------------------------------------------------------
(* What SyncedInTurn rests on: with nothing left to handle MO is as the best *)
(* account says.                                                             *)

AtRest == announced = {} /\ \A h \in Handlers : ~Busy(h)
RestsSynced == AtRest => overlapped \/ Deleted \/ Synced

\* What a handler imports is what the best account says.
KnowsBest(h) ==
  /\ Best = {source[h]} /\ read[h] = ldap[source[h]]
  /\ key[h] = "Address" =>
       Employees = {employee[h]} /\ mo["Employee"][employee[h]].value = read[h].value

\* What it fetched is what MO has, but for the end that it has written since.
KnowsObject(h) ==
  LET object == mo[key[h]][employee[h]] IN
    /\ pc[h] = "create" => object = None
    /\ pc[h] \in {"terminate", "edit"} =>
         object.value = fetched[h].value /\ object.ends \in {fetched[h].ends, EndOf(h)}
    /\ pc[h] = "terminate" => EndOf(h) # "never"
    /\ pc[h] = "edit" /\ EndOf(h) # "never" /\ settings.terminates =>
         object.ends = EndOf(h)

\* A handler that makes MO what the best account says, if nothing comes between.
Attends(h) ==
  \/ /\ pc[h] \in {"employee", "accounts"} /\ key[h] = "Employee"
     /\ source[h] = subject[h] /\ read[h] = ldap[subject[h]]
  \/ pc[h] = "reread" /\ key[h] = "Employee" /\ Best = {source[h]}
  \/ pc[h] \in {"fetch", "create", "terminate", "edit"} /\ KnowsBest(h) /\ KnowsObject(h)

\* What changes is announced; or else whoever is at work attends.
Attended ==
  \/ overlapped \/ Deleted \/ announced # {}
  \/ /\ \A h \in Handlers : Busy(h) => Attends(h)
     /\ (\A h \in Handlers : ~Busy(h)) => Synced

IdleReset == \A h \in Handlers : ~Busy(h) => key[h] = "Employee"
=============================================================================
