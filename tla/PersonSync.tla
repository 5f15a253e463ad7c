----------------------------- MODULE PersonSync -----------------------------
(***************************************************************************)
(* How a person of MO gets an LDAP account.  listen_to_changes_in_employees *)
(* (import_export.py) looks for the person's accounts, through the ITUsers *)
(* that link them and through the CPR number; if there is none it makes a  *)
(* free DN and adds an account; then ensure_ituser_link links it.  The     *)
(* account and the link are made in two systems, one after the other.      *)
(*                                                                         *)
(* With settings.imports, a ldap_to_mo mapping imports the account's unique  *)
(* id as an ITUser of the same IT system (dev-environment/                 *)
(* kolding_fixture.yaml), so the LDAP side makes links as well.            *)
(*                                                                         *)
(* What is written on an account that exists is LdapWrite's matter.        *)
(***************************************************************************)
EXTENDS Naturals, FiniteSets

CONSTANTS
  Persons,     \* MO persons
  Accounts,    \* LDAP uuids, of which a new account takes a fresh one
  Names,       \* common names, and so DNs: all in ldap_ou_for_new_users
  HasCpr,      \* persons with a CPR number, which is on their accounts too
  MayCreate,   \* persons whom create_user_trees and the template let through
  LinkSystem,  \* the IT system for links exists (get_ldap_it_system_uuid)
  Exclusive,   \* one process: handlers of a person take turns
  Handlers,    \* runs of http_process_person
  Importers,   \* runs of http_process_uuid
  Settings,    \* the settings to consider
  None         \* no person, account or name

ASSUME SetupAssumption ==
  /\ HasCpr \subseteq Persons /\ MayCreate \subseteq Persons
  /\ {LinkSystem, Exclusive} \subseteq BOOLEAN
  /\ Settings \subseteq [imports : BOOLEAN, discriminates : BOOLEAN, filtered : SUBSET Accounts,
                         maxOutside : Nat, maxFaults : Nat]
  /\ None \notin Persons \cup Accounts \cup Names

VARIABLES
  settings,   \* imports: a ldap_to_mo mapping imports the unique id as such an
              \* ITUser; discriminates: there are discriminator_fields;
              \* filtered: accounts that discriminator_filter drops; and bounds,
              \* maxOutside: accounts deleted by others and changes in MO together,
              \* maxFaults: handlers that fail or crash for no reason seen here
  name,       \* name[u]: where account u is, None if it is not there
  owner,      \* owner[u]: the person u was added for, None if u is unused
  links,      \* links[p][u]: current ITUsers of p with u's LDAP uuid as user key
  queued,     \* persons with an event that waits to be handled
  announced,  \* accounts with an LDAP event that waits to be handled
  pc, who,    \* pc[h]: where handler h stands, who[h]: the event's subject
  asks,       \* asks[h]: lookups of find_mo_employee_dn not yet answered
  found,      \* found[h]: DNs found
  dn,         \* dn[h]: best_dn
  uuid,       \* uuid[h]: unique_uuid of ensure_ituser_link
  stage,      \* stage[i]: where importer i stands
  importing,  \* importing[i]: the account it imports
  imported,   \* imported[i]: the person it found for that
  outside, faults  \* counters of the bounds

ldap == <<name, owner>>
locals == <<who, asks, found, dn, uuid>>
imports == <<stage, importing, imported>>
vars == <<settings, name, owner, links, queued, announced, pc, who, asks, found, dn,
          uuid, stage, importing, imported, outside, faults>>

Exists(u) == name[u] # None
Linked(p) == {u \in Accounts : links[p][u] > 0}
Correlated(p) == {u \in Accounts : Exists(u) /\ owner[u] = p /\ p \in HasCpr}

TypeOK ==
  /\ settings \in Settings
  /\ name \in [Accounts -> Names \cup {None}]
  /\ owner \in [Accounts -> Persons \cup {None}]
  /\ links \in [Persons -> [Accounts -> Nat]]
  /\ queued \subseteq Persons
  /\ announced \subseteq Accounts
  /\ pc \in [Handlers -> {"idle", "find", "choose", "update", "name", "add",
                          "identify", "check", "link"}]
  /\ who \in [Handlers -> Persons \cup {None}]
  /\ asks \in [Handlers -> SUBSET {"itsystem", "cpr"}]
  /\ found \in [Handlers -> SUBSET Names]
  /\ dn \in [Handlers -> Names \cup {None}]
  /\ uuid \in [Handlers -> Accounts \cup {None}]
  /\ stage \in [Importers -> {"idle", "accounts", "check", "create"}]
  /\ importing \in [Importers -> Accounts \cup {None}]
  /\ imported \in [Importers -> Persons \cup {None}]
  /\ outside \in Nat
  /\ faults \in Nat

Init ==
  /\ settings \in Settings
  /\ name = [u \in Accounts |-> None]
  /\ owner = [u \in Accounts |-> None]
  /\ links = [p \in Persons |-> [u \in Accounts |-> 0]]
  /\ queued = Persons
  /\ announced = {}
  /\ pc = [h \in Handlers |-> "idle"]
  /\ who = [h \in Handlers |-> None]
  /\ asks = [h \in Handlers |-> {}]
  /\ found = [h \in Handlers |-> {}]
  /\ dn = [h \in Handlers |-> None]
  /\ uuid = [h \in Handlers |-> None]
  /\ stage = [i \in Importers |-> "idle"]
  /\ importing = [i \in Importers |-> None]
  /\ imported = [i \in Importers |-> None]
  /\ outside = 0
  /\ faults = 0

-----------------------------------------------------------------------------
(* A handler of a person's event. *)

Goto(h, place) == pc' = [pc EXCEPT ![h] = place]

\* The event is acknowledged.
Done(h) ==
  /\ Goto(h, "idle")
  /\ who' = [who EXCEPT ![h] = None]
  /\ asks' = [asks EXCEPT ![h] = {}]
  /\ found' = [found EXCEPT ![h] = {}]
  /\ dn' = [dn EXCEPT ![h] = None]
  /\ uuid' = [uuid EXCEPT ![h] = None]

\* Mutants of GiveBack: the subject is forgotten first; the event is dropped.
GiveBackLate(h) == Done(h) /\ queued' = queued \cup {who'[h]}
GiveBackNothing(h) == Done(h) /\ queued' = queued

\* An error: the event is delivered again.
GiveBack(h) == Done(h) /\ queued' = queued \cup {who[h]}

Take(h, p) ==
  /\ pc[h] = "idle" /\ p \in queued
  /\ Exclusive => \A g \in Handlers : who[g] # p
  /\ queued' = queued \ {p}
  /\ who' = [who EXCEPT ![h] = p]
  /\ asks' = [asks EXCEPT ![h] = {"itsystem", "cpr"}]
  /\ Goto(h, "find")
  /\ UNCHANGED <<ldap, links, announced, found, dn, uuid, imports, outside,
                 faults>>

Answered(h, ask) ==
  /\ asks' = [asks EXCEPT ![h] = @ \ {ask}]
  /\ Goto(h, IF asks[h] = {ask} THEN "choose" ELSE "find")

\* The links of a person, those to accounts that are gone terminated.
Current(of) == [u \in Accounts |-> IF Exists(u) THEN of[u] ELSE 0]

\* filter_dns: what the filter says of an account does not change.
Pass(us) == us \ settings.filtered

\* find_mo_employee_dn_by_itsystem: two links with one user key are an error;
\* a link to an account that is gone is terminated.
FindByItsystem(h) ==
  /\ pc[h] = "find" /\ "itsystem" \in asks[h]
  /\ \/ /\ LinkSystem /\ \A u \in Accounts : links[who[h]][u] <= 1
        /\ found' = [found EXCEPT
             ![h] = @ \cup {name[u] : u \in Pass({v \in Linked(who[h]) : Exists(v)})}]
        /\ links' = [links EXCEPT ![who[h]] = Current(@)]
        /\ Answered(h, "itsystem")
        /\ UNCHANGED <<queued, who, dn, uuid>>
     \/ /\ ~LinkSystem
        /\ Answered(h, "itsystem")
        /\ UNCHANGED <<links, queued, who, found, dn, uuid>>
     \/ /\ LinkSystem /\ \E u \in Accounts : links[who[h]][u] > 1
        /\ GiveBack(h)
        /\ UNCHANGED links
  /\ UNCHANGED <<ldap, announced, imports, outside, faults>>

\* Mutant of FindByCpr: finds nothing.
FindNoneByCpr(h) ==
  /\ pc[h] = "find" /\ "cpr" \in asks[h]
  /\ Answered(h, "cpr")
  /\ UNCHANGED <<ldap, links, queued, announced, who, found, dn, uuid, imports,
                 outside, faults>>

\* find_mo_employee_dn_by_cpr_number.
FindByCpr(h) ==
  /\ pc[h] = "find" /\ "cpr" \in asks[h]
  /\ found' = [found EXCEPT ![h] = @ \cup {name[u] : u \in Pass(Correlated(who[h]))}]
  /\ Answered(h, "cpr")
  /\ UNCHANGED <<ldap, links, queued, announced, who, dn, uuid, imports,
                 outside, faults>>

\* apply_discriminator, may_create_user_given_orgunit_location and the
\* template: write the best account, add one, leave it, or give up on two that
\* are equally good.
Choose(h) ==
  /\ pc[h] = "choose"
  /\ \/ \E n \in found[h] :
          /\ found[h] = {n} \/ settings.discriminates
          /\ dn' = [dn EXCEPT ![h] = n]
          /\ Goto(h, "update")
          /\ UNCHANGED <<queued, who, asks, found, uuid>>
     \/ /\ found[h] # {} /\ settings.discriminates
        /\ Done(h) /\ UNCHANGED queued
     \/ Cardinality(found[h]) > 1 /\ GiveBack(h)
     \/ /\ found[h] = {} /\ who[h] \in MayCreate
        /\ Goto(h, "name")
        /\ UNCHANGED <<queued, who, asks, found, dn, uuid>>
     \/ /\ found[h] = {} /\ who[h] \notin MayCreate
        /\ Done(h) /\ UNCHANGED queued
  /\ UNCHANGED <<ldap, links, announced, imports, outside, faults>>

At(n) == {u \in Accounts : name[u] = n}

\* _create_common_name: the name, or the name with a number.
FreeNames == {n \in Names : At(n) = {}}

\* make_mo_employee_dn: a name nobody has now.  No key to correlate by, or no
\* name left among the permutations, and there is no DN.
MakeDN(h) ==
  /\ pc[h] = "name"
  /\ \/ /\ who[h] \in HasCpr \/ LinkSystem
        /\ \E n \in FreeNames : dn' = [dn EXCEPT ![h] = n]
        /\ Goto(h, "add")
        /\ UNCHANGED <<queued, who, asks, found, uuid>>
     \/ /\ \/ who[h] \notin HasCpr /\ ~LinkSystem
           \/ FreeNames = {}
        /\ GiveBack(h)
  /\ UNCHANGED <<ldap, links, announced, imports, outside, faults>>

\* The server gives a new account an LDAP uuid nobody has had.
Unused == {u \in Accounts : owner[u] = None}
Fresh == CHOOSE u \in Unused : TRUE

\* Mutant of Add: a DN that is taken is taken for one's own.
AddOrAdopt(h) ==
  /\ pc[h] = "add"
  /\ IF At(dn[h]) = {}
       THEN /\ Unused # {}
            /\ name' = [name EXCEPT ![Fresh] = dn[h]]
            /\ owner' = [owner EXCEPT ![Fresh] = who[h]]
            /\ announced' = announced \cup {Fresh}
       ELSE UNCHANGED <<ldap, announced>>
  /\ Goto(h, "identify")
  /\ UNCHANGED <<links, queued, who, asks, found, dn, uuid, imports, outside,
                 faults>>

\* add_ldap_object: the server refuses a DN that is taken by now.
Add(h) ==
  /\ pc[h] = "add"
  /\ \/ /\ At(dn[h]) = {}
        /\ Unused # {}
        /\ name' = [name EXCEPT ![Fresh] = dn[h]]
        /\ owner' = [owner EXCEPT ![Fresh] = who[h]]
        /\ announced' = announced \cup {Fresh}
        /\ Goto(h, "identify")
        /\ UNCHANGED <<queued, who, asks, found, dn, uuid>>
     \/ /\ At(dn[h]) # {}
        /\ GiveBack(h)
        /\ UNCHANGED <<ldap, announced>>
  /\ UNCHANGED <<links, imports, outside, faults>>

\* ensure_ldap_object of an account that should exist.
Update(h) ==
  /\ pc[h] = "update"
  /\ \/ /\ At(dn[h]) # {}
        /\ Goto(h, "identify")
        /\ UNCHANGED <<queued, who, asks, found, dn, uuid>>
     \/ At(dn[h]) = {} /\ GiveBack(h)
  /\ UNCHANGED <<ldap, links, announced, imports, outside, faults>>

\* Mutant of CheckLink: does not look.
LinkUnseen(h) ==
  /\ pc[h] = "check"
  /\ Goto(h, "link")
  /\ UNCHANGED <<ldap, links, queued, announced, locals, imports, outside, faults>>

\* ensure_ituser_link, in three: the uuid the DN has now,
Identify(h) ==
  /\ pc[h] = "identify"
  /\ \/ ~LinkSystem /\ Done(h) /\ UNCHANGED queued
     \/ /\ LinkSystem
        /\ \E u \in At(dn[h]) : uuid' = [uuid EXCEPT ![h] = u]
        /\ Goto(h, "check")
        /\ UNCHANGED <<queued, who, asks, found, dn>>
     \/ LinkSystem /\ At(dn[h]) = {} /\ GiveBack(h)
  /\ UNCHANGED <<ldap, links, announced, imports, outside, faults>>

\* whether the link exists,
CheckLink(h) ==
  /\ pc[h] = "check"
  /\ \/ links[who[h]][uuid[h]] > 0 /\ Done(h)
     \/ /\ links[who[h]][uuid[h]] = 0
        /\ Goto(h, "link")
        /\ UNCHANGED locals
  /\ UNCHANGED <<ldap, links, queued, announced, imports, outside, faults>>

\* and its creation.
CreateLink(h) ==
  /\ pc[h] = "link"
  /\ links' = [links EXCEPT ![who[h]][uuid[h]] = @ + 1]
  /\ Done(h)
  /\ UNCHANGED <<ldap, queued, announced, imports, outside, faults>>

\* Any other error, or the process ends.
Fail(h) ==
  /\ pc[h] # "idle" /\ faults < settings.maxFaults
  /\ faults' = faults + 1
  /\ GiveBack(h)
  /\ UNCHANGED <<ldap, links, announced, imports, outside>>

-----------------------------------------------------------------------------
(* import_single_user, where it makes links. *)

\* find_mo_employee_uuid: the CPR number first, then the links.
PersonsOf(u) ==
  IF owner[u] \in HasCpr THEN {owner[u]}
  ELSE {p \in Persons : links[p][u] > 0}

\* What find_mo_employee_dn finds for p.
AccountsOf(p) == Pass({u \in Linked(p) : Exists(u)} \cup Correlated(p))

EndImport(i) ==
  /\ stage' = [stage EXCEPT ![i] = "idle"]
  /\ importing' = [importing EXCEPT ![i] = None]
  /\ imported' = [imported EXCEPT ![i] = None]

\* An error: the event is delivered again.
RetryImport(i) == EndImport(i) /\ announced' = announced \cup {importing[i]}

\* http_process_uuid acknowledges an account that is gone, and here one that
\* is nobody's; one that may be several persons' is delivered again.
StartImport(i, u) ==
  /\ settings.imports /\ stage[i] = "idle" /\ u \in announced
  /\ announced' = announced \ {u}
  /\ \/ /\ ~Exists(u) \/ PersonsOf(u) = {}
        /\ UNCHANGED imports
     \/ /\ Exists(u)
        /\ \E p \in Persons :
             PersonsOf(u) = {p} /\ imported' = [imported EXCEPT ![i] = p]
        /\ importing' = [importing EXCEPT ![i] = u]
        /\ stage' = [stage EXCEPT ![i] = "accounts"]
  /\ UNCHANGED <<ldap, links, queued, pc, locals, outside, faults>>

\* find_mo_employee_dn and apply_discriminator: the import goes on with the
\* best of the person's accounts, which need not be the one announced.
FindAccounts(i) ==
  /\ stage[i] = "accounts"
  /\ LET p == imported[i] IN
       \/ /\ \A v \in Accounts : links[p][v] <= 1
          /\ links' = [links EXCEPT ![p] = Current(@)]
          /\ \/ \E v \in AccountsOf(p) :
                  /\ AccountsOf(p) = {v} \/ settings.discriminates
                  /\ importing' = [importing EXCEPT ![i] = v]
                  /\ stage' = [stage EXCEPT ![i] = "check"]
                  /\ UNCHANGED <<announced, imported>>
             \/ /\ settings.discriminates \/ AccountsOf(p) = {}
                /\ EndImport(i) /\ UNCHANGED announced
             \/ Cardinality(AccountsOf(p)) > 1 /\ RetryImport(i)
       \/ /\ \E v \in Accounts : links[p][v] > 1
          /\ RetryImport(i) /\ UNCHANGED links
  /\ UNCHANGED <<ldap, queued, pc, locals, outside, faults>>

\* The mapping's uuid template, and what import_single_entity makes of it: a
\* link that is there stays (its user key is u's, or becomes it), none is
\* created, and two are an error.  import_entity holds the lock of the DN.
CheckImport(i) ==
  /\ stage[i] = "check"
  /\ \A j \in Importers : stage[j] = "create" => importing[j] # importing[i]
  /\ LET p == imported[i] IN
       \/ /\ Linked(p) = {}
          /\ stage' = [stage EXCEPT ![i] = "create"]
          /\ UNCHANGED <<links, announced, importing, imported>>
       \/ \E v \in Accounts :
            /\ Linked(p) = {v} /\ links[p][v] = 1
            /\ links' = [links EXCEPT ![p][v] = 0, ![p][importing[i]] = 1]
            /\ EndImport(i) /\ UNCHANGED announced
       \/ /\ \/ Cardinality(Linked(p)) > 1
             \/ \E v \in Accounts : links[p][v] > 1
          /\ RetryImport(i) /\ UNCHANGED links
  /\ UNCHANGED <<ldap, queued, pc, locals, outside, faults>>

CreateImport(i) ==
  /\ stage[i] = "create"
  /\ links' = [links EXCEPT ![imported[i]][importing[i]] = @ + 1]
  /\ EndImport(i)
  /\ UNCHANGED <<ldap, queued, announced, pc, locals, outside, faults>>

FailImport(i) ==
  /\ stage[i] # "idle" /\ faults < settings.maxFaults
  /\ faults' = faults + 1
  /\ RetryImport(i)
  /\ UNCHANGED <<ldap, links, queued, pc, locals, outside>>

-----------------------------------------------------------------------------
(* The world outside: LDAP says nothing of an account that is deleted, and MO *)
(* announces a person whenever anything about the person changes.            *)

Delete(u) ==
  /\ Exists(u) /\ outside < settings.maxOutside
  /\ outside' = outside + 1
  /\ name' = [name EXCEPT ![u] = None]
  /\ UNCHANGED <<owner, links, queued, announced, pc, locals, imports, faults>>

ChangePerson(p) ==
  /\ p \notin queued /\ outside < settings.maxOutside
  /\ outside' = outside + 1
  /\ queued' = queued \cup {p}
  /\ UNCHANGED <<ldap, links, announced, pc, locals, imports, faults>>

-----------------------------------------------------------------------------

HandlerStep(h) ==
  /\ UNCHANGED settings
  /\ \/ \E p \in Persons : Take(h, p)
     \/ FindByItsystem(h) \/ FindByCpr(h) \/ Choose(h) \/ MakeDN(h) \/ Add(h)
     \/ Update(h) \/ Identify(h) \/ CheckLink(h) \/ CreateLink(h)

ImporterStep(i) ==
  /\ UNCHANGED settings
  /\ \/ \E u \in Accounts : StartImport(i, u)
     \/ FindAccounts(i) \/ CheckImport(i) \/ CreateImport(i)

World ==
  /\ UNCHANGED settings
  /\ \/ \E h \in Handlers : Fail(h)
     \/ \E i \in Importers : FailImport(i)
     \/ \E u \in Accounts : Delete(u)
     \/ \E p \in Persons : ChangePerson(p)

Next ==
  \/ \E h \in Handlers : HandlerStep(h)
  \/ \E i \in Importers : ImporterStep(i)
  \/ World

\* Requests are served, and every event is given to some handler in the end.
Fairness ==
  /\ \A h \in Handlers : WF_vars(HandlerStep(h))
  /\ \A i \in Importers : WF_vars(ImporterStep(i))
  /\ \A p \in Persons : SF_vars(\E h \in Handlers : Take(h, p) /\ UNCHANGED settings)

Spec == Init /\ [][Next]_vars
FairSpec == Spec /\ Fairness

-----------------------------------------------------------------------------
(* Properties. *)

\* A person with a CPR number never has two accounts, whether a handler died
\* between the account and its link (comment in lines 290-299) or the link
\* was made by somebody else: the CPR number finds the account.  But accounts
\* that discriminator_filter drops do not count.
OneAccount ==
  \A u, v \in Pass(Accounts) :
    Exists(u) /\ Exists(v) /\ owner[u] = owner[v] /\ owner[u] \in HasCpr => u = v

\* What the docstring of _find_best_dn says (dataloaders.py:316-321): None, and so
\* a new account, is for a person of whom no account was found.
NewIfNone ==
  \A u, v \in Accounts :
    Exists(u) /\ Exists(v) /\ owner[u] = owner[v] /\ owner[u] \in HasCpr => u = v

\* The comments of ensure_ituser_link, "If the link already exists, do nothing"
\* and "If the link does not exist, create it": an account is linked once.
\* Two links of one account stop every later synchronization of the person.  An
\* import of the same link may come between the two.
LinkedOnce == settings.imports \/ \A p \in Persons, u \in Accounts : links[p][u] <= 1

\* Nobody is linked to the account of another: between choosing a free name
\* and adding the account the name can be taken (usernames.py lines 94-114), and
\* the link goes by DN again.  An account deleted just then would free its name.
LinkedToOwn ==
  (\A u \in Accounts : owner[u] # None => Exists(u)) =>
    \A p \in Persons, u \in Accounts : links[p][u] > 0 => owner[u] = p

\* A person with an account that is linked; or a reason to have none.
ServedNow(p) ==
  \/ settings.discriminates \/ settings.imports
  \/ \E u \in Accounts : owner[u] = p /\ ~Exists(u)
  \/ \E u \in Accounts : Exists(u) /\ owner[u] = p /\ links[p][u] = 1

\* Whoever may have an account gets it, with its link: events are retried until
\* both are made.  Nothing brings back an account that others delete; and neither
\* an event without a good account nor one with two links of an account goes on.
Served == \A p \in MayCreate : <>[]ServedNow(p)

-----------------------------------------------------------------------------
(* The inductive invariant behind OneAccount, for handlers that take turns.  *)

\* A handler that is busy has a subject, and an account once it has identified
\* it; an importer that is busy has an account and a person.
Busy ==
  /\ \A h \in Handlers :
       /\ IF pc[h] = "idle" THEN who[h] = None ELSE who[h] \in Persons
       /\ pc[h] \in {"check", "link"} => uuid[h] \in Accounts
  /\ \A i \in Importers :
       stage[i] # "idle" => importing[i] \in Accounts /\ imported[i] \in Persons

TakingTurns ==
  \A g, h \in Handlers : who[g] = who[h] /\ who[h] # None => g = h

\* A handler that adds has found nothing, and its lookups are answered.
AddsIfNone ==
  \A h \in Handlers :
    /\ pc[h] \in {"choose", "name", "add"} => asks[h] = {}
    /\ pc[h] \in {"name", "add"} => found[h] = {}

\* What a lookup by CPR did not find still is not there.
StillNone ==
  \A h \in Handlers :
    /\ pc[h] \in {"find", "choose", "name", "add"} /\ who[h] \in HasCpr
    /\ "cpr" \notin asks[h] /\ found[h] = {}
    => \A u \in Pass(Accounts) : owner[u] = who[h] => ~Exists(u)

\* Without imports only handlers make links, and what one did not find while it
\* checked still is not there.
StillUnlinked ==
  settings.imports \/
    /\ \A p \in Persons, u \in Accounts : links[p][u] <= 1
    /\ \A i \in Importers : stage[i] = "idle"
    /\ \A h \in Handlers : pc[h] = "link" => links[who[h]][uuid[h]] = 0

Typed == TypeOK /\ Busy
Alone == TakingTurns /\ AddsIfNone /\ StillNone /\ OneAccount

-----------------------------------------------------------------------------
(* What Served rests on: whose events are all acknowledged is served.         *)

AtRest(p) == p \notin queued /\ \A h \in Handlers : who[h] # p
RestsServed == \A p \in MayCreate : AtRest(p) => ServedNow(p)
=============================================================================
