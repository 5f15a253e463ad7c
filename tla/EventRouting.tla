---------------------------- MODULE EventRouting ----------------------------
(***************************************************************************)
(* How an event reaches the handlers that synchronize (main.py,            *)
(* ldap_amqp.py).  A change of an address, an engagement, an ituser or an  *)
(* organisation unit concerns persons: its handler reads whom, and has MO  *)
(* put events about them in the queues of their listeners, one listener at *)
(* a time.  The two reconcile handlers seed each other's side the same     *)
(* way.  At the ends are the handlers of the other modules, a step each.   *)
(***************************************************************************)
EXTENDS Naturals, FiniteSets

CONSTANTS
  Handlers,                            \* concurrent requests
  Persons, Units,                      \* of MO
  Addresses, Engagements, Itusers,     \* of MO: they relate to those
  Accounts,    \* unique ids of LDAP objects
  OwnerOf,     \* OwnerOf[x]: whose account x is, None if nobody's
  None,
  Relations,   \* Relations[o]: what one validity of o may relate to
  Imported,    \* what the ldap_to_mo mappings may write in MO
  RoutingOf,   \* RoutingOf[m]: routing_key of m, for each mo_to_ldap mapping
  Scenes       \* the deployments and the bounds looked at, see scene

Related == Addresses \cup Engagements \cup Itusers
Subjects == Persons \cup Units \cup Related \cup Accounts

\* The listeners of create_fastramqpi, by the ends of their user keys.
StaticKey ==
  [process_address |-> "address", process_engagement |-> "engagement",
   process_ituser |-> "ituser", process_person |-> "person",
   reconcile_person |-> "person", process_org_unit |-> "org_unit",
   process_uuid |-> "uuid", reconcile_uuid |-> "uuid"]
Mappings == DOMAIN RoutingOf
RoutingKey(l) == IF l \in Mappings THEN RoutingOf[l] ELSE StaticKey[l]
UuidListeners == {"process_uuid", "reconcile_uuid"}
AllListeners == DOMAIN StaticKey \cup Mappings
Leaves == {"process_person", "process_uuid"} \cup Mappings

Scene ==
  [listening : SUBSET {"mo", "ldap"}, ignored : SUBSET Subjects,
   parallelism : Nat, changes : Nat, faults : Nat, closings : Nat]

Events == AllListeners \X Subjects

\* A request that adds events: person_refresh and its like, or send_event.
Calls == [to : SUBSET AllListeners, about : SUBSET Subjects]

ASSUME DomainAssumption ==
  /\ OwnerOf \in [Accounts -> Persons \cup {None}]
  /\ Relations \in [Related -> SUBSET SUBSET (Persons \cup Units)]
  /\ \A m \in Mappings : RoutingOf[m] \in
       {"address", "engagement", "ituser", "person", "org_unit"}
  /\ Mappings \cap DOMAIN StaticKey = {}
  /\ Imported \subseteq Persons \cup Related
  /\ None \notin Subjects \cup Events
ASSUME KindAssumption ==
  /\ Persons \cap (Units \cup Related \cup Accounts) = {}
  /\ Units \cap (Related \cup Accounts) = {}
  /\ Related \cap Accounts = {}
  /\ Addresses \cap (Engagements \cup Itusers) = {}
  /\ Engagements \cap Itusers = {}
ASSUME BoundAssumption == Scenes \subseteq Scene

VARIABLES
  scene,     \* listening: listen_to_changes_in_mo and listen_to_changes_in_ldap;
             \* ignored: mo_uuids_to_ignore and ldap_uuids_to_ignore;
             \* parallelism: how many requests are handled at a time; bounds:
             \* changes from outside, handlers that fail or crash, and mornings
             \* with a disallowed interval
  relations, \* relations[o]: what the validities of o relate to
  waiting,   \* events in the queues
  open,      \* it is not between 7:45 and 8:45, or that does not matter
  pc,        \* pc[h]: where handler h stands
  event,     \* event[h]: its event
  calls,     \* calls[h]: the refreshes it has yet to ask for
  changes, faults, closings, \* counters of the bounds
  stale,     \* handlings that a change calls for, not done since (history)
  cut        \* those whose relation was taken away meanwhile (history)

counters == <<changes, faults, closings>>
vars == <<scene, relations, waiting, open, pc, event, calls, changes,
          faults, closings, stale, cut>>

TypeOK ==
  /\ scene \in Scenes
  /\ relations \in [Related -> SUBSET (Persons \cup Units)]
  /\ waiting \subseteq Events
  /\ open \in BOOLEAN
  /\ pc \in [Handlers -> {"idle", "started", "refreshing"}]
  /\ event \in [Handlers -> Events \cup {None}]
  /\ calls \in [Handlers -> SUBSET Calls]
  /\ changes \in 0 .. scene.changes
  /\ faults \in 0 .. scene.faults
  /\ closings \in 0 .. scene.closings
  /\ stale \subseteq Events /\ cut \subseteq Events

Init ==
  /\ scene \in Scenes
  /\ relations \in [Related -> SUBSET (Persons \cup Units)]
  /\ \A o \in Related : relations[o] \in Relations[o] \cup {{}}
  /\ waiting = {} /\ open = TRUE
  /\ pc = [h \in Handlers |-> "idle"]
  /\ event = [h \in Handlers |-> None]
  /\ calls = [h \in Handlers |-> {}]
  /\ changes = 0 /\ faults = 0 /\ closings = 0
  /\ stale = {} /\ cut = {}

-----------------------------------------------------------------------------
(* Queues. *)

Listeners ==
  {l \in AllListeners :
     (IF l \in UuidListeners THEN "ldap" ELSE "mo") \in scene.listening}

Keyed(key) == {l \in Listeners : RoutingKey(l) = key}
MappingsOf(key) == {m \in Mappings : RoutingOf[m] = key}

Kind(s) ==
  CASE s \in Persons -> "person"
    [] s \in Units -> "org_unit"
    [] s \in Addresses -> "address"
    [] s \in Engagements -> "engagement"
    [] s \in Itusers -> "ituser"
    [] s \in Accounts -> "uuid"

\* What a change of s puts in the queues.
Notices(s) == Keyed(Kind(s)) \X {s}

AccountsOf(p) == {x \in Accounts : OwnerOf[x] = p}

\* The engagements of a unit, past, present and future.
EngagementsOf(u) == {e \in Engagements : u \in relations[e]}

\* MO answers a refresh: org_unit_engagements_refresh names a unit, and means
\* its engagements.
Emitted(c) ==
  IF c.to \subseteq Keyed("engagement")
  THEN c.to \X UNION {EngagementsOf(u) : u \in c.about}
  ELSE c.to \X c.about

\* One request for each of the listeners that read_event_listeners finds.
Refreshes(listeners, subjects) ==
  IF subjects = {} THEN {}
  ELSE {[to |-> {l}, about |-> subjects] : l \in listeners \cap Listeners}

\* publish_uuids: one event for each uuid, for whoever listens to uuids.
Published(uuids) == {[to |-> Keyed("uuid"), about |-> {x}] : x \in uuids}

-----------------------------------------------------------------------------
(* What the handlers ask for. *)

PersonsOf(o) == relations[o] \cap Persons
UnitsOf(o) == relations[o] \cap Units

\* Mutant of AddressCalls: units only if there are no persons.
AddressCallsElse(a) ==
  IF PersonsOf(a) # {}
  THEN Refreshes({"process_person", "reconcile_person"} \cup MappingsOf("person"),
                 PersonsOf(a))
  ELSE Refreshes({"process_org_unit"} \cup MappingsOf("org_unit"), UnitsOf(a))

AddressCalls(a) ==
  Refreshes({"process_person", "reconcile_person"} \cup MappingsOf("person"),
            PersonsOf(a))
    \cup Refreshes({"process_org_unit"} \cup MappingsOf("org_unit"), UnitsOf(a))

EngagementCalls(e) ==
  Refreshes({"process_person"} \cup MappingsOf("person"), PersonsOf(e))

ItuserCalls(i) ==
  Refreshes({"process_person"} \cup MappingsOf("person"), PersonsOf(i))
    \cup Refreshes({"process_org_unit"} \cup MappingsOf("org_unit"), UnitsOf(i))

OrgUnitCalls(u) ==
  Refreshes({"process_engagement"} \cup MappingsOf("engagement"), {u})

ReconcilePersonCalls(p) ==
  IF p \in scene.ignored THEN {} ELSE Published(AccountsOf(p))

\* Mutant of ReconcileUuidCalls: the other reconciliation is asked for too.
ReconcileBothCalls(x) ==
  IF x \in scene.ignored \/ OwnerOf[x] = None THEN {}
  ELSE Refreshes({"process_person", "reconcile_person"}, {OwnerOf[x]})

ReconcileUuidCalls(x) ==
  IF x \in scene.ignored \/ OwnerOf[x] = None THEN {}
  ELSE Refreshes({"process_person"}, {OwnerOf[x]})

CallsFor(ev) ==
  CASE ev[1] = "process_address"    -> AddressCalls(ev[2])
    [] ev[1] = "process_engagement" -> EngagementCalls(ev[2])
    [] ev[1] = "process_ituser"     -> ItuserCalls(ev[2])
    [] ev[1] = "process_org_unit"   -> OrgUnitCalls(ev[2])
    [] ev[1] = "reconcile_person"   -> ReconcilePersonCalls(ev[2])
    [] ev[1] = "reconcile_uuid"     -> ReconcileUuidCalls(ev[2])
    [] OTHER                        -> {}

-----------------------------------------------------------------------------
(* A handler. *)

Busy(h) == pc[h] # "idle"

Done(h) ==
  /\ pc' = [pc EXCEPT ![h] = "idle"]
  /\ event' = [event EXCEPT ![h] = None]
  /\ calls' = [calls EXCEPT ![h] = {}]

\* An error: the event is delivered again, from its beginning.
GiveBack(h) == Done(h) /\ waiting' = waiting \cup {event[h]}

\* delay_ldap: an LDAP event in the interval is refused, to come again later.
Take(h, ev) ==
  /\ ~Busy(h) /\ ev \in waiting
  /\ Cardinality({g \in Handlers : Busy(g)}) < scene.parallelism
  /\ ev[1] \in UuidListeners => open
  /\ waiting' = waiting \ {ev}
  /\ pc' = [pc EXCEPT ![h] = "started"]
  /\ event' = [event EXCEPT ![h] = ev]
  /\ UNCHANGED <<scene, relations, open, calls, counters, stale, cut>>

Handles(h, listener) == pc[h] = "started" /\ event[h][1] = listener

\* A handler that passes events on has read whom its event concerns.
PassOn(h) ==
  /\ pc[h] = "started" /\ event[h][1] \notin Leaves
  /\ calls' = [calls EXCEPT ![h] = CallsFor(event[h])]
  /\ pc' = [pc EXCEPT ![h] = "refreshing"]
  /\ UNCHANGED <<scene, relations, waiting, open, event, counters, stale,
                 cut>>

\* One request; persons come before units.
Refresh(h, c) ==
  /\ c \in calls[h]
  /\ (\E d \in calls[h] : d.about \subseteq Persons) => c.about \subseteq Persons
  /\ calls' = [calls EXCEPT ![h] = @ \ {c}]
  /\ waiting' = waiting \cup Emitted(c)
  /\ UNCHANGED <<scene, relations, open, pc, event, counters, stale, cut>>

Finish(h) ==
  /\ pc[h] = "refreshing" /\ calls[h] = {}
  /\ Done(h)
  /\ UNCHANGED <<scene, relations, waiting, open, counters, stale, cut>>

\* What an account's new values write comes back as events.
Echo(written) == UNION {Notices(s) : s \in written}

\* http_process_person: the person's accounts are written if there is news.
ProcessPerson(h) ==
  /\ Handles(h, "process_person")
  /\ \E written \in SUBSET AccountsOf(event[h][2]) :
       /\ event[h] \notin stale => written = {}
       /\ waiting' = waiting \cup Echo(written)
  /\ stale' = stale \ {event[h]}
  /\ Done(h)
  /\ UNCHANGED <<scene, relations, open, counters, cut>>

\* A mo_to_ldap handler writes an LDAP object, as its template says.
ProcessMapping(h) ==
  /\ pc[h] = "started" /\ event[h][1] \in Mappings
  /\ \E written \in SUBSET Accounts :
       /\ event[h] \notin stale => written = {}
       /\ waiting' = waiting \cup Echo(written)
  /\ stale' = stale \ {event[h]}
  /\ Done(h)
  /\ UNCHANGED <<scene, relations, open, counters, cut>>

-----------------------------------------------------------------------------
(* Whom a change concerns, whatever the handlers do (history only). *)

\* What MO's data about s is part of.
Depend(s) ==
  LET persons(S) == UNION {PersonsOf(o) : o \in S}
      staff(U) == UNION {EngagementsOf(u) : u \in U}
      within(U) == U \cup staff(U) \cup persons(staff(U))
  IN  CASE s \in Persons -> {s}
        [] s \in Units -> within({s})
        [] s \in Engagements -> {s} \cup PersonsOf(s)
        [] s \in Addresses \cup Itusers ->
             {s} \cup PersonsOf(s) \cup within(UnitsOf(s))

\* Handlings, by some listeners, that write to LDAP what MO says of them.
ToLdapBy(listeners, S) ==
  {ev \in (listeners \cap Listeners) \X S :
     /\ RoutingKey(ev[1]) = Kind(ev[2])
     /\ ~(ev[1] = "process_person" /\ ev[2] \in scene.ignored)}
ToLdap(S) == ToLdapBy({"process_person"} \cup Mappings, S)

\* Handlings that write to MO what LDAP says of them.
ToMo(accounts) ==
  ({"process_uuid"} \cap Listeners) \X (accounts \ scene.ignored)

\* MO may have strayed from LDAP, too: that is looked at when a person or an
\* address changes, and not for itusers, engagements and units.
StrayedOf(s) ==
  UNION {AccountsOf(p) :
           p \in (IF s \in Persons THEN {s}
                  ELSE IF s \in Addresses THEN PersonsOf(s) ELSE {}) \ scene.ignored}

\* And LDAP from MO, when an account changes: only where it is a person's account
\* by which http_process_person finds the person, not for what mappings wrote.
Concerns(s) ==
  IF s \in Accounts
  THEN ToMo({s}) \cup
       (IF s \in scene.ignored \/ "ldap" \notin scene.listening THEN {}
        ELSE ToLdapBy({"process_person"}, {OwnerOf[s]} \ {None}))
  ELSE IF "mo" \in scene.listening THEN ToLdap(Depend(s)) \cup ToMo(StrayedOf(s)) ELSE {}

\* What MO has of a person.
HeldBy(p) ==
  {p} \cup {o \in Related : p \in relations[o]}

\* http_process_uuid: what the account says of its owner is written in MO, where
\* others may be concerned.  LDAP says the same as MO then.
ProcessUuid(h) ==
  /\ Handles(h, "process_uuid")
  /\ \E written \in SUBSET (Imported \cap HeldBy(OwnerOf[event[h][2]])) :
       /\ event[h] \notin stale => written = {}
       /\ waiting' = waiting \cup Echo(written)
       /\ stale' = (stale \ {event[h]}) \cup UNION {ToLdap(Depend(s)) : s \in written}
  /\ Done(h)
  /\ UNCHANGED <<scene, relations, open, counters, cut>>

Fail(h) ==
  /\ Busy(h) /\ faults < scene.faults
  /\ GiveBack(h)
  /\ faults' = faults + 1
  /\ UNCHANGED <<scene, relations, open, changes, closings, stale, cut>>

-----------------------------------------------------------------------------
(* The outside. *)

\* Somebody changes s, in MO or in LDAP.
Change(s) ==
  /\ changes < scene.changes
  /\ waiting' = waiting \cup Notices(s)
  /\ stale' = stale \cup Concerns(s)
  /\ changes' = changes + 1
  /\ UNCHANGED <<scene, relations, open, pc, event, calls, faults, closings,
                 cut>>

\* The related object o gets other relations.  What they were concerns those it
\* was related to, as much as what they are.
Relate(o, related) ==
  /\ changes < scene.changes
  /\ UNCHANGED <<scene, open, pc, event, calls, faults, closings>>
  /\ relations' = [relations EXCEPT ![o] = related]
  /\ waiting' = waiting \cup Notices(o)
  /\ stale' = stale \cup Concerns(o) \cup Concerns(o)'
  /\ cut' = cut \cup (Concerns(o) \ Concerns(o)')
  /\ changes' = changes + 1

\* o gets another validity: the earlier ones still relate it to others.
Extend(o, validity) == Relate(o, relations[o] \cup validity)

\* o's only validity is changed from its first day on.
Rewrite(o, validity) == Relate(o, validity)

Close ==
  /\ open /\ closings < scene.closings
  /\ open' = FALSE
  /\ closings' = closings + 1
  /\ UNCHANGED <<scene, relations, waiting, pc, event, calls, changes,
                 faults, stale, cut>>

Open ==
  /\ ~open /\ open' = TRUE
  /\ UNCHANGED <<scene, relations, waiting, pc, event, calls, counters,
                 stale, cut>>

HandlerStep(h) ==
  \/ \E ev \in waiting : Take(h, ev)
  \/ PassOn(h)
  \/ \E c \in calls[h] : Refresh(h, c)
  \/ Finish(h)
  \/ ProcessPerson(h) \/ ProcessMapping(h) \/ ProcessUuid(h)

Next ==
  \/ \E h \in Handlers : HandlerStep(h) \/ Fail(h)
  \/ \E s \in Persons \cup Units \cup Accounts : Change(s)
  \/ \E o \in Related : \E v \in Relations[o] : Extend(o, v) \/ Rewrite(o, v)
  \/ Close \/ Open

Fairness ==
  /\ \A h \in Handlers : WF_vars(HandlerStep(h))
  /\ WF_vars(Open)

Spec == Init /\ [][Next]_vars /\ Fairness

-----------------------------------------------------------------------------
(* Properties. *)

\* What the events lead to, as things are, if every handler succeeds.
Onward(S) == S \cup UNION {UNION {Emitted(c) : c \in CallsFor(ev)} : ev \in S}

\* Events that wait, are being handled, or are still to be asked for.
Carried ==
  waiting \cup {event[h] : h \in {g \in Handlers : pc[g] = "started"}}
          \cup UNION {Emitted(c) : c \in UNION {calls[h] : h \in Handlers}}

\* Four hops are the longest way: an address of a unit, the unit, an engagement,
\* its person; or an address, its person, an account, its owner.
OnItsWay == Onward(Onward(Onward(Onward(Carried))))

\* No change is forgotten between the two systems, however the handlers fail and
\* interleave and the relations move meanwhile: whoever it concerns is handled, or
\* will be.  The one exception is whoever lost the relation by a change of the
\* only validity, of which MO keeps nothing for http_process_address and its like
\* to read.
NothingLost == stale \ OnItsWay \subseteq cut

\* The two reconciliations and the echo of the program's own writes come to an
\* end: without changes from outside the queues drain (http_reconcile_person and
\* http_reconcile_uuid).
QueuesDrain == <>[](waiting = {} /\ \A h \in Handlers : ~Busy(h))

-----------------------------------------------------------------------------
(* The inductive invariant behind NothingLost. *)

\* Events as the listeners declare them: about subjects of the listener's kind.
Addressed ==
  {ev \in Events : ev[1] \in Listeners /\ RoutingKey(ev[1]) = Kind(ev[2])}

ProperCall ==
  {c \in Calls :
     /\ c.to \subseteq Listeners
     /\ IF c.to \subseteq Keyed("engagement")
        THEN c.to # {} => c.about \subseteq Units
        ELSE c.to \X c.about \subseteq Addressed}

WellAddressed ==
  /\ waiting \subseteq Addressed
  /\ \A h \in Handlers :
       /\ Busy(h) => event[h] \in Addressed
       /\ calls[h] \subseteq ProperCall
       /\ calls[h] # {} => pc[h] = "refreshing"

\* What is called for are handlings at the ends, of what is not ignored.
Wanted ==
  {ev \in Addressed :
     /\ ev[1] \in Leaves
     /\ ev[1] \notin Mappings => ev[2] \notin scene.ignored}

OnlyWanted == stale \subseteq Wanted

\* What is carried if, of the handlers that are refreshing, those of F fail.
CarriedIf(F) ==
  waiting \cup {event[h] : h \in {g \in Handlers : pc[g] = "started"}}
          \cup {event[h] : h \in {g \in F : pc[g] = "refreshing"}}
          \cup UNION {Emitted(c) : c \in UNION {calls[h] : h \in Handlers \ F}}

OnwardToEnd(S) == Onward(Onward(Onward(Onward(S))))

\* A handler that fails drops what it has yet to ask for, read when relations were
\* others perhaps; and whoever finishes leaves nothing behind.  So nothing may be
\* lost whichever of them fail.
NothingLostIf(F) == stale \ OnwardToEnd(CarriedIf(F)) \subseteq cut

IndInv ==
  /\ TypeOK /\ WellAddressed /\ OnlyWanted
  /\ \A F \in SUBSET Handlers : NothingLostIf(F)

=============================================================================
