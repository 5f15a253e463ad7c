----------------------------- MODULE LdapWrite -----------------------------
(***************************************************************************)
(* ensure_ldap_object of ldapapi.py, for an LDAP object that exists, with  *)
(* the handlers that call it.  A handler finds the object's DN, renders    *)
(* the state MO wants, reads the object, and writes the difference: the    *)
(* attributes with a modify, the RDN with a modify-DN of its own.  All of  *)
(* it goes by DN, no step is atomic with the next, and a handler that ends *)
(* in an error gives its event back to the queue.                          *)
(*                                                                         *)
(* One MO person and its LDAP object, known by its LDAP uuid.  An attribute *)
(* stands for all that are not part of the RDN.                            *)
(***************************************************************************)
EXTENDS Naturals

CONSTANTS
  Handlers,       \* runs of handlers of events about this person
  Names,          \* values of the RDN attribute
  Values,         \* values of the other attributes
  Places,         \* OUs the object can be in
  Writable,       \* those in ldap_ous_to_write_to
  Settings,       \* the deployments looked at, see settings
  NoState,        \* a local variable that is not set
  MaxMoWrites,    \* bound: changes of the person in MO
  MaxLdapWrites,  \* bound: changes of the object by others
  MaxFaults       \* bound: handlers that fail or crash for no reason seen here

ASSUME SettingsAssumption ==
  /\ Writable \subseteq Places
  /\ Settings \subseteq [exclusive : BOOLEAN, listening : BOOLEAN]
ASSUME LimitsAssumption == /\ MaxMoWrites \in Nat
                           /\ MaxLdapWrites \in Nat
                           /\ MaxFaults \in Nat

\* What a template renders, and what is compared and written: the RDN
\* attribute and the others.
State == [name : Names, value : Values]
DN == [ou : Places, name : Names]

ASSUME NoStateAssumption == NoState \notin State \cup DN

VARIABLES
  settings,   \* exclusive: handle_exclusively_decorator guards the handlers,
              \* which are http_process_person in one process; else they are
              \* in two (a rolling restart), or mo_to_ldap handlers;
              \* listening: listen_to_changes_in_ldap, and LDAP changes come
              \* back as events to http_process_person
  mo,         \* the state the person's template renders from MO
  moVer,      \* which change of MO that is (history)
  ou,         \* where the LDAP object is
  entry,      \* the LDAP object's attributes
  queued,     \* an event about the person waits to be handled
  pc,         \* pc[h]: where handler h stands
  dn,         \* dn[h]: best_dn
  desired,    \* desired[h]: ldap_desired_state
  old,        \* old[h]: the object as ensure_ldap_object read it
  seen,       \* seen[h]: the change of MO that h rendered (history)
  undisturbed,\* undisturbed[h]: only h wrote the object since h read it (history)
  written,    \* the latest change of MO any handler wrote (history)
  ldapWrites, \* changes by others so far
  faults      \* failures injected so far

object == <<ou, entry>>
locals == <<dn, desired, old, seen>>
vars == <<settings, mo, moVer, ou, entry, queued, pc, dn, desired, old, seen,
          undisturbed, written, ldapWrites, faults>>

TypeOK ==
  /\ settings \in Settings
  /\ mo \in State
  /\ moVer \in 0 .. MaxMoWrites
  /\ ou \in Places
  /\ entry \in State
  /\ queued \in BOOLEAN
  /\ pc \in [Handlers -> {"idle", "find", "render", "read", "identify",
                          "modify", "rename", "confirm"}]
  /\ dn \in [Handlers -> DN \cup {NoState}]
  /\ desired \in [Handlers -> State \cup {NoState}]
  /\ old \in [Handlers -> State \cup {NoState}]
  /\ seen \in [Handlers -> 0 .. MaxMoWrites]
  /\ undisturbed \in [Handlers -> BOOLEAN]
  /\ written \in 0 .. MaxMoWrites
  /\ ldapWrites \in 0 .. MaxLdapWrites
  /\ faults \in 0 .. MaxFaults

Init ==
  /\ settings \in Settings
  /\ mo \in State
  /\ moVer = 0
  /\ ou \in Places
  /\ entry \in State
  /\ queued = TRUE
  /\ pc = [h \in Handlers |-> "idle"]
  /\ dn = [h \in Handlers |-> NoState]
  /\ desired = [h \in Handlers |-> NoState]
  /\ old = [h \in Handlers |-> NoState]
  /\ seen = [h \in Handlers |-> 0]
  /\ undisturbed = [h \in Handlers |-> FALSE]
  /\ written = 0
  /\ ldapWrites = 0
  /\ faults = 0

-----------------------------------------------------------------------------
(* MO, and those who write the LDAP object besides this program. *)

MoWrite(s) ==
  /\ moVer < MaxMoWrites /\ s # mo
  /\ mo' = s
  /\ moVer' = moVer + 1
  /\ queued' = TRUE
  /\ UNCHANGED <<settings, object, pc, locals, undisturbed, written,
                 ldapWrites, faults>>

\* Mutant of ComesBack: a change of the object by others goes unnoticed.
StaysUnnoticed == UNCHANGED queued

\* A change of the object is announced by the event generator, and
\* reconciliation turns the announcement into an event about the person.
ComesBack == queued' = (queued \/ settings.listening)

\* The object is written: whoever else has read it has read the past.
Disturbs(h) == undisturbed' = [g \in Handlers |-> g = h /\ undisturbed[g]]

OthersWrite(place, s) ==
  /\ ldapWrites < MaxLdapWrites /\ <<place, s>> # object
  /\ ou' = place
  /\ entry' = s
  /\ ComesBack
  /\ undisturbed' = [h \in Handlers |-> FALSE]
  /\ ldapWrites' = ldapWrites + 1
  /\ UNCHANGED <<settings, mo, moVer, pc, locals, written, faults>>

-----------------------------------------------------------------------------
(* A handler.  The object answers to its DN of the moment only. *)

Goto(h, place) == pc' = [pc EXCEPT ![h] = place]
ObjectDN == [ou |-> ou, name |-> entry.name]
Reachable(h) == dn[h] = ObjectDN

Forget(h) ==
  /\ Goto(h, "idle")
  /\ dn' = [dn EXCEPT ![h] = NoState]
  /\ desired' = [desired EXCEPT ![h] = NoState]
  /\ old' = [old EXCEPT ![h] = NoState]
  /\ seen' = [seen EXCEPT ![h] = 0]

\* Mutant of Take: no lock on the subject.
TakeAtOnce(h) ==
  /\ queued /\ pc[h] = "idle"
  /\ queued' = FALSE
  /\ Goto(h, "find")
  /\ UNCHANGED <<settings, mo, moVer, object, locals, undisturbed, written,
                 ldapWrites, faults>>

\* handle_exclusively_decorator: one handler of a subject at a time.
Take(h) ==
  /\ queued /\ pc[h] = "idle"
  /\ settings.exclusive => \A g \in Handlers : pc[g] = "idle"
  /\ queued' = FALSE
  /\ Goto(h, "find")
  /\ UNCHANGED <<settings, mo, moVer, object, locals, undisturbed, written,
                 ldapWrites, faults>>

\* _find_best_dn, which goes by LDAP uuid.
FindDN(h) ==
  /\ pc[h] = "find"
  /\ dn' = [dn EXCEPT ![h] = ObjectDN]
  /\ Goto(h, "render")
  /\ UNCHANGED <<settings, mo, moVer, object, queued, desired, old, seen,
                 undisturbed, written, ldapWrites, faults>>

\* Mutant of Render: the template says nothing of the RDN.
RenderValue(h) ==
  /\ pc[h] = "render"
  /\ desired' = [desired EXCEPT ![h] = [value |-> mo.value]]
  /\ seen' = [seen EXCEPT ![h] = moVer]
  /\ Goto(h, "read")
  /\ UNCHANGED <<settings, mo, moVer, object, queued, dn, old, undisturbed,
                 written, ldapWrites, faults>>

\* render_ldap2mo.
Render(h) ==
  /\ pc[h] = "render"
  /\ desired' = [desired EXCEPT ![h] = mo]
  /\ seen' = [seen EXCEPT ![h] = moVer]
  /\ Goto(h, "read")
  /\ UNCHANGED <<settings, mo, moVer, object, queued, dn, old, undisturbed,
                 written, ldapWrites, faults>>

\* get_object_by_dn, then the difference with what was read.
Read(h) ==
  /\ pc[h] = "read" /\ Reachable(h)
  /\ old' = [old EXCEPT ![h] = entry]
  /\ undisturbed' = [undisturbed EXCEPT ![h] = TRUE]
  /\ Goto(h, "identify")
  /\ UNCHANGED <<settings, mo, moVer, object, queued, dn, desired, seen,
                 written, ldapWrites, faults>>

\* get_ldap_unique_ldap_uuid: another read, by the same DN.
Identify(h) ==
  /\ pc[h] = "identify" /\ Reachable(h)
  /\ Goto(h, "modify")
  /\ UNCHANGED <<settings, mo, moVer, object, queued, locals, undisturbed,
                 written, ldapWrites, faults>>

\* Mutants of Modify: returns after the modify, the RDN unchanged; writes
\* without comparing with what was read.
ModifyThenReturn(h) ==
  /\ pc[h] = "modify"
  /\ \/ /\ dn[h].ou \notin Writable \/ desired[h].value = old[h].value
        /\ UNCHANGED <<entry, queued, undisturbed, written>>
     \/ /\ dn[h].ou \in Writable /\ desired[h].value # old[h].value
        /\ Reachable(h)
        /\ entry' = [entry EXCEPT !.value = desired[h].value]
        /\ written' = seen[h]
        /\ Disturbs(h)
        /\ ComesBack
  /\ Goto(h, "confirm")
  /\ UNCHANGED <<settings, mo, moVer, ou, locals, ldapWrites, faults>>
ModifyAlways(h) ==
  /\ pc[h] = "modify" /\ Reachable(h)
  /\ entry' = [entry EXCEPT !.value = desired[h].value]
  /\ written' = seen[h]
  /\ Disturbs(h)
  /\ ComesBack
  /\ Goto(h, "rename")
  /\ UNCHANGED <<settings, mo, moVer, ou, locals, ldapWrites, faults>>

\* modify_ldap_object down to the modify: outside the writable OUs, or with
\* nothing to change, it returns; a change of the RDN alone skips the modify.
Modify(h) ==
  /\ pc[h] = "modify"
  /\ \/ /\ dn[h].ou \notin Writable \/ desired[h] = old[h]
        /\ Goto(h, "confirm")
        /\ UNCHANGED <<entry, queued, undisturbed, written>>
     \/ /\ dn[h].ou \in Writable /\ desired[h] # old[h]
        /\ desired[h].value = old[h].value
        /\ Goto(h, "rename")
        /\ UNCHANGED <<entry, queued, undisturbed, written>>
     \/ /\ dn[h].ou \in Writable /\ desired[h].value # old[h].value
        /\ Reachable(h)
        /\ entry' = [entry EXCEPT !.value = desired[h].value]
        /\ written' = seen[h]
        /\ Disturbs(h)
        /\ ComesBack
        /\ Goto(h, "rename")
  /\ UNCHANGED <<settings, mo, moVer, ou, locals, ldapWrites, faults>>

\* The rest of modify_ldap_object: the RDN asked for against the RDN of dn.
Rename(h) ==
  /\ pc[h] = "rename"
  /\ \/ /\ desired[h].name = dn[h].name
        /\ UNCHANGED <<entry, queued, undisturbed, written>>
     \/ /\ desired[h].name # dn[h].name
        /\ Reachable(h)
        /\ entry' = [entry EXCEPT !.name = desired[h].name]
        /\ written' = seen[h]
        /\ Disturbs(h)
        /\ ComesBack
  /\ Goto(h, "confirm")
  /\ UNCHANGED <<settings, mo, moVer, ou, locals, ldapWrites, faults>>

\* get_ldap_dn goes by LDAP uuid and finds the object; the event is done.
Confirm(h) ==
  /\ pc[h] = "confirm"
  /\ Forget(h)
  /\ undisturbed' = [undisturbed EXCEPT ![h] = FALSE]
  /\ UNCHANGED <<settings, mo, moVer, object, queued, written, ldapWrites,
                 faults>>

GiveBack(h) ==
  /\ Forget(h)
  /\ undisturbed' = [undisturbed EXCEPT ![h] = FALSE]
  /\ queued' = TRUE
  /\ UNCHANGED <<settings, mo, moVer, object, written, ldapWrites>>

\* A read or a write by a DN the object no longer has: NoObjectsReturned or
\* LDAPNoSuchObject, status 500, and the event is delivered again.
Writes(h) ==
  \/ /\ pc[h] = "modify" /\ dn[h].ou \in Writable
     /\ desired[h].value # old[h].value
  \/ pc[h] = "rename" /\ desired[h].name # dn[h].name

Gone(h) ==
  /\ pc[h] \in {"read", "identify"} \/ Writes(h)
  /\ ~Reachable(h)
  /\ GiveBack(h)
  /\ UNCHANGED faults

\* Any other error, or the process ends.
Fail(h) ==
  /\ pc[h] # "idle" /\ faults < MaxFaults
  /\ faults' = faults + 1
  /\ GiveBack(h)

-----------------------------------------------------------------------------

HandlerStep(h) ==
  \/ Take(h) \/ FindDN(h) \/ Render(h) \/ Read(h) \/ Identify(h)
  \/ Modify(h) \/ Rename(h) \/ Confirm(h) \/ Gone(h)

Next ==
  \/ \E s \in State : MoWrite(s) \/ \E place \in Places : OthersWrite(place, s)
  \/ \E h \in Handlers : HandlerStep(h) \/ Fail(h)

\* Events are delivered until they are acknowledged, and a request is served
\* to its end unless the process ends.  Nobody owes MO or LDAP a change.
Spec == Init /\ [][Next]_vars
FairSpec == Spec /\ \A h \in Handlers : WF_vars(HandlerStep(h))

-----------------------------------------------------------------------------
(* Properties. *)

\* An event is acknowledged only when the object is as the handler rendered
\* it, or somebody else wrote it meanwhile: modify and modify-DN are two
\* writes, and a handler stopped between them leaves its event behind
\* (lines 410-483).
AcknowledgedIsWritten ==
  \A h \in Handlers :
    pc[h] = "confirm" /\ undisturbed[h] /\ dn[h].ou \in Writable =>
      entry = desired[h]

\* Handlers that take turns (main.py line 245) never write a state of MO older
\* than one written before.
NoStaleWrite == [][settings.exclusive => written' >= written]_vars

\* An object this program may write ends up as MO wants it, whatever
\* interleaved, failed halfway or was written by others.  Where nothing comes
\* back from LDAP, handlers take turns and others leave the object alone: two
\* mo_to_ldap handlers may leave an older state behind.
Synchronized == ou \in Writable => entry = mo
Unnoticed == ~settings.listening /\ (ldapWrites > 0 \/ ~settings.exclusive)
Converges == <>[](Synchronized \/ Unnoticed)

\* The echo ends: the program's own writes come back as events, and handling
\* those writes nothing more (the comparison of lines 161-177).
EchoEnds == <>[](~queued /\ \A h \in Handlers : pc[h] = "idle")

\* What construct_assertion_control_filter asks of the object: the values it had.
Asserted(h) == \A attribute \in DOMAIN old[h] : entry[attribute] = old[h][attribute]

\* The docstring of modify_ldap_object, lines 372-375: the changes are only
\* written if the old state matches.
ConditionalWrites ==
  [][\A h \in Handlers :
       Modify(h) /\ entry' # entry => Asserted(h)]_vars

-----------------------------------------------------------------------------
(* The inductive invariants behind AcknowledgedIsWritten and NoStaleWrite.   *)

\* What is set, where a handler stands, and that the object was read by dn.
LocalsSet ==
  \A h \in Handlers :
    /\ pc[h] \notin {"idle", "find"} => dn[h] \in DN
    /\ pc[h] \notin {"idle", "find", "render"} => desired[h] \in State
    /\ pc[h] \in {"identify", "modify", "rename", "confirm"} =>
         old[h] \in State /\ old[h].name = dn[h].name
    /\ pc[h] = "rename" => dn[h].ou \in Writable

\* Undisturbed, the object goes from what was read to what was rendered.
Progress ==
  \A h \in Handlers :
    undisturbed[h] =>
      /\ pc[h] \in {"identify", "modify", "rename", "confirm"}
      /\ pc[h] \in {"identify", "modify"} => entry = old[h]
      /\ pc[h] = "rename" =>
           entry = [name |-> old[h].name, value |-> desired[h].value]

Typed == TypeOK /\ LocalsSet
Honest == Progress /\ AcknowledgedIsWritten

\* One at a time, and whoever has rendered knows all that was written.
OneAtATime ==
  \A g, h \in Handlers : pc[g] # "idle" /\ pc[h] # "idle" => g = h

KnowsWritten ==
  /\ written <= moVer
  /\ \A h \in Handlers :
       pc[h] \notin {"idle", "find", "render"} => written <= seen[h] /\ seen[h] <= moVer

Turns == settings.exclusive => OneAtATime /\ KnowsWritten

-----------------------------------------------------------------------------
(* What Converges rests on: with nothing left to handle the object is as MO   *)
(* wants it.                                                                 *)

AtRest == ~queued /\ \A h \in Handlers : pc[h] = "idle"
RestsSynchronized == AtRest => Synchronized \/ Unnoticed

\* A handler that makes the object what MO wants, if nothing comes between.
Attends(h) ==
  \/ pc[h] = "find"
  \/ pc[h] = "render" /\ Reachable(h)
  \/ /\ pc[h] \in {"read", "identify", "modify", "rename"}
     /\ Reachable(h) /\ desired[h] = mo
     /\ pc[h] \in {"identify", "modify"} => old[h] = entry
     /\ pc[h] = "rename" => entry.value = mo.value
  \/ pc[h] = "confirm" /\ Synchronized

\* What is written comes back as an event; or else whoever is at work attends.
Attended ==
  \/ queued \/ Unnoticed
  \/ /\ Synchronized \/ \E h \in Handlers : Attends(h)
     /\ settings.listening \/ \A h \in Handlers : pc[h] # "idle" => Attends(h)
=============================================================================
