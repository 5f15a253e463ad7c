-------------------------------- MODULE Fixups --------------------------------
(***************************************************************************)
(* The endpoints /fixup/delete_non_existing_... of routes.py: they look up *)
(* all keys in LDAP, then all it-users of an it-system in MO, both page by *)
(* page, and terminate the it-users whose key LDAP did not have.  A key is *)
(* the LDAP uuid in the user key or the external id, or the account name.  *)
(*                                                                         *)
(* The it-users of the LDAP it-system, which have the LDAP uuid as their   *)
(* user key, are links that the export makes (ensure_ituser_link; see      *)
(* PersonSync).  Those of other it-systems, with account names or external *)
(* ids, are made by imports from LDAP, and by nobody else.                 *)
(*                                                                         *)
(* Meanwhile accounts are deleted, added and moved to other pages.         *)
(***************************************************************************)
EXTENDS Integers, FiniteSets

CONSTANTS
    Keys,
    Page,       \* of each key: the page its it-user is on in MO
    Pages,      \* how many there are
    MaxOutside  \* bound: accounts added, deleted and moved, and failures

FixupsAssumption ==
    /\ Pages \in Nat \ {0} /\ Page \in [Keys -> 1 .. Pages]
    /\ MaxOutside \in Nat

VARIABLES
    maker,      \* who makes the it-users: "export" or "import"
    matched,    \* accounts the export finds for their person without a link, by
                \* the CPR number, chooses, and synchronizes
    ldap,       \* the keys LDAP has
    where,      \* of each key: the page its account is on in LDAP
    links,      \* of each key: its it-user in MO
    pending,    \* keys of whose person an event waits for the export; it asks LDAP
                \* nothing about it-users that imports make, so then there are none
    pc,         \* of the call: "idle", "ldap", "mo" or "terminate"
    page,       \* the page asked for
    at,         \* "today" or "later": the midnight to terminate at
    dryRun,
    seen,       \* keys that LDAP had
    bad,        \* it-users to terminate
    outcome,    \* of the last call: "none", "dryRun", "deleted" or "failed"
    absent,     \* history: keys LDAP never had since the call began
    present,    \* history: keys LDAP always had since the call began, and on one
                \* page while it read them
    before,     \* history: it-users there were when the call began
    lapsed,     \* history: it-users that ended at a midnight to come
    taken,      \* history: accounts whose it-user was terminated though LDAP had them
    outside

call == <<pc, page, at, dryRun, seen, bad, outcome>>
world == <<maker, matched, ldap, where>>
seenSince == <<absent, present, before>>
history == <<seenSince, lapsed, taken>>
vars == <<world, links, pending, call, history, outside>>

\* An it-user is current until a termination at a later midnight takes effect.
Current == {k \in Keys : links[k] \in {"current", "ending"}}

TypeOK ==
    /\ maker \in {"export", "import"} /\ matched \subseteq Keys
    /\ ldap \subseteq Keys /\ where \in [Keys -> 1 .. Pages]
    /\ links \in [Keys -> {"none", "current", "ending", "ended"}]
    /\ pending \subseteq Keys
    /\ pc \in {"idle", "ldap", "mo", "terminate"}
    /\ page \in 1 .. Pages
    /\ at \in {"today", "later"} /\ dryRun \in BOOLEAN
    /\ seen \subseteq Keys /\ bad \subseteq Keys
    /\ outcome \in {"none", "dryRun", "deleted", "failed"}
    /\ absent \subseteq Keys /\ present \subseteq Keys
    /\ before \subseteq Keys /\ lapsed \subseteq Keys /\ taken \subseteq Keys
    /\ outside \in 0 .. MaxOutside

Init ==
    /\ \/ maker = "export" /\ matched \in SUBSET Keys
       \/ maker = "import" /\ matched = {}
    /\ ldap \in SUBSET Keys /\ where = Page
    /\ \E linked \in SUBSET Keys :
        /\ links = [k \in Keys |-> IF k \in linked THEN "current" ELSE "none"]
        /\ pending = IF maker = "export" THEN ldap \ linked ELSE {}
    /\ pc = "idle" /\ page = 1 /\ at = "today" /\ dryRun = TRUE
    /\ seen = {} /\ bad = {} /\ outcome = "none"
    /\ absent = {} /\ present = {} /\ before = {} /\ lapsed = {} /\ taken = {}
    /\ outside = 0

-----------------------------------------------------------------------------
(* A call *)

Begin ==
    /\ pc = "idle" /\ outcome = "none"
    /\ pc' = "ldap" /\ page' = 1
    /\ at' \in {"today", "later"} /\ dryRun' \in BOOLEAN
    /\ seen' = {} /\ bad' = {}
    /\ absent' = Keys \ ldap /\ present' = ldap /\ before' = Current
    /\ UNCHANGED <<world, links, pending, outcome, lapsed, taken, outside>>

\* What get_non_existing_account_names and the others like it keep of a page.
Missing == {k \in Current : Page[k] = page} \ seen

TurnTo(next) ==
    IF page < Pages THEN page' = page + 1 /\ UNCHANGED pc ELSE page' = 1 /\ pc' = next

\* load_ldap_attribute_values, by a paged search.
LoadLdapAttributeValues ==
    /\ pc = "ldap"
    /\ seen' = seen \cup {k \in ldap : where[k] = page}
    /\ TurnTo("mo")
    /\ UNCHANGED <<world, links, pending, at, dryRun, bad, outcome, history, outside>>

\* Mutant: there is no next page.
LoadFirstPage ==
    /\ pc = "mo"
    /\ bad' = bad \cup Missing
    /\ pc' = "terminate"
    /\ UNCHANGED <<world, links, pending, page, at, dryRun, seen, outcome, history, outside>>

\* load_all_current_it_users, by a paged query.
LoadAllCurrentItUsers ==
    /\ pc = "mo"
    /\ bad' = bad \cup Missing
    /\ TurnTo("terminate")
    /\ UNCHANGED <<world, links, pending, at, dryRun, seen, outcome, history, outside>>

\* An event of the person, for the export.
Announce(k) == pending' = IF maker = "export" THEN pending \cup {k} ELSE pending

\* One request each, in no particular order; MO announces each.
Terminate ==
    /\ pc = "terminate" /\ ~dryRun
    /\ \E k \in bad :
        /\ bad' = bad \ {k}
        /\ links' = [links EXCEPT ![k] =
                        IF k \notin Current THEN @
                        ELSE IF at = "today" THEN "ended" ELSE "ending"]
        /\ Announce(k)
        /\ taken' = IF k \in ldap \cap Current THEN taken \cup {k} ELSE taken
    /\ UNCHANGED <<world, pc, page, at, dryRun, seen, outcome, seenSince, lapsed, outside>>

End(o) ==
    /\ pc' = "idle" /\ outcome' = o
    /\ page' = 1 /\ at' = "today" /\ dryRun' = TRUE
    /\ seen' = {} /\ bad' = {}

Return ==
    /\ pc = "terminate" /\ (dryRun \/ bad = {})
    /\ End(IF dryRun THEN "dryRun" ELSE "deleted")
    /\ UNCHANGED <<world, links, pending, history, outside>>

Happens == outside < MaxOutside /\ outside' = outside + 1

\* External: a request fails, or a key is none: the call ends there.
Fail ==
    /\ pc # "idle"
    /\ Happens
    /\ End("failed")
    /\ UNCHANGED <<world, links, pending, history>>

-----------------------------------------------------------------------------
(* The export, imports, and the world *)

\* What the export makes of a link: it ends that of an account that is gone, makes
\* one that is missing, and leaves alone one that is to end.
Linked(k, link) ==
    CASE k \notin ldap /\ link \in {"current", "ending"} -> "ended"
      [] k \in ldap /\ link \in {"none", "ended"} -> "current"
      [] OTHER -> link

\* Mutant: the it-user is looked up among those that ended, too.
LinkUnlessEver(k) ==
    /\ k \in pending /\ pending' = pending \ {k}
    /\ links' = [links EXCEPT ![k] = IF @ = "ended" THEN @ ELSE Linked(k, @)]
    /\ UNCHANGED <<world, call, history, outside>>

\* listen_to_changes_in_employees.  An account it does not match is linked if it has
\* just added it, and otherwise not found.
Link(k) ==
    /\ k \in pending /\ pending' = pending \ {k}
    /\ \/ links' = [links EXCEPT ![k] = Linked(k, @)]
       \/ k \in ldap \ matched /\ UNCHANGED links
    /\ UNCHANGED <<world, call, history, outside>>

\* Something changes in an account, and its event is handled: an it-user that the
\* mappings make has no end from now on.
Import(k) ==
    /\ maker = "import" /\ k \in ldap
    /\ links' = [links EXCEPT ![k] = "current"]
    /\ UNCHANGED <<world, pending, call, history, outside>>

Midnight ==
    /\ \E k \in Keys : links[k] = "ending"
    /\ links' = [k \in Keys |-> IF links[k] = "ending" THEN "ended" ELSE links[k]]
    /\ lapsed' = lapsed \cup {k \in Keys : links[k] = "ending"}
    /\ UNCHANGED <<world, pending, call, seenSince, taken, outside>>

\* External: an account is deleted, of which there is no event.
Delete(k) ==
    /\ Happens
    /\ k \in ldap /\ ldap' = ldap \ {k}
    /\ present' = present \ {k} /\ taken' = taken \ {k}
    /\ UNCHANGED <<maker, matched, where, links, pending, call, absent, before, lapsed>>

\* External: an account is added: by the export, which goes on to link it, or by others.
Add(k) ==
    /\ Happens
    /\ k \notin ldap /\ ldap' = ldap \cup {k}
    /\ where' \in {[where EXCEPT ![k] = p] : p \in 1 .. Pages}
    /\ Announce(k) \/ UNCHANGED pending
    /\ absent' = absent \ {k}
    /\ UNCHANGED <<maker, matched, links, call, present, before, lapsed, taken>>

\* External: an account is moved to another page, that of another OU.
Relocate(k) ==
    /\ Happens
    /\ k \in ldap
    /\ where' \in {[where EXCEPT ![k] = p] : p \in (1 .. Pages) \ {where[k]}}
    /\ present' = IF pc = "ldap" THEN present \ {k} ELSE present
    /\ UNCHANGED <<maker, matched, ldap, links, pending, call, absent, before, lapsed, taken>>

Call == Begin \/ LoadLdapAttributeValues \/ LoadAllCurrentItUsers \/ Terminate \/ Return

Next ==
    \/ Call \/ Fail \/ Midnight
    \/ \E k \in Keys : Link(k) \/ Import(k) \/ Delete(k) \/ Add(k) \/ Relocate(k)

-----------------------------------------------------------------------------
(* Properties *)

\* A call terminates nothing that LDAP had all along where it was, and everything
\* that was there when it began and that LDAP had not: however its pages were read.
TerminatesTheMissing ==
    /\ pc \in {"mo", "terminate"} => bad \cap present = {}
    /\ pc = "idle" /\ outcome = "deleted" =>
        \A k \in before \cap absent : links[k] # "current"

\* An account that was added, or moved, while a call was reading may lose its link:
\* the termination is announced, and the export links the account again if it finds
\* it without.  Not so if the link ends at a later midnight, of which nothing is
\* announced; and not so an it-user that imports make, until they happen to.
Relinked ==
    <>[](maker = "export" => \A k \in taken \cap matched : k \in Current \/ k \in lapsed)
=============================================================================
