------------------------------ MODULE Templates ------------------------------
(***************************************************************************)
(* The functions that a template may call (environments/main.py), of which *)
(* the rendering of a template calls what it `uses': a look-up of an       *)
(* object by its validities, the climb for a manager that starts from such *)
(* a look-up, and classes that are created when they are missing.          *)
(***************************************************************************)
EXTENDS Integers, FiniteSets

CONSTANTS
    Engagements, Addresses, Rank, Today, LastDay,
    Units, Start, People, Me, Vacant, NoUnit, MaxEdits,
    Handlers, Processes, Keys, Facets, MaxClasses

VARIABLES
    uses,       \* "lookup", "manager" or "class"
    today, mo, kind, keep, lookup, chosen, seen, outcome, found, disturbed,
    parent, managers, closed, at, climb, manager, edits,
    process, before, classes, wants, stage, got

lookupVars == <<today, mo, kind, keep, lookup, chosen, seen, outcome, found, disturbed>>
managerVars == <<parent, managers, closed, at, climb, manager, edits>>
classVars == <<process, before, classes, wants, stage, got>>
vars == <<uses, lookupVars, managerVars, classVars>>

Lookups == INSTANCE MoLookups WITH pc <- lookup
Managers == INSTANCE Managers WITH pc <- climb
Classes == INSTANCE Classes WITH pc <- stage

ASSUME TemplatesAssumption ==
    /\ Lookups!LookupsAssumption
    /\ Managers!ManagersAssumption
    /\ Classes!ClassesAssumption

TypeOK ==
    /\ uses \in {"lookup", "manager", "class"}
    /\ Lookups!TypeOK
    /\ Managers!TypeOK
    /\ Classes!TypeOK

\* What a rendering does not use keeps a fixed value.
PrimaryOf(S) ==
    /\ mo = S
    /\ today = Today /\ kind = "primary" /\ keep = FALSE /\ disturbed = FALSE
    /\ lookup = "ask" /\ outcome = "none"
    /\ chosen = {} /\ seen = {} /\ found = {}

NoManager ==
    /\ parent = [u \in Units |-> NoUnit]
    /\ managers = [u \in Units |-> {}]
    /\ closed = {} /\ at = Start /\ climb = "managers" /\ manager = {} /\ edits = 0

NoClass ==
    /\ process = [h \in Handlers |-> CHOOSE p \in Processes : TRUE]
    /\ before = [c \in Keys \X Facets |-> 0] /\ classes = before
    /\ wants = [h \in Handlers |-> CHOOSE c \in Keys \X Facets : TRUE]
    /\ stage = [h \in Handlers |-> "find"]
    /\ got = [h \in Handlers |-> {}]

Employed(e) == [uuid |-> e, from |-> 1, to |-> Lookups!Forever, primary |-> "calculated"]

\* A person whose manager is wanted has one engagement, or none.
Init ==
    \/ uses = "lookup" /\ Lookups!Init /\ NoManager /\ NoClass
    \/ uses = "manager" /\ PrimaryOf({}) /\ NoManager /\ NoClass
    \/ /\ uses = "manager" /\ Managers!Init /\ NoClass
       /\ \E e \in Engagements : (\A d \in Engagements : Rank[d] <= Rank[e]) /\ PrimaryOf({Employed(e)})
    \/ uses = "class" /\ Classes!Init /\ PrimaryOf({}) /\ NoManager

LookUp ==
    /\ uses = "lookup"
    /\ Lookups!Next
    /\ UNCHANGED <<uses, managerVars, classVars>>

\* get_legacy_manager_person_uuid looks up the primary engagement first.
LookUpEngagement ==
    /\ uses = "manager"
    /\ Lookups!GetPrimaryEngagement \/ Lookups!LoadMoEngagement
    /\ UNCHANGED <<uses, managerVars, classVars>>

Climb ==
    /\ uses = "manager" /\ lookup = "answered" /\ outcome = "found"
    /\ Managers!Next
    /\ UNCHANGED <<uses, lookupVars, classVars>>

GetClass(h) ==
    /\ uses = "class"
    /\ Classes!Handle(h)
    /\ UNCHANGED <<uses, lookupVars, managerVars>>

Next == LookUp \/ LookUpEngagement \/ Climb \/ \E h \in Handlers : GetClass(h)

\* Requests are answered and the event loop goes on; nobody has to edit MO.
Fairness ==
    /\ WF_vars(LookUp /\ disturbed' = disturbed) /\ WF_vars(LookUpEngagement)
    /\ WF_vars(Climb /\ edits' = edits)
    /\ \A h \in Handlers : WF_vars(GetClass(h))

Spec == Init /\ [][Next]_vars /\ Fairness

-----------------------------------------------------------------------------
(* Properties: those of the parts, and that every rendering ends *)

\* Of the look-ups: see MoLookups.
CurrentServed == Lookups!CurrentServed
PrimaryFound == Lookups!NoneWhenLeft /\ Lookups!AgreesWithCalculated

\* Of the climb for a manager: see Managers.
RightManager == Managers!RightManager

\* Of the creation of classes: see Classes.
OnePerProcess == Classes!OnePerProcess
FailsOnlyAsFound == Classes!FailsOnlyAsFound

\* Every rendering ends: a look-up is answered, a climb reaches a manager or the
\* top however units are moved during it, and whoever waits for the lock on
\* classes gets it.
Ended ==
    CASE uses = "lookup" -> lookup = "answered"
      [] uses = "manager" -> lookup = "answered" /\ (outcome = "found" => climb = "answered")
      [] uses = "class" -> \A h \in Handlers : stage[h] \in {"done", "failed"}
RenderingEnds == <>Ended
=============================================================================
