------------------------------- MODULE Managers -------------------------------
(***************************************************************************)
(* Whom a template gets as the manager of a person                         *)
(* (get_legacy_manager_person_uuid of environments/main.py): the manager   *)
(* of the unit of her primary engagement or, as nobody is to be her own    *)
(* manager, of the nearest unit above it of which she is not.  Each unit   *)
(* takes a request for its managers and one for its parent, and MO may be  *)
(* edited between them.                                                    *)
(***************************************************************************)
EXTENDS Integers, FiniteSets

CONSTANTS
    Units,
    Start,          \* the unit of the person's primary engagement
    People,
    Me,             \* the person whose manager is wanted
    Vacant,         \* who fills a vacant manager position
    NoUnit,         \* the parent of a unit at the top
    MaxEdits        \* bound: edits of the organisation during the climb

ManagersAssumption ==
    /\ Me \in People /\ Vacant \notin People
    /\ Start \in Units /\ NoUnit \notin Units
    /\ MaxEdits \in Nat

VARIABLES
    parent,     \* of each unit
    managers,   \* of each unit: who fills its manager positions
    closed,     \* units that are terminated
    at,         \* the unit asked about
    pc,         \* "managers", "parent" or "answered"
    manager,    \* the answer: a person, Vacant or nobody
    edits

vars == <<parent, managers, closed, at, pc, manager, edits>>

TypeOK ==
    /\ parent \in [Units -> Units \cup {NoUnit}]
    /\ managers \in [Units -> SUBSET (People \cup {Vacant})]
    /\ closed \subseteq Units
    /\ at \in Units
    /\ pc \in {"managers", "parent", "answered"}
    /\ manager \subseteq People \cup {Vacant}
    /\ edits \in 0 .. MaxEdits

\* The unit and the units above it: the least set with the unit and the parents of
\* whatever is in it.
Ancestors(u) ==
    {v \in Units :
        \A S \in SUBSET Units :
            u \in S /\ (\A w \in S : parent[w] = NoUnit \/ parent[w] \in S) => v \in S}

IsForest == \A u \in Units : parent[u] # NoUnit => u \notin Ancestors(parent[u])

\* External: with inherit=True MO answers with the managers of the nearest unit
\* that has any.
Nearest(u) == {v \in Ancestors(u) : managers[v] # {} /\
                    \A w \in Ancestors(u) : managers[w] # {} => w \in Ancestors(v)}
Inherited(u) == UNION {managers[v] : v \in Nearest(u)}

Answer(p) ==
    /\ pc' = "answered"
    /\ manager' = p
    /\ UNCHANGED at

\* get_legacy_manager_for_org_unit: the first position that is filled, None if
\* all are vacant, a ValueError (here: nobody) if there is none.
AskManagers ==
    LET filled == Inherited(at) \ {Vacant}
    IN  /\ pc = "managers"
        /\ \/ filled = {} /\ Answer(Inherited(at))
           \/ \E p \in filled \ {Me} : Answer({p})
           \/ Me \in filled /\ pc' = "parent" /\ UNCHANGED <<at, manager>>
        /\ UNCHANGED <<parent, managers, closed, edits>>

\* load_org_unit returns no unit that is terminated.
LoadParent(u) == IF u \in closed THEN NoUnit ELSE parent[u]

\* Mutant: a person is her own manager where she manages her unit.
NoClimb ==
    /\ pc = "parent"
    /\ Answer({Me})
    /\ UNCHANGED <<parent, managers, closed, edits>>

\* Mutant: the same unit is asked again.
StayThere ==
    /\ pc = "parent"
    /\ IF LoadParent(at) = NoUnit
       THEN Answer({Me})
       ELSE pc' = "managers" /\ UNCHANGED <<at, manager>>
    /\ UNCHANGED <<parent, managers, closed, edits>>

AskParent ==
    /\ pc = "parent"
    /\ IF LoadParent(at) = NoUnit
       THEN Answer({Me})
       ELSE at' = LoadParent(at) /\ pc' = "managers" /\ UNCHANGED manager
    /\ UNCHANGED <<parent, managers, closed, edits>>

\* External: a unit is moved, never below itself, or gets other managers.  Edits
\* before the first request are other initial states.
Edit ==
    /\ pc = "parent" \/ (pc = "managers" /\ at # Start)
    /\ edits < MaxEdits
    /\ edits' = edits + 1
    /\ \/ \E u \in Units, v \in Units \cup {NoUnit} :
            /\ v # NoUnit => u \notin Ancestors(v)
            /\ parent' = [parent EXCEPT ![u] = v]
            /\ UNCHANGED managers
       \/ \E u \in Units, S \in {{}, {Me}, {Vacant}} :
            /\ managers' = [managers EXCEPT ![u] = S]
            /\ UNCHANGED parent
    /\ UNCHANGED <<closed, at, pc, manager>>

Init ==
    /\ parent \in [Units -> Units \cup {NoUnit}] /\ IsForest
    /\ managers \in [Units -> {{}, {Vacant}, {Me, Vacant}} \cup {{p} : p \in People}
                                \cup {{Me, p} : p \in People}]
    /\ closed \in {{}} \cup {{u} : u \in Units}
    /\ at = Start
    /\ pc = "managers"
    /\ manager = {}
    /\ edits = 0

Next == AskManagers \/ AskParent \/ Edit

Spec == Init /\ [][Next]_vars /\ WF_vars(AskManagers \/ AskParent)

-----------------------------------------------------------------------------
(* Properties *)

Undisturbed == pc = "answered" /\ edits = 0

\* While the organisation stays as it is, the manager of a person is herself
\* only if she fills the manager position nearest to every unit from her own up
\* to the top, or to a unit that is terminated; the climb does not stop earlier.
OwnManagerOnlyAtTop ==
    Undisturbed /\ manager = {Me} =>
        /\ at \in closed \/ parent[at] = NoUnit
        /\ \A u \in Ancestors(Start) : at \in Ancestors(u) => Me \in Inherited(u)

\* And somebody else is her manager only as the nearest: she fills a position
\* herself in every unit below, from her own, that has any.
NearestOther ==
    Undisturbed /\ manager # {} /\ manager # {Me} =>
        \E u \in Ancestors(Start) :
            /\ manager \subseteq managers[u]
            /\ \A v \in Ancestors(Start) \ Ancestors(u) : managers[v] # {} => Me \in managers[v]

\* Whom a climb that nothing disturbs ends with.
RightManager == OwnManagerOnlyAtTop /\ NearestOther
=============================================================================
