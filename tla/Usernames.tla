------------------------------ MODULE Usernames ------------------------------
(***************************************************************************)
(* generate_username and generate_username_permutation                     *)
(* (environments/generate_username.py), as a template of the export calls  *)
(* them: a person whose username MO does not know gets the first candidate *)
(* that neither LDAP nor MO uses.  The candidate is checked in LDAP, then  *)
(* in MO, then written to the account, by requests of their own; MO learns *)
(* of it when the account is imported, later still.                        *)
(***************************************************************************)
EXTENDS Naturals, Sequences, FiniteSets

CONSTANTS
  Persons,    \* with an LDAP account each
  Cores,      \* usernames but for a number
  Combis,     \* Combis[p]: what combinations_to_try make of p's name, None where
              \* a part of the name is too short
  Letters,    \* Letters[p]: what _extract_letters makes of p's name
  Numbered,   \* the cores with an X, for a number
  Forbidden,  \* forbidden_usernames
  Service,    \* usernames of other accounts in LDAP
  LastDigit,  \* the last number tried for an X: 9
  None,       \* no core, no username
  Settings,   \* the deployments looked at, see settings
  MaxNumber,  \* bound: numbers that generate_username_permutation tries
  MaxEvents,  \* bound: events about each person
  MaxOutside, \* bound: changes by others
  MaxFaults   \* bound: handlers that fail or crash

\* A core with its number, 0 for none.
Names == Cores \X Nat

Setting == [permutation : BOOLEAN, disallow : BOOLEAN, reuse : BOOLEAN,
            remembers : BOOLEAN]

ASSUME DomainAssumption ==
  /\ Combis \in [Persons -> Seq(Cores \cup {None})]
  /\ Letters \in [Persons -> Cores]
  /\ Numbered \subseteq Cores
  /\ Forbidden \subseteq Names /\ Service \subseteq Names
  /\ None \notin Cores \cup Names \cup (Nat \X Nat)
  /\ Settings \subseteq Setting
ASSUME BoundAssumption ==
  /\ LastDigit \in Nat /\ MaxNumber \in Nat
  /\ MaxEvents \in Nat /\ MaxOutside \in Nat /\ MaxFaults \in Nat

VARIABLES
  settings, \* permutation: which of the two generators; disallow:
            \* disallow_mo_usernames; reuse: reuse_old_usernames; remembers: the
            \* template looks at itusers that are past, too
  ldap,     \* ldap[p]: the username of p's account, None without
  reserved, \* reserved[p]: user keys of p's ituser, past, present and future
  latest,   \* latest[p]: the last of them
  ended,    \* ended[p]: p's ituser is terminated
  pending,  \* persons with an event that waits
  pc,       \* pc[p]: where the handler of p's event stands
  at,       \* at[p]: the candidate it looks at
  events, outside, faults, \* counters of the bounds
  given,    \* given[p]: usernames p's account has had (history)
  lost,     \* usernames an account lost before MO knew of them (history)
  raced     \* two handlers generated at a time (history)

mo == <<reserved, latest, ended>>
counters == <<events, outside, faults>>
history == <<given, lost, raced>>
vars == <<settings, ldap, reserved, latest, ended, pending, pc, at, events,
          outside, faults, given, lost, raced>>

Positions == Nat \X Nat

TypeOK ==
  /\ settings \in Settings
  /\ ldap \in [Persons -> Names \cup {None}]
  /\ reserved \in [Persons -> SUBSET Names]
  /\ latest \in [Persons -> Names \cup {None}]
  /\ ended \in [Persons -> BOOLEAN]
  /\ pending \subseteq Persons
  /\ pc \in [Persons -> {"idle", "generate", "mo", "write"}]
  /\ at \in [Persons -> Positions \cup {None}]
  /\ events \in [Persons -> 0 .. MaxEvents]
  /\ outside \in 0 .. MaxOutside
  /\ faults \in 0 .. MaxFaults
  /\ given \in [Persons -> SUBSET Names]
  /\ lost \subseteq Names
  /\ raced \in BOOLEAN

Init ==
  /\ settings \in Settings
  /\ ldap = [p \in Persons |-> None]
  /\ reserved = [p \in Persons |-> {}]
  /\ latest = [p \in Persons |-> None]
  /\ ended = [p \in Persons |-> FALSE]
  /\ pending = {}
  /\ pc = [p \in Persons |-> "idle"]
  /\ at = [p \in Persons |-> None]
  /\ events = [p \in Persons |-> 0]
  /\ outside = 0 /\ faults = 0
  /\ given = [p \in Persons |-> {}]
  /\ lost = {} /\ raced = FALSE

-----------------------------------------------------------------------------
(* Candidates, in the order they are tried. *)

\* Numbers of a core: from 2, so that the second of a name has a 2.
Numbers(c) == IF c \in Numbered THEN 2 .. LastDigit ELSE {0}

\* A combination with its number, in place of the X.
CombinedName(p, i, n) == <<Combis[p][i], n>>

\* The letters of a name with their number.
PermutedName(p, n) == <<Letters[p], n>>

\* Combinations that are too short, or forbidden without their number, are left
\* out.
CombinedPositions(p) ==
  UNION {{i} \X Numbers(Combis[p][i]) :
           i \in {j \in DOMAIN Combis[p] :
                    Combis[p][j] # None /\ CombinedName(p, j, 0) \notin Forbidden}}

\* Letters are numbered from 1, and left out if forbidden with their number.
PermutedPositions(p) ==
  {<<1, n>> : n \in {m \in 1 .. MaxNumber : PermutedName(p, m) \notin Forbidden}}

PositionsOf(p) ==
  IF settings.permutation THEN PermutedPositions(p) ELSE CombinedPositions(p)

Candidate(p, a) ==
  IF settings.permutation THEN PermutedName(p, a[2]) ELSE CombinedName(p, a[1], a[2])

Before(a, b) == a[1] < b[1] \/ (a[1] = b[1] /\ a[2] < b[2])

IsFirst(a, S) == a \in S /\ \A b \in S : b = a \/ Before(a, b)

\* Mutant of Rest: a candidate that was refused is tried again.
RestAndThis(p) ==
  {a \in PositionsOf(p) : at[p] = None \/ ~Before(a, at[p])}

\* Positions that are still to be tried.
Rest(p) ==
  {a \in PositionsOf(p) : at[p] = None \/ Before(at[p], a)}

-----------------------------------------------------------------------------
(* The handler of a person's event. *)

Busy(p) == pc[p] # "idle"
Goto(p, place) == pc' = [pc EXCEPT ![p] = place]
Stop(p) == Goto(p, "idle") /\ at' = [at EXCEPT ![p] = None]

\* Mutant of GiveBack: the handler that failed goes on.
GiveBackLate(p) ==
  /\ pending' = pending \cup {p}
  /\ Goto(p, "failed")
  /\ UNCHANGED at

\* An error: the event is delivered again.
GiveBack(p) == Stop(p) /\ pending' = pending \cup {p}

\* The template knows the username from MO.
Known(p) ==
  latest[p] # None /\ (settings.remembers \/ ~ended[p])

\* http_process_person, one at a time for a person; the template writes the
\* username that MO has, or has one generated.
Begin(p) ==
  /\ p \in pending /\ ~Busy(p)
  /\ pending' = pending \ {p}
  /\ Goto(p, IF Known(p) THEN "write" ELSE "generate")
  /\ raced' = (raced \/ \E q \in Persons : Busy(q))
  /\ UNCHANGED <<settings, ldap, mo, at, counters, given, lost>>

\* Mutant of LdapAllows: only the accounts of others than persons count.
LdapAllowsPersons(p, name) == name \notin Service

\* _ldap_allows_username.
LdapAllows(p, name) == name \notin Service \cup {ldap[q] : q \in Persons}

\* Mutant of Reserving: only present itusers count.
ReservingNow(name) ==
  {q \in Persons : name = latest[q] /\ ~ended[q]}

\* The persons whose itusers have the username, now or at another time.
Reserving(name) == {q \in Persons : name \in reserved[q]}

\* _mo_allows_username.
MoAllows(p, name) ==
  \/ ~settings.disallow
  \/ Reserving(name) = {}
  \/ settings.reuse /\ Reserving(name) = {p}

\* The next candidate that LDAP allows, if there is one.
CheckLdap(p) ==
  /\ pc[p] = "generate"
  /\ \/ \E a \in Rest(p) :
          /\ IsFirst(a, Rest(p))
          /\ at' = [at EXCEPT ![p] = a]
          /\ IF LdapAllows(p, Candidate(p, a)) THEN Goto(p, "mo") ELSE UNCHANGED pc
          /\ UNCHANGED pending
     \/ Rest(p) = {} /\ GiveBack(p)
  /\ UNCHANGED <<settings, ldap, mo, counters, history>>

CheckMo(p) ==
  /\ pc[p] = "mo"
  /\ Goto(p, IF MoAllows(p, Candidate(p, at[p])) THEN "write" ELSE "generate")
  /\ UNCHANGED <<settings, ldap, mo, pending, at, counters, history>>

Rendered(p) == IF at[p] = None THEN latest[p] ELSE Candidate(p, at[p])

\* What p's account loses with its username, if MO has not learnt of it.
Loses(p) == lost' = lost \cup ({ldap[p]} \ (reserved[p] \cup {None, ldap'[p]}))

\* ensure_ldap_object, then the event is acknowledged.
Write(p) ==
  /\ pc[p] = "write"
  /\ ldap' = [ldap EXCEPT ![p] = Rendered(p)]
  /\ given' = [given EXCEPT ![p] = @ \cup {Rendered(p)}]
  /\ Loses(p)
  /\ Stop(p)
  /\ UNCHANGED <<settings, mo, pending, counters, raced>>

Fail(p) ==
  /\ Busy(p) /\ faults < MaxFaults
  /\ GiveBack(p)
  /\ faults' = faults + 1
  /\ UNCHANGED <<settings, ldap, mo, events, outside, history>>

-----------------------------------------------------------------------------
(* MO learns the usernames; others. *)

\* import_single_user, of a mapping that makes the ituser.
Import(p) ==
  /\ ldap[p] # None
  /\ latest[p] # ldap[p] \/ ended[p]
  /\ reserved' = [reserved EXCEPT ![p] = @ \cup {ldap[p]}]
  /\ latest' = [latest EXCEPT ![p] = ldap[p]]
  /\ ended' = [ended EXCEPT ![p] = FALSE]
  /\ UNCHANGED <<settings, ldap, pending, pc, at, counters, history>>

\* The person changes in MO.
Event(p) ==
  /\ events[p] < MaxEvents
  /\ events' = [events EXCEPT ![p] = @ + 1]
  /\ pending' = pending \cup {p}
  /\ UNCHANGED <<settings, ldap, mo, pc, at, outside, faults, history>>

\* The account is deleted; the next one starts without a username.
Delete(p) ==
  /\ ldap[p] # None /\ outside < MaxOutside
  /\ ldap' = [ldap EXCEPT ![p] = None]
  /\ Loses(p)
  /\ outside' = outside + 1
  /\ UNCHANGED <<settings, mo, pending, pc, at, events, faults, given, raced>>

\* The ituser is terminated.
Terminate(p) ==
  /\ latest[p] # None /\ ~ended[p] /\ outside < MaxOutside
  /\ ended' = [ended EXCEPT ![p] = TRUE]
  /\ outside' = outside + 1
  /\ UNCHANGED <<settings, ldap, reserved, latest, pending, pc, at, events,
                 faults, history>>

HandlerStep(p) == Begin(p) \/ CheckLdap(p) \/ CheckMo(p) \/ Write(p)

Next ==
  \E p \in Persons :
    HandlerStep(p) \/ Fail(p) \/ Import(p) \/ Event(p) \/ Delete(p) \/ Terminate(p)

Spec == Init /\ [][Next]_vars
FairSpec == Spec /\ \A p \in Persons : WF_vars(HandlerStep(p))

-----------------------------------------------------------------------------
(* Properties. *)

Raced == raced \/ ~settings.disallow

\* Two accounts never have one username, unless two handlers generated at a time:
\* each checks LDAP before it writes (_create_username), and a person who comes
\* back to a username that MO has kept finds it free.
NamesApart ==
  \A p, q \in Persons :
    p # q /\ ldap[p] # None /\ ldap[p] = ldap[q] => Raced

\* A username is not given to anybody else, even after its account is gone
\* (lines 50-57): but for a race, and for an account that was deleted, or given
\* another username at its next event, before MO knew of the first.
NeverReused ==
  \A p, q \in Persons :
    p # q /\ given[p] \cap given[q] # {} => Raced \/ given[p] \cap given[q] \subseteq lost

\* There is no username left for p; p's own account may use the last of them.
Exhausted(p) ==
  \A a \in PositionsOf(p) :
    ~LdapAllows(p, Candidate(p, a)) \/ ~MoAllows(p, Candidate(p, a))

\* A person's event is handled in the end, unless there is no username left, when
\* it is delivered for ever (RuntimeError, line 377).
Handled ==
  \A p \in Persons :
    []<>(p \notin pending /\ ~Busy(p)) \/ <>[]Exhausted(p)

=============================================================================
