---------------------------- MODULE ObjectHistory ----------------------------
(***************************************************************************)
(* What imports make of one MO object from day to day                      *)
(* (import_single_entity of import_export.py, with the requests of MoApi)  *)
(* and what /danger/purge_address_validities makes of it (routes.py).      *)
(*                                                                         *)
(* An import is up to three requests: it fetches the object, terminates    *)
(* it, and writes it from today on.  MO keeps a state for each day and     *)
(* answers with validities: spans of days of one state.  A day stands for  *)
(* the midnight it begins with; the last slot stands for all days after.   *)
(***************************************************************************)
EXTENDS Integers, FiniteSetsExt, MoApi

CONSTANTS
    Values,     \* of an attribute that is required
    Fields,     \* of an attribute that is not
    Settings,   \* see below
    Today,      \* the day it begins
    LastDay     \* bound: the last day the clock reaches

\* The kind of the object; an attribute that is not required; whether a template
\* gives it; whether the mapping terminates; whether MO clears what is null; and a
\* bound: how many failures, purges and changes by others there are.
AllSettings ==
    [kind : Kinds, attribute : UNION {Attributes[k] : k \in Kinds}, mapped : BOOLEAN,
     terminates : BOOLEAN, nullClears : BOOLEAN, maxEvents : Nat]

\* A mapping cannot terminate employees.
ASSUME HistoryAssumption ==
    /\ LastDay \in Nat \ {0} /\ Today \in 1 .. LastDay
    /\ \A s \in Settings :
        /\ s \in AllSettings /\ s.attribute \in Attributes[s.kind]
        /\ s.kind = "Employee" => ~s.terminates
    /\ {Null, Blank, UNSET, Absent} \cap (Values \cup Fields) = {}
    /\ Cardinality({Null, Blank, UNSET, Absent}) = 4

VARIABLES
    settings,
    today,
    timeline,   \* of each slot: the state of the object in MO, if it has one
    ldap,       \* what the templates render of the LDAP object
    pc,         \* of the import: "idle", "fetch", "terminate" or "write"
    desired,    \* what this import read in LDAP
    fetched,    \* the validity it fetched: none or one
    purge,      \* the validities a purge has read
    outcome,    \* of the last import
    synced,     \* history: MO is as the last import left it, and LDAP as it read it
    repeated,   \* history: so it was when this import began, and nothing to begin later
    later,      \* history: the last import skipped what is to begin later
    events

vars == <<settings, today, timeline, ldap, pc, desired, fetched, purge, outcome,
          synced, repeated, later, events>>

Days == 1 .. LastDay
Slots == 1 .. LastDay + 1
Forever == LastDay + 2
Ends == (Slots \ {1}) \cup {Forever}
States == [value : Values, field : Fields \cup {Null}]
Gone == [value |-> Null, field |-> Null]
Validities == [from : Slots, to : Slots \cup {Forever}, state : States]
Renderings == [value : Values \cup {Null}, field : Fields \cup {Null}, end : Ends]
Outcomes == {"none", "created", "edited", "identical", "skipped", "single day", "empty", "refused", "failed"}

TypeOK ==
    /\ settings \in Settings
    /\ today \in Days
    /\ timeline \in [Slots -> States \cup {Gone}]
    /\ ldap \in Renderings /\ desired \in Renderings
    /\ pc \in {"idle", "fetch", "terminate", "write"}
    /\ fetched \subseteq Validities
    /\ purge \subseteq Validities
    /\ outcome \in Outcomes
    /\ synced \in BOOLEAN /\ repeated \in BOOLEAN /\ later \in BOOLEAN
    /\ events \in 0 .. settings.maxEvents

\* A mapping that does not give the attribute renders nothing for it; a mapping of
\* employees cannot give an end, and employees have no attribute that is required.
RenderingsOf(given) ==
    {r \in Renderings :
        /\ ~given.mapped => r.field = Null
        /\ given.kind = "Employee" => r.end = Forever /\ r.value # Null}

\* One of the failures, purges and changes by others.
Happens == events < settings.maxEvents /\ events' = events + 1

-----------------------------------------------------------------------------
(* MO *)

Span(v) == {s \in Slots : v.from <= s /\ s < v.to}
Put(t, span, state) == [s \in Slots |-> IF s \in span THEN state ELSE t[s]]

\* The longest spans of one state: MO consolidates what an edit writes.
ValiditiesOf(t) ==
    LET constant(v) == \A s \in Span(v) : t[s] = v.state
    IN  {v \in {[from |-> a, to |-> IF b = LastDay + 1 THEN Forever ELSE b + 1, state |-> t[a]] :
                    a \in Slots, b \in Slots} :
            /\ v.from < v.to /\ v.state # Gone /\ constant(v)
            /\ v.from > 1 => t[v.from - 1] # v.state
            /\ v.to < Forever => t[v.to] # v.state}

\* load_mo_address and the like, of all validities.
Latest(V) == {v \in V : \A w \in V : w.to <= v.to}
Extract(V) ==
    LET current == {v \in V : today \in Span(v)}
    IN  IF current # {} THEN current ELSE Latest(V)

\* What a request makes of the days it covers: it keeps nothing of them but what
\* it leaves alone.
Edited(t, span, value, sent) ==
    [s \in Slots |->
        IF s \notin span THEN t[s]
        ELSE [value |-> value, field |-> Stored(t[s].field, sent, settings.nullClears)]]

-----------------------------------------------------------------------------
(* An import *)

From(day, end) == {s \in Slots : day <= s /\ s < end}

Terminated(t, at) == Put(t, From(at, Forever), Gone)

\* An employee has no validity: MO takes it from the CPR number.
Covered == IF settings.kind = "Employee" THEN Slots ELSE From(today, desired.end)

\* _create_converted_object: a termination within a day of today is refused.
SingleDay == desired.end # Forever /\ desired.end - today <= 1

\* And then an object whose required attributes render to nothing.
Unfit == SingleDay \/ desired.value = Null

\* An attribute that renders to nothing is left out, and so has its default.
Converted ==
    IF settings.mapped /\ desired.field # Null THEN desired.field ELSE Default(settings.attribute)

Loaded(v) == Load(settings.kind, settings.attribute, v.state.field)

\* Mutant: what no template gives is not copied from MO.
UploadedDefault(v) == Converted

\* The attribute as the object has it that is uploaded.
Uploaded(v) == IF settings.mapped /\ Converted # UNSET THEN Converted ELSE Loaded(v)

Changed(v) == desired.value # v.state.value \/ Uploaded(v) # Loaded(v)
Ending(v) == settings.kind # "Employee" /\ desired.end # v.to

End(o) ==
    /\ pc' = "idle"
    /\ outcome' = o
    /\ fetched' = {}

Start ==
    /\ pc = "idle"
    /\ pc' = "fetch"
    /\ desired' = ldap
    /\ repeated' = (synced /\ ~later)
    /\ synced' = TRUE
    /\ later' = FALSE
    /\ UNCHANGED <<settings, today, timeline, ldap, fetched, purge, outcome, events>>

Fetch ==
    /\ pc = "fetch"
    /\ pc' = "terminate"
    /\ fetched' = Extract(ValiditiesOf(timeline))
    /\ UNCHANGED <<settings, today, timeline, ldap, desired, purge, outcome, synced, repeated, later, events>>

\* Nothing is sent.
Reject ==
    \/ SingleDay /\ End("single day")
    \/ ~SingleDay /\ desired.value = Null /\ End("empty")

MakeNew ==
    LET sent == Create(settings.kind, settings.attribute, Converted)
    IN  timeline' = Put(timeline, Covered,
            [value |-> desired.value, field |-> Stored(Null, sent, settings.nullClears)])

CreateNew ==
    /\ pc = "terminate" /\ fetched = {}
    /\ IF Unfit THEN Reject /\ UNCHANGED <<timeline, synced>>
       ELSE IF Refused(settings.kind, settings.attribute, Converted)
       THEN End("refused") /\ synced' = FALSE /\ UNCHANGED timeline
       ELSE End("created") /\ MakeNew /\ UNCHANGED synced
    /\ UNCHANGED <<settings, today, ldap, desired, purge, repeated, later, events>>

Terminate ==
    /\ pc = "terminate" /\ fetched # {}
    /\ pc' = "write"
    /\ timeline' = IF settings.terminates /\ desired.end # Forever
                   THEN Terminated(timeline, desired.end)
                   ELSE timeline
    /\ UNCHANGED <<settings, today, ldap, desired, fetched, purge, outcome, synced, repeated, later, events>>

Write(days, v) ==
    timeline' = Edited(timeline, days, desired.value,
                       Edit(settings.kind, settings.attribute, Uploaded(v)))

\* Mutant: the edit covers the validity that was fetched.
EditFromItsStart ==
    /\ pc = "write" /\ ~Unfit
    /\ \E v \in fetched :
        /\ Changed(v) \/ Ending(v)
        /\ ~Refused(settings.kind, settings.attribute, Uploaded(v))
        /\ Write(From(v.from, desired.end), v)
    /\ End("edited")
    /\ UNCHANGED <<settings, today, ldap, desired, purge, synced, repeated, later, events>>

\* Mutant: the start of the validity is compared.
EditOfOtherStart ==
    /\ pc = "write" /\ ~Unfit
    /\ \E v \in fetched :
        /\ Changed(v) \/ Ending(v) \/ v.from # today
        /\ ~Refused(settings.kind, settings.attribute, Uploaded(v))
        /\ Write(Covered, v)
    /\ End("edited")
    /\ UNCHANGED <<settings, today, ldap, desired, purge, synced, repeated, later, events>>

EditOld ==
    /\ pc = "write" /\ ~Unfit
    /\ \E v \in fetched :
        /\ Changed(v) \/ Ending(v)
        /\ ~Refused(settings.kind, settings.attribute, Uploaded(v))
        /\ Write(Covered, v)
    /\ End("edited")
    /\ UNCHANGED <<settings, today, ldap, desired, purge, synced, repeated, later, events>>

\* An assertion of edit_address.
EditRefused ==
    /\ pc = "write" /\ ~Unfit
    /\ \E v \in fetched :
        /\ Changed(v) \/ Ending(v)
        /\ Refused(settings.kind, settings.attribute, Uploaded(v))
    /\ End("refused")
    /\ synced' = FALSE
    /\ UNCHANGED <<settings, today, timeline, ldap, desired, purge, repeated, later, events>>

LeftForLater(v) == today < v.from \/ (settings.kind = "Employee" /\ v.to # Forever)

\* Mutant: the ends of the validities are not compared.
SkipWhateverEnd ==
    /\ pc = "write" /\ ~Unfit
    /\ \E v \in fetched : ~Changed(v) /\ later' = LeftForLater(v)
    /\ End("skipped")
    /\ UNCHANGED <<settings, today, timeline, ldap, desired, purge, synced, repeated, events>>

\* What is identical, or except for validity.start, is not uploaded.
Skip ==
    /\ pc = "write"
    /\ \/ Unfit /\ Reject /\ UNCHANGED later
       \/ /\ ~Unfit
          /\ \E v \in fetched :
                /\ ~Changed(v) /\ ~Ending(v)
                /\ End(IF v.from = today THEN "identical" ELSE "skipped")
                /\ later' = LeftForLater(v)
    /\ UNCHANGED <<settings, today, timeline, ldap, desired, purge, synced, repeated, events>>

\* External: a request fails, or the process ends; the event comes again.
Fail ==
    /\ pc # "idle"
    /\ Happens
    /\ End("failed")
    /\ synced' = FALSE
    /\ UNCHANGED <<settings, today, timeline, ldap, desired, purge, repeated, later>>

-----------------------------------------------------------------------------
(* A purge of the validities of an address *)

PurgeRead ==
    /\ settings.kind = "Address" /\ purge = {}
    /\ Happens
    /\ purge' = ValiditiesOf(timeline)
    /\ purge' # {} /\ \A v \in purge' : v.from <= today
    /\ UNCHANGED <<settings, today, timeline, ldap, pc, desired, fetched, outcome,
                   synced, repeated, later>>

MostRecent == Latest(purge)

\* The most recent state, from the first day of all to the last.
PurgeWrite ==
    /\ \E v \in MostRecent :
        timeline' = Edited(timeline, From(Min({w.from : w \in purge}), v.to), v.state.value,
                           Named(settings.attribute # "value2", v.state.field))
    /\ purge' = {}
    /\ synced' = (synced /\ pc = "idle" /\ purge = ValiditiesOf(timeline))
    /\ UNCHANGED <<settings, today, ldap, pc, desired, fetched, outcome, repeated, later, events>>

-----------------------------------------------------------------------------
(* The world *)

Midnight ==
    /\ today < LastDay
    /\ today' = today + 1
    /\ UNCHANGED <<settings, timeline, ldap, pc, desired, fetched, purge, outcome,
                   synced, repeated, later, events>>

\* External: the LDAP object changes.
Change ==
    /\ ldap' \in RenderingsOf(settings) \ {ldap}
    /\ Happens
    /\ synced' = FALSE
    /\ UNCHANGED <<settings, today, timeline, pc, desired, fetched, purge, outcome, repeated, later>>

\* External: a user of MO writes or ends the object from a day on.  An employee is
\* there from the start, and does not end.
Note ==
    /\ Happens
    /\ \E s \in Slots, state \in States \cup {Gone} :
        /\ settings.kind = "Employee" => state # Gone /\ (timeline[1] = Gone => s = 1)
        /\ timeline' = Put(timeline, From(s, Forever), state)
        /\ timeline' # timeline
    /\ synced' = FALSE
    /\ UNCHANGED <<settings, today, ldap, pc, desired, fetched, purge, outcome, repeated, later>>

Init ==
    /\ events = 0
    /\ settings \in Settings
    /\ today = Today
    /\ timeline = [s \in Slots |-> Gone]
    /\ ldap \in RenderingsOf(settings)
    /\ pc = "idle" /\ desired = ldap
    /\ fetched = {} /\ purge = {}
    /\ outcome = "none"
    /\ synced = FALSE /\ repeated = FALSE /\ later = FALSE

Import ==
    Start \/ Fetch \/ CreateNew \/ Terminate \/ EditOld \/ EditRefused \/ Skip \/ Fail

Next == Import \/ PurgeRead \/ PurgeWrite \/ Midnight \/ Change \/ Note

Spec == Init /\ [][Next]_vars

-----------------------------------------------------------------------------
(* Properties *)

\* What MO keeps of an edit: an attribute that is not named, and one that is null
\* where MO leaves null alone.
Sent == Create(settings.kind, settings.attribute, Null) # Absent
Lingers == ~Sent \/ (ldap.field = Null /\ Default(settings.attribute) = Null /\ ~settings.nullClears)

\* An extension that has become empty in LDAP is left alone, too.
KeepsField == ~settings.mapped \/ Lingers \/ (ldap.field = Null /\ Default(settings.attribute) = UNSET)

\* So is an attribute that is not read, where LDAP has none.
Unseen(f) ==
    Load(settings.kind, settings.attribute, f) = Load(settings.kind, settings.attribute, Null)

\* A day that MO has as LDAP has it, until the end that the templates give.
Matches(s) ==
    IF s < ldap.end
    THEN outcome \notin {"single day", "empty"} =>
            /\ timeline[s].value = ldap.value
            /\ \/ KeepsField \/ timeline[s].field = ldap.field
               \/ ldap.field = Null /\ Unseen(timeline[s].field)
    ELSE settings.terminates => timeline[s] = Gone

\* What an import leaves behind: from today on MO has what LDAP has, until the
\* end that the templates give; whatever MO had before, whichever days the
\* import ran across, and though its validities are purged afterwards.  Except
\* that an object that is to begin later is not moved, and that the end of today's
\* state of an employee is not compared.
Followed ==
    synced /\ pc = "idle" /\ outcome \notin {"none", "failed"} /\ ~later =>
        \A s \in Slots : today <= s => Matches(s)

\* What an import writes compares equal afterwards: unless MO keeps some of the
\* edit, the attribute is not read back, or the end is not terminated.
ReadBack == Load(settings.kind, settings.attribute, ldap.field) = ldap.field

Comparable ==
    /\ ~Lingers
    /\ ldap.field = Null \/ ReadBack
    /\ ldap.end = Forever \/ settings.terminates

\* A second import of the same object writes nothing, on whichever later day.
RepeatedIsNoop ==
    repeated /\ synced /\ pc = "idle" /\ Comparable => outcome \notin {"created", "edited"}

\* An import leaves the past alone, but for days after an end that is past too;
\* of an employee it writes all days.
PastKept ==
    [][Import /\ settings.kind # "Employee" =>
        \A s \in Slots : s < today /\ timeline'[s] # timeline[s] =>
            settings.terminates /\ desired.end <= s]_vars

\* An attribute that no template gives stays on the days of the validity that was
\* fetched: but for one that is not read, where MO clears what is null.
OthersKept ==
    [][EditOld /\ ~settings.mapped =>
        \A v \in fetched : \A s \in Span(v) :
            \/ timeline[s] # v.state
            \/ timeline'[s].field = timeline[s].field
            \/ settings.nullClears /\ Loaded(v) # v.state.field]_vars

-----------------------------------------------------------------------------
(* The inductive invariant behind Followed and RepeatedIsNoop. *)

\* MO has an attribute that an import would not change.
Agrees(f) ==
    settings.mapped /\ Converted # UNSET => Load(settings.kind, settings.attribute, f) = Converted

\* There is one state until the end, which an import would not change, and none after.
Steady ==
    \A s \in Slots : today <= s =>
        IF s < ldap.end
        THEN /\ timeline[s] = timeline[today]
             /\ timeline[s].value = ldap.value
             /\ Agrees(timeline[s].field)
        ELSE timeline[s] = Gone

Ended(s) == settings.terminates /\ desired.end <= s

\* What was fetched still is what MO has, but for what is terminated.
FetchedIs ==
    /\ \A v \in fetched : \A s \in Span(v) :
            timeline[s] = v.state \/ (pc = "write" /\ Ended(s))
    /\ pc = "terminate" /\ fetched = {} => \A s \in Slots : timeline[s] = Gone
    /\ pc = "write" => fetched # {} /\ \A s \in Slots : Ended(s) => timeline[s] = Gone

NothingNew == fetched # {} /\ \A v \in fetched : ~Changed(v) /\ ~Ending(v)

Finished ==
    /\ outcome \in {"created", "edited", "identical", "skipped", "single day", "empty"}
    /\ outcome = "single day" => SingleDay
    /\ outcome = "empty" => desired.value = Null
    /\ ~later =>
        /\ \A s \in Slots : today <= s => Matches(s)
        /\ Comparable /\ ~Unfit => Steady
    /\ repeated /\ Comparable => outcome \notin {"created", "edited"}

Known ==
    /\ desired = ldap
    /\ pc = "idle" => Finished
    /\ pc \in {"terminate", "write"} => FetchedIs
    /\ pc # "idle" /\ repeated /\ Comparable /\ ~Unfit =>
        /\ Steady
        /\ pc \in {"terminate", "write"} => NothingNew

IndInv ==
    /\ ldap \in RenderingsOf(settings)
    /\ \A v \in purge : v.from <= today
    /\ synced => Known
=============================================================================
