-------------------------- MODULE ObjectHistoryProofs --------------------------
(* What holds of ObjectHistory for any values, settings and days.           *)
EXTENDS ObjectHistory, FiniteSetTheorems, WellFoundedInduction, TLAPS

\* What a request names of an attribute.
Sendable == Fields \cup {Null, Blank, Absent}

LEMMA Apart ==
  /\ Null # Blank /\ Null # UNSET /\ Null # Absent
  /\ Blank # UNSET /\ Blank # Absent /\ UNSET # Absent
  /\ {Null, Blank, UNSET, Absent} \cap (Values \cup Fields) = {}
<1>1. {Null, Blank, UNSET, Absent} \cap (Values \cup Fields) = {}
  BY HistoryAssumption
<1>2. Cardinality({Null, Blank, UNSET, Absent}) = 4
  BY HistoryAssumption
<1>3. \A a, b, c : Cardinality({a, b, c}) <= 3
  <2> SUFFICES ASSUME NEW a, NEW b, NEW c
               PROVE  Cardinality({a, b, c}) <= 3
    OBVIOUS
  <2>0. IsFiniteSet({})  /\ Cardinality({}) = 0
    BY FS_EmptySet
  <2>1. IsFiniteSet({c}) /\ Cardinality({c}) = 1
    BY FS_Singleton
  <2>2. IsFiniteSet({c} \cup {b}) /\ Cardinality({c} \cup {b}) \in {1, 2}
    BY <2>1, FS_AddElement
  <2>3. Cardinality(({c} \cup {b}) \cup {a}) \in {1, 2, 3}
    BY <2>2, FS_AddElement
  <2>4. ({c} \cup {b}) \cup {a} = {a, b, c}
    OBVIOUS
  <2> QED
    BY <2>3, <2>4
<1>4. ~(4 <= 3)
  OBVIOUS
<1>5. ASSUME NEW a, NEW b, NEW c, {Null, Blank, UNSET, Absent} = {a, b, c}
      PROVE  FALSE
  <2>1. Cardinality({a, b, c}) = 4
    BY <1>2, <1>5
  <2>2. Cardinality({a, b, c}) <= 3
    BY <1>3
  <2> HIDE <1>2, <1>3
  <2> QED
    BY <1>4, <2>1, <2>2
<1>6. Null # Blank
  <2> SUFFICES ASSUME Null = Blank PROVE {Null, Blank, UNSET, Absent} = {Blank, UNSET, Absent}
    BY <1>5
  <2> QED OBVIOUS
<1>7. Null # UNSET
  <2> SUFFICES ASSUME Null = UNSET PROVE {Null, Blank, UNSET, Absent} = {Blank, UNSET, Absent}
    BY <1>5
  <2> QED OBVIOUS
<1>8. Null # Absent
  <2> SUFFICES ASSUME Null = Absent PROVE {Null, Blank, UNSET, Absent} = {Blank, UNSET, Absent}
    BY <1>5
  <2> QED OBVIOUS
<1>9. Blank # UNSET
  <2> SUFFICES ASSUME Blank = UNSET PROVE {Null, Blank, UNSET, Absent} = {Null, UNSET, Absent}
    BY <1>5
  <2> QED OBVIOUS
<1>10. Blank # Absent
  <2> SUFFICES ASSUME Blank = Absent PROVE {Null, Blank, UNSET, Absent} = {Null, UNSET, Absent}
    BY <1>5
  <2> QED OBVIOUS
<1>11. UNSET # Absent
  <2> SUFFICES ASSUME UNSET = Absent PROVE {Null, Blank, UNSET, Absent} = {Null, Blank, Absent}
    BY <1>5
  <2> QED OBVIOUS
<1> QED
  BY <1>1, <1>6, <1>7, <1>8, <1>9, <1>10, <1>11

-----------------------------------------------------------------------------
(* Attributes *)

LEMMA Settled ==
  ASSUME settings \in Settings
  PROVE  /\ settings.kind \in {"Address", "Employee", "OrganisationUnit", "Engagement", "ITUser", "Class"}
         /\ settings.attribute \in Attributes[settings.kind]
         /\ settings.mapped \in BOOLEAN /\ settings.terminates \in BOOLEAN
         /\ settings.nullClears \in BOOLEAN /\ settings.maxEvents \in Nat
  BY HistoryAssumption DEF AllSettings, Kinds, Attributes

\* The sentinel of an extension is the default of nothing else.
LEMMA OnlyExtensions ==
  ASSUME settings \in Settings
  PROVE  /\ Default(settings.attribute) \in {Null, Blank, UNSET}
         /\ Default(settings.attribute) = UNSET => settings.kind = "Engagement" /\ settings.attribute = "extension_1"
  BY Settled, Apart
     DEF Default, Nicknames, Attributes, Address, Employee, OrganisationUnit, Engagement, ITUser, Class

LEMMA StoredTyped ==
  ASSUME NEW old \in Fields \cup {Null}, NEW sent \in Sendable, NEW clears \in BOOLEAN
  PROVE  Stored(old, sent, clears) \in Fields \cup {Null}
  BY Apart DEF Stored, Sendable

LEMMA CreateTyped ==
  ASSUME settings \in Settings, NEW v \in Fields \cup {Null, Blank, UNSET},
         v = UNSET => settings.kind = "Engagement"
  PROVE  Create(settings.kind, settings.attribute, v) \in Sendable
  BY Settled DEF Create, CreateAddress, CreateEmployee, CreateOrgUnit, CreateEngagement,
                 CreateItUser, CreateClass, Named, Sendable

LEMMA EditTyped ==
  ASSUME settings \in Settings, NEW v \in Fields \cup {Null, Blank}
  PROVE  Edit(settings.kind, settings.attribute, v) \in Sendable
<1>1. CASE settings.kind = "Engagement"
  BY <1>1, Settled DEF Edit, EditEngagement, Attributes, Engagement, Sendable
<1>2. CASE settings.kind # "Engagement"
  BY <1>2, Settled DEF Edit, EditAddress, EditEmployee, CreateEmployee, EditOrgUnit,
                 EditItUser, EditClass, Named, Sendable
<1> QED
  BY <1>1, <1>2

LEMMA LoadTyped ==
  ASSUME settings \in Settings, NEW v \in Fields \cup {Null}
  PROVE  Load(settings.kind, settings.attribute, v) \in Fields \cup {Null, Blank}
  BY Settled DEF Load, LoadAddress, LoadEmployee, LoadOrgUnit, LoadEngagement, LoadItUser,
                 LoadClass, If

-----------------------------------------------------------------------------
(* Validities *)

Timelines == [Slots -> States \cup {Gone}]

LEMMA DaysApart ==
  /\ LastDay \in Nat /\ LastDay > 0
  /\ Forever \in Nat /\ Slots \subseteq 1 .. Forever /\ Days \subseteq Slots
  /\ \A s \in Slots : s # Forever
  BY HistoryAssumption DEF Slots, Days, Forever

LEMMA GoneIsNoState == Gone \notin States
  BY Apart DEF Gone, States

LEMMA ValidityTyped ==
  ASSUME NEW t \in Timelines, NEW v \in ValiditiesOf(t)
  PROVE  /\ v \in Validities /\ v.from < v.to
         /\ \A s \in Slots : s \in Span(v) => t[s] = v.state
         /\ v.from > 1 => t[v.from - 1] # v.state
         /\ v.to < Forever => t[v.to] # v.state
<1>1. PICK a \in Slots, b \in Slots :
        v = [from |-> a, to |-> IF b = LastDay + 1 THEN Forever ELSE b + 1, state |-> t[a]]
  BY DEF ValiditiesOf
<1>2. v.state # Gone
  BY DEF ValiditiesOf
<1>3. v.state \in States
  BY <1>1, <1>2 DEF Timelines
<1>4. v.to \in Slots \cup {Forever}
  BY <1>1, DaysApart DEF Slots, Forever
<1>5. v.from \in Slots
  BY <1>1
<1>6. v \in Validities
  BY <1>1, <1>3, <1>4, <1>5 DEF Validities
<1>7. \A s \in Slots : s \in Span(v) => t[s] = v.state
  BY DEF ValiditiesOf, Span
<1> QED
  BY <1>6, <1>7 DEF ValiditiesOf

\* Two validities that have a day in common are one.
LEMMA SharedDay ==
  ASSUME NEW t \in Timelines, NEW v \in ValiditiesOf(t), NEW w \in ValiditiesOf(t),
         NEW s \in Slots, s \in Span(v), s \in Span(w)
  PROVE  v = w
<1>1. /\ v \in Validities /\ w \in Validities
      /\ v.from \in 1 .. Forever /\ w.from \in 1 .. Forever
      /\ v.to \in 1 .. Forever /\ w.to \in 1 .. Forever
      /\ v.from <= s /\ s < v.to /\ w.from <= s /\ s < w.to
  BY ValidityTyped, DaysApart DEF Validities, Span, Slots, Forever
<1>2. v.state = t[s] /\ w.state = t[s]
  BY ValidityTyped
<1>3. ASSUME NEW x \in ValiditiesOf(t), NEW y \in ValiditiesOf(t), x.state = y.state,
             x.from \in 1 .. Forever, y.from \in 1 .. Forever, x.to \in 1 .. Forever, y.to \in 1 .. Forever,
             x.from <= s, s < x.to, y.from <= s, s < y.to
      PROVE  ~(x.from < y.from) /\ ~(x.to < y.to)
  <2>1. ASSUME x.from < y.from
        PROVE  FALSE
    <3>1. y.from - 1 \in Slots /\ y.from - 1 \in Span(x) /\ y.from > 1
      BY <1>3, <2>1, DaysApart DEF Span, Slots, Forever
    <3>2. t[y.from - 1] = x.state
      BY <3>1, ValidityTyped
    <3> QED
      BY <1>3, <3>1, <3>2, ValidityTyped
  <2>2. ASSUME x.to < y.to
        PROVE  FALSE
    <3>1. x.to \in Slots /\ x.to \in Span(y) /\ x.to < Forever
      BY <1>3, <2>2, DaysApart DEF Span, Slots, Forever
    <3>2. t[x.to] = y.state
      BY <3>1, ValidityTyped
    <3> QED
      BY <1>3, <3>1, <3>2, ValidityTyped
  <2> QED
    BY <2>1, <2>2
<1>4. v.from = w.from /\ v.to = w.to
  <2>1. ~(v.from < w.from) /\ ~(v.to < w.to)
    BY <1>1, <1>2, <1>3
  <2>2. ~(w.from < v.from) /\ ~(w.to < v.to)
    BY <1>1, <1>2, <1>3
  <2> QED
    BY <1>1, <2>1, <2>2
<1> QED
  BY <1>1, <1>2, <1>4 DEF Validities

\* What a load extracts of MO's answer is one validity at most.
LEMMA ExtractsOne ==
  ASSUME NEW t \in Timelines, today \in Days,
         NEW v \in Extract(ValiditiesOf(t)), NEW w \in Extract(ValiditiesOf(t))
  PROVE  v \in ValiditiesOf(t) /\ v = w
<1>1. v \in ValiditiesOf(t) /\ w \in ValiditiesOf(t)
  BY DEF Extract, Latest
<1>2. CASE \E x \in ValiditiesOf(t) : today \in Span(x)
  <2>1. today \in Span(v) /\ today \in Span(w)
    BY <1>2 DEF Extract
  <2> QED
    BY <1>1, <2>1, SharedDay, DaysApart
<1>3. CASE ~\E x \in ValiditiesOf(t) : today \in Span(x)
  <2>1. v \in Latest(ValiditiesOf(t)) /\ w \in Latest(ValiditiesOf(t))
    BY <1>3 DEF Extract
  <2>2. /\ v.to \in 1 .. Forever /\ w.to \in 1 .. Forever
        /\ v.from \in Slots /\ w.from \in Slots
        /\ v.from < v.to /\ w.from < w.to
    <3>1. \A x \in Validities : x.from \in Slots /\ x.to \in 1 .. Forever
      BY DaysApart DEF Validities, Slots, Forever
    <3>2. \A x \in ValiditiesOf(t) : x \in Validities /\ x.from < x.to
      BY ValidityTyped
    <3> QED
      BY <1>1, <3>1, <3>2
  <2>3. v.to = w.to
    <3>1. v.to <= w.to /\ w.to <= v.to
      BY <1>1, <2>1 DEF Latest
    <3> QED
      BY <2>2, <3>1
  <2>4. v.to - 1 \in Slots /\ v.to - 1 \in Span(v) /\ v.to - 1 \in Span(w)
    BY <2>2, <2>3, DaysApart DEF Span, Slots, Forever
  <2> QED
    BY <1>1, <2>4, SharedDay
<1> QED
  BY <1>1, <1>2, <1>3

-----------------------------------------------------------------------------
(* Types *)

FetchedOne == \A v, w \in fetched : v = w

Inv == TypeOK /\ FetchedOne

LEMMA PutTyped ==
  ASSUME NEW t \in Timelines, NEW span, NEW state \in States \cup {Gone}
  PROVE  Put(t, span, state) \in Timelines
  BY DEF Put, Timelines

LEMMA EditedTyped ==
  ASSUME TypeOK, NEW t \in Timelines, NEW span, NEW value \in Values, NEW sent \in Sendable
  PROVE  Edited(t, span, value, sent) \in Timelines
<1>1. ASSUME NEW s \in Slots
      PROVE  t[s].field \in Fields \cup {Null}
  BY DEF Timelines, States, Gone
<1>2. ASSUME NEW s \in Slots
      PROVE  [value |-> value, field |-> Stored(t[s].field, sent, settings.nullClears)] \in States
  <2>1. Stored(t[s].field, sent, settings.nullClears) \in Fields \cup {Null}
    BY <1>1, Settled, StoredTyped DEF TypeOK
  <2> QED
    BY <2>1 DEF States
<1> QED
  BY <1>2 DEF Edited, Timelines

LEMMA ConvertedTyped ==
  ASSUME TypeOK
  PROVE  /\ Converted \in Fields \cup {Null, Blank, UNSET}
         /\ Converted = UNSET => settings.kind = "Engagement"
  BY OnlyExtensions, Apart DEF TypeOK, Converted, Renderings

LEMMA UploadedTyped ==
  ASSUME TypeOK, NEW v \in fetched
  PROVE  /\ Uploaded(v) \in Fields \cup {Null, Blank}
         /\ ~settings.mapped => Uploaded(v) = Loaded(v)
<1>1. v.state.field \in Fields \cup {Null}
  BY DEF TypeOK, Validities, States
<1>2. Loaded(v) \in Fields \cup {Null, Blank}
  BY <1>1, LoadTyped DEF TypeOK, Loaded
<1> QED
  BY <1>2, ConvertedTyped DEF Uploaded

LEMMA InitTyped ==
  ASSUME Init
  PROVE  Inv
<1>1. settings \in Settings /\ settings.maxEvents \in Nat
  BY Settled DEF Init
<1>2. Today \in Days
  BY HistoryAssumption DEF Days
<1>3. events \in 0 .. settings.maxEvents
  BY <1>1 DEF Init
<1>4. timeline \in [Slots -> States \cup {Gone}]
  BY DEF Init
<1>5. synced \in BOOLEAN /\ repeated \in BOOLEAN /\ later \in BOOLEAN
  BY DEF Init
<1>6. FetchedOne
  BY DEF Init, FetchedOne
<1>7. ldap \in Renderings /\ desired \in Renderings
  BY DEF Init, RenderingsOf
<1>8. /\ settings \in Settings /\ today \in Days
      /\ pc \in {"idle", "fetch", "terminate", "write"} /\ outcome \in Outcomes
      /\ fetched \subseteq Validities /\ purge \subseteq Validities
  BY <1>1, <1>2 DEF Init, Outcomes
<1> QED
  BY <1>3, <1>4, <1>5, <1>6, <1>7, <1>8 DEF Inv, TypeOK

LEMMA StepTyped ==
  ASSUME Inv, [Next]_vars
  PROVE  Inv'
<1> USE DEF Inv
<1>0. /\ timeline \in Timelines /\ settings \in Settings
      /\ settings.maxEvents \in Nat
      /\ TypeOK <=> /\ settings \in Settings
                    /\ today \in Days
                    /\ timeline \in Timelines
                    /\ ldap \in Renderings /\ desired \in Renderings
                    /\ pc \in {"idle", "fetch", "terminate", "write"}
                    /\ fetched \subseteq Validities
                    /\ purge \subseteq Validities
                    /\ outcome \in Outcomes
                    /\ synced \in BOOLEAN /\ repeated \in BOOLEAN /\ later \in BOOLEAN
                    /\ events \in 0 .. settings.maxEvents
  BY Settled DEF TypeOK, Timelines
<1>1. ASSUME Start
      PROVE  Inv'
  <2>1. repeated' \in BOOLEAN
    BY <1>1 DEF Start
  <2> QED
    BY <1>1, <2>1 DEF Start, TypeOK, FetchedOne
<1>2. ASSUME Fetch
      PROVE  Inv'
  <2>1. fetched' = Extract(ValiditiesOf(timeline))
    BY <1>2 DEF Fetch
  <2>2. \A v, w \in fetched' : v = w /\ v \in ValiditiesOf(timeline)
    BY <1>0, <2>1, ExtractsOne DEF TypeOK
  <2>3. fetched' \subseteq Validities
    BY <1>0, <2>2, ValidityTyped
  <2> QED
    BY <1>2, <2>2, <2>3 DEF Fetch, TypeOK, FetchedOne
<1>3. ASSUME CreateNew
      PROVE  Inv'
  <2>1. timeline' \in Timelines
    <3>1. CASE UNCHANGED timeline
      BY <1>0, <3>1
    <3>2. CASE ~Unfit /\ MakeNew
      <4> DEFINE sent == Create(settings.kind, settings.attribute, Converted)
                 state == [value |-> desired.value, field |-> Stored(Null, sent, settings.nullClears)]
      <4>1. sent \in Sendable
        BY <1>0, ConvertedTyped, CreateTyped
      <4>2. Stored(Null, sent, settings.nullClears) \in Fields \cup {Null}
        BY <1>0, <4>1, Settled, StoredTyped
      <4>3. desired.value \in Values
        BY <3>2 DEF Unfit, TypeOK, Renderings
      <4>4. state \in States
        BY <4>2, <4>3 DEF States
      <4>5. timeline' = Put(timeline, Covered, state)
        BY <3>2 DEF MakeNew
      <4> QED
        BY <1>0, <4>4, <4>5, PutTyped
    <3> QED
      BY <1>3, <3>1, <3>2 DEF CreateNew
  <2>2. outcome' \in Outcomes /\ pc' = "idle" /\ fetched' = {} /\ synced' \in BOOLEAN
    BY <1>3 DEF CreateNew, Reject, End, Outcomes, TypeOK
  <2> QED
    BY <1>0, <1>3, <2>1, <2>2 DEF CreateNew, TypeOK, FetchedOne, Timelines
<1>4. ASSUME Terminate
      PROVE  Inv'
  <2>1. timeline' \in Timelines
    BY <1>0, <1>4, PutTyped DEF Terminate, Terminated
  <2> QED
    BY <1>4, <2>1 DEF Terminate, TypeOK, FetchedOne, Timelines
<1>5. ASSUME EditOld
      PROVE  Inv'
  <2>1. PICK v \in fetched : Write(Covered, v)
    BY <1>5 DEF EditOld
  <2>2. desired.value \in Values
    BY <1>5 DEF EditOld, Unfit, TypeOK, Renderings
  <2>3. Edit(settings.kind, settings.attribute, Uploaded(v)) \in Sendable
    BY <1>0, UploadedTyped, EditTyped
  <2>4. timeline' \in Timelines
    BY <1>0, <2>1, <2>2, <2>3, EditedTyped DEF Write
  <2> QED
    BY <1>5, <2>4 DEF EditOld, End, Outcomes, TypeOK, FetchedOne, Timelines
<1>6. ASSUME EditRefused
      PROVE  Inv'
  BY <1>6 DEF EditRefused, End, Outcomes, TypeOK, FetchedOne
<1>7. ASSUME Skip
      PROVE  Inv'
  <2>1. outcome' \in Outcomes /\ pc' = "idle" /\ fetched' = {}
    BY <1>7 DEF Skip, Reject, End, Outcomes
  <2>2. later' \in BOOLEAN
    BY <1>7 DEF Skip, LeftForLater, TypeOK
  <2> QED
    BY <1>7, <2>1, <2>2 DEF Skip, TypeOK, FetchedOne
<1>8. ASSUME Happens
      PROVE  events' \in 0 .. settings.maxEvents
  BY <1>0, <1>8 DEF Happens, TypeOK
<1>9. ASSUME Fail
      PROVE  Inv'
  BY <1>8, <1>9 DEF Fail, End, Outcomes, TypeOK, FetchedOne
<1>10. ASSUME PurgeRead
       PROVE  Inv'
  <2>1. purge' \subseteq Validities
    BY <1>0, <1>10, ValidityTyped DEF PurgeRead
  <2> QED
    BY <1>8, <1>10, <2>1 DEF PurgeRead, TypeOK, FetchedOne
<1>11. ASSUME PurgeWrite
       PROVE  Inv'
  <2>1. PICK v \in purge :
          timeline' = Edited(timeline, From(Min({w.from : w \in purge}), v.to), v.state.value,
                             Named(settings.attribute # "value2", v.state.field))
    BY <1>11 DEF PurgeWrite, MostRecent, Latest
  <2>2. v.state.value \in Values /\ v.state.field \in Fields \cup {Null}
    BY DEF TypeOK, Validities, States
  <2>3. timeline' \in Timelines
    BY <1>0, <2>1, <2>2, EditedTyped DEF Named, Sendable
  <2>4. synced' \in BOOLEAN
    BY <1>11 DEF PurgeWrite
  <2> QED
    BY <1>11, <2>3, <2>4 DEF PurgeWrite, TypeOK, FetchedOne, Timelines
<1>12. ASSUME Midnight
       PROVE  Inv'
  BY <1>12, DaysApart DEF Midnight, TypeOK, FetchedOne, Days
<1>13. ASSUME Change
       PROVE  Inv'
  BY <1>8, <1>13 DEF Change, TypeOK, FetchedOne, RenderingsOf
<1>14. ASSUME Note
       PROVE  Inv'
  <2>1. timeline' \in Timelines
    BY <1>0, <1>14, PutTyped DEF Note
  <2> QED
    BY <1>8, <1>14, <2>1 DEF Note, TypeOK, FetchedOne, Timelines
<1>15. CASE UNCHANGED vars
  BY <1>15 DEF vars, TypeOK, FetchedOne
<1> QED
  BY <1>1, <1>2, <1>3, <1>4, <1>5, <1>6, <1>7, <1>9, <1>10, <1>11, <1>12, <1>13, <1>14, <1>15
     DEF Next, Import

LEMMA InvHolds == Spec => []Inv
<1>1. Init => Inv
  BY InitTyped
<1>2. Inv /\ [Next]_vars => Inv'
  BY StepTyped
<1> QED
  BY <1>1, <1>2, PTL DEF Spec

\* Type correctness of imports and purges.
THEOREM TypeCorrect == Spec => []TypeOK
<1>1. Inv => TypeOK
  BY DEF Inv
<1> QED
  BY <1>1, InvHolds, PTL

-----------------------------------------------------------------------------
(* What an import leaves alone *)

LEMMA PastUntouched ==
  ASSUME Inv, Import, settings.kind # "Employee",
         NEW s \in Slots, s < today, timeline'[s] # timeline[s]
  PROVE  settings.terminates /\ desired.end <= s
<1>0. /\ desired.end \in Nat /\ today \in Nat /\ s \in Nat
      /\ timeline \in Timelines
  BY DaysApart DEF Inv, TypeOK, Renderings, Ends, Slots, Days, Forever, Timelines
<1>1. s \notin Covered
  BY <1>0 DEF Covered, From
<1>2. CASE Terminate
  <2>1. settings.terminates /\ timeline' = Terminated(timeline, desired.end)
    BY <1>2 DEF Terminate
  <2>2. s \in From(desired.end, Forever)
    BY <2>1 DEF Terminated, Put
  <2> QED
    BY <2>1, <2>2 DEF From
<1>3. CASE CreateNew
  BY <1>1, <1>3 DEF CreateNew, MakeNew, Put
<1>4. CASE EditOld
  BY <1>1, <1>4 DEF EditOld, Write, Edited
<1>5. CASE Start \/ Fetch \/ EditRefused \/ Skip \/ Fail
  BY <1>5 DEF Start, Fetch, EditRefused, Skip, Fail
<1> QED
  BY <1>2, <1>3, <1>4, <1>5 DEF Import

\* An import leaves the past alone, but for days after an end that is past too.
THEOREM LeavesThePast == Spec => PastKept
<1>1. Inv /\ [Next]_vars =>
        [Import /\ settings.kind # "Employee" =>
            \A s \in Slots : s < today /\ timeline'[s] # timeline[s] =>
                settings.terminates /\ desired.end <= s]_vars
  BY PastUntouched
<1> QED
  BY <1>1, InvHolds, PTL DEF Spec, PastKept

\* What was loaded of an attribute and is sent back is what MO had: but for one
\* that is not read, where MO clears what is null.
LEMMA RoundTrip ==
  ASSUME settings \in Settings, NEW old \in Fields \cup {Null}
  PROVE  LET loaded == Load(settings.kind, settings.attribute, old)
         IN  \/ Stored(old, Edit(settings.kind, settings.attribute, loaded), settings.nullClears) = old
             \/ settings.nullClears /\ loaded # old
<1>1. ASSUME NEW sent \in {Absent, old}
      PROVE  Stored(old, sent, settings.nullClears) = old
  BY <1>1, Apart DEF Stored
<1>2. Stored(old, Null, FALSE) = old
  BY Apart DEF Stored
<1>3. CASE settings.kind = "Employee"
  <2>1. CASE settings.attribute \in Nicknames /\ old = Null
    BY <1>3, <2>1, Apart DEF Load, LoadEmployee, If, read_employees, Edit, EditEmployee, CreateEmployee, Stored
  <2>2. CASE settings.attribute \in Nicknames /\ old # Null
    BY <1>1, <1>3, <2>2 DEF Load, LoadEmployee, If, read_employees, Edit, EditEmployee, CreateEmployee
  <2>3. CASE settings.attribute \notin Nicknames
    <3>1. /\ Load(settings.kind, settings.attribute, old) = Null
          /\ Edit(settings.kind, settings.attribute, Null) = Null
      BY <1>3, <2>3 DEF Load, LoadEmployee, If, read_employees, Edit, EditEmployee, CreateEmployee
    <3>2. CASE settings.nullClears = FALSE
      BY <1>2, <3>1, <3>2
    <3>3. CASE settings.nullClears /\ old # Null
      BY <3>1, <3>3
    <3>4. CASE old = Null
      <4>1. Stored(Null, Null, settings.nullClears) = Null
        BY Apart DEF Stored
      <4> QED
        BY <3>1, <3>4, <4>1
    <3> QED
      BY <3>2, <3>3, <3>4, Settled
  <2> QED
    BY <2>1, <2>2, <2>3
<1>4. CASE settings.kind = "Engagement"
  <2>1. settings.attribute \in Engagement
    BY <1>4, Settled DEF Attributes
  <2>2. Load(settings.kind, settings.attribute, old) = old
    BY <1>4, <2>1 DEF Load, LoadEngagement, If, read_engagements
  <2>3. Edit(settings.kind, settings.attribute, old) \in {Absent, old} \/
        (old = Null /\ Edit(settings.kind, settings.attribute, old) = Blank)
    BY <1>4, <2>1, Apart DEF Edit, EditEngagement, Engagement
  <2>4. Stored(Null, Blank, settings.nullClears) = Null
    BY Apart DEF Stored
  <2> QED
    BY <1>1, <2>2, <2>3, <2>4
<1>5. CASE settings.kind = "ITUser"
  BY <1>1, <1>2, <1>5, Settled DEF Load, LoadItUser, If, Edit, EditItUser
<1>6. CASE settings.kind \in {"Address", "OrganisationUnit", "Class"}
  <2>1. Load(settings.kind, settings.attribute, old) = old
    BY <1>6, Settled DEF Load, LoadAddress, LoadOrgUnit, LoadClass, If, Attributes,
                         read_addresses, read_org_units, read_classes
  <2>2. Edit(settings.kind, settings.attribute, old) \in {Absent, old}
    BY <1>6 DEF Edit, EditAddress, EditOrgUnit, EditClass, Named
  <2> QED
    BY <1>1, <2>1, <2>2
<1> QED
  BY <1>3, <1>4, <1>5, <1>6, Settled

LEMMA OthersUntouched ==
  ASSUME Inv, EditOld, ~settings.mapped, NEW v \in fetched, NEW s \in Span(v)
  PROVE  \/ timeline[s] # v.state
         \/ timeline'[s].field = timeline[s].field
         \/ settings.nullClears /\ Loaded(v) # v.state.field
<1> SUFFICES ASSUME timeline[s] = v.state
             PROVE  \/ timeline'[s].field = v.state.field
                    \/ settings.nullClears /\ Loaded(v) # v.state.field
  OBVIOUS
<1>1. Write(Covered, v)
  BY DEF EditOld, Inv, FetchedOne
<1>2. s \in Slots
  BY DEF Span
<1>3. CASE s \notin Covered
  BY <1>1, <1>2, <1>3 DEF Write, Edited
<1>4. CASE s \in Covered
  <2>1. timeline'[s].field =
          Stored(v.state.field, Edit(settings.kind, settings.attribute, Loaded(v)), settings.nullClears)
    BY <1>1, <1>2, <1>4, UploadedTyped DEF Write, Edited, Inv
  <2>2. v.state.field \in Fields \cup {Null} /\ settings \in Settings
    BY DEF Inv, TypeOK, Validities, States
  <2> QED
    BY <2>1, <2>2, RoundTrip DEF Loaded
<1> QED
  BY <1>3, <1>4

\* An attribute that no template gives stays on the days of the validity that was
\* fetched, which is one at most.
THEOREM LeavesOthers == Spec => OthersKept
<1>1. Inv /\ [Next]_vars =>
        [EditOld /\ ~settings.mapped =>
            \A v \in fetched : \A s \in Span(v) :
                \/ timeline[s] # v.state
                \/ timeline'[s].field = timeline[s].field
                \/ settings.nullClears /\ Loaded(v) # v.state.field]_vars
  BY OthersUntouched
<1> QED
  BY <1>1, InvHolds, PTL DEF Spec, OthersKept

-----------------------------------------------------------------------------
(* Numbers, and the validities there are *)

LEMMA LeastNumber ==
  ASSUME NEW S \in SUBSET Nat, S # {}
  PROVE  \E x \in S : \A y \in S : x <= y
<1>1. PICK n \in S : TRUE
  OBVIOUS
<1> DEFINE N == 0 .. n
           Q == {0 .. x : x \in {y \in S : y <= n}}
<1>2. Q \in SUBSET FiniteSubsetsOf(N) /\ Q # {}
  <2>1. \A x \in S : x <= n => 0 .. x \in FiniteSubsetsOf(N)
    BY FS_Interval DEF FiniteSubsetsOf
  <2> QED
    BY <1>1, <2>1
<1>3. \E T \in Q : \A U \in Q : ~(<<U, T>> \in StrictSubsetOrdering(N))
  <2>1. IsFiniteSet(N)
    BY FS_Interval
  <2> HIDE DEF N, Q
  <2> QED
    BY <1>2, <2>1, FS_StrictSubsetOrderingWellFounded, WFMin
<1>4. PICK x \in S : x <= n /\ \A y \in S : y <= n => ~(<<0 .. y, 0 .. x>> \in StrictSubsetOrdering(N))
  BY <1>3
<1>5. ASSUME NEW y \in S, y < x
      PROVE  FALSE
  <2>1. /\ y <= n /\ 0 .. y \subseteq 0 .. x /\ 0 .. x \subseteq N
        /\ x \in 0 .. x /\ x \notin 0 .. y
    BY <1>4, <1>5
  <2>2. <<0 .. y, 0 .. x>> \in StrictSubsetOrdering(N)
    BY <2>1 DEF StrictSubsetOrdering
  <2> QED
    BY <1>4, <2>1, <2>2
<1> QED
  BY <1>5

LEMMA GreatestNumber ==
  ASSUME NEW n \in Nat, NEW S \in SUBSET (0 .. n), S # {}
  PROVE  \E x \in S : \A y \in S : y <= x
<1> DEFINE Rest == {m \in Nat : n - m \in S}
<1>1. Rest \in SUBSET Nat /\ Rest # {}
  <2>1. PICK y \in S : TRUE
    OBVIOUS
  <2>2. n - y \in Nat /\ n - (n - y) = y
    OBVIOUS
  <2> QED
    BY <2>2
<1>2. PICK m \in Rest : \A k \in Rest : m <= k
  <2> HIDE DEF Rest
  <2> QED
    BY <1>1, LeastNumber
<1>3. ASSUME NEW y \in S
      PROVE  y <= n - m
  <2>1. n - y \in Nat /\ n - (n - y) = y
    OBVIOUS
  <2>2. m <= n - y
    BY <1>2, <2>1
  <2> QED
    BY <2>2
<1> QED
  BY <1>2, <1>3

\* MO answers with a validity for every day on which there is a state.
LEMMA LongestSpan ==
  ASSUME NEW t \in Timelines, NEW s \in Slots, t[s] # Gone
  PROVE  \E v \in ValiditiesOf(t) : s \in Span(v)
<1> DEFINE Before == {a \in Slots : a <= s /\ \A x \in Slots : a <= x /\ x <= s => t[x] = t[s]}
           After == {b \in Slots : s <= b /\ \A x \in Slots : s <= x /\ x <= b => t[x] = t[s]}
<1>0. LastDay \in Nat /\ Slots = 1 .. LastDay + 1 /\ Forever = LastDay + 2 /\ s \in Nat
  BY DaysApart DEF Slots, Forever
<1>1. PICK a \in Before : \A x \in Before : a <= x
  <2>1. s \in Before /\ Before \in SUBSET Nat
    BY <1>0
  <2> HIDE DEF Before
  <2> QED
    BY <2>1, LeastNumber
<1>2. PICK b \in After : \A x \in After : x <= b
  <2>1. s \in After /\ After \in SUBSET (0 .. Forever) /\ Forever \in Nat
    BY <1>0
  <2> HIDE DEF After
  <2> QED
    BY <2>1, GreatestNumber
<1>3. /\ a \in Nat /\ a >= 1 /\ a <= s
      /\ b \in Nat /\ b <= LastDay + 1 /\ s <= b
      /\ t[a] = t[s] /\ a \in Slots /\ b \in Slots
      /\ \A x \in Slots : a <= x /\ x <= b => t[x] = t[s]
  BY <1>0
<1>4. ASSUME a > 1
      PROVE  t[a - 1] # t[s]
  <2> SUFFICES ASSUME t[a - 1] = t[s]
               PROVE  a - 1 \in Before
    BY <1>1, <1>3
  <2> QED
    BY <1>0, <1>3, <1>4
<1>5. ASSUME b + 1 < Forever
      PROVE  t[b + 1] # t[s]
  <2> SUFFICES ASSUME t[b + 1] = t[s]
               PROVE  b + 1 \in After
    BY <1>2, <1>3
  <2> QED
    BY <1>0, <1>3, <1>5
<1> DEFINE v == [from |-> a, to |-> IF b = LastDay + 1 THEN Forever ELSE b + 1, state |-> t[a]]
<1>6. v.from = a /\ v.to = b + 1 /\ v.state = t[s] /\ v.to \in Nat
  BY <1>0, <1>3
<1>7. \A x \in Slots : x \in Span(v) <=> a <= x /\ x <= b
  <2> HIDE DEF v
  <2> QED
    BY <1>0, <1>3, <1>6 DEF Span
<1>8. /\ v.from < v.to /\ v.state # Gone
      /\ \A x \in Span(v) : t[x] = v.state
      /\ v.from > 1 => t[v.from - 1] # v.state
      /\ v.to < Forever => t[v.to] # v.state
  <2>1. \A x \in Span(v) : t[x] = v.state
    <3>1. Span(v) \subseteq Slots
      BY DEF Span
    <3> HIDE DEF v
    <3> QED
      BY <1>3, <1>6, <1>7, <3>1
  <2> HIDE DEF v
  <2> QED
    BY <1>3, <1>4, <1>5, <1>6, <2>1
<1>9. v \in ValiditiesOf(t)
  <2>1. v \in {[from |-> c, to |-> IF d = LastDay + 1 THEN Forever ELSE d + 1, state |-> t[c]] : c \in Slots, d \in Slots}
    BY <1>3
  <2> HIDE DEF v
  <2> QED
    BY <1>8, <2>1 DEF ValiditiesOf
<1> QED
  BY <1>3, <1>7, <1>9

\* There is always a latest one.
LEMMA LatestExists ==
  ASSUME NEW t \in Timelines, ValiditiesOf(t) # {}
  PROVE  Latest(ValiditiesOf(t)) # {}
<1> DEFINE V == ValiditiesOf(t)
           Tos == {v.to : v \in V}
<1>1. \A v \in V : v.to \in 0 .. Forever
  <2>1. \A v \in Validities : v.to \in 0 .. Forever
    BY DaysApart DEF Validities, Slots, Forever
  <2> QED
    BY <2>1, ValidityTyped
<1>2. PICK n \in Tos : \A m \in Tos : m <= n
  <2>1. Tos \in SUBSET (0 .. Forever) /\ Tos # {} /\ Forever \in Nat
    BY <1>1, DaysApart
  <2> HIDE DEF Tos
  <2> QED
    BY <2>1, GreatestNumber
<1> QED
  BY <1>2 DEF Latest

\* What is not fetched is not there, and what is there today is fetched.
LEMMA FetchedIfThere ==
  ASSUME NEW t \in Timelines, today \in Days
  PROVE  /\ Extract(ValiditiesOf(t)) = {} => \A s \in Slots : t[s] = Gone
         /\ t[today] # Gone =>
              /\ Extract(ValiditiesOf(t)) # {}
              /\ \A v \in Extract(ValiditiesOf(t)) : today \in Span(v)
<1>1. Extract(ValiditiesOf(t)) = {} => ValiditiesOf(t) = {}
  BY LatestExists DEF Extract
<1>2. ValiditiesOf(t) = {} => \A s \in Slots : t[s] = Gone
  BY LongestSpan
<1>3. ASSUME t[today] # Gone
      PROVE  \E v \in ValiditiesOf(t) : today \in Span(v)
  BY <1>3, LongestSpan, DaysApart
<1> QED
  BY <1>1, <1>2, <1>3 DEF Extract

-----------------------------------------------------------------------------
(* What an import makes of an attribute *)

\* Whether an attribute is sent does not depend on its value, and what is sent is
\* the value: but an extension that is not set is sent as null, and null as blank.
LEMMA SentAsItIs ==
  ASSUME settings \in Settings, Sent
  PROVE  /\ \A v \in Fields \cup {Null, Blank} :
              /\ Create(settings.kind, settings.attribute, v) = v
              /\ \/ Edit(settings.kind, settings.attribute, v) = v
                 \/ v = Null /\ Edit(settings.kind, settings.attribute, v) = Blank
         /\ settings.attribute = "extension_1" =>
              Edit(settings.kind, settings.attribute, Null) = Blank
<1>1. CASE settings.kind = "Engagement"
  <2>1. settings.attribute \in {"primary", "extension_1"}
    BY <1>1, Settled DEF Attributes, Engagement, Sent, Create, CreateEngagement, Named
  <2> QED
    BY <1>1, <2>1, Apart DEF Edit, EditEngagement, Create, CreateEngagement, Named
<1>2. CASE settings.kind = "Address"
  <2>1. settings.attribute \notin {"org_unit", "value2", "extension_1"}
    BY <1>2, Settled DEF Attributes, Address, Sent, Create, CreateAddress, Named
  <2> QED
    BY <1>2, <2>1 DEF Edit, EditAddress, Create, CreateAddress, Named
<1>3. CASE settings.kind \in {"Employee", "OrganisationUnit", "ITUser", "Class"}
  <2>1. settings.attribute # "extension_1"
    BY <1>3, Settled DEF Attributes, Employee, OrganisationUnit, ITUser, Class
  <2> QED
    BY <1>3, <2>1 DEF Edit, EditEmployee, CreateEmployee, EditOrgUnit, EditItUser, EditClass,
                 Create, CreateOrgUnit, CreateItUser, CreateClass
<1> QED
  BY <1>1, <1>2, <1>3, Settled

LEMMA LoadIs ==
  ASSUME settings \in Settings, NEW v \in Fields \cup {Null}
  PROVE  /\ Load(settings.kind, settings.attribute, v) \in {v, Null, Blank}
         /\ Default(settings.attribute) # UNSET =>
              Load(settings.kind, settings.attribute, Null) = Default(settings.attribute)
         /\ Default(settings.attribute) = Blank =>
              Load(settings.kind, settings.attribute, v) # Null
<1>1. settings.kind = "Employee" <=> settings.attribute \in Employee
  BY Settled DEF Attributes, Address, Employee, OrganisationUnit, Engagement, ITUser, Class
<1>2. CASE settings.kind = "Employee"
  BY <1>1, <1>2, Apart DEF Load, LoadEmployee, If, read_employees, Employee, Default, Nicknames
<1>3. CASE settings.kind # "Employee"
  <2>1. settings.attribute \notin Nicknames
    BY <1>1, <1>3 DEF Employee, Nicknames
  <2>2. Default(settings.attribute) \in {Null, UNSET}
    BY <2>1 DEF Default
  <2>3. \A u \in {v, Null} : Load(settings.kind, settings.attribute, u) \in {u, Null}
    BY <1>3, Settled DEF Load, LoadAddress, LoadOrgUnit, LoadEngagement, LoadItUser, LoadClass, If
  <2> QED
    BY <2>2, <2>3, Apart
<1> QED
  BY <1>2, <1>3

LEMMA RenderedTyped ==
  ASSUME TypeOK, ldap \in RenderingsOf(settings)
  PROVE  /\ ldap \in Renderings /\ ldap.field \in Fields \cup {Null}
         /\ ldap.end \in 2 .. Forever /\ today \in Nat /\ today >= 1
         /\ settings.kind = "Employee" => ldap.end = Forever /\ ~settings.terminates
         /\ ~settings.mapped => ldap.field = Null
  BY DaysApart, HistoryAssumption DEF TypeOK, RenderingsOf, Renderings, Ends, Slots, Days, Forever

\* What an edit makes of an attribute does not depend on what MO had, unless that
\* stays; and if a template gives the attribute, it is what LDAP has.
LEMMA EditMakes ==
  ASSUME TypeOK, ldap \in RenderingsOf(settings), desired = ldap, ~Lingers, NEW v \in fetched
  PROVE  \E r \in Fields \cup {Null} :
           /\ \A old : Stored(old, Edit(settings.kind, settings.attribute, Uploaded(v)),
                              settings.nullClears) = r
           /\ settings.mapped /\ Converted # UNSET => r = ldap.field
<1> DEFINE u == Uploaded(v)
           sent == Edit(settings.kind, settings.attribute, u)
<1>1. /\ u \in Fields \cup {Null, Blank} /\ settings \in Settings /\ Sent
      /\ v.state.field \in Fields \cup {Null}
  BY UploadedTyped DEF TypeOK, Lingers, Validities, States
<1>2. sent = u \/ (u = Null /\ sent = Blank)
  BY <1>1, SentAsItIs
<1>3. settings.mapped /\ Converted # UNSET =>
        u = IF ldap.field # Null THEN ldap.field ELSE Default(settings.attribute)
  BY DEF Uploaded, Converted
<1>4. Default(settings.attribute) \in {Null, Blank, UNSET}
  BY <1>1, OnlyExtensions
<1>5. ldap.field \in Fields \cup {Null}
  BY RenderedTyped
<1>6. CASE u \in Fields
  <2>1. sent = u
    BY <1>2, <1>6, Apart
  <2>2. \A old : Stored(old, sent, settings.nullClears) = u
    BY <1>6, <2>1, Apart DEF Stored
  <2>3. settings.mapped /\ Converted # UNSET => u = ldap.field
    BY <1>3, <1>4, <1>6, Apart
  <2> QED
    BY <1>6, <2>2, <2>3
<1>7. CASE u \notin Fields
  <2>1. sent \in {Null, Blank}
    BY <1>1, <1>2, <1>7
  <2>2. settings.mapped /\ Converted # UNSET => Null = ldap.field
    BY <1>3, <1>5, <1>7
  <2>3. sent = Null => settings.nullClears
    <3> SUFFICES ASSUME sent = Null, ~settings.nullClears
                 PROVE  FALSE
      OBVIOUS
    <3>1. u = Null
      BY <1>2, Apart
    <3>2. settings.attribute # "extension_1"
      BY <1>1, <3>1, SentAsItIs, Apart
    <3>3. Default(settings.attribute) # UNSET
      BY <1>1, <3>2, OnlyExtensions
    <3>4. ldap.field = Null
      <4>1. CASE settings.mapped /\ Converted # UNSET
        BY <2>2, <4>1
      <4>2. CASE settings.mapped /\ Converted = UNSET
        BY <3>3, <4>2, <1>5, Apart DEF Converted
      <4>3. CASE ~settings.mapped
        BY <4>3, RenderedTyped
      <4> QED
        BY <4>1, <4>2, <4>3
    <3>5. Default(settings.attribute) # Null
      BY <3>4 DEF Lingers
    <3>6. Default(settings.attribute) = Blank
      BY <1>4, <3>3, <3>5
    <3>7. CASE settings.mapped
      BY <3>1, <3>3, <3>4, <3>6, <3>7, <1>3, Apart DEF Converted
    <3>8. CASE ~settings.mapped
      BY <1>1, <3>1, <3>6, <3>8, LoadIs, UploadedTyped DEF Loaded
    <3> QED
      BY <3>7, <3>8
  <2>4. \A old : Stored(old, sent, settings.nullClears) = Null
    <3>1. CASE sent = Blank
      BY <3>1, Apart DEF Stored
    <3>2. CASE sent = Null
      BY <2>3, <3>2, Apart DEF Stored
    <3> QED
      BY <2>1, <3>1, <3>2
  <2> QED
    BY <2>2, <2>4
<1> QED
  BY <1>6, <1>7

\* So it is with an object that is created.
LEMMA CreateMakes ==
  ASSUME TypeOK, ldap \in RenderingsOf(settings), desired = ldap, ~Lingers,
         settings.mapped, Converted # UNSET
  PROVE  Stored(Null, Create(settings.kind, settings.attribute, Converted), settings.nullClears)
           = ldap.field
<1>1. settings \in Settings /\ Sent /\ ldap.field \in Fields \cup {Null}
  BY RenderedTyped DEF TypeOK, Lingers
<1>2. Default(settings.attribute) \in {Null, Blank, UNSET}
  BY <1>1, OnlyExtensions
<1>3. Converted = IF ldap.field # Null THEN ldap.field ELSE Default(settings.attribute)
  BY DEF Converted
<1>4. Create(settings.kind, settings.attribute, Converted) = Converted
  BY <1>1, <1>2, <1>3, SentAsItIs
<1> HIDE DEF Converted
<1>5. CASE ldap.field # Null
  BY <1>1, <1>3, <1>4, <1>5, Apart DEF Stored
<1>6. CASE ldap.field = Null
  BY <1>2, <1>3, <1>4, <1>6, Apart DEF Stored
<1> QED
  BY <1>5, <1>6

\* MO then has what an import would not change.
LEMMA MadeAgrees ==
  ASSUME TypeOK, ldap \in RenderingsOf(settings), desired = ldap, NEW f,
         ldap.field = Null \/ ReadBack,
         settings.mapped /\ Converted # UNSET => f = ldap.field
  PROVE  Agrees(f)
<1> SUFFICES ASSUME settings.mapped, Converted # UNSET
             PROVE  Load(settings.kind, settings.attribute, ldap.field) = Converted
  BY DEF Agrees
<1>1. CASE ldap.field # Null
  BY <1>1 DEF ReadBack, Converted
<1>2. CASE ldap.field = Null
  BY <1>2, LoadIs DEF Converted, TypeOK
<1> QED
  BY <1>1, <1>2

\* Of what compares equal MO has what LDAP has, unless it is not read.
LEMMA EqualMatches ==
  ASSUME TypeOK, ldap \in RenderingsOf(settings), desired = ldap, ~KeepsField,
         NEW f \in Fields \cup {Null}, Agrees(f)
  PROVE  f = ldap.field \/ (ldap.field = Null /\ Unseen(f))
<1>1. /\ settings.mapped /\ settings \in Settings
      /\ ldap.field = Null => Default(settings.attribute) # UNSET
      /\ ldap.field \in Fields \cup {Null}
  BY RenderedTyped DEF KeepsField, TypeOK
<1>2. Converted # UNSET
  BY <1>1, Apart DEF Converted
<1>3. Load(settings.kind, settings.attribute, f) = Converted
  BY <1>1, <1>2 DEF Agrees
<1>4. CASE ldap.field # Null
  <2>1. Load(settings.kind, settings.attribute, f) = ldap.field
    BY <1>1, <1>3, <1>4 DEF Converted
  <2>2. Load(settings.kind, settings.attribute, f) \in {f, Null, Blank}
    BY <1>1, LoadIs
  <2> QED
    BY <1>1, <1>4, <2>1, <2>2, Apart
<1>5. CASE ldap.field = Null
  <2>1. Load(settings.kind, settings.attribute, f) = Default(settings.attribute)
    BY <1>3, <1>5 DEF Converted
  <2>2. Load(settings.kind, settings.attribute, Null) = Default(settings.attribute)
    BY <1>1, <1>5, LoadIs
  <2> QED
    BY <1>5, <2>1, <2>2 DEF Unseen
<1> QED
  BY <1>4, <1>5

-----------------------------------------------------------------------------
(* What an import leaves behind *)

\* What neither the clock nor MO's answers nor LDAP touch.
LEMMA Unaffected ==
  ASSUME settings' = settings, ldap' = ldap, desired' = desired
  PROVE  (Comparable' <=> Comparable) /\ (KeepsField' <=> KeepsField) /\ Converted' = Converted
  BY DEF Comparable, Lingers, Sent, ReadBack, KeepsField, Converted

LEMMA Undisturbed ==
  ASSUME settings' = settings, ldap' = ldap, desired' = desired, today' = today, timeline' = timeline
  PROVE  /\ (Steady' <=> Steady) /\ (Unfit' <=> Unfit) /\ (SingleDay' <=> SingleDay)
  BY DEF Steady, Agrees, Converted, Unfit, SingleDay

LEMMA LeftAlone ==
  ASSUME settings' = settings, ldap' = ldap, desired' = desired, today' = today, timeline' = timeline,
         pc' = pc, outcome' = outcome, later' = later, repeated' = repeated, fetched' = fetched
  PROVE  (Known' <=> Known)
<1>1. \A s : (Matches(s)' <=> Matches(s))
  BY DEF Matches, KeepsField, Lingers, Sent, Unseen
<1>2. (Finished' <=> Finished)
  BY <1>1, Unaffected, Undisturbed DEF Finished
<1>3. (FetchedIs' <=> FetchedIs) /\ (NothingNew' <=> NothingNew)
  BY DEF FetchedIs, Ended, NothingNew, Span, Changed, Ending, Uploaded, Loaded, Converted
<1> QED
  BY <1>2, <1>3, Unaffected, Undisturbed DEF Known

LEMMA InputsStay ==
  ASSUME Inv, IndInv, [Next]_vars
  PROVE  /\ ldap' \in RenderingsOf(settings')
         /\ \A v \in purge' : v.from <= today'
<1>0. /\ \A v \in purge : v.from \in Nat
      /\ today \in Nat
  BY DaysApart DEF Inv, TypeOK, Validities, Slots, Days
<1>1. CASE Change
  BY <1>1 DEF Change, IndInv
<1>2. CASE PurgeRead
  BY <1>2 DEF PurgeRead, IndInv
<1>3. CASE PurgeWrite
  BY <1>3 DEF PurgeWrite, IndInv
<1>4. CASE Midnight
  BY <1>0, <1>4 DEF Midnight, IndInv
<1>5. CASE Start \/ Fetch \/ CreateNew \/ Terminate \/ EditOld \/ EditRefused \/ Skip \/ Fail \/ Note \/ UNCHANGED vars
  BY <1>5 DEF Start, Fetch, CreateNew, Terminate, EditOld, EditRefused, Skip, Fail, Note, vars, IndInv
<1> QED
  BY <1>1, <1>2, <1>3, <1>4, <1>5 DEF Next, Import

\* The first step of an import.
LEMMA StartKnown ==
  ASSUME Inv, IndInv, Start
  PROVE  Known'
<1>1. /\ settings' = settings /\ today' = today /\ timeline' = timeline
      /\ desired' = ldap /\ ldap' = ldap /\ pc' = "fetch" /\ repeated' = (synced /\ ~later)
  BY DEF Start
<1>2. ASSUME repeated', Comparable', ~Unfit'
      PROVE  Steady'
  <2>1. synced /\ ~later /\ pc = "idle"
    BY <1>1, <1>2 DEF Start
  <2>2. Known /\ desired' = desired
    BY <1>1, <2>1 DEF IndInv, Known
  <2>3. Comparable /\ ~Unfit
    BY <1>1, <1>2, <2>2, Unaffected, Undisturbed
  <2>4. Steady
    BY <2>1, <2>2, <2>3 DEF Known, Finished
  <2> QED
    BY <1>1, <2>2, <2>4, Undisturbed
<1> QED
  BY <1>1, <1>2 DEF Known

\* What is fetched is there; and if it is not new, nothing is to be written.
LEMMA FetchKnown ==
  ASSUME Inv, IndInv, Fetch, synced
  PROVE  Known'
<1>1. /\ settings' = settings /\ today' = today /\ timeline' = timeline
      /\ ldap' = ldap /\ desired' = desired /\ repeated' = repeated
      /\ pc = "fetch" /\ pc' = "terminate"
      /\ fetched' = Extract(ValiditiesOf(timeline))
  BY DEF Fetch
<1>2. timeline \in Timelines /\ today \in Days /\ Known /\ desired = ldap
  BY DEF Inv, TypeOK, Timelines, IndInv, Known
<1>3. \A v \in fetched' : v \in ValiditiesOf(timeline)
  BY <1>1, <1>2, ExtractsOne
<1>4. FetchedIs'
  <2>1. \A v \in fetched' : \A s \in Span(v) : timeline[s] = v.state
    BY <1>2, <1>3, ValidityTyped DEF Span
  <2>2. fetched' = {} => \A s \in Slots : timeline[s] = Gone
    BY <1>1, <1>2, FetchedIfThere
  <2> QED
    BY <1>1, <2>1, <2>2 DEF FetchedIs, Span
<1>5. ASSUME repeated', Comparable', ~Unfit'
      PROVE  Steady' /\ NothingNew'
  <2>1. Steady /\ ~Unfit
    BY <1>1, <1>2, <1>5, Unaffected, Undisturbed DEF Known
  <2>2. /\ ldap.end \in 2 .. Forever /\ today \in Slots /\ today \in Nat /\ LastDay \in Nat
        /\ Slots = 1 .. LastDay + 1 /\ Forever = LastDay + 2
    BY <1>2, RenderedTyped, DaysApart DEF Inv, IndInv, Slots, Forever
  <2>3. today < ldap.end /\ ldap.value # Null
    BY <1>2, <2>1, <2>2, DaysApart DEF Unfit, SingleDay
  <2>4. timeline[today].value = ldap.value /\ Agrees(timeline[today].field)
    BY <2>1, <2>2, <2>3 DEF Steady
  <2>5. timeline[today] # Gone
    BY <2>3, <2>4 DEF Gone
  <2>6. fetched' # {} /\ \A v \in fetched' : today \in Span(v)
    BY <1>1, <1>2, <2>5, FetchedIfThere
  <2>7. ASSUME NEW v \in fetched'
        PROVE  ~Changed(v) /\ ~Ending(v)
    <3>1. /\ v \in Validities /\ v.state = timeline[today]
          /\ \A s \in Slots : s \in Span(v) => timeline[s] = v.state
          /\ v.to < Forever => timeline[v.to] # v.state
      BY <1>2, <1>3, <2>2, <2>6, ValidityTyped
    <3>2. v.from \in Nat /\ v.from <= today /\ today < v.to /\ v.to \in 1 .. Forever
      BY <2>2, <2>6, <3>1 DEF Span, Validities
    <3>3. ~Changed(v)
      BY <1>2, <2>4, <3>1 DEF Changed, Uploaded, Loaded, Agrees
    <3>4. ~(v.to < ldap.end)
      <4> SUFFICES ASSUME v.to < ldap.end
                   PROVE  FALSE
        OBVIOUS
      <4>1. v.to \in Slots /\ today <= v.to /\ v.to < Forever
        BY <2>2, <3>2
      <4> QED
        BY <2>1, <3>1, <4>1 DEF Steady
    <3>5. ~(ldap.end < v.to)
      <4> SUFFICES ASSUME ldap.end < v.to
                   PROVE  FALSE
        OBVIOUS
      <4>1. ldap.end \in Slots /\ today <= ldap.end /\ ldap.end \in Span(v)
        BY <2>2, <2>3, <3>2 DEF Span
      <4>2. timeline[ldap.end] = v.state
        BY <3>1, <4>1
      <4>3. timeline[ldap.end] = Gone
        BY <2>1, <2>2, <4>1 DEF Steady
      <4> QED
        BY <2>5, <3>1, <4>2, <4>3
    <3>6. ldap.end = v.to
      BY <2>2, <3>2, <3>4, <3>5
    <3> QED
      BY <1>2, <3>3, <3>6 DEF Ending
  <2> QED
    <3>1. Steady'
      BY <1>1, <2>1, Undisturbed
    <3>2. NothingNew'
      BY <1>1, <2>6, <2>7 DEF NothingNew, Changed, Ending, Uploaded, Loaded, Converted
    <3> QED
      BY <3>1, <3>2
<1> QED
  BY <1>1, <1>2, <1>4, <1>5 DEF Known

LEMMA TerminateKnown ==
  ASSUME Inv, IndInv, Terminate, synced
  PROVE  Known'
<1>1. /\ settings' = settings /\ today' = today /\ ldap' = ldap /\ desired' = desired
      /\ fetched' = fetched /\ repeated' = repeated
      /\ pc = "terminate" /\ pc' = "write" /\ fetched # {}
  BY DEF Terminate
<1>2. Known /\ desired = ldap /\ timeline \in Timelines /\ FetchedIs
  BY <1>1 DEF IndInv, Known, Inv, TypeOK, Timelines
<1>3. ldap.end \in 2 .. Forever /\ Forever \in Nat /\ \A s \in Slots : s \in Nat /\ s < Forever
  BY RenderedTyped, DaysApart DEF Inv, IndInv, Slots, Forever
<1>4. ASSUME NEW s \in Slots
      PROVE  timeline'[s] = IF Ended(s) THEN Gone ELSE timeline[s]
  BY <1>2, <1>3 DEF Terminate, Terminated, Put, From, Ended
<1>5. FetchedIs'
  <2>1. \A v \in fetched : \A s \in Span(v) : s \in Slots /\ timeline[s] = v.state
    BY <1>1, <1>2 DEF FetchedIs, Span
  <2> QED
    BY <1>1, <1>4, <2>1 DEF FetchedIs, Ended, Span
<1>6. ASSUME repeated', Comparable', ~Unfit'
      PROVE  Steady' /\ NothingNew'
  <2>1. Steady /\ NothingNew /\ ~Unfit
    BY <1>1, <1>2, <1>6, Unaffected DEF Known, Unfit, SingleDay
  <2>2. today \in Slots /\ today \in Nat /\ today < ldap.end
    BY <1>2, <1>3, <2>1, DaysApart DEF Inv, TypeOK, Unfit, SingleDay
  <2>3. ASSUME NEW s \in Slots, s < ldap.end
        PROVE  timeline'[s] = timeline[s]
    BY <1>2, <1>3, <1>4, <2>3 DEF Ended
  <2>4. ASSUME NEW s \in Slots, today <= s, ~(s < ldap.end)
        PROVE  timeline'[s] = Gone
    BY <1>4, <2>1, <2>4 DEF Steady
  <2>5. Steady'
    BY <1>1, <2>1, <2>2, <2>3, <2>4 DEF Steady, Agrees, Converted
  <2>6. NothingNew'
    BY <1>1, <2>1 DEF NothingNew, Changed, Ending, Uploaded, Loaded, Converted
  <2> QED
    BY <2>5, <2>6
<1> QED
  BY <1>1, <1>2, <1>5, <1>6 DEF Known

\* An import that ends leaves one state on the days from today on that it writes.
LEMMA WrittenIsSteady ==
  ASSUME Inv, IndInv, desired = ldap, timeline' \in Timelines, NEW r,
         settings' = settings, today' = today, ldap' = ldap, desired' = desired,
         outcome' \in {"created", "edited"},
         \A s \in Slots : today <= s /\ s < ldap.end => timeline'[s].value = ldap.value,
         ~Lingers =>
           /\ settings.mapped /\ Converted # UNSET => r = ldap.field
           /\ \A s \in Slots : today <= s /\ s < ldap.end => timeline'[s].field = r,
         \A s \in Slots : today <= s /\ ~(s < ldap.end) /\ settings.terminates => timeline'[s] = Gone
  PROVE  /\ \A s \in Slots : today' <= s => Matches(s)'
         /\ Comparable' => Steady'
<1>1. /\ ldap.end \in 2 .. Forever /\ Forever \in Nat /\ today \in Nat /\ today \in Slots
      /\ ldap.field \in Fields \cup {Null} /\ settings \in Settings
      /\ \A s \in Slots : s \in Nat /\ s < Forever
  BY RenderedTyped, DaysApart DEF Inv, TypeOK, IndInv, Slots, Forever
<1>2. ASSUME NEW s \in Slots, today <= s, s < ldap.end, ~KeepsField
      PROVE  timeline'[s].field = ldap.field
  <2>1. ~Lingers /\ settings.mapped
    BY <1>2 DEF KeepsField
  <2>2. Converted # UNSET
    BY <1>1, <1>2, Apart DEF KeepsField, Converted
  <2> QED
    BY <1>2, <2>1, <2>2
<1>3. ASSUME NEW s \in Slots, today' <= s
      PROVE  Matches(s)'
  BY <1>2, <1>3 DEF Matches, KeepsField, Lingers, Sent, Unseen
<1>4. ASSUME Comparable'
      PROVE  Steady'
  <2>1. Comparable
    BY <1>4, Unaffected
  <2>2. Agrees(r)
    BY <2>1, MadeAgrees DEF Comparable, Inv, IndInv
  <2>3. ASSUME NEW s \in Slots, today <= s, s < ldap.end
        PROVE  /\ timeline'[s] = timeline'[today] /\ timeline'[s].value = ldap.value
               /\ timeline'[s].field = r
    <3>1. today < ldap.end /\ today <= today
      <4>1. s \in Nat /\ ldap.end \in Nat /\ today \in Nat
        BY <1>1
      <4> QED
        BY <2>3, <4>1
    <3>2. /\ timeline'[s].field = r /\ timeline'[today].field = r
          /\ timeline'[s].value = ldap.value /\ timeline'[today].value = ldap.value
      BY <1>1, <2>1, <2>3, <3>1 DEF Comparable
    <3>3. \A x, y \in States \cup {Gone} : x.value = y.value /\ x.field = y.field => x = y
      BY DEF States, Gone
    <3> QED
      BY <1>1, <3>2, <3>3 DEF Timelines
  <2>4. ASSUME NEW s \in Slots, today <= s, ~(s < ldap.end)
        PROVE  timeline'[s] = Gone
    BY <1>1, <2>1, <2>4 DEF Comparable
  <2> QED
    BY <2>2, <2>3, <2>4 DEF Steady, Agrees, Converted
<1> QED
  BY <1>3, <1>4

LEMMA CreateKnown ==
  ASSUME Inv, Inv', IndInv, CreateNew, synced, synced'
  PROVE  Known'
<1>1. /\ settings' = settings /\ today' = today /\ ldap' = ldap /\ desired' = desired
      /\ repeated' = repeated
      /\ pc = "terminate" /\ pc' = "idle" /\ fetched = {}
  BY DEF CreateNew, Reject, End
<1>2. Known /\ desired = ldap /\ FetchedIs /\ settings \in Settings /\ timeline' \in Timelines
  BY <1>1 DEF IndInv, Known, Inv, TypeOK, Timelines
<1>3. /\ \A s \in Slots : timeline[s] = Gone
      /\ ~(repeated /\ Comparable /\ ~Unfit)
  BY <1>1, <1>2 DEF FetchedIs, Known, NothingNew
<1>4. CASE Unfit
  <2>1. /\ timeline' = timeline
        /\ \/ SingleDay /\ outcome' = "single day"
           \/ desired.value = Null /\ outcome' = "empty"
    BY <1>4 DEF CreateNew, Reject, End
  <2>2. \A s \in Slots : Matches(s)'
    BY <1>1, <1>3, <2>1 DEF Matches
  <2>3. Unfit' /\ (SingleDay' <=> SingleDay)
    BY <1>1, <1>4 DEF Unfit, SingleDay
  <2> QED
    BY <1>1, <1>2, <2>1, <2>2, <2>3 DEF Known, Finished
<1>5. CASE ~Unfit
  <2>1. outcome' = "created" /\ MakeNew
    BY <1>5, synced' DEF CreateNew, End
  <2> DEFINE r == Stored(Null, Create(settings.kind, settings.attribute, Converted), settings.nullClears)
  <2>2. timeline' = Put(timeline, Covered, [value |-> ldap.value, field |-> r])
    BY <1>2, <2>1 DEF MakeNew
  <2>3. \A s \in Slots : today <= s => (s \in Covered <=> s < ldap.end)
    BY <1>2, RenderedTyped, DaysApart DEF Covered, From, Inv, IndInv, Slots, Forever
  <2>4. \A s \in Slots : today <= s /\ s < ldap.end => timeline'[s] = [value |-> ldap.value, field |-> r]
    BY <2>2, <2>3 DEF Put
  <2>5. \A s \in Slots : today <= s /\ ~(s < ldap.end) => timeline'[s] = Gone
    BY <1>3, <2>2, <2>3 DEF Put
  <2>6. ~Lingers /\ settings.mapped /\ Converted # UNSET => r = ldap.field
    BY <1>2, CreateMakes DEF Inv, IndInv
  <2> HIDE DEF r
  <2>7. /\ \A s \in Slots : today' <= s => Matches(s)'
        /\ Comparable' => Steady'
    BY <1>1, <1>2, <2>1, <2>4, <2>5, <2>6, WrittenIsSteady
  <2>8. ~(repeated' /\ Comparable')
    BY <1>1, <1>3, <1>5, Unaffected
  <2> QED
    BY <1>1, <1>2, <2>1, <2>7, <2>8 DEF Known, Finished
<1> QED
  BY <1>4, <1>5

LEMMA EditKnown ==
  ASSUME Inv, Inv', IndInv, EditOld, synced
  PROVE  Known'
<1>1. /\ settings' = settings /\ today' = today /\ ldap' = ldap /\ desired' = desired
      /\ repeated' = repeated /\ outcome' = "edited"
      /\ pc = "write" /\ pc' = "idle" /\ ~Unfit
  BY DEF EditOld, End
<1>2. /\ Known /\ desired = ldap /\ FetchedIs /\ settings \in Settings
      /\ timeline \in Timelines /\ timeline' \in Timelines
  BY <1>1 DEF IndInv, Known, Inv, TypeOK, Timelines
<1>3. PICK v \in fetched : Write(Covered, v) /\ (Changed(v) \/ Ending(v))
  BY DEF EditOld
<1>4. ~(repeated /\ Comparable)
  BY <1>1, <1>2, <1>3 DEF Known, NothingNew
<1> DEFINE sent == Edit(settings.kind, settings.attribute, Uploaded(v))
<1>5. timeline' = Edited(timeline, Covered, ldap.value, sent)
  BY <1>2, <1>3 DEF Write
<1>6. \A s \in Slots : today <= s => (s \in Covered <=> s < ldap.end)
  BY <1>2, RenderedTyped, DaysApart DEF Covered, From, Inv, IndInv, Slots, Forever
<1>7. ASSUME NEW s \in Slots, today <= s, s < ldap.end
      PROVE  /\ timeline'[s].value = ldap.value
             /\ timeline'[s].field = Stored(timeline[s].field, sent, settings.nullClears)
  BY <1>5, <1>6, <1>7 DEF Edited
<1>8. ASSUME NEW s \in Slots, today <= s, ~(s < ldap.end), settings.terminates
      PROVE  timeline'[s] = Gone
  <2>1. ldap.end <= s
    BY <1>2, <1>8, RenderedTyped, DaysApart DEF Inv, IndInv, Slots, Forever
  <2>2. timeline[s] = Gone
    BY <1>1, <1>2, <1>8, <2>1 DEF FetchedIs, Ended
  <2> QED
    BY <1>5, <1>6, <1>8, <2>2 DEF Edited
<1>9. PICK r : ~Lingers =>
        /\ \A old : Stored(old, sent, settings.nullClears) = r
        /\ settings.mapped /\ Converted # UNSET => r = ldap.field
  <2>1. CASE Lingers
    BY <2>1
  <2>2. CASE ~Lingers
    BY <1>2, <2>2, EditMakes DEF Inv, IndInv
  <2> QED
    BY <2>1, <2>2
<1> HIDE DEF sent
<1>10. /\ \A s \in Slots : today' <= s => Matches(s)'
       /\ Comparable' => Steady'
  <2>1. \A s \in Slots : today <= s /\ s < ldap.end => timeline'[s].value = ldap.value
    BY <1>7
  <2>2. ~Lingers =>
          /\ settings.mapped /\ Converted # UNSET => r = ldap.field
          /\ \A s \in Slots : today <= s /\ s < ldap.end => timeline'[s].field = r
    BY <1>7, <1>9
  <2> QED
    BY <1>1, <1>2, <1>8, <2>1, <2>2, WrittenIsSteady
<1>11. ~(repeated' /\ Comparable')
  BY <1>1, <1>4, Unaffected
<1> QED
  BY <1>1, <1>2, <1>10, <1>11 DEF Known, Finished

LEMMA SkipKnown ==
  ASSUME Inv, IndInv, Skip, synced
  PROVE  Known'
<1>1. /\ settings' = settings /\ today' = today /\ ldap' = ldap /\ desired' = desired
      /\ repeated' = repeated /\ timeline' = timeline
      /\ pc = "write" /\ pc' = "idle"
  BY DEF Skip, Reject, End
<1>2. /\ Known /\ desired = ldap /\ FetchedIs /\ settings \in Settings
      /\ timeline \in Timelines
  BY <1>1 DEF IndInv, Known, Inv, TypeOK, Timelines
<1>3. /\ ldap.end \in 2 .. Forever /\ Forever \in Nat /\ today \in Nat /\ today \in Slots
      /\ ldap.field \in Fields \cup {Null}
      /\ settings.kind = "Employee" => ldap.end = Forever
      /\ \A s \in Slots : s \in Nat /\ s < Forever
  BY <1>2, RenderedTyped, DaysApart DEF Inv, TypeOK, IndInv, Slots, Forever
<1>4. ASSUME NEW s \in Slots, ~(s < ldap.end), settings.terminates
      PROVE  timeline[s] = Gone
  <2>1. ldap.end <= s
    <3>1. s \in Nat /\ ldap.end \in Nat
      BY <1>3
    <3> QED
      BY <1>4, <3>1
  <2> QED
    BY <1>1, <1>2, <1>4, <2>1 DEF FetchedIs, Ended
<1>5. CASE Unfit
  <2>1. \/ SingleDay /\ outcome' = "single day"
        \/ desired.value = Null /\ outcome' = "empty"
    BY <1>5 DEF Skip, Reject, End
  <2>2. \A s \in Slots : Matches(s)'
    BY <1>1, <1>4, <2>1 DEF Matches
  <2>3. Unfit' /\ (SingleDay' <=> SingleDay)
    BY <1>1, <1>5 DEF Unfit, SingleDay
  <2> QED
    BY <1>1, <1>2, <2>1, <2>2, <2>3 DEF Known, Finished
<1>6. CASE ~Unfit
  <2>1. PICK v \in fetched : /\ ~Changed(v) /\ ~Ending(v) /\ later' = LeftForLater(v)
                             /\ outcome' \in {"identical", "skipped"}
    BY <1>6 DEF Skip, End
  <2>2. CASE later'
    BY <1>1, <1>2, <2>1, <2>2 DEF Known, Finished
  <2>3. CASE ~later'
    <3>1. v \in Validities /\ v.from <= today /\ v.to = ldap.end
      <4>1. v \in Validities /\ v.from \in Nat
        BY <1>3 DEF Inv, TypeOK, Validities
      <4>2. ~LeftForLater(v)
        BY <2>1, <2>3
      <4>3. v.from <= today
        BY <1>3, <4>1, <4>2 DEF LeftForLater
      <4>4. v.to = ldap.end
        BY <1>2, <1>3, <2>1, <4>2 DEF LeftForLater, Ending
      <4> QED
        BY <4>1, <4>3, <4>4
    <3>2. ASSUME NEW s \in Slots, today <= s, s < ldap.end
          PROVE  timeline[s] = v.state
      <4>1. s \in Span(v)
        <5>1. s \in Nat /\ v.from \in Nat
          BY <1>3, <3>1 DEF Validities
        <5> QED
          BY <1>3, <3>1, <3>2, <5>1 DEF Span
      <4>2. ~Ended(s)
        BY <1>2, <1>3, <3>2 DEF Ended
      <4> QED
        BY <1>2, <4>1, <4>2 DEF FetchedIs
    <3>3. /\ v.state.value = ldap.value /\ v.state.field \in Fields \cup {Null}
          /\ Agrees(v.state.field)
      BY <1>2, <2>1, <3>1 DEF Changed, Uploaded, Loaded, Agrees, Validities, States
    <3>4. \/ KeepsField \/ v.state.field = ldap.field
          \/ ldap.field = Null /\ Unseen(v.state.field)
      BY <1>2, <3>3, EqualMatches DEF Inv, IndInv
    <3>5. ASSUME NEW s \in Slots, today' <= s
          PROVE  Matches(s)'
      <4>1. CASE s < ldap.end
        BY <1>1, <3>2, <3>3, <3>4, <3>5, <4>1 DEF Matches, KeepsField, Lingers, Sent, Unseen
      <4>2. CASE ~(s < ldap.end)
        BY <1>1, <1>4, <4>2 DEF Matches
      <4> QED
        BY <4>1, <4>2
    <3>6. ASSUME Comparable'
          PROVE  Steady'
      <4>1. Comparable
        BY <1>1, <3>6, Unaffected
      <4>2. ASSUME NEW s \in Slots, today <= s, ~(s < ldap.end)
            PROVE  timeline[s] = Gone
        BY <1>3, <1>4, <4>1, <4>2 DEF Comparable
      <4>3. ASSUME NEW s \in Slots, today <= s, s < ldap.end
            PROVE  timeline[today] = v.state
        <5>1. s \in Nat /\ ldap.end \in Nat
          BY <1>3
        <5>2. today < ldap.end
          BY <1>3, <4>3, <5>1
        <5> QED
          BY <1>3, <3>2, <5>2
      <4>4. Steady
        BY <3>2, <3>3, <4>2, <4>3 DEF Steady
      <4> QED
        BY <1>1, <4>4, Undisturbed
    <3> QED
      BY <1>1, <1>2, <2>1, <3>5, <3>6 DEF Known, Finished
  <2> QED
    BY <2>2, <2>3
<1> QED
  BY <1>5, <1>6

\* What a purge writes is what MO had, from today on, if nothing has come between.
LEMMA PurgeKeeps ==
  ASSUME Inv, IndInv, PurgeWrite, purge = ValiditiesOf(timeline), NEW s \in Slots, today <= s
  PROVE  timeline'[s] = timeline[s]
<1>1. PICK v \in purge :
        timeline' = Edited(timeline, From(Min({w.from : w \in purge}), v.to), v.state.value,
                           Named(settings.attribute # "value2", v.state.field))
  BY DEF PurgeWrite, MostRecent, Latest
<1> DEFINE days == From(Min({w.from : w \in purge}), v.to)
<1>2. timeline \in Timelines /\ s \in Nat /\ today \in Nat
  BY DaysApart DEF Inv, TypeOK, Timelines, Slots, Days
<1>3. s \in days => s < v.to
  BY DEF From
<1> HIDE DEF days
<1>4. CASE s \notin days
  BY <1>1, <1>4 DEF Edited, days
<1>5. CASE s \in days
  <2>1. v \in Validities /\ v.from <= today /\ v.from \in Nat
    BY DaysApart DEF Inv, TypeOK, IndInv, Validities, Slots
  <2>2. s \in Span(v)
    BY <1>2, <1>3, <1>5, <2>1 DEF Span
  <2>3. timeline[s] = v.state
    BY <1>2, <2>2, ValidityTyped
  <2>4. v.state \in States
    BY <2>1 DEF Validities
  <2>5. v.state.field \in Fields \cup {Null} /\ v.state.value \in Values
        /\ v.state = [value |-> v.state.value, field |-> v.state.field]
    BY <2>4 DEF States
  <2>6. Stored(v.state.field, Named(settings.attribute # "value2", v.state.field), settings.nullClears)
          = v.state.field
    BY <2>5, Apart DEF Stored, Named
  <2>7. timeline'[s] = [value |-> v.state.value,
          field |-> Stored(timeline[s].field, Named(settings.attribute # "value2", v.state.field),
                           settings.nullClears)]
    BY <1>1, <1>5 DEF Edited, days
  <2> QED
    BY <2>3, <2>5, <2>6, <2>7
<1> QED
  BY <1>4, <1>5

LEMMA PurgeKnown ==
  ASSUME Inv, IndInv, PurgeWrite, synced'
  PROVE  Known'
<1>1. /\ settings' = settings /\ today' = today /\ ldap' = ldap /\ desired' = desired
      /\ repeated' = repeated /\ outcome' = outcome /\ later' = later /\ pc' = pc
      /\ synced /\ pc = "idle" /\ purge = ValiditiesOf(timeline)
  BY DEF PurgeWrite
<1>2. Known /\ Finished /\ today \in Slots /\ today \in Nat
  BY <1>1, DaysApart DEF IndInv, Known, Inv, TypeOK, Days
<1>3. ASSUME NEW s \in Slots, today <= s
      PROVE  timeline'[s] = timeline[s]
  BY <1>1, <1>3, PurgeKeeps
<1>4. timeline'[today] = timeline[today]
  BY <1>2, <1>3
<1>5. ASSUME NEW s \in Slots, today' <= s, Matches(s)
      PROVE  Matches(s)'
  BY <1>1, <1>3, <1>5 DEF Matches, KeepsField, Lingers, Sent, Unseen
<1>6. Steady => Steady'
  BY <1>1, <1>3, <1>4 DEF Steady, Agrees, Converted
<1>7. (Unfit' <=> Unfit) /\ (SingleDay' <=> SingleDay)
  BY <1>1 DEF Unfit, SingleDay
<1> QED
  BY <1>1, <1>2, <1>5, <1>6, <1>7, Unaffected DEF Known, Finished

\* Days pass, and less of the future is left.
LEMMA MidnightKnown ==
  ASSUME Inv, IndInv, Midnight, synced
  PROVE  Known'
<1>1. /\ settings' = settings /\ timeline' = timeline /\ ldap' = ldap /\ desired' = desired
      /\ repeated' = repeated /\ outcome' = outcome /\ later' = later /\ pc' = pc
      /\ fetched' = fetched /\ today' = today + 1 /\ today < LastDay
  BY DEF Midnight
<1>2. /\ Known /\ desired = ldap /\ today \in Nat /\ today' \in Slots /\ today \in Slots
      /\ ldap.end \in Nat /\ Slots \subseteq Nat /\ Forever \in Nat
  BY <1>1, RenderedTyped, DaysApart DEF IndInv, Known, Inv, TypeOK, Days, Slots, Forever
<1>3. SingleDay => SingleDay'
  BY <1>1, <1>2 DEF SingleDay
<1>4. Unfit => Unfit'
  BY <1>1, <1>3 DEF Unfit
<1>5. ASSUME NEW s \in Slots, today' <= s
      PROVE  today <= s
  BY <1>1, <1>2, <1>5
<1>6. ASSUME NEW s \in Slots, Matches(s)
      PROVE  Matches(s)'
  BY <1>1, <1>6 DEF Matches, KeepsField, Lingers, Sent, Unseen
<1>7. ASSUME Steady
      PROVE  Steady'
  <2>1. ASSUME NEW s \in Slots, today' <= s, s < ldap.end
        PROVE  timeline[s] = timeline[today']
    <3>1. today <= today' /\ today' < ldap.end /\ s \in Nat /\ today <= s
      BY <1>1, <1>2, <2>1
    <3>2. timeline[today'] = timeline[today] /\ timeline[s] = timeline[today]
      BY <1>2, <1>7, <2>1, <3>1 DEF Steady
    <3> QED
      BY <3>2
  <2> QED
    BY <1>1, <1>5, <1>7, <2>1 DEF Steady, Agrees, Converted
<1>8. (FetchedIs' <=> FetchedIs) /\ (NothingNew' <=> NothingNew)
  BY <1>1 DEF FetchedIs, Ended, NothingNew, Span, Changed, Ending, Uploaded, Loaded, Converted
<1>9. Finished => Finished'
  BY <1>1, <1>3, <1>4, <1>5, <1>6, <1>7, Unaffected DEF Finished
<1> QED
  BY <1>1, <1>2, <1>4, <1>7, <1>8, <1>9, Unaffected DEF Known

LEMMA InitInd ==
  ASSUME Init
  PROVE  IndInv
  BY DEF Init, IndInv

LEMMA StepInd ==
  ASSUME Inv, IndInv, [Next]_vars
  PROVE  IndInv'
<1>0. Inv'
  BY StepTyped
<1>1. SUFFICES ASSUME synced'
               PROVE  Known'
  BY InputsStay DEF IndInv
<1>2. CASE Start
  BY <1>2, StartKnown
<1>3. CASE Fetch
  BY <1>1, <1>3, FetchKnown DEF Fetch
<1>4. CASE CreateNew
  <2>1. synced
    BY <1>1, <1>4 DEF CreateNew
  <2> QED
    BY <1>0, <1>1, <1>4, <2>1, CreateKnown
<1>5. CASE Terminate
  BY <1>1, <1>5, TerminateKnown DEF Terminate
<1>6. CASE EditOld
  <2>1. synced
    BY <1>1, <1>6 DEF EditOld
  <2> QED
    BY <1>0, <1>6, <2>1, EditKnown
<1>7. CASE Skip
  <2>1. synced
    BY <1>1, <1>7 DEF Skip
  <2> QED
    BY <1>7, <2>1, SkipKnown
<1>8. CASE EditRefused \/ Fail \/ Change \/ Note
  BY <1>1, <1>8 DEF EditRefused, Fail, Change, Note
<1>9. CASE PurgeWrite
  BY <1>1, <1>9, PurgeKnown
<1>10. CASE Midnight
  BY <1>1, <1>10, MidnightKnown DEF Midnight
<1>11. CASE PurgeRead \/ UNCHANGED vars
  <2>1. /\ settings' = settings /\ ldap' = ldap /\ desired' = desired /\ today' = today
        /\ timeline' = timeline /\ pc' = pc /\ outcome' = outcome /\ later' = later
        /\ repeated' = repeated /\ fetched' = fetched /\ synced' = synced
    BY <1>11 DEF PurgeRead, vars
  <2> QED
    BY <1>1, <2>1, LeftAlone DEF IndInv
<1> QED
  BY <1>2, <1>3, <1>4, <1>5, <1>6, <1>7, <1>8, <1>9, <1>10, <1>11 DEF Next, Import

LEMMA IndHolds == Spec => [](Inv /\ IndInv)
<1>1. Init => Inv /\ IndInv
  BY InitTyped, InitInd
<1>2. (Inv /\ IndInv) /\ [Next]_vars => (Inv /\ IndInv)'
  BY StepTyped, StepInd
<1> QED
  BY <1>1, <1>2, PTL DEF Spec

\* What an import leaves behind, until LDAP or somebody else changes: from today on MO
\* has what LDAP has, until the end that the templates give.
THEOREM ImportsFollow == Spec => []Followed
<1>1. Inv /\ IndInv => Followed
  BY DEF IndInv, Known, Finished, Followed, Matches
<1> QED
  BY <1>1, IndHolds, PTL

\* A second import of the same object writes nothing, on whichever later day.
THEOREM SecondIsNoop == Spec => []RepeatedIsNoop
<1>1. Inv /\ IndInv => RepeatedIsNoop
  BY RenderedTyped DEF Inv, IndInv, Known, Finished, RepeatedIsNoop, Comparable
<1> QED
  BY <1>1, IndHolds, PTL
=============================================================================
