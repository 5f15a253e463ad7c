------------------------------ MODULE MoLookups ------------------------------
(***************************************************************************)
(* What a template looks up in MO: a person's primary engagement, an       *)
(* engagement, an address of a person or of her unit, an it-user           *)
(* (environments/main.py), by the validities that MO keeps of each object  *)
(* (moapi.py).                                                             *)
(*                                                                         *)
(* Most lookups are two requests: one for the validities of all objects    *)
(* that match, of which one object is chosen, and one for the validities   *)
(* of that object.  MO may be edited and midnight may pass in between.     *)
(*                                                                         *)
(* A day stands for its midnight where a validity begins or ends, and for  *)
(* any later instant of it where the clock is read.  A validity ends at    *)
(* the midnight where its neighbour begins, as the tests of edits have it  *)
(* (tests/integration/test_update_validity.py).                            *)
(***************************************************************************)
EXTENDS Integers, FiniteSetsExt

CONSTANTS
    Engagements,    \* uuids of one person's engagements
    Addresses,      \* uuids of the addresses, or it-users, a filter matches
    Rank,           \* of engagements: by fraction, then by user key, highest first
    Today,          \* the day on which the lookup begins
    LastDay         \* bound: days are 1 .. LastDay

LookupsAssumption ==
    /\ IsFiniteSet(Engagements) /\ IsFiniteSet(Addresses)
    /\ Engagements \cap Addresses = {}
    /\ LastDay \in Nat \ {0} /\ Today \in 1 .. LastDay
    /\ Rank \in [Engagements -> Nat]
    /\ \A d, e \in Engagements : Rank[d] = Rank[e] => d = e

VARIABLES
    today,      \* the day of the clock
    mo,         \* the validities MO keeps
    kind,       \* the function the template calls
    keep,       \* its return_terminated argument
    pc,         \* "ask", "choose", "compute", "load" or "answered"
    chosen,     \* the uuids chosen so far: none or one
    seen,       \* the validities a first answer held
    outcome,    \* "none", "found", "acknowledge", "requeue", "error" or "empty"
    found,      \* the validity returned, if any
    disturbed   \* history: MO or the day changed under the lookup

vars == <<today, mo, kind, keep, pc, chosen, seen, outcome, found, disturbed>>

Days == 1 .. LastDay
Forever == LastDay + 2
Uuids == Engagements \cup Addresses
Kinds == {"primary", "unit address", "recalculated", "engagement", "address",
          "ituser", "current ituser"}

Intervals == {i \in [from : Days, to : Days \cup {Forever}] : i.from < i.to}
Marks == {"no", "calculated", "explicit"}
Validities == [uuid : Uuids, from : Days, to : Days \cup {Forever}, primary : Marks]

TypeOK ==
    /\ today \in Days
    /\ mo \subseteq Validities
    /\ kind \in Kinds
    /\ keep \in BOOLEAN
    /\ pc \in {"ask", "choose", "compute", "load", "answered"}
    /\ chosen \subseteq Uuids
    /\ seen \subseteq Validities
    /\ outcome \in {"none", "found", "acknowledge", "requeue", "error", "empty"}
    /\ found \subseteq Validities
    /\ disturbed \in BOOLEAN

-----------------------------------------------------------------------------
(* Validities *)

Covers(v, day) == v.from <= day /\ day < v.to
Of(S, uuids) == {v \in S : v.uuid \in uuids}
Overlap(v, w) == v.from < w.to /\ w.from < v.to
IsTimeline(S) == \A v, w \in S : v # w /\ v.uuid = w.uuid => ~Overlap(v, w)

IsCurrent(v) == Covers(v, today)
Current(S) == {v \in S : IsCurrent(v)}

\* Of several validities that all end last, max() returns the first.
Latest(S) == {v \in S : \A w \in S : w.to <= v.to}

\* extract_current_or_latest_validity raises a ValueError on ambiguity.
Ambiguous(S) == Cardinality(S) > 1 /\ Cardinality(Current(S)) > 1
\* Mutant: the latest validity although another one is current.
ExtractLatest(S) == IF Cardinality(S) <= 1 THEN S ELSE Latest(S)

Extract(S) == IF Cardinality(S) <= 1 THEN S
              ELSE IF Current(S) # {} THEN Current(S)
              ELSE Latest(S)

DeleteFlag(v) == v.to <= today

IsPrimary(v) == v.primary # "no"

EmploymentInterval(S) == [from |-> Min({v.from : v \in S}), to |-> Max({v.to : v \in S})]

-----------------------------------------------------------------------------
(* What MO answers: the validities at any time, where the query says so *)

ReadEngagementsIsPrimary == Of(mo, Engagements)
ReadEngagements == {v \in Of(mo, Engagements) : today < v.to}
ReadFilteredAddresses == Of(mo, Addresses)
\* The template says in its filter whether past validities are wanted.
ReadFilteredItusers ==
    IF kind = "current ituser" THEN Current(Of(mo, Addresses)) ELSE Of(mo, Addresses)

-----------------------------------------------------------------------------
(* What the function under way finds *)

Answer(o, S) ==
    /\ pc' = "answered"
    /\ outcome' = o
    /\ found' = S

Choose(S) ==
    /\ pc' = "load"
    /\ chosen' \in {{v.uuid} : v \in Extract(S)}
    /\ UNCHANGED <<outcome, found>>

\* get_primary_engagement: only validities that are primary count, and to wait
\* for calculate_primary is to acknowledge the event.
GetPrimaryEngagement ==
    LET all == ReadEngagementsIsPrimary
        primary == {v \in all : IsPrimary(v)}
    IN  /\ pc = "ask" /\ kind \in {"primary", "unit address"}
        /\ \/ all = {} /\ Answer("none", {}) /\ UNCHANGED chosen
           \/ /\ all # {} /\ (primary = {} \/ Ambiguous(primary))
              /\ Answer("acknowledge", {}) /\ UNCHANGED chosen
           \/ /\ primary # {} /\ ~Ambiguous(primary)
              /\ chosen' \in {{v.uuid} : v \in Extract(primary)}
              /\ pc' = IF kind = "primary" THEN "load" ELSE "choose"
              /\ UNCHANGED <<outcome, found>>
        /\ UNCHANGED <<today, mo, kind, keep, seen, disturbed>>

\* Of the validities found, the current or latest one says which object to load.
FindIn(read) ==
    /\ \/ read = {} /\ Answer("none", {}) /\ UNCHANGED chosen
       \/ Ambiguous(read) /\ Answer("error", {}) /\ UNCHANGED chosen
       \/ read # {} /\ ~Ambiguous(read) /\ Choose(read)
    /\ UNCHANGED <<today, mo, kind, keep, seen, disturbed>>

LoadAddress == pc = "ask" /\ kind = "address" /\ FindIn(ReadFilteredAddresses)

LoadItUser == pc = "ask" /\ kind \in {"ituser", "current ituser"} /\ FindIn(ReadFilteredItusers)

\* Once it has the engagement whose unit's addresses it wants.
LoadOrgUnitAddress == pc = "choose" /\ kind = "unit address" /\ FindIn(ReadFilteredAddresses)

\* load_engagement is given the uuid, of an engagement MO has or had.
LoadEngagement ==
    /\ pc = "ask" /\ kind = "engagement"
    /\ pc' = "load"
    /\ \E e \in Engagements : chosen' = {e}
    /\ UNCHANGED <<today, mo, kind, keep, seen, outcome, found, disturbed>>

\* The validity extracted of the object loaded, unless it has ended.
Return(own) ==
    \/ own = {} /\ Answer("requeue", {})
    \/ \E v \in Extract(own) :
            IF DeleteFlag(v) /\ ~keep THEN Answer("none", {}) ELSE Answer("found", {v})

\* The object chosen, with its validities at any time.
LoadChosen(kinds) ==
    /\ pc = "load" /\ kind \in kinds
    /\ Return(Of(mo, chosen))
    /\ UNCHANGED <<today, mo, kind, keep, chosen, seen, disturbed>>

LoadMoEngagement == LoadChosen({"primary", "engagement"})
LoadMoAddress == LoadChosen({"address", "unit address"})
LoadMoItUser == LoadChosen({"ituser", "current ituser"})

\* load_primary_engagement_recalculated reads what is valid from now on.
LoadRecalculated ==
    LET read == ReadEngagements
    IN  /\ pc = "ask" /\ kind = "recalculated"
        /\ seen' = read
        /\ \/ read = {} /\ Answer("none", {})
           \/ read # {} /\ pc' = "compute" /\ UNCHANGED <<outcome, found>>
        /\ UNCHANGED <<today, mo, kind, keep, chosen, disturbed>>

\* Mutant: the end date is the midnight at which the validity ends.
ConsideredToMidnight(S, day) ==
    LET cut == Max({day, Min({v.from : v \in S})})
    IN  {v \in S : Covers(v, cut)}

\* It considers the engagements of today, or of the first day with any; it takes
\* the end date of MO for a day that belongs to the validity (get_mo_end_date).
Considered(S, day) ==
    LET cut == Max({day, Min({v.from : v \in S})})
    IN  {v \in S : v.from <= cut /\ cut <= v.to}
Explicit(S) == {v \in S : v.primary = "explicit"}
Best(S) == {v \in S : \A w \in S : Rank[w.uuid] <= Rank[v.uuid]}
\* Mutant: the tie is broken, and the fraction compared, the wrong way round.
RecalculatedLowest(S) == {v \in S : \A w \in S : Rank[v.uuid] <= Rank[w.uuid]}

Recalculated(S) == IF Explicit(S) # {} THEN Explicit(S) ELSE Best(S)

\* max() of no engagements, or one() of two explicit ones, raises a ValueError.
ComputePrimary ==
    LET left == Considered(seen, today)
    IN  /\ pc = "compute"
        /\ \/ left = {} /\ Answer("empty", {})
           \/ Cardinality(Explicit(left)) > 1 /\ Answer("error", {})
           \/ /\ left # {} /\ Cardinality(Explicit(left)) <= 1
              /\ Answer("found", Recalculated(left))
        /\ UNCHANGED <<today, mo, kind, keep, chosen, seen, disturbed>>

-----------------------------------------------------------------------------
(* The world *)

UnderWay == pc \notin {"ask", "answered"}

\* External: somebody cuts an object short or removes it, or calculate_primary
\* changes its mark.  Edits before the first request are other initial states, and
\* nothing sees one after the last request.
Edit ==
    /\ UnderWay /\ ~disturbed /\ pc # "compute"
    /\ \E v \in mo :
        \/ mo' = mo \ {v}
        \/ v.from < today /\ mo' = (mo \ {v}) \cup {[v EXCEPT !.to = today]}
        \/ /\ v.uuid \in Engagements
           /\ mo' = (mo \ {v}) \cup {[v EXCEPT !.primary = IF IsPrimary(v) THEN "no" ELSE "calculated"]}
    /\ disturbed' = TRUE
    /\ UNCHANGED <<today, kind, keep, pc, chosen, seen, outcome, found>>

Midnight ==
    /\ UnderWay /\ ~disturbed /\ today < LastDay
    /\ today' = today + 1
    /\ disturbed' = TRUE
    /\ UNCHANGED <<mo, kind, keep, pc, chosen, seen, outcome, found>>

-----------------------------------------------------------------------------

\* What MO keeps of one object: up to two validities, of the marks that can
\* matter.  Which engagement a unit is found by does not matter to its addresses.
Timelines(u, marks) ==
    LET V == {[uuid |-> u, from |-> i.from, to |-> i.to, primary |-> m] : i \in Intervals, m \in marks}
    IN  {{}} \cup {S \in {{v, w} : v, w \in V} : IsTimeline(S)}

Objects(k, u) ==
    CASE u \in Engagements /\ k = "primary" -> Timelines(u, {"no", "calculated"})
      [] u \in Engagements /\ k = "recalculated" -> Timelines(u, Marks)
      [] u \in Engagements /\ k = "engagement" -> Timelines(u, {"no"})
      [] u \in Engagements /\ k = "unit address" ->
            {S \in Timelines(u, {"no", "calculated"}) : \A v \in S : v.to = Forever /\ v.from = 1}
      [] u \in Addresses /\ k \notin {"primary", "recalculated", "engagement"} ->
            Timelines(u, {"no"})
      [] OTHER -> {{}}

\* What MO keeps of all of them.
Kept(k, uuids) ==
    LET each == {F \in [uuids -> UNION {Objects(k, u) : u \in uuids}] :
                    \A u \in uuids : F[u] \in Objects(k, u)}
    IN  {UNION {F[u] : u \in uuids} : F \in each}

Init ==
    /\ today = Today
    /\ kind \in Kinds
    /\ keep \in IF kind \in {"primary", "ituser", "current ituser"} THEN BOOLEAN ELSE {FALSE}
    /\ \E S \in Kept(kind, Engagements), T \in Kept(kind, Addresses) : mo = S \cup T
    /\ pc = "ask"
    /\ chosen = {} /\ seen = {} /\ found = {}
    /\ outcome = "none"
    /\ disturbed = FALSE

Next ==
    \/ GetPrimaryEngagement
    \/ LoadAddress
    \/ LoadItUser
    \/ LoadOrgUnitAddress
    \/ LoadEngagement
    \/ LoadMoEngagement
    \/ LoadMoAddress
    \/ LoadMoItUser
    \/ LoadRecalculated
    \/ ComputePrimary
    \/ Edit
    \/ Midnight

Spec == Init /\ [][Next]_vars

-----------------------------------------------------------------------------
(* Properties *)

Undisturbed == pc = "answered" /\ ~disturbed

\* The validities of which a lookup that chooses one object is to return one.
Candidates ==
    CASE kind = "primary" -> {v \in Of(mo, Engagements) : IsPrimary(v)}
      [] kind = "engagement" -> Of(mo, chosen)
      [] kind = "current ituser" -> {v \in Of(mo, Addresses) : Covers(v, today)}
      [] OTHER -> Of(mo, Addresses)

\* calculate_primary has run: whoever is engaged on a day has one primary
\* engagement, the one of the highest rank, and none is set by hand.
Calculated(S) ==
    /\ Explicit(S) = {}
    /\ \A d \in Days :
        LET cover == {v \in S : Covers(v, d)} IN {v \in cover : IsPrimary(v)} = Best(cover)

\* The first request chooses an object by some of its validities and the second
\* returns any validity of that object: while nobody edits MO the two agree on
\* the only candidate that is current, and with two of them nothing is returned.
CurrentServed ==
    Undisturbed /\ kind # "recalculated" /\ (kind = "unit address" => chosen \cap Addresses # {}) =>
        /\ Cardinality(Current(Candidates)) = 1 => found = Current(Candidates)
        /\ outcome = "found" => Cardinality(Current(Candidates)) <= 1

\* Once primaries are calculated, a person has no primary engagement only when
\* her employment has ended, not between two engagements and not when a
\* validity that is not primary ends last.
NoneWhenLeft ==
    LET all == Of(mo, Engagements)
    IN  Undisturbed /\ kind = "primary" /\ ~keep /\ all # {} /\ Calculated(all) =>
            (outcome = "none" <=> EmploymentInterval(all).to <= today)

\* The primary engagement that is read off the marks and the one of the function
\* that reimplements calculate_primary are the same; and that function has an
\* engagement to take the max() of, also when midnight passes between the reading
\* of the engagements and of the clock.
AgreesWithCalculated ==
    LET all == Of(mo, Engagements)
    IN  /\ outcome # "empty"
        /\ Undisturbed /\ kind \in {"primary", "recalculated"} /\ Calculated(all)
           /\ Current(all) # {} =>
                found = {v \in Current(all) : IsPrimary(v)}
=============================================================================
