------------------------- MODULE EventRoutingProofs -------------------------
(* What holds of EventRouting whatever the persons, units, accounts and their *)
(* relations, the mappings and the deployment, and however many handlers.    *)
EXTENDS EventRouting, TLAPS

(* The events that requests make; those that an event leads to, one hop on.  *)
Answers(C) == UNION {Emitted(c) : c \in C}
Succ(ev) == Answers(CallsFor(ev))

LEMMA OnwardIsSucc ==
  ASSUME NEW S, NEW x
  PROVE  x \in Onward(S) <=> x \in S \/ \E ev \in S : x \in Succ(ev)
  BY DEF Onward, Succ, Answers

-----------------------------------------------------------------------------
(* The listeners and their keys.                                             *)

LEMMA StaticListeners ==
  /\ DOMAIN StaticKey = {"process_address", "process_engagement", "process_ituser",
       "process_person", "reconcile_person", "process_org_unit", "process_uuid",
       "reconcile_uuid"}
  /\ StaticKey["process_address"] = "address"
  /\ StaticKey["process_engagement"] = "engagement"
  /\ StaticKey["process_ituser"] = "ituser"
  /\ StaticKey["process_person"] = "person"
  /\ StaticKey["reconcile_person"] = "person"
  /\ StaticKey["process_org_unit"] = "org_unit"
  /\ StaticKey["process_uuid"] = "uuid"
  /\ StaticKey["reconcile_uuid"] = "uuid"
  BY DEF StaticKey

LEMMA Keys ==
  /\ RoutingKey("process_address") = "address"
  /\ RoutingKey("process_engagement") = "engagement"
  /\ RoutingKey("process_ituser") = "ituser"
  /\ RoutingKey("process_person") = "person"
  /\ RoutingKey("reconcile_person") = "person"
  /\ RoutingKey("process_org_unit") = "org_unit"
  /\ RoutingKey("process_uuid") = "uuid"
  /\ RoutingKey("reconcile_uuid") = "uuid"
  /\ \A m \in Mappings :
       /\ RoutingKey(m) = RoutingOf[m]
       /\ RoutingKey(m) \in {"address", "engagement", "ituser", "person", "org_unit"}
       /\ m \notin {"process_address", "process_engagement", "process_ituser",
                    "process_person", "reconcile_person", "process_org_unit",
                    "process_uuid", "reconcile_uuid"}
  BY StaticListeners, DomainAssumption DEF RoutingKey

LEMMA KeyOfListener ==
  ASSUME NEW l \in AllListeners
  PROVE  \/ l \in Mappings
         \/ l \in {"process_address", "process_engagement", "process_ituser",
                   "process_person", "reconcile_person", "process_org_unit",
                   "process_uuid", "reconcile_uuid"}
  BY StaticListeners DEF AllListeners

LEMMA Kinds ==
  /\ \A s \in Persons : Kind(s) = "person"
  /\ \A s \in Units : Kind(s) = "org_unit"
  /\ \A s \in Addresses : Kind(s) = "address"
  /\ \A s \in Engagements : Kind(s) = "engagement"
  /\ \A s \in Itusers : Kind(s) = "ituser"
  /\ \A s \in Accounts : Kind(s) = "uuid"
  BY KindAssumption DEF Kind, Related

LEMMA OfKind ==
  ASSUME NEW s \in Subjects
  PROVE  /\ Kind(s) = "person" => s \in Persons
         /\ Kind(s) = "org_unit" => s \in Units
         /\ Kind(s) = "address" => s \in Addresses
         /\ Kind(s) = "engagement" => s \in Engagements
         /\ Kind(s) = "ituser" => s \in Itusers
         /\ Kind(s) = "uuid" => s \in Accounts
  BY Kinds DEF Subjects, Related

-----------------------------------------------------------------------------
(* One hop.                                                                  *)

LEMMA EmittedTo ==
  ASSUME NEW c, NEW x \in Emitted(c)
  PROVE  x[1] \in c.to
  BY DEF Emitted

LEMMA EmittedAbout ==
  ASSUME NEW L \in SUBSET Listeners, NEW S, L # {}, L \cap Keyed("engagement") = {}
  PROVE  Emitted([to |-> L, about |-> S]) = L \X S
  BY DEF Emitted

LEMMA Answered ==
  ASSUME NEW C, NEW x
  PROVE  x \in Answers(C) <=> \E c \in C : x \in Emitted(c)
  BY DEF Answers

(* One request for each listener, and one for each subject.                  *)
LEMMA AnsweredToEach ==
  ASSUME NEW L, NEW S, NEW C, NEW x,
         \A c \in C : \E l \in L : c = [to |-> {l}, about |-> S],
         \A l \in L : [to |-> {l}, about |-> S] \in C
  PROVE  x \in Answers(C) <=> \E l \in L : x \in Emitted([to |-> {l}, about |-> S])
  <1>1. ASSUME x \in Answers(C)
        PROVE  \E l \in L : x \in Emitted([to |-> {l}, about |-> S])
    <2>1. PICK c \in C : x \in Emitted(c)
      BY <1>1, Answered
    <2>2. PICK l \in L : c = [to |-> {l}, about |-> S]
      OBVIOUS
    <2>3. QED  BY <2>1, <2>2
  <1>2. ASSUME NEW l \in L, x \in Emitted([to |-> {l}, about |-> S])
        PROVE  x \in Answers(C)
    <2>1. [to |-> {l}, about |-> S] \in C
      OBVIOUS
    <2>2. QED  BY <1>2, <2>1, Answered
  <1>3. QED  BY <1>1, <1>2

LEMMA AnsweredOnEach ==
  ASSUME NEW L, NEW S, NEW C, NEW x,
         \A c \in C : \E s \in S : c = [to |-> L, about |-> {s}],
         \A s \in S : [to |-> L, about |-> {s}] \in C
  PROVE  x \in Answers(C) <=> \E s \in S : x \in Emitted([to |-> L, about |-> {s}])
  <1>1. ASSUME x \in Answers(C)
        PROVE  \E s \in S : x \in Emitted([to |-> L, about |-> {s}])
    <2>1. PICK c \in C : x \in Emitted(c)
      BY <1>1, Answered
    <2>2. PICK s \in S : c = [to |-> L, about |-> {s}]
      OBVIOUS
    <2>3. QED  BY <2>1, <2>2
  <1>2. ASSUME NEW s \in S, x \in Emitted([to |-> L, about |-> {s}])
        PROVE  x \in Answers(C)
    <2>1. [to |-> L, about |-> {s}] \in C
      OBVIOUS
    <2>2. QED  BY <1>2, <2>1, Answered
  <1>3. QED  BY <1>1, <1>2

LEMMA AnswersOfTwo ==
  ASSUME NEW C, NEW D
  PROVE  Answers(C \cup D) = Answers(C) \cup Answers(D)
  BY Answered

LEMMA RefreshesEmit ==
  ASSUME NEW L, NEW S, L \cap Keyed("engagement") = {}
  PROVE  Answers(Refreshes(L, S)) = (L \cap Listeners) \X S
  <1>1. CASE S = {}
    <2>1. Refreshes(L, S) = {}
      BY <1>1 DEF Refreshes
    <2>2. Answers({}) = {}
      BY Answered
    <2>3. QED  BY <1>1, <2>1, <2>2
  <1>2. CASE S # {}
    <2> DEFINE C == Refreshes(L, S)
               M == L \cap Listeners
    <2>1. \A l \in M : Emitted([to |-> {l}, about |-> S]) = {l} \X S
      BY EmittedAbout
    <2>2. /\ \A c \in C : \E l \in M : c = [to |-> {l}, about |-> S]
          /\ \A l \in M : [to |-> {l}, about |-> S] \in C
      BY <1>2 DEF Refreshes
    <2> HIDE DEF C, M
    <2>3. ASSUME NEW x
          PROVE  x \in Answers(C) <=> \E l \in M : x \in {l} \X S
      <3>1. x \in Answers(C) <=> \E l \in M : x \in Emitted([to |-> {l}, about |-> S])
        <4>1. ASSUME x \in Answers(C)
              PROVE  \E l \in M : x \in Emitted([to |-> {l}, about |-> S])
          <5>1. PICK c \in C : x \in Emitted(c)
            BY <4>1, Answered
          <5>2. QED  BY <2>2, <5>1
        <4>2. ASSUME NEW l \in M, x \in Emitted([to |-> {l}, about |-> S])
              PROVE  x \in Answers(C)
          BY <2>2, <4>2, Answered
        <4>3. QED  BY <4>1, <4>2
      <3>2. QED  BY <2>1, <3>1
    <2>4. QED  BY <2>3 DEF C, M
  <1>3. QED  BY <1>1, <1>2

PersonEnds == ({"process_person"} \cup MappingsOf("person")) \cap Listeners
UnitEnds == ({"process_org_unit"} \cup MappingsOf("org_unit")) \cap Listeners
EngagementEnds == ({"process_engagement"} \cup MappingsOf("engagement")) \cap Listeners

LEMMA NotOfEngagements ==
  /\ ({"process_person"} \cup MappingsOf("person")) \cap Keyed("engagement") = {}
  /\ ({"process_person", "reconcile_person"} \cup MappingsOf("person")) \cap Keyed("engagement") = {}
  /\ ({"process_org_unit"} \cup MappingsOf("org_unit")) \cap Keyed("engagement") = {}
  /\ {"process_person"} \cap Keyed("engagement") = {}
  /\ Keyed("uuid") \cap Keyed("engagement") = {}
  /\ ({"process_engagement"} \cup MappingsOf("engagement")) \cap Listeners \subseteq Keyed("engagement")
  BY Keys DEF Keyed, MappingsOf

LEMMA SuccEngagement ==
  ASSUME NEW e
  PROVE  Succ(<<"process_engagement", e>>) = PersonEnds \X PersonsOf(e)
  <1>1. CallsFor(<<"process_engagement", e>>) =
          Refreshes({"process_person"} \cup MappingsOf("person"), PersonsOf(e))
    BY DEF CallsFor, EngagementCalls
  <1>2. QED
    BY <1>1, NotOfEngagements, RefreshesEmit DEF Succ, PersonEnds

LEMMA SuccItuser ==
  ASSUME NEW i
  PROVE  Succ(<<"process_ituser", i>>)
           = (PersonEnds \X PersonsOf(i)) \cup (UnitEnds \X UnitsOf(i))
  <1>1. CallsFor(<<"process_ituser", i>>) =
          Refreshes({"process_person"} \cup MappingsOf("person"), PersonsOf(i))
            \cup Refreshes({"process_org_unit"} \cup MappingsOf("org_unit"), UnitsOf(i))
    BY DEF CallsFor, ItuserCalls
  <1>2. QED
    BY <1>1, NotOfEngagements, RefreshesEmit, AnswersOfTwo DEF Succ, PersonEnds, UnitEnds

LEMMA SuccAddress ==
  ASSUME NEW a
  PROVE  Succ(<<"process_address", a>>)
           = ((PersonEnds \cup ({"reconcile_person"} \cap Listeners)) \X PersonsOf(a))
               \cup (UnitEnds \X UnitsOf(a))
  <1>1. CallsFor(<<"process_address", a>>) =
          Refreshes({"process_person", "reconcile_person"} \cup MappingsOf("person"), PersonsOf(a))
            \cup Refreshes({"process_org_unit"} \cup MappingsOf("org_unit"), UnitsOf(a))
    BY DEF CallsFor, AddressCalls
  <1>2. ({"process_person", "reconcile_person"} \cup MappingsOf("person")) \cap Listeners
          = PersonEnds \cup ({"reconcile_person"} \cap Listeners)
    BY DEF PersonEnds
  <1>3. QED
    BY <1>1, <1>2, NotOfEngagements, RefreshesEmit, AnswersOfTwo DEF Succ, UnitEnds

LEMMA SuccUnit ==
  ASSUME NEW u
  PROVE  Succ(<<"process_org_unit", u>>) = EngagementEnds \X EngagementsOf(u)
  <1> DEFINE C == CallsFor(<<"process_org_unit", u>>)
  <1>1. /\ \A c \in C : \E l \in EngagementEnds : c = [to |-> {l}, about |-> {u}]
        /\ \A l \in EngagementEnds : [to |-> {l}, about |-> {u}] \in C
    BY DEF CallsFor, OrgUnitCalls, Refreshes, EngagementEnds
  <1> HIDE DEF C
  <1>2. ASSUME NEW l \in EngagementEnds
        PROVE  Emitted([to |-> {l}, about |-> {u}]) = {l} \X EngagementsOf(u)
    BY NotOfEngagements DEF Emitted, EngagementEnds
  <1>3. ASSUME NEW x
        PROVE  x \in Answers(C) <=> \E l \in EngagementEnds : x \in {l} \X EngagementsOf(u)
    <2>1. x \in Answers(C) <=> \E l \in EngagementEnds : x \in Emitted([to |-> {l}, about |-> {u}])
      BY <1>1, AnsweredToEach
    <2>2. QED  BY <1>2, <2>1
  <1>4. QED  BY <1>3 DEF Succ, C

LEMMA SuccReconcilePerson ==
  ASSUME NEW p
  PROVE  Succ(<<"reconcile_person", p>>)
           = IF p \in scene.ignored THEN {} ELSE Keyed("uuid") \X AccountsOf(p)
  <1>1. CallsFor(<<"reconcile_person", p>>) = ReconcilePersonCalls(p)
    BY DEF CallsFor
  <1>2. CASE p \in scene.ignored
    BY <1>1, <1>2, Answered DEF Succ, ReconcilePersonCalls
  <1>3. CASE p \notin scene.ignored
    <2> DEFINE C == CallsFor(<<"reconcile_person", p>>)
    <2>1. /\ \A c \in C : \E x \in AccountsOf(p) : c = [to |-> Keyed("uuid"), about |-> {x}]
          /\ \A x \in AccountsOf(p) : [to |-> Keyed("uuid"), about |-> {x}] \in C
      BY <1>1, <1>3 DEF ReconcilePersonCalls, Published
    <2> HIDE DEF C
    <2>2. ASSUME NEW x
          PROVE  Emitted([to |-> Keyed("uuid"), about |-> {x}]) = Keyed("uuid") \X {x}
      <3>1. CASE Keyed("uuid") = {}
        BY <3>1 DEF Emitted
      <3>2. CASE Keyed("uuid") # {}
        BY <3>2, NotOfEngagements, EmittedAbout DEF Keyed
      <3>3. QED  BY <3>1, <3>2
    <2>3. ASSUME NEW y
          PROVE  y \in Answers(C) <=> \E x \in AccountsOf(p) : y \in Keyed("uuid") \X {x}
      <3>1. y \in Answers(C)
              <=> \E x \in AccountsOf(p) : y \in Emitted([to |-> Keyed("uuid"), about |-> {x}])
        BY <2>1, AnsweredOnEach
      <3>2. QED  BY <2>2, <3>1
    <2>4. QED  BY <1>3, <2>3 DEF Succ, C
  <1>4. QED  BY <1>2, <1>3

LEMMA SuccReconcileUuid ==
  ASSUME NEW x
  PROVE  Succ(<<"reconcile_uuid", x>>)
           = IF x \in scene.ignored \/ OwnerOf[x] = None THEN {}
             ELSE ({"process_person"} \cap Listeners) \X {OwnerOf[x]}
  <1>1. CallsFor(<<"reconcile_uuid", x>>) = ReconcileUuidCalls(x)
    BY DEF CallsFor
  <1>2. CASE x \in scene.ignored \/ OwnerOf[x] = None
    BY <1>1, <1>2, Answered DEF Succ, ReconcileUuidCalls
  <1>3. CASE ~(x \in scene.ignored \/ OwnerOf[x] = None)
    BY <1>1, <1>3, NotOfEngagements, RefreshesEmit DEF Succ, ReconcileUuidCalls
  <1>4. QED  BY <1>2, <1>3

LEMMA SuccLeaf ==
  ASSUME NEW l \in Leaves, NEW s
  PROVE  Succ(<<l, s>>) = {}
  <1>1. CallsFor(<<l, s>>) = {}
    BY Keys DEF CallsFor, Leaves
  <1>2. QED  BY <1>1, Answered DEF Succ

-----------------------------------------------------------------------------
(* Where events lead.  Four hops are enough: each is to a listener of a lower *)
(* rank.                                                                     *)

Rank(l) ==
  CASE l \in {"process_address", "process_ituser"} -> 3
    [] l \in {"process_org_unit", "reconcile_person"} -> 2
    [] l \in {"process_engagement", "reconcile_uuid"} -> 1
    [] OTHER -> 0

LEMMA RankOf ==
  /\ Rank("process_address") = 3 /\ Rank("process_ituser") = 3
  /\ Rank("process_org_unit") = 2 /\ Rank("reconcile_person") = 2
  /\ Rank("process_engagement") = 1 /\ Rank("reconcile_uuid") = 1
  /\ Rank("process_person") = 0 /\ Rank("process_uuid") = 0
  /\ \A m \in Mappings : Rank(m) = 0
  BY Keys DEF Rank

LEMMA RankIsSmall ==
  ASSUME NEW l
  PROVE  Rank(l) \in 0 .. 3
  BY DEF Rank

LEMMA KeyedUuid ==
  Keyed("uuid") = {"process_uuid", "reconcile_uuid"} \cap Listeners
  <1>1. ASSUME NEW l \in Keyed("uuid")
        PROVE  l \in {"process_uuid", "reconcile_uuid"} \cap Listeners
    BY Keys, KeyOfListener DEF Keyed, Listeners
  <1>2. ASSUME NEW l \in {"process_uuid", "reconcile_uuid"} \cap Listeners
        PROVE  l \in Keyed("uuid")
    BY Keys DEF Keyed
  <1>3. QED  BY <1>1, <1>2

LEMMA Descends ==
  ASSUME NEW ev \in Events, NEW x \in Succ(ev)
  PROVE  Rank(x[1]) < Rank(ev[1])
  <1>1. PICK l \in AllListeners, s \in Subjects : ev = <<l, s>>
    BY DEF Events
  <1>2. \A m \in PersonEnds \cup UnitEnds \cup EngagementEnds :
          /\ m \in PersonEnds => Rank(m) = 0
          /\ m \in UnitEnds => Rank(m) \in {0, 2}
          /\ m \in EngagementEnds => Rank(m) \in {0, 1}
    BY RankOf DEF PersonEnds, UnitEnds, EngagementEnds, MappingsOf
  <1>3. CASE l = "process_address"
    <2>1. x \in ((PersonEnds \cup ({"reconcile_person"} \cap Listeners)) \X PersonsOf(s))
                  \cup (UnitEnds \X UnitsOf(s))
      BY <1>1, <1>3, SuccAddress
    <2>2. Rank(x[1]) \in {0, 2}
      BY <2>1, <1>2, RankOf
    <2>3. QED  BY <2>2, <1>1, <1>3, RankOf
  <1>4. CASE l = "process_ituser"
    <2>1. x \in (PersonEnds \X PersonsOf(s)) \cup (UnitEnds \X UnitsOf(s))
      BY <1>1, <1>4, SuccItuser
    <2>2. Rank(x[1]) \in {0, 2}
      BY <2>1, <1>2, RankOf
    <2>3. QED  BY <2>2, <1>1, <1>4, RankOf
  <1>5. CASE l = "process_org_unit"
    <2>1. x \in EngagementEnds \X EngagementsOf(s)
      BY <1>1, <1>5, SuccUnit
    <2>2. Rank(x[1]) \in {0, 1}
      BY <2>1, <1>2, RankOf
    <2>3. QED  BY <2>2, <1>1, <1>5, RankOf
  <1>6. CASE l = "process_engagement"
    <2>1. x \in PersonEnds \X PersonsOf(s)
      BY <1>1, <1>6, SuccEngagement
    <2>2. Rank(x[1]) = 0
      BY <2>1, <1>2, RankOf
    <2>3. QED  BY <2>2, <1>1, <1>6, RankOf
  <1>7. CASE l = "reconcile_person"
    <2>1. x \in Keyed("uuid") \X AccountsOf(s)
      BY <1>1, <1>7, SuccReconcilePerson
    <2>2. Rank(x[1]) \in {0, 1}
      BY <2>1, KeyedUuid, RankOf
    <2>3. QED  BY <2>2, <1>1, <1>7, RankOf
  <1>8. CASE l = "reconcile_uuid"
    <2>1. x \in ({"process_person"} \cap Listeners) \X {OwnerOf[s]}
      BY <1>1, <1>8, SuccReconcileUuid
    <2>2. Rank(x[1]) = 0
      BY <2>1, RankOf
    <2>3. QED  BY <2>2, <1>1, <1>8, RankOf
  <1>9. CASE l \in Leaves
    BY <1>1, <1>9, SuccLeaf
  <1>10. QED
    BY <1>3, <1>4, <1>5, <1>6, <1>7, <1>8, <1>9, KeyOfListener DEF Leaves

(* Events are passed on to those who listen, about subjects of their kind.   *)
LEMMA SuccAddressed ==
  ASSUME NEW ev \in Addressed
  PROVE  Succ(ev) \subseteq Addressed
  <1>1. PICK l \in AllListeners, s \in Subjects : ev = <<l, s>>
    BY DEF Addressed, Events
  <1>2. l \in Listeners /\ RoutingKey(l) = Kind(s)
    BY <1>1 DEF Addressed
  <1>3. ASSUME NEW m \in Listeners, NEW t \in Subjects, RoutingKey(m) = Kind(t)
        PROVE  <<m, t>> \in Addressed
    BY <1>3 DEF Addressed, Events, Listeners
  <1>4. /\ \A m \in PersonEnds \cup ({"reconcile_person"} \cap Listeners) :
             m \in Listeners /\ RoutingKey(m) = "person"
        /\ \A m \in UnitEnds : m \in Listeners /\ RoutingKey(m) = "org_unit"
        /\ \A m \in EngagementEnds : m \in Listeners /\ RoutingKey(m) = "engagement"
        /\ \A m \in Keyed("uuid") : m \in Listeners /\ RoutingKey(m) = "uuid"
    BY Keys DEF PersonEnds, UnitEnds, EngagementEnds, MappingsOf, Keyed
  <1>5. /\ PersonsOf(s) \subseteq Persons /\ UnitsOf(s) \subseteq Units
        /\ EngagementsOf(s) \subseteq Engagements /\ AccountsOf(s) \subseteq Accounts
        /\ Persons \cup Units \cup Engagements \cup Accounts \subseteq Subjects
    BY DEF PersonsOf, UnitsOf, EngagementsOf, AccountsOf, Subjects, Related
  <1>6. /\ (PersonEnds \cup ({"reconcile_person"} \cap Listeners)) \X PersonsOf(s) \subseteq Addressed
        /\ UnitEnds \X UnitsOf(s) \subseteq Addressed
        /\ EngagementEnds \X EngagementsOf(s) \subseteq Addressed
        /\ Keyed("uuid") \X AccountsOf(s) \subseteq Addressed
    BY <1>3, <1>4, <1>5, Kinds
  <1>7. CASE l = "process_address"
    BY <1>1, <1>6, <1>7, SuccAddress
  <1>8. CASE l = "process_ituser"
    BY <1>1, <1>6, <1>8, SuccItuser
  <1>9. CASE l = "process_org_unit"
    BY <1>1, <1>6, <1>9, SuccUnit
  <1>10. CASE l = "process_engagement"
    BY <1>1, <1>6, <1>10, SuccEngagement
  <1>11. CASE l = "reconcile_person"
    BY <1>1, <1>6, <1>11, SuccReconcilePerson
  <1>12. CASE l = "reconcile_uuid"
    <2>1. s \in Accounts
      BY <1>2, <1>12, Keys, OfKind
    <2>2. CASE s \in scene.ignored \/ OwnerOf[s] = None
      BY <1>1, <1>12, <2>2, SuccReconcileUuid
    <2>3. CASE ~(s \in scene.ignored \/ OwnerOf[s] = None)
      <3>1. OwnerOf[s] \in Persons
        BY <2>1, <2>3, DomainAssumption
      <3>2. ({"process_person"} \cap Listeners) \X {OwnerOf[s]} \subseteq Addressed
        BY <3>1, <1>3, <1>5, Keys, Kinds
      <3>3. QED  BY <1>1, <1>12, <2>3, <3>2, SuccReconcileUuid
    <2>4. QED  BY <2>2, <2>3
  <1>13. CASE l \in Leaves
    BY <1>1, <1>13, SuccLeaf
  <1>14. QED
    BY <1>7, <1>8, <1>9, <1>10, <1>11, <1>12, <1>13, KeyOfListener DEF Leaves

LEMMA OnwardAddressed ==
  ASSUME NEW S, S \subseteq Addressed
  PROVE  Onward(S) \subseteq Addressed
  BY SuccAddressed, OnwardIsSucc

LEMMA EndClosed ==
  ASSUME NEW S, S \subseteq Addressed
  PROVE  /\ S \subseteq OnwardToEnd(S)
         /\ OnwardToEnd(S) \subseteq Addressed
         /\ \A x \in OnwardToEnd(S) : Succ(x) \subseteq OnwardToEnd(S)
  <1> DEFINE A == Onward(S)
             B == Onward(A)
             C == Onward(B)
             D == Onward(C)
  <1>1. OnwardToEnd(S) = D
    BY DEF OnwardToEnd
  <1>2. A \subseteq Addressed /\ B \subseteq Addressed /\ C \subseteq Addressed /\ D \subseteq Addressed
    BY OnwardAddressed
  <1>3. /\ \A x : x \in A <=> x \in S \/ \E ev \in S : x \in Succ(ev)
        /\ \A x : x \in B <=> x \in A \/ \E ev \in A : x \in Succ(ev)
        /\ \A x : x \in C <=> x \in B \/ \E ev \in B : x \in Succ(ev)
        /\ \A x : x \in D <=> x \in C \/ \E ev \in C : x \in Succ(ev)
    BY OnwardIsSucc
  <1> HIDE DEF A, B, C, D
  <1>4. ASSUME NEW x \in D, NEW y \in Succ(x)
        PROVE  y \in D
    <2>1. SUFFICES ASSUME x \notin C  PROVE FALSE
      BY <1>3, <1>4
    <2>2. PICK v \in C : x \in Succ(v) /\ v \notin B
      BY <1>3, <1>4, <2>1
    <2>3. PICK w \in B : v \in Succ(w) /\ w \notin A
      BY <1>3, <2>2
    <2>4. PICK z \in A : w \in Succ(z) /\ z \notin S
      BY <1>3, <2>3
    <2>5. PICK a \in S : z \in Succ(a)
      BY <1>3, <2>4
    <2>6. /\ Rank(y[1]) < Rank(x[1]) /\ Rank(x[1]) < Rank(v[1])
          /\ Rank(v[1]) < Rank(w[1]) /\ Rank(w[1]) < Rank(z[1])
          /\ Rank(z[1]) < Rank(a[1])
      BY <1>2, <1>4, <2>2, <2>3, <2>4, <2>5, Descends DEF Addressed
    <2>7. /\ Rank(y[1]) \in 0 .. 3 /\ Rank(x[1]) \in 0 .. 3 /\ Rank(v[1]) \in 0 .. 3
          /\ Rank(w[1]) \in 0 .. 3 /\ Rank(z[1]) \in 0 .. 3 /\ Rank(a[1]) \in 0 .. 3
      BY RankIsSmall
    <2>8. QED  BY <2>6, <2>7
  <1>5. QED  BY <1>1, <1>2, <1>3, <1>4

LEMMA EndLeast ==
  ASSUME NEW S, NEW T, S \subseteq T, \A x \in T : Succ(x) \subseteq T
  PROVE  OnwardToEnd(S) \subseteq T
  <1>1. ASSUME NEW R, R \subseteq T
        PROVE  Onward(R) \subseteq T
    BY <1>1, OnwardIsSucc
  <1>2. QED
    BY <1>1 DEF OnwardToEnd

-----------------------------------------------------------------------------
(* What a change concerns, and what its events lead to.                      *)

Staff(U) == UNION {EngagementsOf(u) : u \in U}
Employed(E) == UNION {PersonsOf(e) : e \in E}
Within(U) == U \cup Staff(U) \cup Employed(Staff(U))

LEMMA DependOf ==
  /\ \A s \in Persons : Depend(s) = {s}
  /\ \A s \in Units : Depend(s) = Within({s})
  /\ \A s \in Engagements : Depend(s) = {s} \cup PersonsOf(s)
  /\ \A s \in Addresses \cup Itusers : Depend(s) = {s} \cup PersonsOf(s) \cup Within(UnitsOf(s))
  BY KindAssumption DEF Depend, Within, Staff, Employed, Related

LEMMA StaffOf ==
  ASSUME NEW U, NEW e
  PROVE  e \in Staff(U) <=> \E u \in U : e \in EngagementsOf(u)
  BY DEF Staff

LEMMA EmployedOf ==
  ASSUME NEW E, NEW p
  PROVE  p \in Employed(E) <=> \E e \in E : p \in PersonsOf(e)
  BY DEF Employed

LEMMA DependMember ==
  ASSUME NEW s \in Persons \cup Units \cup Related, NEW t \in Depend(s)
  PROVE  \/ t = s
         \/ t \in PersonsOf(s) /\ s \in Related
         \/ t \in UnitsOf(s) /\ s \in Addresses \cup Itusers
         \/ \E u \in Units : /\ u = s \/ (s \in Addresses \cup Itusers /\ u \in UnitsOf(s))
                             /\ t \in EngagementsOf(u)
         \/ \E u \in Units, e \in Engagements :
              /\ u = s \/ (s \in Addresses \cup Itusers /\ u \in UnitsOf(s))
              /\ e \in EngagementsOf(u) /\ t \in PersonsOf(e)
  <1>1. UnitsOf(s) \subseteq Units /\ (\A u : EngagementsOf(u) \subseteq Engagements)
    BY DEF UnitsOf, EngagementsOf
  <1>2. ASSUME NEW U \in SUBSET Units, t \in Within(U)
        PROVE  \/ t \in U
               \/ \E u \in U : t \in EngagementsOf(u)
               \/ \E u \in U, e \in Engagements : e \in EngagementsOf(u) /\ t \in PersonsOf(e)
    BY <1>1, <1>2, StaffOf, EmployedOf DEF Within
  <1>3. CASE s \in Persons
    BY <1>3, DependOf
  <1>4. CASE s \in Units
    <2>1. t \in Within({s}) /\ {s} \in SUBSET Units
      BY <1>4, DependOf
    <2>2. QED  BY <1>2, <1>4, <2>1
  <1>5. CASE s \in Engagements
    BY <1>5, DependOf DEF Related
  <1>6. CASE s \in Addresses \cup Itusers
    BY <1>1, <1>2, <1>6, DependOf DEF Related
  <1>7. QED
    BY <1>3, <1>4, <1>5, <1>6 DEF Related

LEMMA DependHas ==
  ASSUME NEW s \in Persons \cup Units \cup Related
  PROVE  /\ s \in Depend(s)
         /\ s \in Related => PersonsOf(s) \subseteq Depend(s)
         /\ s \in Addresses \cup Itusers => UnitsOf(s) \subseteq Depend(s)
         /\ \A u \in Units : u = s \/ (s \in Addresses \cup Itusers /\ u \in UnitsOf(s)) =>
              \A e \in EngagementsOf(u) : e \in Depend(s) /\ PersonsOf(e) \subseteq Depend(s)
  <1>1. ASSUME NEW U, NEW u \in U, NEW e \in EngagementsOf(u)
        PROVE  u \in Within(U) /\ e \in Within(U) /\ PersonsOf(e) \subseteq Within(U)
    BY StaffOf, EmployedOf DEF Within
  <1>2. \A U : U \subseteq Within(U)
    BY DEF Within
  <1>3. CASE s \in Persons
    BY <1>3, DependOf, KindAssumption DEF Related
  <1>4. CASE s \in Units
    <2>1. Depend(s) = Within({s}) /\ s \in {s} /\ s \notin Related
      BY <1>4, DependOf, KindAssumption
    <2>2. s \in Depend(s)
      BY <1>2, <2>1
    <2>3. \A e \in EngagementsOf(s) : e \in Depend(s) /\ PersonsOf(e) \subseteq Depend(s)
      BY <1>1, <2>1
    <2>4. QED  BY <2>1, <2>2, <2>3 DEF Related
  <1>5. CASE s \in Engagements
    BY <1>5, DependOf, KindAssumption DEF Related
  <1>6. CASE s \in Addresses \cup Itusers
    <2>1. Depend(s) = {s} \cup PersonsOf(s) \cup Within(UnitsOf(s))
      BY <1>6, DependOf
    <2>2. s \notin Units
      BY <1>6, KindAssumption DEF Related
    <2>3. QED  BY <1>1, <1>2, <2>1, <2>2
  <1>7. QED
    BY <1>3, <1>4, <1>5, <1>6 DEF Related

(* Whoever a change concerns is reached from the events that tell of it.     *)
LEMMA MoListens ==
  ASSUME NEW l \in Listeners, RoutingKey(l) # "uuid"
  PROVE  /\ "mo" \in scene.listening
         /\ {"process_address", "process_engagement", "process_ituser", "process_person",
             "reconcile_person", "process_org_unit"} \cup Mappings \subseteq Listeners
  <1>1. "mo" \in scene.listening
    BY Keys DEF Listeners, UuidListeners
  <1>2. QED
    BY <1>1, Keys, StaticListeners DEF Listeners, UuidListeners, AllListeners

LEMMA NoticesAddressed ==
  ASSUME NEW s \in Subjects
  PROVE  Notices(s) \subseteq Addressed
  BY DEF Notices, Addressed, Events, Keyed, Listeners

LEMMA ToLdapPairs ==
  ASSUME NEW S, NEW ev \in ToLdap(S)
  PROVE  \E l \in ({"process_person"} \cup Mappings) \cap Listeners, t \in S :
           /\ ev = <<l, t>> /\ RoutingKey(l) = Kind(t)
           /\ ~(l = "process_person" /\ t \in scene.ignored)
  <1>1. PICK l \in ({"process_person"} \cup Mappings) \cap Listeners, t \in S : ev = <<l, t>>
    BY DEF ToLdap, ToLdapBy
  <1>2. /\ RoutingKey(ev[1]) = Kind(ev[2])
        /\ ~(ev[1] = "process_person" /\ ev[2] \in scene.ignored)
    BY DEF ToLdap, ToLdapBy
  <1>3. QED  BY <1>1, <1>2

LEMMA DependReached ==
  ASSUME NEW s \in Persons \cup Units \cup Related
  PROVE  ToLdap(Depend(s)) \subseteq OnwardToEnd(Notices(s))
  <1> DEFINE R == OnwardToEnd(Notices(s))
  <1>0. s \in Subjects
    BY DEF Subjects
  <1>1. Notices(s) \subseteq R /\ \A x \in R : Succ(x) \subseteq R
    BY <1>0, NoticesAddressed, EndClosed
  <1> HIDE DEF R
  <1> SUFFICES ASSUME NEW ev \in ToLdap(Depend(s))
               PROVE  ev \in R
    BY DEF R
  <1> PICK l \in ({"process_person"} \cup Mappings) \cap Listeners, t \in Depend(s) :
        ev = <<l, t>> /\ RoutingKey(l) = Kind(t)
    BY ToLdapPairs
  <1> SUFFICES <<l, t>> \in R
    OBVIOUS
  <1>2. RoutingKey(l) # "uuid"
    BY Keys
  <1>3. {"process_address", "process_engagement", "process_ituser", "process_person",
         "reconcile_person", "process_org_unit"} \cup Mappings \subseteq Listeners
    BY <1>2, MoListens
  <1>4. \A m \in Listeners : RoutingKey(m) = Kind(s) => <<m, s>> \in R
    BY <1>1 DEF Notices, Keyed
  <1>5. ASSUME NEW o \in Related, o \in Engagements => <<"process_engagement", o>> \in R,
               o \in Addresses => <<"process_address", o>> \in R,
               o \in Itusers => <<"process_ituser", o>> \in R,
               NEW p \in PersonsOf(o), RoutingKey(l) = "person"
        PROVE  <<l, p>> \in R
    <2>1. l \in PersonEnds
      BY <1>5, Keys DEF PersonEnds, MappingsOf
    <2>2. CASE o \in Engagements
      BY <1>1, <1>5, <2>1, <2>2, SuccEngagement
    <2>3. CASE o \in Addresses
      BY <1>1, <1>5, <2>1, <2>3, SuccAddress
    <2>4. CASE o \in Itusers
      BY <1>1, <1>5, <2>1, <2>4, SuccItuser
    <2>5. QED  BY <2>2, <2>3, <2>4 DEF Related
  <1>6. s \in Related => /\ s \in Engagements => <<"process_engagement", s>> \in R
                         /\ s \in Addresses => <<"process_address", s>> \in R
                         /\ s \in Itusers => <<"process_ituser", s>> \in R
    BY <1>3, <1>4, Keys, Kinds
  <1>7. ASSUME NEW u \in Units, u = s \/ (s \in Addresses \cup Itusers /\ u \in UnitsOf(s)),
               NEW m \in {"process_org_unit"} \cup MappingsOf("org_unit")
        PROVE  <<m, u>> \in R
    <2>1. m \in UnitEnds /\ RoutingKey(m) = "org_unit"
      BY <1>3, Keys DEF UnitEnds, MappingsOf
    <2>2. CASE u = s
      BY <1>3, <1>4, <2>1, <2>2, Kinds DEF UnitEnds
    <2>3. CASE s \in Addresses /\ u \in UnitsOf(s)
      BY <1>1, <1>6, <2>1, <2>3, SuccAddress DEF Related
    <2>4. CASE s \in Itusers /\ u \in UnitsOf(s)
      BY <1>1, <1>6, <2>1, <2>4, SuccItuser DEF Related
    <2>5. QED  BY <1>7, <2>2, <2>3, <2>4
  <1>8. ASSUME NEW u \in Units, u = s \/ (s \in Addresses \cup Itusers /\ u \in UnitsOf(s)),
               NEW e \in EngagementsOf(u),
               NEW m \in {"process_engagement"} \cup MappingsOf("engagement")
        PROVE  <<m, e>> \in R
    <2>1. m \in EngagementEnds
      BY <1>3, Keys DEF EngagementEnds, MappingsOf
    <2>2. <<"process_org_unit", u>> \in R
      BY <1>7, <1>8
    <2>3. QED  BY <1>1, <2>1, <2>2, SuccUnit
  <1>9. CASE t = s
    BY <1>4, <1>9
  <1>10. CASE t \in PersonsOf(s) /\ s \in Related
    <2>1. RoutingKey(l) = "person"
      BY <1>10, Kinds DEF PersonsOf
    <2>2. QED  BY <1>5, <1>6, <1>10, <2>1
  <1>11. CASE t \in UnitsOf(s) /\ s \in Addresses \cup Itusers
    <2>1. t \in Units /\ RoutingKey(l) = "org_unit"
      BY <1>11, Kinds DEF UnitsOf
    <2>2. l \in MappingsOf("org_unit")
      BY <2>1, Keys DEF MappingsOf
    <2>3. QED  BY <1>7, <1>11, <2>1, <2>2
  <1>12. CASE \E u \in Units : /\ u = s \/ (s \in Addresses \cup Itusers /\ u \in UnitsOf(s))
                               /\ t \in EngagementsOf(u)
    <2>1. RoutingKey(l) = "engagement"
      BY <1>12, Kinds DEF EngagementsOf
    <2>2. l \in MappingsOf("engagement")
      BY <2>1, Keys DEF MappingsOf
    <2>3. QED  BY <1>8, <1>12, <2>2
  <1>13. CASE \E u \in Units, e \in Engagements :
                /\ u = s \/ (s \in Addresses \cup Itusers /\ u \in UnitsOf(s))
                /\ e \in EngagementsOf(u) /\ t \in PersonsOf(e)
    <2>1. PICK u \in Units, e \in Engagements :
                /\ u = s \/ (s \in Addresses \cup Itusers /\ u \in UnitsOf(s))
                /\ e \in EngagementsOf(u) /\ t \in PersonsOf(e)
      BY <1>13
    <2>2. RoutingKey(l) = "person"
      BY <2>1, Kinds DEF PersonsOf
    <2>3. <<"process_engagement", e>> \in R
      BY <1>8, <2>1
    <2>4. e \in Related /\ e \notin Addresses /\ e \notin Itusers
      BY KindAssumption DEF Related
    <2>5. QED  BY <1>5, <2>1, <2>2, <2>3, <2>4
  <1>14. QED
    BY <1>9, <1>10, <1>11, <1>12, <1>13, DependMember

LEMMA ToMoPairs ==
  ASSUME NEW S, NEW ev \in ToMo(S)
  PROVE  \E x \in S : x \notin scene.ignored /\ ev = <<"process_uuid", x>> /\ "process_uuid" \in Listeners
  BY DEF ToMo

LEMMA StrayedMember ==
  ASSUME NEW s, NEW x
  PROVE  x \in StrayedOf(s) <=>
           \E p \in (IF s \in Persons THEN {s}
                     ELSE IF s \in Addresses THEN PersonsOf(s) ELSE {}) \ scene.ignored :
             x \in AccountsOf(p)
  BY DEF StrayedOf

LEMMA StrayedReached ==
  ASSUME NEW s \in Persons \cup Units \cup Related, "mo" \in scene.listening
  PROVE  ToMo(StrayedOf(s)) \subseteq OnwardToEnd(Notices(s))
  <1> DEFINE R == OnwardToEnd(Notices(s))
  <1>0. s \in Subjects
    BY DEF Subjects
  <1>1. Notices(s) \subseteq R /\ \A x \in R : Succ(x) \subseteq R
    BY <1>0, NoticesAddressed, EndClosed
  <1> HIDE DEF R
  <1>2. SUFFICES ASSUME NEW x \in StrayedOf(s), "process_uuid" \in Listeners
                 PROVE  <<"process_uuid", x>> \in R
    BY ToMoPairs DEF R
  <1>3. PICK p \in (IF s \in Persons THEN {s}
                    ELSE IF s \in Addresses THEN PersonsOf(s) ELSE {}) \ scene.ignored :
             x \in AccountsOf(p)
    BY StrayedMember
  <1>4. "reconcile_person" \in Listeners /\ "process_address" \in Listeners
    BY StaticListeners DEF Listeners, AllListeners, UuidListeners
  <1>5. <<"reconcile_person", p>> \in R
    <2>1. CASE s \in Persons
      BY <1>1, <1>3, <1>4, <2>1, Keys, Kinds DEF Notices, Keyed
    <2>2. CASE s \notin Persons
      <3>1. s \in Addresses /\ p \in PersonsOf(s)
        BY <1>3, <2>2
      <3>2. <<"process_address", s>> \in R
        BY <1>1, <1>4, <3>1, Keys, Kinds DEF Notices, Keyed
      <3>3. <<"reconcile_person", p>> \in Succ(<<"process_address", s>>)
        BY <1>4, <3>1, SuccAddress
      <3>4. QED  BY <1>1, <3>2, <3>3
    <2>3. QED  BY <2>1, <2>2
  <1>6. <<"process_uuid", x>> \in Succ(<<"reconcile_person", p>>)
    BY <1>2, <1>3, SuccReconcilePerson, KeyedUuid
  <1>7. QED  BY <1>1, <1>5, <1>6

LEMMA ConcernsReached ==
  ASSUME NEW s \in Subjects
  PROVE  Concerns(s) \subseteq OnwardToEnd(Notices(s))
  <1>1. CASE s \notin Accounts
    <2>1. s \in Persons \cup Units \cup Related
      BY <1>1 DEF Subjects
    <2>2. QED  BY <1>1, <2>1, DependReached, StrayedReached DEF Concerns
  <1>2. CASE s \in Accounts
    <2> DEFINE R == OnwardToEnd(Notices(s))
    <2>1. Notices(s) \subseteq R /\ \A x \in R : Succ(x) \subseteq R
      BY NoticesAddressed, EndClosed
    <2> HIDE DEF R
    <2>2. ToMo({s}) \subseteq R
      BY <1>2, <2>1, ToMoPairs, Keys, Kinds DEF Notices, Keyed
    <2>3. ASSUME s \notin scene.ignored, "ldap" \in scene.listening,
                 NEW ev \in ToLdapBy({"process_person"}, {OwnerOf[s]} \ {None})
          PROVE  ev \in R
      <3>1. /\ ev = <<"process_person", OwnerOf[s]>> /\ "process_person" \in Listeners
            /\ OwnerOf[s] # None
        BY DEF ToLdapBy
      <3>2. "reconcile_uuid" \in Listeners
        BY <2>3, StaticListeners DEF Listeners, AllListeners, UuidListeners
      <3>3. <<"reconcile_uuid", s>> \in R
        BY <1>2, <2>1, <3>2, Keys, Kinds DEF Notices, Keyed
      <3>4. ev \in Succ(<<"reconcile_uuid", s>>)
        BY <2>3, <3>1, SuccReconcileUuid
      <3>5. QED  BY <2>1, <3>3, <3>4
    <2>4. QED
      BY <1>2, <2>2, <2>3 DEF Concerns, R
  <1>3. QED  BY <1>1, <1>2

(* It is handlings at the ends, of what is not ignored.                      *)
LEMMA ToLdapWanted ==
  ASSUME NEW S \in SUBSET Subjects
  PROVE  ToLdap(S) \subseteq Wanted
  <1> SUFFICES ASSUME NEW ev \in ToLdap(S)  PROVE ev \in Wanted
    OBVIOUS
  <1>1. PICK l \in ({"process_person"} \cup Mappings) \cap Listeners, t \in S :
           /\ ev = <<l, t>> /\ RoutingKey(l) = Kind(t)
           /\ ~(l = "process_person" /\ t \in scene.ignored)
    BY ToLdapPairs
  <1>2. ev \in Addressed /\ ev[1] = l /\ ev[2] = t
    BY <1>1 DEF Addressed, Events, Listeners
  <1>3. QED
    BY <1>1, <1>2 DEF Wanted, Leaves

LEMMA ToMoWanted ==
  ASSUME NEW S \in SUBSET Accounts
  PROVE  ToMo(S) \subseteq Wanted
  <1> SUFFICES ASSUME NEW ev \in ToMo(S)  PROVE ev \in Wanted
    OBVIOUS
  <1>1. PICK x \in S : x \notin scene.ignored /\ ev = <<"process_uuid", x>> /\ "process_uuid" \in Listeners
    BY ToMoPairs
  <1>2. ev \in Addressed /\ ev[1] = "process_uuid" /\ ev[2] = x
    BY <1>1, Keys, Kinds DEF Addressed, Events, Listeners, Subjects
  <1>3. QED
    BY <1>1, <1>2 DEF Wanted, Leaves

LEMMA DependSubjects ==
  ASSUME NEW s \in Persons \cup Units \cup Related
  PROVE  Depend(s) \subseteq Subjects
  <1>1. ASSUME NEW t \in Depend(s)  PROVE t \in Subjects
    BY DependMember DEF Subjects, Related, PersonsOf, UnitsOf, EngagementsOf
  <1>2. QED  BY <1>1

LEMMA ConcernsWanted ==
  ASSUME NEW s \in Subjects
  PROVE  Concerns(s) \subseteq Wanted
  <1>1. CASE s \notin Accounts
    <2>1. s \in Persons \cup Units \cup Related
      BY <1>1 DEF Subjects
    <2>2. StrayedOf(s) \subseteq Accounts
      BY StrayedMember DEF AccountsOf
    <2>3. QED  BY <1>1, <2>1, <2>2, DependSubjects, ToLdapWanted, ToMoWanted DEF Concerns
  <1>2. CASE s \in Accounts
    <2>1. ToMo({s}) \subseteq Wanted
      BY <1>2, ToMoWanted
    <2>2. ToLdapBy({"process_person"}, {OwnerOf[s]} \ {None}) \subseteq ToLdap({OwnerOf[s]} \ {None})
      BY DEF ToLdap, ToLdapBy
    <2>3. {OwnerOf[s]} \ {None} \subseteq Subjects
      BY <1>2, DomainAssumption DEF Subjects
    <2>4. QED  BY <1>2, <2>1, <2>2, <2>3, ToLdapWanted DEF Concerns
  <1>3. QED  BY <1>1, <1>2

(* The events about a related object lead to nobody else than it concerns.   *)
LedTo(o) ==
  {ev \in Addressed :
     \/ /\ ev[2] \in Depend(o)
        /\ ev[1] = "reconcile_person" => o \in Addresses /\ ev[2] \in PersonsOf(o)
     \/ /\ o \in Addresses
        /\ \E p \in PersonsOf(o) \ scene.ignored : ev[2] \in AccountsOf(p)}

LEMMA LedToClosed ==
  ASSUME NEW o \in Related, NEW ev \in LedTo(o)
  PROVE  Succ(ev) \subseteq LedTo(o)
  <1>1. PICK l \in Listeners, s \in Subjects : ev = <<l, s>> /\ RoutingKey(l) = Kind(s)
    BY DEF LedTo, Addressed, Events
  <1>2. \/ /\ s \in Depend(o)
           /\ l = "reconcile_person" => o \in Addresses /\ s \in PersonsOf(o)
        \/ o \in Addresses /\ \E p \in PersonsOf(o) \ scene.ignored : s \in AccountsOf(p)
    BY <1>1 DEF LedTo
  <1>3. ev \in Addressed /\ Succ(ev) \subseteq Addressed
    BY SuccAddressed DEF LedTo
  <1>4. SUFFICES ASSUME NEW x \in Succ(ev)
                 PROVE  \/ /\ x[2] \in Depend(o)
                           /\ x[1] = "reconcile_person" => o \in Addresses /\ x[2] \in PersonsOf(o)
                        \/ /\ o \in Addresses
                           /\ \E p \in PersonsOf(o) \ scene.ignored : x[2] \in AccountsOf(p)
    BY <1>3 DEF LedTo
  <1>5. "reconcile_person" \notin PersonEnds \cup UnitEnds \cup EngagementEnds
    BY Keys DEF PersonEnds, UnitEnds, EngagementEnds, MappingsOf
  <1>6. s \notin Accounts => s \in Depend(o) /\ (l = "reconcile_person" => o \in Addresses /\ s \in PersonsOf(o))
    BY <1>2 DEF AccountsOf
  <1>7. o \notin Persons \cup Units \cup Accounts
    BY KindAssumption
  <1>8. s \in Related /\ s \in Depend(o) =>
          \/ s = o
          \/ \E u \in Units : o \in Addresses \cup Itusers /\ u \in UnitsOf(o) /\ s \in EngagementsOf(u)
    BY <1>7, DependMember, KindAssumption DEF PersonsOf, UnitsOf
  <1>9. s \in Units /\ s \in Depend(o) => o \in Addresses \cup Itusers /\ s \in UnitsOf(o)
    BY <1>7, DependMember, KindAssumption DEF PersonsOf, EngagementsOf, Related
  <1>10. CASE l = "process_address"
    <2>1. s \in Addresses
      BY <1>1, <1>10, Keys, OfKind
    <2>2. s = o
      BY <1>6, <1>8, <2>1, KindAssumption DEF Related, EngagementsOf
    <2>3. x \in ((PersonEnds \cup ({"reconcile_person"} \cap Listeners)) \X PersonsOf(s))
                   \cup (UnitEnds \X UnitsOf(s))
      BY <1>1, <1>10, SuccAddress
    <2>4. QED  BY <1>5, <2>1, <2>2, <2>3, DependHas
  <1>11. CASE l = "process_ituser"
    <2>1. s \in Itusers
      BY <1>1, <1>11, Keys, OfKind
    <2>2. s = o
      BY <1>6, <1>8, <2>1, KindAssumption DEF Related, EngagementsOf
    <2>3. x \in (PersonEnds \X PersonsOf(s)) \cup (UnitEnds \X UnitsOf(s))
      BY <1>1, <1>11, SuccItuser
    <2>4. QED  BY <1>5, <2>1, <2>2, <2>3, DependHas
  <1>12. CASE l = "process_org_unit"
    <2>1. s \in Units
      BY <1>1, <1>12, Keys, OfKind
    <2>2. o \in Addresses \cup Itusers /\ s \in UnitsOf(o)
      BY <1>6, <1>9, <2>1, KindAssumption
    <2>3. x \in EngagementEnds \X EngagementsOf(s)
      BY <1>1, <1>12, SuccUnit
    <2>4. QED  BY <1>5, <2>1, <2>2, <2>3, DependHas
  <1>13. CASE l = "process_engagement"
    <2>1. s \in Engagements
      BY <1>1, <1>13, Keys, OfKind
    <2>2. \/ s = o
          \/ \E u \in Units : o \in Addresses \cup Itusers /\ u \in UnitsOf(o) /\ s \in EngagementsOf(u)
      BY <1>6, <1>8, <2>1, KindAssumption DEF Related
    <2>3. PersonsOf(s) \subseteq Depend(o)
      BY <2>2, DependHas
    <2>4. x \in PersonEnds \X PersonsOf(s)
      BY <1>1, <1>13, SuccEngagement
    <2>5. QED  BY <1>5, <2>3, <2>4
  <1>14. CASE l = "reconcile_person"
    <2>1. s \in Persons
      BY <1>1, <1>14, Keys, OfKind
    <2>2. o \in Addresses /\ s \in PersonsOf(o)
      BY <1>6, <1>14, <2>1, KindAssumption
    <2>3. s \notin scene.ignored /\ x \in Keyed("uuid") \X AccountsOf(s)
      BY <1>1, <1>14, SuccReconcilePerson
    <2>4. QED  BY <2>2, <2>3
  <1>15. CASE l = "reconcile_uuid"
    <2>1. s \in Accounts
      BY <1>1, <1>15, Keys, OfKind
    <2>2. s \notin Depend(o)
      BY <1>7, <2>1, DependMember, KindAssumption DEF PersonsOf, UnitsOf, EngagementsOf, Related
    <2>3. o \in Addresses /\ OwnerOf[s] \in PersonsOf(o)
      BY <1>2, <2>2 DEF AccountsOf
    <2>4. x \in ({"process_person"} \cap Listeners) \X {OwnerOf[s]}
      BY <1>1, <1>15, SuccReconcileUuid
    <2>5. x[1] = "process_person" /\ x[2] = OwnerOf[s]
      BY <2>4
    <2>6. QED  BY <2>3, <2>5, DependHas
  <1>16. CASE l \in Leaves
    BY <1>1, <1>16, SuccLeaf
  <1>17. QED
    BY <1>10, <1>11, <1>12, <1>13, <1>14, <1>15, <1>16, KeyOfListener DEF Leaves, Listeners

LEMMA OnlyConcerned ==
  ASSUME NEW o \in Related
  PROVE  OnwardToEnd(Notices(o)) \cap Wanted \subseteq Concerns(o)
  <1>0. o \in Subjects /\ o \notin Persons \cup Units \cup Accounts
    BY KindAssumption DEF Subjects
  <1>1. CASE "mo" \notin scene.listening
    <2>1. Notices(o) = {}
      <3>1. Kind(o) # "uuid"
        BY <1>0, OfKind
      <3>2. Keyed(Kind(o)) = {}
        BY <1>1, <3>1, MoListens DEF Keyed
      <3>3. QED  BY <3>2 DEF Notices
    <2>2. OnwardToEnd(Notices(o)) \subseteq {}
      BY <2>1, EndLeast
    <2>3. QED  BY <2>2
  <1>2. CASE "mo" \in scene.listening
    <2>1. Notices(o) \subseteq LedTo(o)
      <3>1. Notices(o) \subseteq Addressed
        BY <1>0, NoticesAddressed
      <3>2. ASSUME NEW ev \in Notices(o)
            PROVE  ev[2] = o /\ ev[1] # "reconcile_person"
        BY <1>0, Keys, OfKind DEF Notices, Keyed
      <3>3. QED  BY <3>1, <3>2, DependHas DEF LedTo
    <2>2. OnwardToEnd(Notices(o)) \subseteq LedTo(o)
      BY <2>1, LedToClosed, EndLeast
    <2>3. ASSUME NEW ev \in LedTo(o), ev \in Wanted
          PROVE  ev \in ToLdap(Depend(o)) \cup ToMo(StrayedOf(o))
      <3>1. PICK l \in Listeners, s \in Subjects : ev = <<l, s>> /\ RoutingKey(l) = Kind(s)
        BY DEF LedTo, Addressed, Events
      <3>2. CASE l = "process_uuid"
        <4>1. s \in Accounts /\ s \notin scene.ignored
          BY <2>3, <3>1, <3>2, Keys, OfKind DEF Wanted
        <4>2. s \notin Depend(o)
          BY <1>0, <4>1, DependMember, KindAssumption DEF PersonsOf, UnitsOf, EngagementsOf, Related
        <4>3. s \in StrayedOf(o)
          BY <1>0, <3>1, <4>2, StrayedMember DEF LedTo
        <4>4. QED  BY <3>1, <3>2, <4>1, <4>3 DEF ToMo
      <3>3. CASE l \in {"process_person"} \cup Mappings
        <4>1. s \notin Accounts
          BY <3>1, <3>3, Keys, Kinds
        <4>2. s \in Depend(o)
          BY <3>1, <4>1 DEF LedTo, AccountsOf
        <4>3. l = "process_person" => s \notin scene.ignored
          BY <2>3, <3>1, Keys DEF Wanted
        <4>4. QED  BY <3>1, <3>3, <4>2, <4>3 DEF ToLdap, ToLdapBy
      <3>4. QED  BY <2>3, <3>1, <3>2, <3>3 DEF Wanted, Leaves
    <2>4. QED
      BY <1>0, <1>2, <2>2, <2>3 DEF Concerns
  <1>3. QED  BY <1>1, <1>2

-----------------------------------------------------------------------------
(* Type correctness, and that events are about subjects of the right kind.   *)

LEMMA SameScene ==
  ASSUME scene' = scene
  PROVE  /\ Listeners' = Listeners /\ Addressed' = Addressed
         /\ ProperCall' = ProperCall /\ Wanted' = Wanted
         /\ \A s : Notices(s)' = Notices(s)
  <1>1. Listeners' = Listeners
    BY DEF Listeners
  <1>2. \A k : Keyed(k)' = Keyed(k)
    BY <1>1 DEF Keyed
  <1>3. Addressed' = Addressed
    BY <1>1 DEF Addressed
  <1>4. QED
    BY <1>1, <1>2, <1>3 DEF ProperCall, Wanted, Notices

LEMMA SameRelations ==
  ASSUME scene' = scene, relations' = relations
  PROVE  /\ \A c : Emitted(c)' = Emitted(c)
         /\ \A ev : Succ(ev)' = Succ(ev)
  <1>1. Listeners' = Listeners /\ \A k : Keyed(k)' = Keyed(k)
    BY DEF Listeners, Keyed
  <1>2. \A c : Emitted(c)' = Emitted(c)
    BY <1>1 DEF Emitted, EngagementsOf
  <1>3. \A ev : CallsFor(ev)' = CallsFor(ev)
    BY <1>1 DEF CallsFor, AddressCalls, EngagementCalls, ItuserCalls, OrgUnitCalls,
                ReconcilePersonCalls, ReconcileUuidCalls, Refreshes, Published, PersonsOf, UnitsOf
  <1>4. \A C : Answers(C)' = Answers(C)
    BY <1>2 DEF Answers
  <1>5. QED  BY <1>2, <1>3, <1>4 DEF Succ

LEMMA ProperEmits ==
  ASSUME NEW c \in ProperCall
  PROVE  Emitted(c) \subseteq Addressed
  <1>1. CASE c.to \subseteq Keyed("engagement")
    <2>1. ASSUME NEW l \in Keyed("engagement"), NEW e \in Engagements
          PROVE  <<l, e>> \in Addressed
      BY Kinds DEF Addressed, Events, Keyed, Listeners, Subjects, Related
    <2>2. Emitted(c) \subseteq Keyed("engagement") \X Engagements
      BY <1>1 DEF Emitted, EngagementsOf
    <2>3. QED  BY <2>1, <2>2
  <1>2. CASE ~(c.to \subseteq Keyed("engagement"))
    BY <1>2 DEF Emitted, ProperCall
  <1>3. QED  BY <1>1, <1>2

LEMMA RefreshesProper ==
  ASSUME NEW L, NEW S \in SUBSET Subjects, L \cap Keyed("engagement") = {},
         \A l \in L \cap Listeners, s \in S : RoutingKey(l) = Kind(s)
  PROVE  Refreshes(L, S) \subseteq ProperCall
  <1>1. ASSUME NEW l \in L \cap Listeners
        PROVE  [to |-> {l}, about |-> S] \in ProperCall
    <2>1. \A s \in S : <<l, s>> \in Addressed
      BY DEF Addressed, Events, Listeners
    <2>2. QED  BY <2>1 DEF ProperCall, Calls, Listeners
  <1>2. QED  BY <1>1 DEF Refreshes

LEMMA CallsProper ==
  ASSUME NEW ev \in Addressed
  PROVE  CallsFor(ev) \subseteq ProperCall
  <1>1. PICK l \in Listeners, s \in Subjects : ev = <<l, s>> /\ RoutingKey(l) = Kind(s)
    BY DEF Addressed, Events
  <1>2. /\ PersonsOf(s) \in SUBSET Subjects /\ PersonsOf(s) \subseteq Persons
        /\ UnitsOf(s) \in SUBSET Subjects /\ UnitsOf(s) \subseteq Units
    BY DEF PersonsOf, UnitsOf, Subjects
  <1>3. /\ \A m \in {"process_person", "reconcile_person"} \cup MappingsOf("person") : RoutingKey(m) = "person"
        /\ \A m \in {"process_org_unit"} \cup MappingsOf("org_unit") : RoutingKey(m) = "org_unit"
    BY Keys DEF MappingsOf
  <1>4. /\ Refreshes({"process_person"} \cup MappingsOf("person"), PersonsOf(s)) \subseteq ProperCall
        /\ Refreshes({"process_person", "reconcile_person"} \cup MappingsOf("person"), PersonsOf(s))
             \subseteq ProperCall
        /\ Refreshes({"process_org_unit"} \cup MappingsOf("org_unit"), UnitsOf(s)) \subseteq ProperCall
    BY <1>2, <1>3, Kinds, NotOfEngagements, RefreshesProper
  <1>5. CASE l = "process_address"
    BY <1>1, <1>4, <1>5 DEF CallsFor, AddressCalls
  <1>6. CASE l = "process_ituser"
    BY <1>1, <1>4, <1>6 DEF CallsFor, ItuserCalls
  <1>7. CASE l = "process_engagement"
    BY <1>1, <1>4, <1>7 DEF CallsFor, EngagementCalls
  <1>8. CASE l = "process_org_unit"
    <2>1. s \in Units
      BY <1>1, <1>8, Keys, OfKind
    <2>2. ASSUME NEW m \in EngagementEnds
          PROVE  [to |-> {m}, about |-> {s}] \in ProperCall
      BY <2>1, NotOfEngagements DEF ProperCall, Calls, EngagementEnds, Listeners
    <2>3. QED
      BY <1>1, <1>8, <2>2 DEF CallsFor, OrgUnitCalls, Refreshes, EngagementEnds
  <1>9. CASE l = "reconcile_person"
    <2>1. ASSUME NEW x \in AccountsOf(s)
          PROVE  [to |-> Keyed("uuid"), about |-> {x}] \in ProperCall
      <3>1. x \in Accounts /\ x \in Subjects
        BY DEF AccountsOf, Subjects
      <3>2. \A m \in Keyed("uuid") : <<m, x>> \in Addressed
        BY <3>1, Kinds DEF Keyed, Addressed, Events, Listeners
      <3>3. Keyed("uuid") # {} => ~(Keyed("uuid") \subseteq Keyed("engagement"))
        BY NotOfEngagements
      <3>4. [to |-> Keyed("uuid"), about |-> {x}] \in Calls /\ Keyed("uuid") \subseteq Listeners
        BY <3>1 DEF Calls, Keyed, Listeners
      <3>5. QED  BY <3>2, <3>3, <3>4 DEF ProperCall
    <2>2. QED
      BY <1>1, <1>9, <2>1 DEF CallsFor, ReconcilePersonCalls, Published
  <1>10. CASE l = "reconcile_uuid"
    <2>1. s \in Accounts
      BY <1>1, <1>10, Keys, OfKind
    <2>2. OwnerOf[s] # None => Refreshes({"process_person"}, {OwnerOf[s]}) \subseteq ProperCall
      <3>1. SUFFICES ASSUME OwnerOf[s] # None
                     PROVE  Refreshes({"process_person"}, {OwnerOf[s]}) \subseteq ProperCall
        OBVIOUS
      <3>2. OwnerOf[s] \in Persons /\ {OwnerOf[s]} \in SUBSET Subjects
        BY <2>1, <3>1, DomainAssumption DEF Subjects
      <3>3. QED
        BY <3>2, Keys, Kinds, NotOfEngagements, RefreshesProper
    <2>3. QED
      BY <1>1, <1>10, <2>2 DEF CallsFor, ReconcileUuidCalls
  <1>11. CASE l \in Leaves
    <2>1. CallsFor(<<l, s>>) = {}
      BY <1>11, Keys DEF CallsFor, Leaves
    <2>2. QED  BY <1>1, <2>1
  <1>12. QED
    BY <1>5, <1>6, <1>7, <1>8, <1>9, <1>10, <1>11, KeyOfListener DEF Leaves, Listeners

Typed == TypeOK /\ WellAddressed /\ OnlyWanted

LEMMA StepKinds ==
  ASSUME TypeOK, [Next]_vars
  PROVE  /\ scene' = scene
         /\ \/ UNCHANGED vars
            \/ \E h \in Handlers, ev \in waiting : Take(h, ev)
            \/ \E h \in Handlers : PassOn(h)
            \/ \E h \in Handlers : \E c \in calls[h] : Refresh(h, c)
            \/ \E h \in Handlers : Finish(h)
            \/ \E h \in Handlers : ProcessPerson(h) \/ ProcessMapping(h)
            \/ \E h \in Handlers : ProcessUuid(h)
            \/ \E h \in Handlers : Fail(h)
            \/ \E s \in Subjects : Change(s)
            \/ \E o \in Related, related \in SUBSET (Persons \cup Units) : Relate(o, related)
            \/ Close \/ Open
  <1>1. CASE UNCHANGED vars
    BY <1>1 DEF vars
  <1>2. CASE \E h \in Handlers : HandlerStep(h) \/ Fail(h)
    BY <1>2 DEF HandlerStep, Take, PassOn, Refresh, Finish, ProcessPerson, ProcessMapping,
                ProcessUuid, Fail
  <1>3. CASE \E s \in Persons \cup Units \cup Accounts : Change(s)
    BY <1>3 DEF Change, Subjects
  <1>4. CASE \E o \in Related : \E v \in Relations[o] : Extend(o, v) \/ Rewrite(o, v)
    <2>0. PICK o \in Related : \E v \in Relations[o] : Extend(o, v) \/ Rewrite(o, v)
      BY <1>4
    <2>1. PICK v \in Relations[o] : Extend(o, v) \/ Rewrite(o, v)
      BY <2>0
    <2>2. v \in SUBSET (Persons \cup Units)
      BY DomainAssumption
    <2>3. relations[o] \cup v \in SUBSET (Persons \cup Units)
      BY <2>2 DEF TypeOK
    <2>4. PICK related \in SUBSET (Persons \cup Units) : Relate(o, related)
      BY <2>1, <2>2, <2>3 DEF Extend, Rewrite
    <2>5. scene' = scene
      BY <2>4 DEF Relate
    <2>6. QED  BY <2>4, <2>5
  <1>5. CASE Close \/ Open
    BY <1>5 DEF Close, Open
  <1>6. QED  BY <1>1, <1>2, <1>3, <1>4, <1>5 DEF Next

LEMMA SceneTyped ==
  ASSUME TypeOK
  PROVE  scene.changes \in Nat /\ scene.faults \in Nat /\ scene.closings \in Nat
  BY BoundAssumption DEF TypeOK, Scene

LEMMA InitTyped == Init => Typed
  <1> SUFFICES ASSUME Init  PROVE Typed
    OBVIOUS
  <1>1. scene.changes \in Nat /\ scene.faults \in Nat /\ scene.closings \in Nat
    BY BoundAssumption DEF Init, Scene
  <1>2. TypeOK
    BY <1>1 DEF Init, TypeOK
  <1>3. WellAddressed /\ OnlyWanted
    BY DEF Init, WellAddressed, OnlyWanted, Busy
  <1>4. QED  BY <1>2, <1>3 DEF Typed

(* What a handler does at its end.                                           *)
LEMMA DoneTyped ==
  ASSUME Typed, scene' = scene, NEW h \in Handlers, Done(h)
  PROVE  /\ pc' \in [Handlers -> {"idle", "started", "refreshing"}]
         /\ event' \in [Handlers -> Events \cup {None}]
         /\ calls' \in [Handlers -> SUBSET Calls]
         /\ \A g \in Handlers :
              /\ Busy(g)' => event'[g] \in Addressed'
              /\ calls'[g] \subseteq ProperCall'
              /\ calls'[g] # {} => pc'[g] = "refreshing"
  <1>1. Addressed' = Addressed /\ ProperCall' = ProperCall
    BY SameScene
  <1>2. QED
    BY <1>1 DEF Typed, TypeOK, WellAddressed, Done, Busy

LEMMA EchoAddressed ==
  ASSUME NEW written \in SUBSET Subjects
  PROVE  Echo(written) \subseteq Addressed
  <1>1. ASSUME NEW x \in Echo(written)
        PROVE  \E s \in written : x \in Notices(s)
    BY DEF Echo
  <1>2. QED  BY <1>1, NoticesAddressed

LEMMA TakeTyped ==
  ASSUME Typed, scene' = scene, NEW h \in Handlers, NEW ev \in waiting, Take(h, ev)
  PROVE  Typed'
  <1>1. Addressed' = Addressed /\ ProperCall' = ProperCall /\ Wanted' = Wanted
    BY SameScene
  <1>2. ev \in Addressed /\ ev \in Events
    BY DEF Typed, WellAddressed, Addressed
  <1>3. TypeOK'
    BY <1>2 DEF Typed, TypeOK, Take, counters
  <1>4. WellAddressed' /\ OnlyWanted'
    BY <1>1, <1>2 DEF Typed, TypeOK, WellAddressed, OnlyWanted, Take, Busy
  <1>5. QED  BY <1>3, <1>4 DEF Typed

LEMMA PassOnTyped ==
  ASSUME Typed, scene' = scene, NEW h \in Handlers, PassOn(h)
  PROVE  Typed'
  <1>1. Addressed' = Addressed /\ ProperCall' = ProperCall /\ Wanted' = Wanted
    BY SameScene
  <1>2. event[h] \in Addressed
    BY DEF Typed, WellAddressed, Busy, PassOn
  <1>3. CallsFor(event[h]) \subseteq ProperCall /\ ProperCall \subseteq Calls
    BY <1>2, CallsProper DEF ProperCall
  <1>4. TypeOK'
    BY <1>3 DEF Typed, TypeOK, PassOn, counters
  <1>5. WellAddressed' /\ OnlyWanted'
    BY <1>1, <1>2, <1>3 DEF Typed, TypeOK, WellAddressed, OnlyWanted, PassOn, Busy
  <1>6. QED  BY <1>4, <1>5 DEF Typed

LEMMA RefreshTyped ==
  ASSUME Typed, scene' = scene, NEW h \in Handlers, NEW c \in calls[h], Refresh(h, c)
  PROVE  Typed'
  <1>1. Addressed' = Addressed /\ ProperCall' = ProperCall /\ Wanted' = Wanted
    BY SameScene
  <1>2. Emitted(c) \subseteq Addressed /\ Addressed \subseteq Events
    BY ProperEmits DEF Typed, WellAddressed, Addressed
  <1>3. TypeOK'
    BY <1>2 DEF Typed, TypeOK, Refresh, counters
  <1>4. WellAddressed' /\ OnlyWanted'
    BY <1>1, <1>2 DEF Typed, TypeOK, WellAddressed, OnlyWanted, Refresh, Busy
  <1>5. QED  BY <1>3, <1>4 DEF Typed

LEMMA FinishTyped ==
  ASSUME Typed, scene' = scene, NEW h \in Handlers, Finish(h)
  PROVE  Typed'
  <1>1. Addressed' = Addressed /\ ProperCall' = ProperCall /\ Wanted' = Wanted
    BY SameScene
  <1>2. TypeOK'
    BY DoneTyped DEF Typed, TypeOK, Finish, counters
  <1>3. WellAddressed' /\ OnlyWanted'
    BY <1>1, DoneTyped DEF Typed, WellAddressed, OnlyWanted, Finish
  <1>4. QED  BY <1>2, <1>3 DEF Typed

LEMMA FailTyped ==
  ASSUME Typed, scene' = scene, NEW h \in Handlers, Fail(h)
  PROVE  Typed'
  <1>1. Addressed' = Addressed /\ ProperCall' = ProperCall /\ Wanted' = Wanted
    BY SameScene
  <1>2. event[h] \in Addressed /\ event[h] \in Events /\ Done(h)
    BY DEF Typed, WellAddressed, Fail, GiveBack, Addressed
  <1>3. TypeOK'
    BY <1>2, DoneTyped, SceneTyped DEF Typed, TypeOK, Fail, GiveBack
  <1>4. WellAddressed' /\ OnlyWanted'
    BY <1>1, <1>2, DoneTyped DEF Typed, WellAddressed, OnlyWanted, Fail, GiveBack
  <1>5. QED  BY <1>3, <1>4 DEF Typed

(* The handlers at the ends: what is written comes back, and perhaps concerns *)
(* others.                                                                   *)
LEMMA EndTyped ==
  ASSUME Typed, scene' = scene, NEW h \in Handlers, Done(h), NEW written \in SUBSET Subjects,
         waiting' = waiting \cup Echo(written), stale' \subseteq Wanted,
         UNCHANGED <<scene, relations, open, counters, cut>>
  PROVE  Typed'
  <1>1. Addressed' = Addressed /\ ProperCall' = ProperCall /\ Wanted' = Wanted
    BY SameScene
  <1>2. Echo(written) \subseteq Addressed /\ Addressed \subseteq Events /\ Wanted \subseteq Events
    BY EchoAddressed DEF Addressed, Wanted
  <1>3. TypeOK'
    BY <1>2, DoneTyped DEF Typed, TypeOK, counters
  <1>4. WellAddressed' /\ OnlyWanted'
    BY <1>1, <1>2, DoneTyped DEF Typed, WellAddressed, OnlyWanted
  <1>5. QED  BY <1>3, <1>4 DEF Typed

LEMMA ProcessTyped ==
  ASSUME Typed, scene' = scene, NEW h \in Handlers, ProcessPerson(h) \/ ProcessMapping(h)
  PROVE  Typed'
  <1>1. stale' \subseteq Wanted
    BY DEF Typed, OnlyWanted, ProcessPerson, ProcessMapping
  <1>2. CASE ProcessPerson(h)
    <2>1. PICK written \in SUBSET Subjects : waiting' = waiting \cup Echo(written)
      BY <1>2 DEF ProcessPerson, AccountsOf, Subjects
    <2>2. QED  BY <1>1, <1>2, <2>1, EndTyped DEF ProcessPerson
  <1>3. CASE ProcessMapping(h)
    <2>1. PICK written \in SUBSET Subjects : waiting' = waiting \cup Echo(written)
      BY <1>3 DEF ProcessMapping, Subjects
    <2>2. QED  BY <1>1, <1>3, <2>1, EndTyped DEF ProcessMapping
  <1>4. QED  BY <1>2, <1>3

(* What http_process_uuid writes, and whom that concerns.                    *)
LEMMA UuidWrites ==
  ASSUME NEW h \in Handlers, ProcessUuid(h)
  PROVE  \E written \in SUBSET (Persons \cup Related) :
           /\ waiting' = waiting \cup Echo(written)
           /\ stale' = (stale \ {event[h]}) \cup UNION {ToLdap(Depend(s)) : s \in written}
  BY DomainAssumption DEF ProcessUuid

LEMMA ProcessUuidTyped ==
  ASSUME Typed, scene' = scene, NEW h \in Handlers, ProcessUuid(h)
  PROVE  Typed'
  <1>1. PICK written \in SUBSET (Persons \cup Related) :
           /\ waiting' = waiting \cup Echo(written)
           /\ stale' = (stale \ {event[h]}) \cup UNION {ToLdap(Depend(s)) : s \in written}
    BY UuidWrites
  <1>2. \A s \in written : ToLdap(Depend(s)) \subseteq Wanted
    BY DependSubjects, ToLdapWanted
  <1>3. UNION {ToLdap(Depend(s)) : s \in written} \subseteq Wanted
    BY <1>2
  <1>4. stale' \subseteq Wanted
    BY <1>1, <1>3 DEF Typed, OnlyWanted
  <1>5. written \in SUBSET Subjects
    BY DEF Subjects
  <1>6. QED  BY <1>1, <1>4, <1>5, EndTyped DEF ProcessUuid

LEMMA ChangeTyped ==
  ASSUME Typed, scene' = scene, NEW s \in Subjects, Change(s)
  PROVE  Typed'
  <1>1. Addressed' = Addressed /\ ProperCall' = ProperCall /\ Wanted' = Wanted
    BY SameScene
  <1>2. Notices(s) \subseteq Addressed /\ Addressed \subseteq Events
    BY NoticesAddressed DEF Addressed
  <1>3. Concerns(s) \subseteq Wanted /\ Wanted \subseteq Events
    BY ConcernsWanted DEF Wanted, Addressed
  <1>4. TypeOK'
    BY <1>2, <1>3, SceneTyped DEF Typed, TypeOK, Change
  <1>5. WellAddressed' /\ OnlyWanted'
    BY <1>1, <1>2, <1>3 DEF Typed, WellAddressed, OnlyWanted, Change, Busy
  <1>6. QED  BY <1>4, <1>5 DEF Typed

LEMMA AllConcernsWanted == \A s \in Subjects : Concerns(s) \subseteq Wanted
  BY ConcernsWanted

LEMMA NextConcernsWanted == (\A s \in Subjects : Concerns(s) \subseteq Wanted)'
  BY AllConcernsWanted, PTL

LEMMA RelateTyped ==
  ASSUME Typed, scene' = scene, NEW o \in Related, NEW related \in SUBSET (Persons \cup Units),
         Relate(o, related)
  PROVE  Typed'
  <1>0. o \in Subjects
    BY DEF Subjects
  <1>1. Addressed' = Addressed /\ ProperCall' = ProperCall /\ Wanted' = Wanted
    BY SameScene
  <1>2. Notices(o) \subseteq Addressed /\ Addressed \subseteq Events
    BY <1>0, NoticesAddressed DEF Addressed
  <1>3. Concerns(o) \subseteq Wanted /\ Concerns(o)' \subseteq Wanted /\ Wanted \subseteq Events
    BY <1>0, <1>1, ConcernsWanted, NextConcernsWanted DEF Wanted, Addressed
  <1>4. TypeOK'
    BY <1>2, <1>3, SceneTyped DEF Typed, TypeOK, Relate
  <1>5. WellAddressed' /\ OnlyWanted'
    BY <1>1, <1>2, <1>3 DEF Typed, WellAddressed, OnlyWanted, Relate, Busy
  <1>6. QED  BY <1>4, <1>5 DEF Typed

LEMMA NextTyped ==
  ASSUME Typed, [Next]_vars
  PROVE  Typed'
  <1>1. CASE UNCHANGED vars
    <2>1. Addressed' = Addressed /\ ProperCall' = ProperCall /\ Wanted' = Wanted
      BY <1>1, SameScene DEF vars
    <2>2. QED
      BY <1>1, <2>1 DEF Typed, TypeOK, WellAddressed, OnlyWanted, Busy, vars
  <1>2. CASE Close \/ Open
    <2>1. /\ UNCHANGED <<scene, relations, waiting, pc, event, calls, changes, faults, stale, cut>>
          /\ open' \in BOOLEAN
          /\ closings' = closings \/ (closings < scene.closings /\ closings' = closings + 1)
      BY <1>2 DEF Close, Open, counters
    <2>2. Addressed' = Addressed /\ ProperCall' = ProperCall /\ Wanted' = Wanted
      BY <2>1, SameScene
    <2>3. closings' \in 0 .. scene.closings
      BY <2>1, SceneTyped DEF Typed, TypeOK
    <2>4. TypeOK'
      BY <2>1, <2>3 DEF Typed, TypeOK
    <2>5. QED
      BY <2>1, <2>2, <2>4 DEF Typed, WellAddressed, OnlyWanted, Busy
  <1>3. QED
    BY <1>1, <1>2, StepKinds, TakeTyped, PassOnTyped, RefreshTyped, FinishTyped, FailTyped,
       ProcessTyped, ProcessUuidTyped, ChangeTyped, RelateTyped DEF Typed

(* The types of the variables.                                               *)
THEOREM TypeCorrect == Spec => []TypeOK
  <1>1. Typed /\ UNCHANGED vars => Typed'
    BY NextTyped
  <1>2. Typed => TypeOK
    BY DEF Typed
  <1>3. QED  BY InitTyped, NextTyped, <1>1, <1>2, PTL DEF Spec

-----------------------------------------------------------------------------
(* What is carried, and where that leads.                                    *)

Carries(F, x) ==
  \/ x \in waiting
  \/ \E h \in Handlers : pc[h] = "started" /\ x = event[h]
  \/ \E h \in F : pc[h] = "refreshing" /\ x = event[h]
  \/ \E h \in Handlers \ F : \E c \in calls[h] : x \in Emitted(c)

LEMMA CarriedMember ==
  \A F \in SUBSET Handlers : \A x : x \in CarriedIf(F) <=> Carries(F, x)
  <1> SUFFICES ASSUME NEW F \in SUBSET Handlers, NEW x
               PROVE  x \in CarriedIf(F) <=> Carries(F, x)
    OBVIOUS
  <1>1. x \in {event[h] : h \in {g \in Handlers : pc[g] = "started"}}
          <=> \E h \in Handlers : pc[h] = "started" /\ x = event[h]
    OBVIOUS
  <1>2. x \in {event[h] : h \in {g \in F : pc[g] = "refreshing"}}
          <=> \E h \in F : pc[h] = "refreshing" /\ x = event[h]
    OBVIOUS
  <1> DEFINE C == UNION {calls[h] : h \in Handlers \ F}
  <1>3. \A c : c \in C <=> \E h \in Handlers \ F : c \in calls[h]
    OBVIOUS
  <1> HIDE DEF C
  <1>4. x \in Answers(C) <=> \E h \in Handlers \ F : \E c \in calls[h] : x \in Emitted(c)
    BY <1>3, Answered
  <1>5. CarriedIf(F) = waiting \cup {event[h] : h \in {g \in Handlers : pc[g] = "started"}}
                         \cup {event[h] : h \in {g \in F : pc[g] = "refreshing"}}
                         \cup Answers(C)
    BY DEF CarriedIf, Answers, C
  <1>6. QED  BY <1>1, <1>2, <1>4, <1>5 DEF Carries

LEMMA CarriedMemberNext ==
  (\A F \in SUBSET Handlers : \A x : x \in CarriedIf(F) <=> Carries(F, x))'
  BY CarriedMember, PTL

Reached(F) == OnwardToEnd(CarriedIf(F))

LEMMA CarriedEnd ==
  WellAddressed =>
    \A F \in SUBSET Handlers :
      /\ CarriedIf(F) \subseteq Reached(F)
      /\ Reached(F) \subseteq Addressed
      /\ \A x \in Reached(F) : Succ(x) \subseteq Reached(F)
      /\ \A s \in Subjects : Notices(s) \subseteq waiting => Concerns(s) \subseteq Reached(F)
  <1> SUFFICES ASSUME WellAddressed, NEW F \in SUBSET Handlers
               PROVE  /\ CarriedIf(F) \subseteq Reached(F)
                      /\ Reached(F) \subseteq Addressed
                      /\ \A x \in Reached(F) : Succ(x) \subseteq Reached(F)
                      /\ \A s \in Subjects :
                           Notices(s) \subseteq waiting => Concerns(s) \subseteq Reached(F)
    OBVIOUS
  <1>1. CarriedIf(F) \subseteq Addressed
    <2>1. ASSUME NEW x, Carries(F, x)
          PROVE  x \in Addressed
      BY <2>1, ProperEmits DEF Carries, WellAddressed, Busy
    <2>2. QED  BY <2>1, CarriedMember
  <1>2. /\ CarriedIf(F) \subseteq Reached(F)
        /\ Reached(F) \subseteq Addressed
        /\ \A x \in Reached(F) : Succ(x) \subseteq Reached(F)
    BY <1>1, EndClosed DEF Reached
  <1>3. ASSUME NEW s \in Subjects, Notices(s) \subseteq waiting
        PROVE  Concerns(s) \subseteq Reached(F)
    <2>1. Notices(s) \subseteq Reached(F)
      BY <1>2, <1>3 DEF CarriedIf
    <2>2. OnwardToEnd(Notices(s)) \subseteq Reached(F)
      BY <1>2, <2>1, EndLeast
    <2>3. QED  BY <2>2, ConcernsReached
  <1>4. QED  BY <1>2, <1>3

LEMMA CarriedEndNext ==
  (WellAddressed =>
    \A F \in SUBSET Handlers :
      /\ CarriedIf(F) \subseteq Reached(F)
      /\ Reached(F) \subseteq Addressed
      /\ \A x \in Reached(F) : Succ(x) \subseteq Reached(F)
      /\ \A s \in Subjects : Notices(s) \subseteq waiting => Concerns(s) \subseteq Reached(F))'
  BY CarriedEnd, PTL

-----------------------------------------------------------------------------
(* Steps that leave the relations alone: events in E are done with, and what  *)
(* G's failure would leave is still carried if F fails.                      *)

LEMMA StillCarried ==
  ASSUME IndInv, WellAddressed', scene' = scene, relations' = relations, cut' = cut,
         NEW F \in SUBSET Handlers, NEW G \in SUBSET Handlers, NEW E,
         CarriedIf(G) \ E \subseteq Reached(F)',
         \A x \in E : Succ(x) \subseteq Reached(F)',
         stale' \subseteq stale \cup Reached(F)', stale' \cap E = {}
  PROVE  NothingLostIf(F)'
  <1> DEFINE R == Reached(F)'
             T == R \cup E
  <1>1. \A x \in R : Succ(x) \subseteq R
    <2>1. \A x \in R : Succ(x)' \subseteq R
      BY CarriedEndNext
    <2>2. QED  BY <2>1, SameRelations
  <1>2. CarriedIf(G) \subseteq T
    OBVIOUS
  <1>3. \A x \in T : Succ(x) \subseteq T
    BY <1>1
  <1> HIDE DEF T
  <1>4. OnwardToEnd(CarriedIf(G)) \subseteq T
    BY <1>2, <1>3, EndLeast
  <1>5. stale \ OnwardToEnd(CarriedIf(G)) \subseteq cut
    BY DEF IndInv, NothingLostIf
  <1>6. stale' \ R \subseteq cut'
    BY <1>4, <1>5 DEF T
  <1>7. QED  BY <1>6 DEF NothingLostIf, Reached

(* The same, when nothing is done with.                                      *)
LEMMA AllStillCarried ==
  ASSUME IndInv, WellAddressed', scene' = scene, relations' = relations, cut' = cut,
         NEW F \in SUBSET Handlers, NEW G \in SUBSET Handlers,
         CarriedIf(G) \subseteq Reached(F)', stale' \subseteq stale \cup Reached(F)'
  PROVE  NothingLostIf(F)'
  <1> DEFINE E == {}
  <1>1. /\ CarriedIf(G) \ E \subseteq Reached(F)'
        /\ \A x \in E : Succ(x) \subseteq Reached(F)'
        /\ stale' \cap E = {}
    OBVIOUS
  <1> HIDE DEF E
  <1>2. QED  BY <1>1, StillCarried

LEMMA TakeKeeps ==
  ASSUME IndInv, Typed', scene' = scene, NEW h \in Handlers, NEW ev \in waiting, Take(h, ev),
         NEW F \in SUBSET Handlers
  PROVE  NothingLostIf(F)'
  <1>1. ASSUME NEW x, Carries(F, x)
        PROVE  Carries(F, x)'
    BY <1>1, SameRelations DEF Carries, Take, IndInv, TypeOK, Busy
  <1>2. CarriedIf(F) \subseteq Reached(F)'
    BY <1>1, CarriedMember, CarriedMemberNext, CarriedEndNext DEF Typed
  <1>3. QED  BY <1>2, AllStillCarried DEF Take, Typed

LEMMA PassOnKeeps ==
  ASSUME IndInv, Typed', scene' = scene, NEW h \in Handlers, PassOn(h),
         NEW F \in SUBSET Handlers
  PROVE  NothingLostIf(F)'
  <1>1. CASE h \in F
    <2>1. ASSUME NEW x, Carries(F, x)
          PROVE  Carries(F, x)'
      BY <1>1, <2>1, SameRelations DEF Carries, PassOn, IndInv, TypeOK
    <2>2. CarriedIf(F) \subseteq Reached(F)'
      BY <2>1, CarriedMember, CarriedMemberNext, CarriedEndNext DEF Typed
    <2>3. QED  BY <2>2, AllStillCarried DEF PassOn, Typed
  <1>2. CASE h \notin F
    <2> DEFINE E == {event[h]}
    <2>1. calls[h] = {}
      BY DEF PassOn, IndInv, WellAddressed
    <2>2. ASSUME NEW x, Carries(F, x), x # event[h]
          PROVE  Carries(F, x)'
      BY <1>2, <2>1, <2>2, SameRelations DEF Carries, PassOn, IndInv, TypeOK
    <2>3. ASSUME NEW x \in Succ(event[h])
          PROVE  Carries(F, x)'
      <3>1. PICK c \in CallsFor(event[h]) : x \in Emitted(c)
        BY Answered DEF Succ
      <3>2. c \in calls'[h] /\ x \in Emitted(c)'
        BY <3>1, SameRelations DEF PassOn, IndInv, TypeOK
      <3>3. QED  BY <1>2, <3>2 DEF Carries
    <2>4. CarriedIf(F) \ E \subseteq Reached(F)' /\ Succ(event[h]) \subseteq Reached(F)'
      BY <2>2, <2>3, CarriedMember, CarriedMemberNext, CarriedEndNext DEF Typed
    <2>5. event[h] \notin stale
      BY DEF PassOn, IndInv, OnlyWanted, Wanted
    <2>6. \A x \in E : Succ(x) \subseteq Reached(F)'
      BY <2>4
    <2>7. scene' = scene /\ relations' = relations /\ cut' = cut /\ stale' = stale /\ stale' \cap E = {}
      BY <2>5 DEF PassOn
    <2> HIDE DEF E
    <2>8. QED  BY <2>4, <2>6, <2>7, StillCarried DEF Typed
  <1>3. QED  BY <1>1, <1>2

LEMMA RefreshKeeps ==
  ASSUME IndInv, Typed', scene' = scene, NEW h \in Handlers, NEW c \in calls[h], Refresh(h, c),
         NEW F \in SUBSET Handlers
  PROVE  NothingLostIf(F)'
  <1>1. ASSUME NEW x, Carries(F, x)
        PROVE  Carries(F, x)'
    BY <1>1, SameRelations DEF Carries, Refresh, IndInv, TypeOK
  <1>2. CarriedIf(F) \subseteq Reached(F)'
    BY <1>1, CarriedMember, CarriedMemberNext, CarriedEndNext DEF Typed
  <1>3. QED  BY <1>2, AllStillCarried DEF Refresh, Typed

LEMMA FinishKeeps ==
  ASSUME IndInv, Typed', scene' = scene, NEW h \in Handlers, Finish(h),
         NEW F \in SUBSET Handlers
  PROVE  NothingLostIf(F)'
  <1>1. ASSUME NEW x, Carries(F \ {h}, x)
        PROVE  Carries(F, x)'
    BY <1>1, SameRelations DEF Carries, Finish, Done, IndInv, TypeOK
  <1>2. CarriedIf(F \ {h}) \subseteq Reached(F)'
    BY <1>1, CarriedMember, CarriedMemberNext, CarriedEndNext DEF Typed
  <1>3. QED  BY <1>2, AllStillCarried DEF Finish, Typed

LEMMA FailKeeps ==
  ASSUME IndInv, Typed', scene' = scene, NEW h \in Handlers, Fail(h),
         NEW F \in SUBSET Handlers
  PROVE  NothingLostIf(F)'
  <1>1. ASSUME NEW x, Carries(F \cup {h}, x)
        PROVE  Carries(F, x)'
    BY <1>1, SameRelations DEF Carries, Fail, GiveBack, Done, IndInv, TypeOK
  <1>2. CarriedIf(F \cup {h}) \subseteq Reached(F)'
    BY <1>1, CarriedMember, CarriedMemberNext, CarriedEndNext DEF Typed
  <1>3. QED  BY <1>2, AllStillCarried DEF Fail, Typed

(* A handler at an end has done its event, and leads nowhere.                 *)
LEMMA EndKeeps ==
  ASSUME IndInv, Typed', scene' = scene, relations' = relations, cut' = cut,
         NEW h \in Handlers, pc[h] = "started", event[h][1] \in Leaves, Done(h),
         waiting \subseteq waiting', NEW F \in SUBSET Handlers,
         stale' \subseteq (stale \ {event[h]}) \cup (Reached(F)' \ {event[h]})
  PROVE  NothingLostIf(F)'
  <1> DEFINE E == {event[h]}
  <1>1. calls[h] = {}
    BY DEF IndInv, WellAddressed
  <1>2. ASSUME NEW x, Carries(F, x), x # event[h]
        PROVE  Carries(F, x)'
    BY <1>1, <1>2, SameRelations DEF Carries, Done, IndInv, TypeOK
  <1>3. CarriedIf(F) \ E \subseteq Reached(F)'
    BY <1>2, CarriedMember, CarriedMemberNext, CarriedEndNext DEF Typed
  <1>4. Succ(event[h]) = {}
    <2>1. event[h] \in Addressed
      BY DEF IndInv, WellAddressed, Busy
    <2>2. PICK l \in AllListeners, s \in Subjects : event[h] = <<l, s>>
      BY <2>1 DEF Addressed, Events
    <2>3. QED  BY <2>2, SuccLeaf
  <1>5. QED  BY <1>3, <1>4, StillCarried DEF Typed

LEMMA ProcessKeeps ==
  ASSUME IndInv, Typed', scene' = scene, NEW h \in Handlers, ProcessPerson(h) \/ ProcessMapping(h),
         NEW F \in SUBSET Handlers
  PROVE  NothingLostIf(F)'
  <1>1. waiting \subseteq waiting'
    BY DEF ProcessPerson, ProcessMapping
  <1>2. pc[h] = "started" /\ event[h][1] \in Leaves
    BY DEF ProcessPerson, ProcessMapping, Handles, Leaves
  <1>3. QED  BY <1>1, <1>2, EndKeeps DEF ProcessPerson, ProcessMapping

LEMMA ProcessUuidKeeps ==
  ASSUME IndInv, Typed', scene' = scene, NEW h \in Handlers, ProcessUuid(h),
         NEW F \in SUBSET Handlers
  PROVE  NothingLostIf(F)'
  <1>1. PICK written \in SUBSET (Persons \cup Related) :
           /\ waiting' = waiting \cup Echo(written)
           /\ stale' = (stale \ {event[h]}) \cup UNION {ToLdap(Depend(s)) : s \in written}
    BY UuidWrites
  <1>2. pc[h] = "started" /\ event[h][1] = "process_uuid" /\ event[h][1] \in Leaves
    BY DEF ProcessUuid, Handles, Leaves
  <1> DEFINE R == Reached(F)'
  <1>3. \A x \in R : Succ(x) \subseteq R
    <2>1. \A x \in R : Succ(x)' \subseteq R
      BY CarriedEndNext DEF Typed
    <2>2. QED  BY <2>1, SameRelations DEF ProcessUuid
  <1>4. waiting' \subseteq R
    BY CarriedMemberNext, CarriedEndNext DEF Carries, Typed
  <1> HIDE DEF R
  <1>5. ASSUME NEW s \in written
        PROVE  ToLdap(Depend(s)) \subseteq R \ {event[h]}
    <2>1. Notices(s) \subseteq R
      BY <1>1, <1>4 DEF Echo
    <2>2. OnwardToEnd(Notices(s)) \subseteq R
      BY <1>3, <2>1, EndLeast
    <2>3. ToLdap(Depend(s)) \subseteq R
      BY <2>2, DependReached
    <2>4. \A ev \in ToLdap(Depend(s)) : ev[1] # "process_uuid"
      BY Keys DEF ToLdap, ToLdapBy
    <2>5. QED  BY <1>2, <2>3, <2>4
  <1>6. UNION {ToLdap(Depend(s)) : s \in written} \subseteq R \ {event[h]}
    BY <1>5
  <1>7. QED  BY <1>1, <1>2, <1>6, EndKeeps DEF ProcessUuid, R

LEMMA ChangeKeeps ==
  ASSUME IndInv, Typed', scene' = scene, NEW s \in Subjects, Change(s),
         NEW F \in SUBSET Handlers
  PROVE  NothingLostIf(F)'
  <1>1. ASSUME NEW x, Carries(F, x)
        PROVE  Carries(F, x)'
    BY <1>1, SameRelations DEF Carries, Change
  <1>2. CarriedIf(F) \subseteq Reached(F)'
    BY <1>1, CarriedMember, CarriedMemberNext, CarriedEndNext DEF Typed
  <1> DEFINE R == Reached(F)'
  <1>3. \A x \in R : Succ(x) \subseteq R
    <2>1. \A x \in R : Succ(x)' \subseteq R
      BY CarriedEndNext DEF Typed
    <2>2. QED  BY <2>1, SameRelations DEF Change
  <1>4. waiting' \subseteq R
    BY CarriedMemberNext, CarriedEndNext DEF Carries, Typed
  <1> HIDE DEF R
  <1>5. OnwardToEnd(Notices(s)) \subseteq R
    BY <1>3, <1>4, EndLeast DEF Change
  <1>6. Concerns(s) \subseteq R
    BY <1>5, ConcernsReached
  <1>7. QED  BY <1>2, <1>6, AllStillCarried DEF Change, Typed, R

-----------------------------------------------------------------------------
(* The step that moves a relation: where events led by way of o they may no   *)
(* longer lead, and only there.                                              *)

LEMMA RelateElsewhere ==
  ASSUME TypeOK, scene' = scene, NEW o \in Related, NEW related \in SUBSET (Persons \cup Units),
         Relate(o, related)
  PROVE  /\ \A c : Emitted(c) \subseteq Emitted(c)' \cup Notices(o)
         /\ \A ev \in Addressed : ev[2] # o => CallsFor(ev)' = CallsFor(ev)
  <1>1. \A k : Keyed(k)' = Keyed(k)
    BY DEF Listeners, Keyed
  <1>2. \A s \in Related : s # o => relations'[s] = relations[s]
    BY DEF TypeOK, Relate
  <1>3. ASSUME NEW c
        PROVE  Emitted(c) \subseteq Emitted(c)' \cup Notices(o)
    <2>1. CASE c.to \subseteq Keyed("engagement")
      <3> SUFFICES ASSUME NEW x \in Emitted(c)  PROVE x \in Emitted(c)' \cup Notices(o)
        OBVIOUS
      <3>1. x \in c.to \X UNION {EngagementsOf(u) : u \in c.about}
        BY <2>1 DEF Emitted
      <3>2. PICK l \in c.to, e \in UNION {EngagementsOf(u) : u \in c.about} : x = <<l, e>>
        BY <3>1
      <3>3. PICK u \in c.about : e \in EngagementsOf(u)
        BY <3>2
      <3>4. CASE e = o
        <4>1. l \in Keyed(Kind(o))
          BY <2>1, <3>3, <3>4, Kinds DEF EngagementsOf
        <4>2. QED  BY <3>2, <3>4, <4>1 DEF Notices
      <3>5. CASE e # o
        <4>1. e \in Engagements /\ e \in Related /\ u \in relations[e]
          BY <3>3 DEF EngagementsOf, Related
        <4>2. e \in EngagementsOf(u)'
          BY <1>2, <3>5, <4>1 DEF EngagementsOf
        <4>3. e \in UNION {EngagementsOf(w)' : w \in c.about}
          BY <4>2
        <4>4. Emitted(c)' = c.to \X UNION {EngagementsOf(w)' : w \in c.about}
          BY <1>1, <2>1 DEF Emitted
        <4>5. QED  BY <3>2, <4>3, <4>4
      <3>6. QED  BY <3>4, <3>5
    <2>2. CASE ~(c.to \subseteq Keyed("engagement"))
      BY <1>1, <2>2 DEF Emitted
    <2>3. QED  BY <2>1, <2>2
  <1>4. ASSUME NEW ev \in Addressed, ev[2] # o
        PROVE  CallsFor(ev)' = CallsFor(ev)
    <2>1. PICK l \in Listeners, s \in Subjects : ev = <<l, s>> /\ RoutingKey(l) = Kind(s)
      BY DEF Addressed, Events
    <2>2. /\ s \in Related => PersonsOf(s)' = PersonsOf(s) /\ UnitsOf(s)' = UnitsOf(s)
          /\ Listeners' = Listeners
      BY <1>2, <1>4, <2>1 DEF PersonsOf, UnitsOf, Listeners
    <2>3. \A L, S : Refreshes(L, S)' = Refreshes(L, S)
      BY <2>2 DEF Refreshes
    <2>4. \A S : Published(S)' = Published(S)
      BY <1>1 DEF Published
    <2>5. l \in {"process_address", "process_engagement", "process_ituser"} => s \in Related
      BY <2>1, Keys, OfKind DEF Related
    <2>6. CASE s \in Related
      <3>1. /\ AddressCalls(s)' = AddressCalls(s) /\ EngagementCalls(s)' = EngagementCalls(s)
            /\ ItuserCalls(s)' = ItuserCalls(s)
        BY <2>2, <2>3, <2>6 DEF AddressCalls, EngagementCalls, ItuserCalls
      <3>2. /\ OrgUnitCalls(s)' = OrgUnitCalls(s)
            /\ ReconcilePersonCalls(s)' = ReconcilePersonCalls(s)
            /\ ReconcileUuidCalls(s)' = ReconcileUuidCalls(s)
        BY <2>3, <2>4 DEF OrgUnitCalls, ReconcilePersonCalls, ReconcileUuidCalls
      <3>3. QED  BY <2>1, <3>1, <3>2 DEF CallsFor
    <2>7. CASE s \notin Related
      <3>1. /\ OrgUnitCalls(s)' = OrgUnitCalls(s)
            /\ ReconcilePersonCalls(s)' = ReconcilePersonCalls(s)
            /\ ReconcileUuidCalls(s)' = ReconcileUuidCalls(s)
        BY <2>3, <2>4 DEF OrgUnitCalls, ReconcilePersonCalls, ReconcileUuidCalls
      <3>2. QED  BY <2>1, <2>5, <2>7, <3>1 DEF CallsFor
    <2>8. QED  BY <2>6, <2>7
  <1>5. QED  BY <1>3, <1>4

LEMMA RelateKeeps ==
  ASSUME IndInv, Typed', scene' = scene, NEW o \in Related,
         NEW related \in SUBSET (Persons \cup Units), Relate(o, related),
         NEW F \in SUBSET Handlers
  PROVE  NothingLostIf(F)'
  <1> DEFINE R == Reached(F)'
             N == OnwardToEnd(Notices(o))
             T == R \cup N
  <1>1. o \in Subjects
    BY DEF Subjects
  <1>2. /\ \A c : Emitted(c) \subseteq Emitted(c)' \cup Notices(o)
        /\ \A ev \in Addressed : ev[2] # o => CallsFor(ev)' = CallsFor(ev)
    BY RelateElsewhere DEF IndInv
  <1>3. /\ Notices(o) \subseteq N /\ N \subseteq Addressed
        /\ \A x \in N : Succ(x) \subseteq N
    BY <1>1, NoticesAddressed, EndClosed
  <1>4. /\ CarriedIf(F)' \subseteq R /\ R \subseteq Addressed
        /\ \A x \in R : Succ(x)' \subseteq R
    <2>1. Addressed' = Addressed
      BY SameScene
    <2>2. QED  BY <2>1, CarriedEndNext DEF Typed
  <1>5. Concerns(o)' \subseteq R
    <2>1. Notices(o)' \subseteq waiting'
      BY SameScene DEF Relate
    <2>2. QED  BY <1>1, <2>1, CarriedEndNext DEF Typed
  <1>6. CarriedIf(F) \subseteq T
    <2>1. ASSUME NEW x, Carries(F, x)
          PROVE  Carries(F, x)' \/ x \in Notices(o)
      BY <1>2, <2>1 DEF Carries, Relate
    <2>2. QED  BY <1>3, <1>4, <2>1, CarriedMember, CarriedMemberNext
  <1>7. ASSUME NEW x \in T
        PROVE  Succ(x) \subseteq T
    <2>1. CASE x \in N
      BY <1>3, <2>1
    <2>2. CASE x \in R /\ x[2] = o
      <3>1. PICK l \in Listeners, s \in Subjects : x = <<l, s>> /\ RoutingKey(l) = Kind(s)
        BY <1>4, <2>2 DEF Addressed, Events
      <3>2. x \in Notices(o)
        BY <2>2, <3>1 DEF Notices, Keyed
      <3>3. QED  BY <1>3, <3>2
    <2>3. CASE x \in R /\ x[2] # o
      <3>1. CallsFor(x)' = CallsFor(x)
        BY <1>2, <1>4, <2>3
      <3>2. ASSUME NEW y \in Succ(x)
            PROVE  y \in Succ(x)' \/ y \in Notices(o)
        <4>1. PICK c \in CallsFor(x) : y \in Emitted(c)
          BY Answered DEF Succ
        <4>2. CASE y \in Emitted(c)'
          <5>1. c \in CallsFor(x)'
            BY <3>1
          <5>2. y \in UNION {Emitted(d)' : d \in CallsFor(x)'}
            BY <4>2, <5>1
          <5>3. QED  BY <5>2 DEF Succ, Answers
        <4>3. QED  BY <1>2, <4>1, <4>2
      <3>3. QED  BY <1>3, <1>4, <2>3, <3>2
    <2>4. QED  BY <2>1, <2>2, <2>3
  <1> HIDE DEF T
  <1>8. OnwardToEnd(CarriedIf(F)) \subseteq T
    BY <1>6, <1>7, EndLeast
  <1>9. N \cap Wanted \subseteq Concerns(o)
    BY OnlyConcerned
  <1> HIDE DEF N, R
  <1>10. stale \ OnwardToEnd(CarriedIf(F)) \subseteq cut /\ stale \subseteq Wanted
    BY DEF IndInv, NothingLostIf, OnlyWanted
  <1>11. /\ stale' = stale \cup Concerns(o) \cup Concerns(o)'
         /\ cut' = cut \cup (Concerns(o) \ Concerns(o)')
    BY DEF Relate
  <1>12. stale' \ R \subseteq cut'
    BY <1>5, <1>8, <1>9, <1>10, <1>11 DEF T
  <1>13. QED  BY <1>12 DEF NothingLostIf, Reached, R

-----------------------------------------------------------------------------
(* Nothing is lost.                                                          *)

LEMMA InitInd == Init => IndInv
  <1> SUFFICES ASSUME Init  PROVE IndInv
    OBVIOUS
  <1>1. TypeOK /\ WellAddressed /\ OnlyWanted
    BY InitTyped DEF Typed
  <1>2. \A F \in SUBSET Handlers : NothingLostIf(F)
    BY DEF Init, NothingLostIf
  <1>3. QED  BY <1>1, <1>2 DEF IndInv

LEMMA NextInd ==
  ASSUME IndInv, [Next]_vars
  PROVE  IndInv'
  <1>1. Typed /\ TypeOK
    BY DEF IndInv, Typed
  <1>2. Typed'
    BY <1>1, NextTyped
  <1>3. scene' = scene
    BY <1>1, StepKinds
  <1>4. ASSUME NEW F \in SUBSET Handlers
        PROVE  NothingLostIf(F)'
    <2>1. CASE UNCHANGED vars \/ Close \/ Open
      <3>1. UNCHANGED <<scene, relations, waiting, pc, event, calls, stale, cut>>
        BY <2>1 DEF vars, Close, Open, counters
      <3>2. ASSUME NEW x, Carries(F, x)
            PROVE  Carries(F, x)'
        BY <3>1, <3>2, SameRelations DEF Carries
      <3>3. CarriedIf(F) \subseteq Reached(F)'
        BY <1>2, <3>2, CarriedMember, CarriedMemberNext, CarriedEndNext DEF Typed
      <3>4. QED  BY <1>2, <3>1, <3>3, AllStillCarried DEF Typed
    <2>2. CASE \E h \in Handlers, ev \in waiting : Take(h, ev)
      BY <1>2, <1>3, <2>2, TakeKeeps
    <2>3. CASE \E h \in Handlers : PassOn(h)
      BY <1>2, <1>3, <2>3, PassOnKeeps
    <2>4. CASE \E h \in Handlers : \E c \in calls[h] : Refresh(h, c)
      BY <1>2, <1>3, <2>4, RefreshKeeps
    <2>5. CASE \E h \in Handlers : Finish(h)
      BY <1>2, <1>3, <2>5, FinishKeeps
    <2>6. CASE \E h \in Handlers : ProcessPerson(h) \/ ProcessMapping(h)
      BY <1>2, <1>3, <2>6, ProcessKeeps
    <2>7. CASE \E h \in Handlers : ProcessUuid(h)
      BY <1>2, <1>3, <2>7, ProcessUuidKeeps
    <2>8. CASE \E h \in Handlers : Fail(h)
      BY <1>2, <1>3, <2>8, FailKeeps
    <2>9. CASE \E s \in Subjects : Change(s)
      BY <1>2, <1>3, <2>9, ChangeKeeps
    <2>10. CASE \E o \in Related, related \in SUBSET (Persons \cup Units) : Relate(o, related)
      BY <1>2, <1>3, <2>10, RelateKeeps
    <2>11. QED
      BY <1>1, StepKinds, <2>1, <2>2, <2>3, <2>4, <2>5, <2>6, <2>7, <2>8, <2>9, <2>10
  <1>5. QED  BY <1>2, <1>4 DEF IndInv, Typed

(* No change is forgotten between the two systems, however many the handlers *)
(* that fail and interleave and however the relations move meanwhile: whoever *)
(* it concerns is handled or will be, unless a change of the only validity   *)
(* took the relation away (the handlers of main.py).                         *)
THEOREM ChangesReachAll == Spec => []NothingLost
  <1>1. IndInv => NothingLost
    <2> SUFFICES ASSUME IndInv  PROVE NothingLost
      OBVIOUS
    <2>1. NothingLostIf({})
      BY DEF IndInv
    <2>2. CarriedIf({}) = Carried
      BY DEF CarriedIf, Carried
    <2>3. QED  BY <2>1, <2>2 DEF NothingLost, NothingLostIf, OnItsWay, OnwardToEnd
  <1>2. IndInv /\ [Next]_vars => IndInv'
    BY NextInd
  <1>3. QED  BY <1>1, <1>2, InitInd, PTL DEF Spec

=============================================================================
