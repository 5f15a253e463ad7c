--------------------------- MODULE UsernamesProofs ---------------------------
(***************************************************************************)
(* Handlers that do not generate at a time never give one username to two  *)
(* persons, whatever fails, is deleted or terminated in between.           *)
(***************************************************************************)
EXTENDS Usernames, TLAPS

\* Which locals are set where; the candidate is one of the person's.
Typed ==
  /\ TypeOK
  /\ \A p \in Persons :
       /\ at[p] # None => at[p] \in PositionsOf(p)
       /\ pc[p] = "idle" => at[p] = None
       /\ pc[p] = "mo" => at[p] # None
       /\ pc[p] = "write" /\ at[p] = None => latest[p] # None
       /\ latest[p] # None => latest[p] \in reserved[p]

\* The handler that is busy is the only one.
Alone == \A p, q \in Persons : Busy(p) /\ Busy(q) => p = q

\* Usernames that accounts have, and those MO keeps, are apart.
Separate(p, q) ==
  /\ ldap[p] # None => ldap[p] # ldap[q]
  /\ ldap[p] # None => ldap[p] \notin reserved[q]
  /\ reserved[p] \cap reserved[q] = {}

\* What was checked in LDAP still is not there, and in MO likewise.
StillFree(p, q) ==
  /\ pc[p] \in {"mo", "write"} /\ at[p] # None => Candidate(p, at[p]) # ldap[q]
  /\ pc[p] = "write" /\ at[p] # None => Candidate(p, at[p]) \notin reserved[q]

\* What an account has had it has, or MO keeps, or it was lost.
Accounted(p) == given[p] \subseteq lost \cup reserved[p] \cup {ldap[p]}

Apart ==
  /\ Alone
  /\ \A p, q \in Persons : p # q => Separate(p, q) /\ StillFree(p, q)
  /\ \A p \in Persons : Accounted(p)

IndInv == Typed /\ (~Raced => Apart)

-----------------------------------------------------------------------------
(* Type correctness. *)

(* The candidates of a person are usernames.                                *)
LEMMA CandidatesTyped ==
  ASSUME settings \in Settings, NEW p \in Persons, NEW a \in PositionsOf(p)
  PROVE  a \in Positions /\ Candidate(p, a) \in Names
<1> USE DomainAssumption, BoundAssumption
<1>1. CASE settings.permutation
  <2>1. a \in PermutedPositions(p)
    BY <1>1 DEF PositionsOf
  <2>2. PICK n \in 1 .. MaxNumber : a = <<1, n>>
    BY <2>1 DEF PermutedPositions
  <2> QED  BY <1>1, <2>2 DEF Positions, Candidate, PermutedName, Names
<1>2. CASE ~settings.permutation
  <2>1. a \in CombinedPositions(p)
    BY <1>2 DEF PositionsOf
  <2>2. PICK i \in DOMAIN Combis[p] :
          Combis[p][i] # None /\ a \in {i} \X Numbers(Combis[p][i])
    BY <2>1 DEF CombinedPositions
  <2>3. i \in Nat /\ Combis[p][i] \in Cores
    BY <2>2
  <2>4. a[1] = i /\ a[2] \in Nat /\ a = <<a[1], a[2]>>
    BY <2>2 DEF Numbers
  <2> QED  BY <1>2, <2>3, <2>4 DEF Positions, Candidate, CombinedName, Names
<1> QED  BY <1>1, <1>2

(* What the handler writes is a username.                                   *)
LEMMA RenderedTyped ==
  ASSUME Typed, NEW p \in Persons, pc[p] = "write"
  PROVE  Rendered(p) \in Names
<1>1. CASE at[p] = None
  BY <1>1 DEF Typed, TypeOK, Rendered
<1>2. CASE at[p] # None
  BY <1>2, CandidatesTyped DEF Typed, TypeOK, Rendered
<1> QED  BY <1>1, <1>2

LEMMA InitTyped == Init => Typed
<1> SUFFICES ASSUME Init PROVE Typed
  OBVIOUS
<1>1. ended \in [Persons -> BOOLEAN] /\ raced \in BOOLEAN
  BY Zenon DEF Init
<1>2. /\ events \in [Persons -> 0 .. MaxEvents]
      /\ outside \in 0 .. MaxOutside /\ faults \in 0 .. MaxFaults
  BY BoundAssumption DEF Init
<1>3. /\ pc \in [Persons -> {"idle", "generate", "mo", "write"}]
      /\ pending \subseteq Persons
  BY DEF Init
<1>4. /\ ldap \in [Persons -> Names \cup {None}]
      /\ latest \in [Persons -> Names \cup {None}]
      /\ at \in [Persons -> Positions \cup {None}]
  BY DEF Init
<1>5. /\ reserved \in [Persons -> SUBSET Names]
      /\ given \in [Persons -> SUBSET Names]
      /\ lost \subseteq Names
  BY DEF Init
<1>6. TypeOK
  BY <1>1, <1>2, <1>3, <1>4, <1>5 DEF Init, TypeOK
<1> QED  BY <1>6 DEF Init, Typed

(* Candidates depend on the settings alone, which stay.                      *)
LEMMA PositionsStay ==
  ASSUME UNCHANGED settings, NEW p \in Persons
  PROVE  /\ PositionsOf(p)' = PositionsOf(p)
         /\ \A a : Candidate(p, a)' = Candidate(p, a)
  BY DEF PositionsOf, PermutedPositions, CombinedPositions, PermutedName,
         CombinedName, Numbers, Candidate

(* A handler that stops, or gives its event back, stays within the types.    *)
LEMMA StopTyped ==
  ASSUME Typed, NEW p \in Persons, Stop(p),
         UNCHANGED <<settings, reserved, latest>>, TypeOK'
  PROVE  Typed'
  BY PositionsStay DEF Typed, TypeOK, Stop, Goto

LEMMA HandlerTyped ==
  ASSUME Typed, NEW p \in Persons, HandlerStep(p) \/ Fail(p)
  PROVE  Typed'
<1> USE DomainAssumption, BoundAssumption
<1>1. CASE Begin(p)
  <2>1. TypeOK'
    BY <1>1 DEF Typed, TypeOK, Begin, Goto, mo, counters
  <2> QED  BY <1>1, <2>1, PositionsStay
           DEF Typed, TypeOK, Begin, Busy, Goto, Known, mo
<1>2. CASE CheckLdap(p)
  <2> SUFFICES Typed'  OBVIOUS
  <2>1. UNCHANGED <<settings, reserved, latest>>
    BY <1>2 DEF CheckLdap, mo
  <2>2. CASE Rest(p) = {} /\ GiveBack(p)
    <3>1. TypeOK'
      BY <1>2, <2>2 DEF Typed, TypeOK, CheckLdap, GiveBack, Stop, Goto, mo, counters, history
    <3> QED  BY <2>1, <2>2, <3>1, StopTyped DEF GiveBack
  <2>3. CASE \E a \in Rest(p) :
               /\ IsFirst(a, Rest(p))
               /\ at' = [at EXCEPT ![p] = a]
               /\ IF LdapAllows(p, Candidate(p, a)) THEN Goto(p, "mo") ELSE UNCHANGED pc
               /\ UNCHANGED pending
    <3>1. PICK a \in PositionsOf(p) :
            /\ at' = [at EXCEPT ![p] = a]
            /\ Goto(p, "mo") \/ UNCHANGED pc
            /\ UNCHANGED pending
      BY <2>3 DEF Rest
    <3>2. a \in Positions /\ a # None
      BY CandidatesTyped DEF Typed, TypeOK, Positions
    <3>3. TypeOK'
      BY <1>2, <3>1, <3>2 DEF Typed, TypeOK, CheckLdap, Goto, mo, counters, history
    <3> QED  BY <1>2, <2>1, <3>1, <3>2, <3>3, PositionsStay
             DEF Typed, TypeOK, CheckLdap, Goto
  <2> QED  BY <1>2, <2>2, <2>3 DEF CheckLdap
<1>3. CASE CheckMo(p)
  <2>1. TypeOK'
    BY <1>3 DEF Typed, TypeOK, CheckMo, Goto, mo, counters, history
  <2> QED  BY <1>3, <2>1, PositionsStay DEF Typed, TypeOK, CheckMo, Goto, mo
<1>4. CASE Write(p)
  <2>1. Rendered(p) \in Names
    BY <1>4, RenderedTyped DEF Write
  <2>2. TypeOK'
    BY <1>4, <2>1 DEF Typed, TypeOK, Write, Loses, Stop, Goto, mo, counters
  <2> QED  BY <1>4, <2>2, StopTyped DEF Write, mo
<1>5. CASE Fail(p)
  <2>1. TypeOK'
    BY <1>5 DEF Typed, TypeOK, Fail, GiveBack, Stop, Goto, mo, history
  <2> QED  BY <1>5, <2>1, StopTyped DEF Fail, GiveBack, mo
<1> QED  BY <1>1, <1>2, <1>3, <1>4, <1>5 DEF HandlerStep

LEMMA OthersTyped ==
  ASSUME Typed, NEW p \in Persons,
         Import(p) \/ Event(p) \/ Delete(p) \/ Terminate(p)
  PROVE  Typed'
<1> USE DomainAssumption, BoundAssumption
<1>1. CASE Import(p)
  <2>1. TypeOK'
    BY <1>1 DEF Typed, TypeOK, Import, counters, history
  <2> QED  BY <1>1, <2>1, PositionsStay DEF Typed, TypeOK, Import
<1>2. CASE Event(p)
  <2>1. TypeOK'
    BY <1>2 DEF Typed, TypeOK, Event, mo, history
  <2> QED  BY <1>2, <2>1, PositionsStay DEF Typed, TypeOK, Event, mo
<1>3. CASE Delete(p)
  <2>1. TypeOK'
    BY <1>3 DEF Typed, TypeOK, Delete, Loses, mo
  <2> QED  BY <1>3, <2>1, PositionsStay DEF Typed, TypeOK, Delete, mo
<1>4. CASE Terminate(p)
  <2>1. TypeOK'
    BY <1>4 DEF Typed, TypeOK, Terminate, history
  <2> QED  BY <1>4, <2>1, PositionsStay DEF Typed, TypeOK, Terminate
<1> QED  BY <1>1, <1>2, <1>3, <1>4

LEMMA StepTyped == Typed /\ [Next]_vars => Typed'
<1> SUFFICES ASSUME Typed, [Next]_vars PROVE Typed'
  OBVIOUS
<1>1. CASE UNCHANGED vars
  BY <1>1, PositionsStay DEF Typed, TypeOK, vars
<1>2. CASE Next
  BY <1>2, HandlerTyped, OthersTyped DEF Next
<1> QED  BY <1>1, <1>2

(* Type correctness, for any persons, names and settings (Usernames.tla's    *)
(* TypeOK), and that no handler uses a candidate before it has one.          *)
THEOREM TypeCorrect == Spec => []TypeOK
<1>1. Typed => TypeOK
  BY DEF Typed
<1> QED  BY <1>1, InitTyped, StepTyped, PTL DEF Spec

-----------------------------------------------------------------------------
(* Usernames stay apart. *)

(* A race is never forgotten.                                                *)
LEMMA RacedStays ==
  ASSUME Typed, [Next]_vars, ~Raced'
  PROVE  ~Raced /\ settings.disallow
<1>1. UNCHANGED settings
  BY DEF Next, vars, HandlerStep, Begin, CheckLdap, CheckMo, Write, Fail,
         Import, Event, Delete, Terminate
<1>2. raced => raced'
  <2>1. ASSUME NEW p \in Persons, Begin(p) PROVE raced => raced'
    BY <2>1, Zenon DEF Begin
  <2>2. CASE UNCHANGED raced
    BY <2>2, Zenon
  <2>3. UNCHANGED raced \/ \E p \in Persons : Begin(p)
    BY DEF Next, vars, HandlerStep, CheckLdap, CheckMo, Write, Fail, Import,
           Event, Delete, Terminate, history
  <2> QED  BY <2>1, <2>2, <2>3, Zenon
<1>3. ~raced' /\ settings'.disallow
  BY Zenon DEF Raced
<1> QED  BY <1>1, <1>2, <1>3, Zenon DEF Raced

(* A handler that stops, with its event handled or given back.               *)
LEMMA StopApart ==
  ASSUME Typed, Apart, NEW p \in Persons, Stop(p),
         UNCHANGED <<settings, ldap, reserved, given, lost>>
  PROVE  Apart'
<1>1. /\ pc' = [pc EXCEPT ![p] = "idle"] /\ at' = [at EXCEPT ![p] = None]
      /\ pc \in [Persons -> {"idle", "generate", "mo", "write"}]
      /\ at \in [Persons -> Positions \cup {None}]
  BY DEF Stop, Goto, Typed, TypeOK
<1>2. Alone'
  BY <1>1 DEF Apart, Alone, Busy
<1>3. ASSUME NEW q \in Persons, NEW r \in Persons, q # r
      PROVE  Separate(q, r)' /\ StillFree(q, r)'
  BY <1>1, <1>3, PositionsStay DEF Apart, Separate, StillFree
<1>4. ASSUME NEW q \in Persons PROVE Accounted(q)'
  BY <1>4 DEF Apart, Accounted
<1> QED  BY <1>2, <1>3, <1>4 DEF Apart

(* Steps before the write take no username: each finds out more about one.    *)
LEMMA SearchApart ==
  ASSUME Typed, Apart, NEW p \in Persons, ~Raced', settings.disallow,
         Begin(p) \/ CheckLdap(p) \/ CheckMo(p) \/ Fail(p)
  PROVE  Apart'
<1>1. UNCHANGED <<settings, ldap, reserved, latest, given, lost>>
  BY DEF Begin, CheckLdap, CheckMo, Fail, mo, history
<1>2. /\ pc \in [Persons -> {"idle", "generate", "mo", "write"}]
      /\ at \in [Persons -> Positions \cup {None}]
      /\ \A q \in Persons : pc[q] = "idle" => at[q] = None
  BY DEF Typed, TypeOK
<1>3. CASE Stop(p)
  BY <1>1, <1>3, StopApart
<1>4. ASSUME Alone', \A q \in Persons \ {p} : StillFree(p, q)',
             \A q \in Persons \ {p} : pc'[q] = pc[q] /\ at'[q] = at[q]
      PROVE  Apart'
  BY <1>1, <1>4, PositionsStay DEF Apart, Separate, StillFree, Accounted
<1>5. CASE Begin(p)
  <2>1. \A q \in Persons : ~Busy(q)
    BY <1>5 DEF Begin, Raced
  <2>2. Alone'
    BY <1>2, <1>5, <2>1 DEF Begin, Goto, Alone, Busy
  <2> QED  BY <1>2, <1>4, <1>5, <2>1, <2>2 DEF Begin, Goto, Busy, StillFree
<1>6. CASE CheckLdap(p) /\ ~Stop(p)
  <2>1. PICK a \in Rest(p) :
          /\ at' = [at EXCEPT ![p] = a]
          /\ IF LdapAllows(p, Candidate(p, a)) THEN Goto(p, "mo") ELSE UNCHANGED pc
    BY <1>6 DEF CheckLdap, GiveBack
  <2>2. pc[p] = "generate" /\ Busy(p)
    BY <1>6 DEF CheckLdap, Busy
  <2>3. Alone'
    BY <1>2, <2>1, <2>2 DEF Apart, Alone, Busy, Goto
  <2>4. \A q \in Persons \ {p} : StillFree(p, q)'
    BY <1>1, <1>2, <2>1, <2>2, PositionsStay DEF StillFree, LdapAllows, Goto
  <2> QED  BY <1>2, <1>4, <2>1, <2>3, <2>4 DEF Goto
<1>7. CASE CheckMo(p)
  <2>1. pc[p] = "mo" /\ UNCHANGED at
    BY <1>7 DEF CheckMo
  <2>2. \/ pc' = [pc EXCEPT ![p] = "generate"]
        \/ MoAllows(p, Candidate(p, at[p])) /\ pc' = [pc EXCEPT ![p] = "write"]
    <3> DEFINE allowed == MoAllows(p, Candidate(p, at[p]))
               place == IF allowed THEN "write" ELSE "generate"
    <3>1. pc' = [pc EXCEPT ![p] = place]
      BY <1>7 DEF CheckMo, Goto
    <3>2. CASE allowed
      <4>1. place = "write"
        BY <3>2
      <4> QED  BY <3>1, <3>2, <4>1, Zenon
    <3>3. CASE ~allowed
      <4>1. place = "generate"
        BY <3>3
      <4> QED  BY <3>1, <4>1, Zenon
    <3> QED  BY <3>2, <3>3
  <2>3. Alone'
    BY <1>2, <2>1, <2>2 DEF Apart, Alone, Busy
  <2>4. ASSUME NEW q \in Persons \ {p} PROVE StillFree(p, q)'
    <3>1. CASE pc' = [pc EXCEPT ![p] = "generate"]
      BY <1>2, <3>1 DEF StillFree
    <3>2. CASE MoAllows(p, Candidate(p, at[p])) /\ pc' = [pc EXCEPT ![p] = "write"]
      <4>1. Candidate(p, at[p]) \notin reserved[q]
        BY <3>2 DEF MoAllows, Reserving
      <4> QED  BY <1>1, <1>2, <2>1, <3>2, <4>1, PositionsStay DEF Apart, StillFree
    <3> QED  BY <2>2, <3>1, <3>2
  <2> QED  BY <1>2, <1>4, <2>1, <2>2, <2>3, <2>4
<1>8. CASE Fail(p)
  BY <1>3, <1>8 DEF Fail, GiveBack
<1> QED  BY <1>3, <1>5, <1>6, <1>7, <1>8

(* What is written nobody else has, and MO keeps for nobody else.            *)
LEMMA RenderedIsFree ==
  ASSUME Typed, Apart, NEW p \in Persons, NEW q \in Persons, p # q, pc[p] = "write"
  PROVE  Rendered(p) # ldap[q] /\ Rendered(p) \notin reserved[q]
<1>1. CASE at[p] # None
  BY <1>1 DEF Apart, StillFree, Rendered
<1>2. CASE at[p] = None
  <2>1. Rendered(p) \in reserved[p] /\ Rendered(p) # None
    BY <1>2 DEF Typed, Rendered
  <2> QED  BY <2>1 DEF Apart, Separate
<1> QED  BY <1>1, <1>2

LEMMA WriteApart ==
  ASSUME Typed, Apart, NEW p \in Persons, Write(p)
  PROVE  Apart'
<1>1. /\ pc[p] = "write" /\ Busy(p)
      /\ ldap' = [ldap EXCEPT ![p] = Rendered(p)]
      /\ given' = [given EXCEPT ![p] = @ \cup {Rendered(p)}]
      /\ pc' = [pc EXCEPT ![p] = "idle"] /\ at' = [at EXCEPT ![p] = None]
      /\ UNCHANGED <<settings, reserved, latest>>
  BY DEF Write, Busy, Stop, Goto, mo
<1>2. /\ ldap \in [Persons -> Names \cup {None}]
      /\ given \in [Persons -> SUBSET Names]
      /\ pc \in [Persons -> {"idle", "generate", "mo", "write"}]
      /\ at \in [Persons -> Positions \cup {None}]
  BY DEF Typed, TypeOK
<1>3. Rendered(p) \in Names /\ Rendered(p) # None
  BY <1>1, RenderedTyped, DomainAssumption
<1>4. Alone'
  BY <1>1, <1>2 DEF Apart, Alone, Busy
<1>5. \A q \in Persons : ~Busy(q)'
  BY <1>1, <1>2 DEF Apart, Alone, Busy
<1>6. ASSUME NEW q \in Persons, NEW r \in Persons, q # r PROVE Separate(q, r)'
  <2>1. Separate(q, r)
    BY <1>6 DEF Apart
  <2>2. CASE q = p
    BY <1>1, <1>2, <1>3, <1>6, <2>1, <2>2, RenderedIsFree DEF Separate
  <2>3. CASE r = p
    BY <1>1, <1>2, <1>3, <1>6, <2>1, <2>3, RenderedIsFree DEF Separate
  <2>4. CASE q # p /\ r # p
    BY <1>1, <1>2, <2>1, <2>4 DEF Separate
  <2> QED  BY <2>2, <2>3, <2>4
<1>7. ASSUME NEW q \in Persons, NEW r \in Persons PROVE StillFree(q, r)'
  BY <1>5 DEF Busy, StillFree
<1>8. lost' = lost \cup ({ldap[p]} \ (reserved[p] \cup {None, Rendered(p)}))
  BY <1>1, <1>2 DEF Write, Loses
<1>9. ASSUME NEW q \in Persons PROVE Accounted(q)'
  <2>1. given[q] \subseteq lost \cup reserved[q] \cup {ldap[q]}
    BY DEF Apart, Accounted
  <2>2. CASE q # p
    BY <1>1, <1>2, <1>8, <2>1, <2>2 DEF Accounted
  <2>3. CASE q = p
    <3>1. None \notin given[p]
      BY <1>2, DomainAssumption
    <3>2. given'[p] = given[p] \cup {Rendered(p)} /\ ldap'[p] = Rendered(p)
      BY <1>1, <1>2
    <3> QED  BY <1>1, <1>8, <2>1, <2>3, <3>1, <3>2 DEF Accounted
  <2> QED  BY <2>2, <2>3
<1> QED  BY <1>4, <1>6, <1>7, <1>9 DEF Apart

(* MO learns a username, or the account or ituser is gone.                    *)
LEMMA OthersApart ==
  ASSUME Typed, Apart, NEW p \in Persons,
         Import(p) \/ Event(p) \/ Delete(p) \/ Terminate(p)
  PROVE  Apart'
<1>1. /\ ldap \in [Persons -> Names \cup {None}]
      /\ reserved \in [Persons -> SUBSET Names]
      /\ given \in [Persons -> SUBSET Names]
  BY DEF Typed, TypeOK
<1>2. UNCHANGED <<settings, pc, at, given>>
  BY DEF Import, Event, Delete, Terminate, history
<1>3. Alone'
  BY <1>2 DEF Apart, Alone, Busy
<1>4. CASE Event(p) \/ Terminate(p)
  <2>1. UNCHANGED <<ldap, reserved, lost>>
    BY <1>4 DEF Event, Terminate, mo, history
  <2> QED  BY <1>2, <1>3, <2>1, PositionsStay
           DEF Apart, Separate, StillFree, Accounted
<1>5. CASE Import(p)
  <2>1. /\ UNCHANGED <<ldap, lost>> /\ ldap[p] # None
        /\ reserved' = [reserved EXCEPT ![p] = @ \cup {ldap[p]}]
    BY <1>5 DEF Import, history
  <2>2. ASSUME NEW q \in Persons, NEW r \in Persons, q # r
        PROVE  Separate(q, r)' /\ StillFree(q, r)'
    <3>1. Separate(q, r) /\ Separate(r, q) /\ StillFree(q, r)
      BY <2>2 DEF Apart
    <3>2. Separate(q, r)'
      BY <1>1, <2>1, <2>2, <3>1 DEF Separate
    <3>3. StillFree(q, r)'
      BY <1>1, <1>2, <2>1, <2>2, <3>1, PositionsStay DEF StillFree
    <3> QED  BY <3>2, <3>3
  <2>3. ASSUME NEW q \in Persons PROVE Accounted(q)'
    BY <1>1, <1>2, <2>1 DEF Apart, Accounted
  <2> QED  BY <1>3, <2>2, <2>3 DEF Apart
<1>6. CASE Delete(p)
  <2>1. /\ ldap' = [ldap EXCEPT ![p] = None] /\ UNCHANGED reserved
        /\ lost' = lost \cup ({ldap[p]} \ (reserved[p] \cup {None, ldap'[p]}))
    BY <1>6 DEF Delete, Loses, mo
  <2>2. ASSUME NEW q \in Persons, NEW r \in Persons, q # r
        PROVE  Separate(q, r)' /\ StillFree(q, r)'
    <3>1. Separate(q, r) /\ StillFree(q, r)
      BY <2>2 DEF Apart
    <3>2. Separate(q, r)'
      BY <1>1, <2>1, <2>2, <3>1 DEF Separate
    <3>3. at[q] # None => Candidate(q, at[q]) # None
      BY CandidatesTyped, DomainAssumption DEF Typed, TypeOK
    <3>4. StillFree(q, r)'
      BY <1>1, <1>2, <2>1, <2>2, <3>1, <3>3, PositionsStay DEF StillFree
    <3> QED  BY <3>2, <3>4
  <2>3. ASSUME NEW q \in Persons PROVE Accounted(q)'
    <3>1. given[q] \subseteq lost \cup reserved[q] \cup {ldap[q]}
      BY DEF Apart, Accounted
    <3>2. None \notin given[q]
      BY <1>1, DomainAssumption
    <3>3. CASE q # p
      BY <1>1, <1>2, <2>1, <3>1, <3>3 DEF Accounted
    <3>4. CASE q = p
      <4>1. ldap'[p] = None
        BY <1>1, <2>1
      <4> QED  BY <1>2, <2>1, <3>1, <3>2, <3>4, <4>1 DEF Accounted
    <3> QED  BY <3>3, <3>4
  <2> QED  BY <1>3, <2>2, <2>3 DEF Apart
<1> QED  BY <1>4, <1>5, <1>6

LEMMA InitApart == Init => Apart
  BY DEF Init, Apart, Alone, Busy, Separate, StillFree, Accounted

LEMMA StepApart == IndInv /\ [Next]_vars => IndInv'
<1> SUFFICES ASSUME IndInv, [Next]_vars PROVE IndInv'
  OBVIOUS
<1>1. Typed /\ Typed'
  BY StepTyped DEF IndInv
<1>2. ASSUME ~Raced' PROVE Apart'
  <2>1. Apart /\ settings.disallow
    BY <1>1, <1>2, RacedStays DEF IndInv
  <2>2. CASE UNCHANGED vars
    BY <2>1, <2>2, PositionsStay
       DEF vars, Apart, Alone, Busy, Separate, StillFree, Accounted
  <2>3. CASE Next
    BY <1>1, <1>2, <2>1, <2>3, SearchApart, WriteApart, OthersApart
       DEF Next, HandlerStep
  <2> QED  BY <2>2, <2>3
<1> QED  BY <1>1, <1>2 DEF IndInv

(* Usernames.tla's NamesApart: unless two handlers generated at a time, no    *)
(* two accounts have one username, though _create_username checks LDAP and MO *)
(* in requests of their own and others delete and terminate meanwhile.       *)
THEOREM NamesStayApart == Spec => []NamesApart
<1>1. Init => IndInv
  BY InitTyped, InitApart DEF IndInv
<1>2. IndInv => NamesApart
  BY DEF IndInv, Apart, Separate, NamesApart
<1> QED  BY <1>1, <1>2, StepApart, PTL DEF Spec

(* Usernames.tla's NeverReused: a username goes to somebody else only by a    *)
(* race, or if its account lost it before MO knew of it (lines 50-57).        *)
THEOREM ReusedIfUnknown == Spec => []NeverReused
<1>1. Init => IndInv
  BY InitTyped, InitApart DEF IndInv
<1>2. IndInv => NeverReused
  <2> SUFFICES ASSUME IndInv, NEW p \in Persons, NEW q \in Persons, p # q, ~Raced,
                      NEW n \in given[p] \cap given[q], n \notin lost
               PROVE  FALSE
    BY DEF NeverReused
  <2>1. Separate(p, q) /\ Separate(q, p) /\ Accounted(p) /\ Accounted(q)
    BY DEF IndInv, Apart
  <2>2. n # None
    BY DomainAssumption DEF IndInv, Typed, TypeOK
  <2> QED  BY <2>1, <2>2 DEF Separate, Accounted
<1> QED  BY <1>1, <1>2, StepApart, PTL DEF Spec

=============================================================================
