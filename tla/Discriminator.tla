---------------------------- MODULE Discriminator ----------------------------
(***************************************************************************)
(* Which of a person's accounts it is: filter_dns and apply_discriminator  *)
(* of ldap.py.  Discriminator_filter drops accounts; then the first of the *)
(* templates in discriminator_values that is true of any account decides;  *)
(* or, to be like an old integration, an it-user of the person in a legacy *)
(* it-system names the account, and without one it is the lowest DN, which *)
(* the synchronization of that account is to cement by creating such an    *)
(* it-user.                                                                *)
(***************************************************************************)
EXTENDS Integers, FiniteSetsExt

CONSTANTS
    DNs,        \* numbers, in alphabetical order
    Names,      \* sAMAccountNames: an account keeps its own
    Priorities, \* positions in discriminator_values
    MaxMoves    \* bound: accounts that are added, deleted or get another DN

DiscriminatorAssumption ==
    /\ DNs \subseteq Nat /\ MaxMoves \in Nat /\ IsFiniteSet(Names)
    /\ Priorities \subseteq Nat /\ Priorities # {}

\* An account: what discriminator_filter says of it; whether its discriminator
\* fields have one value at most each; and the templates that are true of it.
Objects == [dn : DNs, name : Names, good : BOOLEAN, single : BOOLEAN, wins : SUBSET Priorities]

VARIABLES
    mode,       \* "none", "templates" or "legacy"
    filters,    \* there is a discriminator_filter
    accounts,   \* of the person, in LDAP
    itusers,    \* user keys of the person's it-users in the legacy it-system
    pc,         \* "ask", "itusers", "names" or "answered"
    objects,    \* the accounts being considered, as they were read; of "names"
                \* those whose name is still to be read
    answer,     \* "none", "found", "ambiguous" or "error"
    chosen,     \* the account found, as it was read
    held,       \* history: DNs the account of the it-user had while others were considered
    cemented,   \* history: the account whose synchronization created the it-user
    moves

vars == <<mode, filters, accounts, itusers, pc, objects, answer, chosen, held, cemented, moves>>

TypeOK ==
    /\ mode \in {"none", "templates", "legacy"} /\ filters \in BOOLEAN
    /\ accounts \subseteq Objects /\ objects \subseteq Objects /\ chosen \subseteq Objects
    /\ itusers \subseteq Names /\ cemented \subseteq Names
    /\ pc \in {"ask", "itusers", "names", "answered"}
    /\ answer \in {"none", "found", "ambiguous", "error"}
    /\ held \subseteq DNs /\ moves \in 0 .. MaxMoves

Apart(S) == \A o, p \in S : o.dn = p.dn \/ o.name = p.name => o = p

\* What the settings do not look at has a fixed value.
Relevant(o) ==
    /\ ~filters => o.good
    /\ filters \/ mode = "templates" \/ o.single
    /\ mode # "templates" => o.wins = {}

\* A filter needs discriminator_fields, which without the bypass go with templates.
FilterHasFields == filters => mode # "none"

Init ==
    /\ mode \in {"none", "templates", "legacy"} /\ filters \in BOOLEAN
    /\ FilterHasFields
    /\ \E N \in SUBSET Names : \E f \in [N -> {o \in Objects : Relevant(o)}] :
        /\ \A n \in N : f[n].name = n
        /\ accounts = {f[n] : n \in N}
        /\ Apart(accounts)
    /\ itusers \in IF mode = "legacy" THEN SUBSET Names ELSE {{}}
    /\ pc = "ask" /\ objects = {} /\ answer = "none" /\ chosen = {}
    /\ held = {} /\ cemented = {} /\ moves = 0

-----------------------------------------------------------------------------
(* filter_dns and apply_discriminator *)

Answer(a, S) ==
    /\ pc' = "answered" /\ answer' = a /\ chosen' = S /\ objects' = {} /\ held' = {}

\* calculate_discriminator_mapping fails if any account has several values.
Mapped(S) == \A o \in S : o.single

filter_dns(S) == IF filters THEN {o \in S : o.good} ELSE S

\* The accounts of which the first template is true that is true of any.
ByTemplates(S) ==
    LET true(p) == {o \in S : p \in o.wins}
        decisive == {p \in Priorities : true(p) # {}}
    IN  IF decisive = {} THEN {} ELSE true(Min(decisive))

AnswerAmong(S) ==
    CASE mode = "legacy" /\ Cardinality(S) > 1 ->
            /\ pc' = "itusers" /\ objects' = S
            /\ held' = {o.dn : o \in {p \in accounts : p.name \in itusers}}
            /\ UNCHANGED <<answer, chosen>>
      [] mode # "templates" /\ Cardinality(S) = 1 -> Answer("found", S)
      [] mode = "none" /\ Cardinality(S) > 1 -> Answer("error", {})
      [] mode = "templates" ->
            LET best == ByTemplates(S)
            IN  CASE ~Mapped(S) -> Answer("error", {})
                  [] Mapped(S) /\ best = {} -> Answer("none", {})
                  [] Mapped(S) /\ Cardinality(best) = 1 -> Answer("found", best)
                  [] Mapped(S) /\ Cardinality(best) > 1 -> Answer("ambiguous", {})

\* As load_cpr_uuid_data does, and the export and the import of a person.
Ask ==
    /\ pc = "ask"
    /\ IF filters /\ ~Mapped(accounts) THEN Answer("error", {})
       ELSE IF filter_dns(accounts) = {} THEN Answer("none", {})
       ELSE AnswerAmong(filter_dns(accounts))
    /\ UNCHANGED <<mode, filters, accounts, itusers, cemented, moves>>

Lowest(S) == {o \in S : \A p \in S : o.dn <= p.dn}

\* Mutant: the lowest DN whatever it-user there is.
LowestAnyway ==
    /\ pc = "itusers"
    /\ Answer("found", Lowest(objects))
    /\ UNCHANGED <<mode, filters, accounts, itusers, cemented, moves>>

LoadItUsers ==
    /\ pc = "itusers"
    /\ CASE Cardinality(itusers) > 1 -> Answer("ambiguous", {})
         [] Cardinality(itusers) = 1 -> pc' = "names" /\ UNCHANGED <<objects, answer, chosen, held>>
         [] itusers = {} -> Answer("found", Lowest(objects))
    /\ UNCHANGED <<mode, filters, accounts, itusers, cemented, moves>>

\* dn2sam reads the name of one account after the other by its DN, which may have
\* become another's; of DNs with the expected name the last one counts.
LoadName ==
    /\ pc = "names"
    /\ \E o \in objects :
        LET now == {p \in accounts : p.dn = o.dn}
            named == IF \E p \in now : p.name \in itusers THEN {o} ELSE chosen
        IN  IF now = {} THEN Answer("error", {})
            ELSE IF objects # {o}
            THEN objects' = objects \ {o} /\ chosen' = named /\ UNCHANGED <<pc, answer, held>>
            ELSE IF named = {} THEN Answer("error", {}) ELSE Answer("found", named)
    /\ UNCHANGED <<mode, filters, accounts, itusers, cemented, moves>>

Again ==
    /\ pc = "answered"
    /\ pc' = "ask" /\ answer' = "none" /\ chosen' = {}
    /\ UNCHANGED <<mode, filters, accounts, itusers, objects, held, cemented, moves>>

-----------------------------------------------------------------------------
(* The world *)

\* The synchronization of the account creates the it-user.
Cement ==
    /\ mode = "legacy" /\ answer = "found" /\ itusers = {}
    /\ itusers' = {o.name : o \in chosen}
    /\ cemented' = itusers'
    /\ UNCHANGED <<mode, filters, accounts, pc, objects, answer, chosen, held, moves>>

\* External: an account is deleted, added, or moved to another DN.
Move ==
    /\ mode = "legacy"
    /\ moves < MaxMoves /\ moves' = moves + 1
    /\ \/ \E o \in accounts : accounts' = accounts \ {o} /\ UNCHANGED held
       \/ \E o \in Objects :
            /\ Relevant(o) /\ o \notin accounts
            /\ accounts' = {p \in accounts : p.name # o.name} \cup {o}
            /\ Apart(accounts')
            /\ held' = IF pc \in {"itusers", "names"} /\ o.name \in itusers
                       THEN held \cup {o.dn} ELSE held
    /\ UNCHANGED <<mode, filters, itusers, pc, objects, answer, chosen, cemented>>

Next == Ask \/ LoadItUsers \/ LoadName \/ Again \/ Cement \/ Move

-----------------------------------------------------------------------------
(* Properties *)

\* Once an account has been synchronized and so has its it-user, it stays the one,
\* whatever DNs accounts are moved to and whichever accounts come: if it is the only
\* one that passes the filter it is found, and of several none is found but by
\* a DN that it has, or had while they were considered.
StaysTheOne ==
    [][pc' = "answered" /\ answer' = "found" /\ pc # "answered" /\ cemented # {} =>
        IF pc = "ask" THEN \A o \in filter_dns(accounts) : o.name \in cemented => chosen' = {o}
        ELSE \E o \in chosen' : chosen' = {o} /\ o.dn \in held]_vars
=============================================================================
