-------------------------------- MODULE Classes --------------------------------
(***************************************************************************)
(* get_or_create_job_function_uuid: a template asks for the class of a     *)
(* facet by its user key and has it created when MO has none               *)
(* (environments/main.py, moapi.py).  The look-up is by facet and user     *)
(* key; the look-up under the lock that precedes the creation is by user   *)
(* key alone.  The lock is one process's: during a rolling restart two     *)
(* processes handle events.                                                *)
(***************************************************************************)
EXTENDS Integers, FiniteSets, Functions

CONSTANTS
    Handlers,       \* renderings that want a class, each once
    Processes,      \* of the integration
    Keys, Facets,
    MaxClasses      \* bound: classes MO has at first of one key in one facet

ClassesAssumption ==
    /\ MaxClasses \in Nat
    /\ Processes # {} /\ Keys # {} /\ Facets # {}
    /\ IsFiniteSet(Handlers) /\ IsFiniteSet(Keys) /\ IsFiniteSet(Facets)

VARIABLES
    process,    \* of each handler
    before,     \* how many classes MO had at first
    classes,    \* how many classes MO has of each user key in each facet
    wants,      \* the user key and facet of each handler
    pc,         \* "find", "facet", "lock", "look", "create", "done" or "failed"
    got         \* the user keys and facets of the class a handler was given

vars == <<process, before, classes, wants, pc, got>>

TypeOK ==
    /\ process \in [Handlers -> Processes]
    /\ before \in [Keys \X Facets -> Nat]
    /\ classes \in [Keys \X Facets -> Nat]
    /\ wants \in [Handlers -> Keys \X Facets]
    /\ pc \in [Handlers -> {"find", "facet", "lock", "look", "create", "done", "failed"}]
    /\ got \in [Handlers -> SUBSET (Keys \X Facets)]

\* The handlers that hold the create_mo_class_lock of their process.
Inside(h) == pc[h] \in {"look", "create"}

Named(k) == {c \in Keys \X Facets : c[1] = k /\ classes[c] > 0}

Step(h, from, to) == pc[h] = from /\ pc' = [pc EXCEPT ![h] = to]
Give(h, c) == got' = [got EXCEPT ![h] = {c}]

\* _get_facet_class_uuid: one() raises a ValueError when there are two.
Find(h) ==
    /\ \/ classes[wants[h]] = 0 /\ Step(h, "find", "facet") /\ UNCHANGED got
       \/ classes[wants[h]] = 1 /\ Step(h, "find", "done") /\ Give(h, wants[h])
       \/ classes[wants[h]] > 1 /\ Step(h, "find", "failed") /\ UNCHANGED got
    /\ UNCHANGED <<process, before, classes, wants>>

\* Mutant: the class is created without a look under the lock.
NoSecondLook(h) ==
    /\ Step(h, "facet", "create")
    /\ UNCHANGED <<process, before, classes, wants, got>>

\* _create_facet_class: facets do not change, so that this request only gives
\* others the time to act.
LoadFacet(h) ==
    /\ Step(h, "facet", "lock")
    /\ UNCHANGED <<process, before, classes, wants, got>>

\* Mutant of Lock: nobody waits.
LockAnyway(h) ==
    /\ Step(h, "lock", "look")
    /\ UNCHANGED <<process, before, classes, wants, got>>

Lock(h) ==
    /\ Step(h, "lock", "look")
    /\ \A g \in Handlers : process[g] = process[h] => ~Inside(g)
    /\ UNCHANGED <<process, before, classes, wants, got>>

\* load_mo_class_uuid under the lock: a class with the user key, of any facet; with
\* two of them a MultipleObjectsReturnedException.  Leaving "look" for an answer
\* releases the lock.
Look(h) ==
    LET named == Named(wants[h][1])
    IN  /\ \/ named = {} /\ Step(h, "look", "create") /\ UNCHANGED got
           \/ \E c \in named :
                /\ named = {c} /\ classes[c] = 1
                /\ Step(h, "look", "done")
                /\ Give(h, c)
           \/ /\ named # {} /\ ~\E c \in named : named = {c} /\ classes[c] = 1
              /\ Step(h, "look", "failed") /\ UNCHANGED got
        /\ UNCHANGED <<process, before, classes, wants>>

Create(h) ==
    /\ Step(h, "create", "done")
    /\ classes' = [classes EXCEPT ![wants[h]] = @ + 1]
    /\ Give(h, wants[h])
    /\ UNCHANGED <<process, before, wants>>

Handle(h) == Find(h) \/ LoadFacet(h) \/ Lock(h) \/ Look(h) \/ Create(h)

Init ==
    /\ process \in [Handlers -> Processes]
    /\ before \in [Keys \X Facets -> 0 .. MaxClasses]
    /\ classes = before
    /\ wants \in [Handlers -> Keys \X Facets]
    /\ pc = [h \in Handlers |-> "find"]
    /\ got = [h \in Handlers |-> {}]

Next == \E h \in Handlers : Handle(h)

Spec == Init /\ [][Next]_vars /\ \A h \in Handlers : WF_vars(Handle(h))

-----------------------------------------------------------------------------
(* Properties *)

OneProcess == \A g, h \in Handlers : process[g] = process[h]

\* In one process the check under the lock and the creation are one step to
\* everybody else.
OneInCriticalSection ==
    \A g, h \in Handlers : Inside(g) /\ Inside(h) /\ process[g] = process[h] => g = h

\* One process never makes a user key ambiguous: what it creates has a user key
\* that no facet has, also when two renderings want it of two facets.
AddsNewKey ==
    OneProcess =>
        \A c \in Keys \X Facets : classes'[c] # classes[c] =>
            /\ Named(c[1]) = {}
            /\ classes'[c] = 1

OnlyNewKeys == [][AddsNewKey]_vars

\* The classes of one user key, of all facets.
Counted(number, k) ==
    UNION {{<<c, i>> : i \in 1 .. number[c]} : c \in {d \in Keys \X Facets : d[1] = k}}

\* And several processes create at most one class each of a user key, and none of
\* a user key that MO has.
OnePerProcess ==
    \A k \in Keys :
        IF Counted(before, k) # {} THEN Counted(classes, k) = Counted(before, k)
        ELSE Cardinality(Counted(classes, k)) <= Cardinality(Range(process))

\* With one process a rendering fails only on an ambiguity that MO had before
\* anybody asked; in particular two renderings that want one new class share it.
FailsOnlyAsFound ==
    OneProcess =>
        \A h \in Handlers : pc[h] = "failed" =>
            \E c, d \in Keys \X Facets :
                /\ c[1] = wants[h][1] /\ d[1] = c[1]
                /\ before[c] > 0 /\ before[d] > 0
                /\ c = d => before[c] > 1
=============================================================================
