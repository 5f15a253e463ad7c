------------------------------ MODULE Endpoints ------------------------------
(***************************************************************************)
(* The endpoints of routes.py that an administrator calls to look up a     *)
(* person's account or to repair what MO has.  One of them is `called', in *)
(* a world that goes on meanwhile; the parts have no state in common.      *)
(***************************************************************************)
EXTENDS Integers, FiniteSets

CONSTANTS
    Keys, Page, Pages, MaxOutside,
    Calls, Addresses, Mail, Nothing,
    DNs, AccountNames, Priorities, MaxMoves

VARIABLES
    called,     \* "fixup", "purge" or "lookup"
    maker, matched, ldap, where, links, pending, fixup, page, at, dryRun, found, bad,
    outcome, absent, present, before, lapsed, taken, outside,
    addresses, account, purge, dry, later, rest, ending, announced, writing, target,
    mode, filters, accounts, itusers, lookup, objects, answer, chosen, held, cemented, moves

fixupVars == <<maker, matched, ldap, where, links, pending, fixup, page, at, dryRun,
               found, bad, outcome, absent, present, before, lapsed, taken, outside>>
purgeVars == <<addresses, account, purge, dry, later, rest, ending, announced, writing, target>>
lookupVars == <<mode, filters, accounts, itusers, lookup, objects, answer, chosen, held, cemented, moves>>
endpointsVars == <<called, fixupVars, purgeVars, lookupVars>>

Fixups == INSTANCE Fixups WITH pc <- fixup, seen <- found
AddressPurge == INSTANCE AddressPurge WITH pc <- purge
Discriminator == INSTANCE Discriminator WITH pc <- lookup, Names <- AccountNames

ASSUME EndpointsAssumption ==
    /\ Fixups!FixupsAssumption
    /\ Discriminator!DiscriminatorAssumption

EndpointsTypeOK == Fixups!TypeOK /\ AddressPurge!TypeOK /\ Discriminator!TypeOK

\* What is not called keeps a fixed value.
NoFixup ==
    /\ maker = "export" /\ matched = {} /\ ldap = {} /\ where = Page
    /\ links = [k \in Keys |-> "none"] /\ pending = {}
    /\ fixup = "idle" /\ page = 1 /\ at = "today" /\ dryRun = TRUE
    /\ found = {} /\ bad = {} /\ outcome = "none"
    /\ absent = {} /\ present = {} /\ before = {} /\ lapsed = {}
    /\ taken = {} /\ outside = 0

NoPurge ==
    /\ addresses = [a \in Addresses |-> Nothing] /\ account = Nothing
    /\ purge = [c \in Calls |-> "read"] /\ dry = {} /\ later = {}
    /\ rest = [c \in Calls |-> {}] /\ ending = {}
    /\ announced = FALSE /\ writing = FALSE /\ target = {}

NoLookup ==
    /\ mode = "none" /\ filters = FALSE /\ accounts = {} /\ itusers = {}
    /\ lookup = "ask" /\ objects = {} /\ answer = "none" /\ chosen = {}
    /\ held = {} /\ cemented = {} /\ moves = 0

EndpointsInit ==
    \/ called = "fixup" /\ Fixups!Init /\ NoPurge /\ NoLookup
    \/ called = "purge" /\ AddressPurge!Init /\ NoFixup /\ NoLookup
    \/ called = "lookup" /\ Discriminator!Init /\ NoFixup /\ NoPurge

\* A step of what is called leaves the rest alone.
InFixup(step) == called = "fixup" /\ step /\ UNCHANGED <<called, purgeVars, lookupVars>>
InPurge(step) == called = "purge" /\ step /\ UNCHANGED <<called, fixupVars, lookupVars>>
InLookUp(step) == called = "lookup" /\ step /\ UNCHANGED <<called, fixupVars, purgeVars>>

Fixup == InFixup(Fixups!Next)
Purge == InPurge(AddressPurge!Next)
LookUp == InLookUp(Discriminator!Next)

EndpointsNext == Fixup \/ Purge \/ LookUp

\* Requests are answered, the events of persons and accounts are handled, and every
\* midnight comes.
Fairness ==
    /\ WF_endpointsVars(InFixup(Fixups!Call))
    /\ \A k \in Keys : WF_endpointsVars(InFixup(Fixups!Link(k)))
    /\ \A c \in Calls : WF_endpointsVars(InPurge(AddressPurge!Call(c)))
    /\ WF_endpointsVars(InPurge(AddressPurge!Import))
    /\ WF_endpointsVars(InPurge(AddressPurge!Midnight))

EndpointsSpec == EndpointsInit /\ [][EndpointsNext]_endpointsVars /\ Fairness

-----------------------------------------------------------------------------
(* Properties: those of the parts *)

\* Of the fixups of links: see Fixups.
TerminatesTheMissing == Fixups!TerminatesTheMissing
Relinked == Fixups!Relinked

\* Of the purge of addresses: see AddressPurge.
RightValueLeft == AddressPurge!RightValueLeft

\* Of the choice of an account: see Discriminator.
StaysTheOne == Discriminator!StaysTheOne
=============================================================================
