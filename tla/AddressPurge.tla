----------------------------- MODULE AddressPurge -----------------------------
(***************************************************************************)
(* The endpoint /danger/purge_addresses of routes.py, for one person: all  *)
(* addresses of a type but one are terminated, one request each, and the   *)
(* person's account is announced, so that an import sets the one left to   *)
(* what LDAP has.  A call may be repeated while the first one still runs,  *)
(* and it may terminate at a later midnight: its addresses are current     *)
(* until then, also while the account is imported.                         *)
(***************************************************************************)
CONSTANTS
    Calls,
    Addresses,  \* uuids
    Mail,       \* values
    Nothing     \* of an address that is not there

VARIABLES
    addresses,  \* of each uuid: its value in MO
    account,    \* the value in LDAP, if the person has an account that is good
    pc,         \* of each call: "read", "find", "terminate", or how it ended:
                \* "skipped", "dryRun", "published" or "failed"
    dry,        \* the calls with dry_run
    later,      \* the calls that terminate `at' a later midnight, not today
    rest,       \* of each call: the addresses it is to terminate
    ending,     \* the addresses that are to end at such a midnight
    announced,  \* an event about the account waits
    writing,    \* an import has found what to write
    target      \* the address it writes; none when it creates one

flags == <<dry, later>>
import == <<announced, writing, target>>
vars == <<addresses, account, pc, flags, rest, ending, import>>

Present == {a \in Addresses : addresses[a] # Nothing}

AtMostOne(S) == \A a, b \in S : a = b

TypeOK ==
    /\ addresses \in [Addresses -> Mail \cup {Nothing}]
    /\ account \in Mail \cup {Nothing}
    /\ pc \in [Calls -> {"read", "find", "terminate", "skipped", "dryRun", "published", "failed"}]
    /\ dry \subseteq Calls /\ later \subseteq Calls
    /\ rest \in [Calls -> SUBSET Addresses]
    /\ ending \subseteq Addresses
    /\ announced \in BOOLEAN
    /\ writing \in BOOLEAN /\ target \subseteq Addresses

Init ==
    /\ addresses \in [Addresses -> Mail \cup {Nothing}]
    /\ account \in Mail \cup {Nothing}
    /\ pc = [c \in Calls |-> "read"]
    /\ dry \in SUBSET Calls /\ later \in SUBSET (Calls \ dry)
    /\ rest = [c \in Calls |-> {}]
    /\ ending = {}
    /\ announced = FALSE /\ writing = FALSE /\ target = {}

-----------------------------------------------------------------------------
(* A call *)

Step(c, from, to) == pc[c] = from /\ pc' = [pc EXCEPT ![c] = to]

Forget(c) == rest' = [rest EXCEPT ![c] = {}]

\* MO answers with the addresses in any order; the first one is to survive.
ReadCleanupAddresses(c) ==
    /\ \/ AtMostOne(Present) /\ Step(c, "read", "skipped") /\ UNCHANGED rest
       \/ /\ ~AtMostOne(Present) /\ Step(c, "read", "find")
          /\ \E survivor \in Present : rest' = [rest EXCEPT ![c] = Present \ {survivor}]
    /\ UNCHANGED <<addresses, account, flags, ending, import>>

\* Without an account nothing is cleaned up.
FindAccount(c) ==
    /\ \/ account = Nothing /\ Step(c, "find", "skipped") /\ Forget(c)
       \/ account # Nothing /\ c \in dry /\ Step(c, "find", "dryRun") /\ Forget(c)
       \/ account # Nothing /\ c \notin dry /\ Step(c, "find", "terminate") /\ UNCHANGED rest
    /\ UNCHANGED <<addresses, account, flags, ending, import>>

\* One by one.  An address that is gone already is terminated to no effect.
AddressTerminate(c) ==
    /\ pc[c] = "terminate"
    /\ \E a \in rest[c] :
        /\ rest' = [rest EXCEPT ![c] = @ \ {a}]
        /\ IF c \in later
           THEN ending' = ending \cup ({a} \cap Present) /\ UNCHANGED addresses
           ELSE ending' = ending \ {a} /\ addresses' = [addresses EXCEPT ![a] = Nothing]
    /\ UNCHANGED <<account, pc, flags, import>>

\* At once, also if the addresses are to end later.
Publish(c) ==
    /\ rest[c] = {} /\ Step(c, "terminate", "published")
    /\ announced' = TRUE
    /\ UNCHANGED <<addresses, account, flags, rest, ending, writing, target>>

\* External: a request fails.
Fail(c) ==
    /\ pc[c] \in {"read", "find", "terminate"}
    /\ pc' = [pc EXCEPT ![c] = "failed"] /\ Forget(c)
    /\ UNCHANGED <<addresses, account, flags, ending, import>>

-----------------------------------------------------------------------------
(* The import, and the world *)

\* What the import finds it would not change.
Identical(found) == \E a \in found : addresses[a] = account /\ a \notin ending

\* Mutant: the uuid template takes any of several addresses.
ImportFindAny ==
    /\ announced /\ ~writing
    /\ \E found \in SUBSET Present :
        /\ AtMostOne(found) /\ (found = {} => Present = {})
        /\ announced' = FALSE
        /\ writing' = ~Identical(found)
        /\ target' = IF writing' THEN found ELSE {}
    /\ UNCHANGED <<addresses, account, pc, flags, rest, ending>>

\* get_address_uuid raises an error as long as there are several addresses, and the
\* event is delivered again: so is that of an import that fails, having changed
\* nothing.
ImportFind ==
    /\ announced /\ ~writing
    /\ AtMostOne(Present)
    /\ announced' = FALSE
    /\ writing' = ~Identical(Present)
    /\ target' = IF writing' THEN Present ELSE {}
    /\ UNCHANGED <<addresses, account, pc, flags, rest, ending>>

\* An edit, from today on and without an end, whatever became of the address since
\* it was found; or a create.  See UserImport and ObjectHistory for the rest.
ImportWrite ==
    /\ writing /\ writing' = FALSE /\ target' = {}
    /\ \E a \in IF target = {} THEN Addresses ELSE target :
        /\ addresses' = [addresses EXCEPT ![a] = account]
        /\ ending' = ending \ {a}
    /\ UNCHANGED <<account, pc, flags, rest, announced>>

\* A midnight comes that some of the addresses were to end at.
Midnight ==
    /\ \E S \in (SUBSET ending) \ {{}} :
        /\ addresses' = [a \in Addresses |-> IF a \in S THEN Nothing ELSE addresses[a]]
        /\ ending' = ending \ S
    /\ UNCHANGED <<account, pc, flags, rest, import>>

\* External: an address is removed in MO during a call that is to announce the account.
Remove ==
    /\ \E c \in Calls \ dry : pc[c] \in {"find", "terminate"}
    /\ \E a \in Present :
        addresses' = [addresses EXCEPT ![a] = Nothing] /\ ending' = ending \ {a}
    /\ UNCHANGED <<account, pc, flags, rest, import>>

Import == ImportFind \/ ImportWrite

Call(c) == ReadCleanupAddresses(c) \/ FindAccount(c) \/ AddressTerminate(c) \/ Publish(c)

Next == Import \/ Midnight \/ Remove \/ \E c \in Calls : Call(c) \/ Fail(c)

-----------------------------------------------------------------------------
(* Properties *)

\* Whichever address survives, also of two calls at once that each terminate the
\* survivor of the other, now or at midnights to come: the person ends with one
\* address, as LDAP has it, and it is not about to end.  Not so after a failure, and
\* a call repeated then finds nothing to do.
RightValueLeft ==
    <>[]((\E c \in Calls : pc[c] = "published") /\ (\A c \in Calls : pc[c] # "failed") =>
            \E a \in Addresses : Present = {a} /\ addresses[a] = account /\ a \notin ending)
=============================================================================
