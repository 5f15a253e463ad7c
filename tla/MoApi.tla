-------------------------------- MODULE MoApi --------------------------------
(***************************************************************************)
(* What the integration reads and sends of one attribute of an MO object,  *)
(* for each kind of object (moapi.py, models.py, and the queries of        *)
(* client.py).  An attribute that is required is read and sent as it is,   *)
(* as is "published" of a class, which is never empty; these operators are *)
(* about the others, of which an it-system has none.                       *)
(*                                                                         *)
(* LoadX is what an object of kind X has of an attribute of which MO has v,*)
(* CreateX and EditX what is sent of an attribute of which the object has v.*)
(***************************************************************************)
CONSTANTS
    Null,       \* no value
    Blank,      \* the empty string
    UNSET,      \* the sentinel of an extension
    Absent      \* what is not named in a request

-----------------------------------------------------------------------------
(* The models, and the values of what a mapping does not set *)

Address == {"value2", "org_unit", "ituser", "engagement", "visibility"}
Employee == {"seniority", "nickname_given_name", "nickname_surname"}
OrganisationUnit == {"parent"}
Engagement == {"primary", "extension_1", "fraction"}
ITUser == {"external_id", "binding_type", "person", "org_unit", "engagements"}
Class == {"it_system", "owner", "parent"}

Attributes ==
    [Address |-> Address, Employee |-> Employee, OrganisationUnit |-> OrganisationUnit,
     Engagement |-> Engagement, ITUser |-> ITUser, Class |-> Class]

Kinds == DOMAIN Attributes
Nicknames == {"nickname_given_name", "nickname_surname"}

Default(attribute) ==
    CASE attribute \in Nicknames -> Blank
      [] attribute = "extension_1" -> UNSET
      [] OTHER -> Null

-----------------------------------------------------------------------------
(* Queries: the attributes they select *)

read_addresses == Address
read_employees == Nicknames
read_org_units == OrganisationUnit
read_engagements == Engagement
read_itusers == {"external_id", "binding_type", "person", "engagements"}
read_classes == Class

-----------------------------------------------------------------------------
(* Loads *)

If(named, v) == IF named THEN v ELSE Null

LoadAddress(a, v) == If(a \in read_addresses, v)
LoadEmployee(a, v) == If(a \in read_employees, IF v = Null THEN Blank ELSE v)
LoadOrgUnit(a, v) == If(a \in read_org_units, v)
LoadEngagement(a, v) == If(a \in read_engagements, v)
LoadItUser(a, v) == If(a \in read_itusers, v)
LoadClass(a, v) == If(a \in read_classes, v)

Load(kind, a, v) ==
    CASE kind = "Address" -> LoadAddress(a, v)
      [] kind = "Employee" -> LoadEmployee(a, v)
      [] kind = "OrganisationUnit" -> LoadOrgUnit(a, v)
      [] kind = "Engagement" -> LoadEngagement(a, v)
      [] kind = "ITUser" -> LoadItUser(a, v)
      [] kind = "Class" -> LoadClass(a, v)

-----------------------------------------------------------------------------
(* Creations *)

Named(named, v) == IF named THEN v ELSE Absent

CreateAddress(a, v) == Named(a \notin {"org_unit", "value2"}, v)
CreateEmployee(a, v) == v
CreateOrgUnit(a, v) == v
CreateItUser(a, v) == v
CreateClass(a, v) == v

\* Mutant: extensions are not sanitized.
CreateEngagementRaw(a, v) == Named(a # "fraction", v)

CreateEngagement(a, v) == Named(a # "fraction", IF v = UNSET THEN Null ELSE v)

Create(kind, a, v) ==
    CASE kind = "Address" -> CreateAddress(a, v)
      [] kind = "Employee" -> CreateEmployee(a, v)
      [] kind = "OrganisationUnit" -> CreateOrgUnit(a, v)
      [] kind = "Engagement" -> CreateEngagement(a, v)
      [] kind = "ITUser" -> CreateItUser(a, v)
      [] kind = "Class" -> CreateClass(a, v)

\* An address of a unit, and one with a second value, fails an assertion.
Refused(kind, a, v) == kind = "Address" /\ a \in {"org_unit", "value2"} /\ v # Null

-----------------------------------------------------------------------------
(* Edits *)

EditAddress(a, v) == Named(a \notin {"org_unit", "value2"}, v)
EditEmployee(a, v) == CreateEmployee(a, v)
EditOrgUnit(a, v) == v
EditItUser(a, v) == v
EditClass(a, v) == v

\* Null is sent as the empty string, with which MO clears an extension.
EditEngagement(a, v) ==
    CASE a = "fraction" -> Absent
      [] a = "extension_1" -> IF v = UNSET THEN Null ELSE IF v = Null THEN Blank ELSE v
      [] a = "primary" -> v

Edit(kind, a, v) ==
    CASE kind = "Address" -> EditAddress(a, v)
      [] kind = "Employee" -> EditEmployee(a, v)
      [] kind = "OrganisationUnit" -> EditOrgUnit(a, v)
      [] kind = "Engagement" -> EditEngagement(a, v)
      [] kind = "ITUser" -> EditItUser(a, v)
      [] kind = "Class" -> EditClass(a, v)

-----------------------------------------------------------------------------
(* MO.  It leaves alone what is not named, clears what is blank, and clears or *)
(* leaves alone what is null. *)

Stored(old, v, nullClears) ==
    CASE v = Absent -> old
      [] v = Blank -> Null
      [] v = Null -> IF nullClears THEN Null ELSE old
      [] OTHER -> v
=============================================================================
