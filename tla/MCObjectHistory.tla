---------------------------- MODULE MCObjectHistory ----------------------------
(* Two values of an attribute that is required and one of an attribute that is *)
(* not; the values are interchangeable.  The settings take one attribute of    *)
(* every sort: sent and read, not read, not sent, refused, with a default.     *)
EXTENDS ObjectHistory, TLC

Setting(kind, attribute, mapped, terminates, nullClears, maxEvents) ==
    [kind |-> kind, attribute |-> attribute, mapped |-> mapped,
     terminates |-> terminates, nullClears |-> nullClears, maxEvents |-> maxEvents]

MCSettings ==
    {Setting("Engagement", "extension_1", TRUE, TRUE, FALSE, 2),
     Setting("Engagement", "extension_1", FALSE, FALSE, TRUE, 1),
     Setting("Engagement", "fraction", TRUE, TRUE, TRUE, 1),
     Setting("Employee", "seniority", FALSE, FALSE, TRUE, 1),
     Setting("Employee", "seniority", TRUE, FALSE, TRUE, 1),
     Setting("Employee", "nickname_surname", TRUE, FALSE, FALSE, 1),
     Setting("ITUser", "external_id", TRUE, TRUE, TRUE, 1),
     Setting("ITUser", "org_unit", TRUE, TRUE, FALSE, 1),
     Setting("ITUser", "org_unit", TRUE, TRUE, TRUE, 1),
     Setting("Address", "visibility", TRUE, TRUE, TRUE, 2),
     Setting("Address", "visibility", TRUE, FALSE, FALSE, 1),
     Setting("Address", "value2", FALSE, TRUE, TRUE, 1),
     Setting("Class", "parent", TRUE, TRUE, FALSE, 1),
     Setting("OrganisationUnit", "parent", FALSE, TRUE, FALSE, 1)}

Symmetry == Permutations(Values)
=============================================================================
