# A TLA+ development of os2mo-ldap-import-export

The program keeps OS2mo (MO), a registry of employees, and an LDAP directory
(usually Active Directory) in step. It listens to events of both, and writes
each from the other. This directory models its concurrent core in TLA+: TLC
checks the modules on small instances, TLAPS proves the most important safety
properties for every value of the constants.

Source paths below are relative to `src/mo_ldap_import_export/`.

## 1. The system

### Components, their state, and how they interact

| component | code | state it keeps | operations | talks to |
|---|---|---|---|---|
| LDAP event generator | `ldap_event_generator.py`, `ldap_emit.py` | one row per search base in PostgreSQL: newest timestamp seen and the uuids at it; one poller task per search base | poll, send events, commit the row; start, stop, health check | searches LDAP, sends events to MO's queue |
| Event handlers | `main.py`, `ldap_amqp.py`, `depends.py`, `exceptions.py` | none of their own; a lock per person in the process | one handler per routing key; the HTTP status says whether the queue forgets the event | called by MO's event system, three requests at a time per listener |
| Export of persons | `import_export.py` (`listen_to_changes_in_employees`), `dataloaders.py`, `usernames.py` | nothing durable; the links are ITUsers in MO | find the person's accounts, pick one or make a DN, write the account, link it | reads MO, reads and writes LDAP, writes links to MO |
| LDAP writer | `ldapapi.py`, `ldap.py` | nothing; LDAP is the state | add, compare and modify, modify-DN, lookups by DN, uuid, CPR | LDAP |
| Import of users | `import_export.py` (`import_single_user`, `import_entity`) | a lock per DN in the process | find or make the employee, then one create, edit or termination per mapping | reads LDAP, writes MO |
| Discriminator | `ldap.py` | none | filter a person's accounts, choose the best | read-only |
| MO API | `moapi.py`, `models.py` | one lock per process for the creation of classes | load, create, edit and terminate objects; current or latest validity; primary engagement | MO over GraphQL |
| Username generator | `environments/generate_username.py` | none | candidates from a person's name, the first that LDAP and MO do not use | reads both |
| Template environment | `environments/main.py` | none | functions the mapping templates call, some of which create classes and ITUsers | MO, LDAP |
| Manual endpoints | `routes.py` | none | overviews, clean-ups of links and addresses | both |
| Settings, checks, CLI, GraphQL client | `config.py`, `customer_specific_checks.py`, `cli.py`, `autogenerated_graphql_client/` | none | configuration, one guard, wrappers, generated code | - |

### What is hard

*Events.* Both directions are driven by at-least-once events: an event that ends
in an error is delivered again (409, 451, 500, 503), one that ends in 200 is
forgotten, and some exceptions are 200 on purpose (`exceptions.py`). A handler
may stop after any request. Events about one subject are handled at the same
time unless a lock says otherwise.

*No transactions across systems.* Every `await` is a point where MO or LDAP may
change. An LDAP object is named by its DN, which others may change; read,
compare, modify and modify-DN are separate requests. An account and its link
are made in two systems, one after the other.

*Echo.* The program's own writes come back as events of the other system.

*Time.* LDAP timestamps have a resolution of a second; the generator's row
remembers a second and what it saw in it.

*Processes.* A rolling restart runs two copies; the locks of `main.py` and
`import_export.py` are per process, the generator's row lock is not.

`PROJECT.json` lists each hazard at its line with the properties that cover it,
or the reason none does.

### What makes each component correct

- Event generator: no change is forgotten, a quiet directory makes a quiet queue.
- LDAP writer: an acknowledged event was written; the object converges to MO's
  state; old states do not overwrite new ones; the echo ends.
- Export of persons: one account per person, linked once, and to its own person;
  nobody is left without an account.
- Import of users: one employee per person; an object created once; MO's objects
  follow the best account; what users of MO write elsewhere stays.
- Event handlers: whoever a change concerns is told, whatever fails in between;
  the two directions do not feed each other for ever.
- Username generator: no two accounts with one username, and no username that
  was somebody else's; an event never waits for a username for ever.
- Discriminator: the account that was synchronized stays the one.
- MO API and look-ups of templates: the current object is the one returned; what is
  read and sent back does not change; the past stays; a class is created once.
- Manual endpoints: a fixup takes no it-user from an account that stays where it is, a link
  it takes by a race is made again if the export makes it, and whichever address a purge
  leaves is set to what LDAP has.

## 2. The modules

| module | models | proofs |
|---|---|---|
| `ChangeFeed` | what the event generator promises, abstractly: writes, notifications, a cursor that never passes an unannounced write | `EventGeneratorProofs` |
| `EventGenerator` | `ldap_event_generator.py`, `publish_uuids`, `_paged_search`; implements `ChangeFeed` | `EventGeneratorProofs` |
| `LdapWrite` | `ensure_ldap_object` of an existing object with the handlers that call it | `WriterAndEndpointsProofs` |
| `PersonSync` | `listen_to_changes_in_employees` down to `ensure_ituser_link`, and as much of `import_single_user` as makes links | `PersonSyncProofs` |
| `UserImport` | `http_process_uuid` down to `import_single_entity`: employee, best account, mappings one by one | `UserImportProofs` |
| `EventRouting` | the listeners, the handlers of `main.py` and `ldap_amqp.py` that pass events on, and the others as a step each | `EventRoutingProofs` |
| `Usernames` | both generators of `environments/generate_username.py` in a template of the export, and how MO learns the username | `UsernamesProofs` |
| `MoApi` | which attributes `moapi.py`, `models.py` and the queries of the GraphQL client read, default, create, edit or refuse, for six kinds of objects | |
| `ObjectHistory` | `import_single_entity` of one object from day to day, with validities and the attributes of `MoApi` (which it extends), and `/danger/purge_address_validities` | `ObjectHistoryProofs` |
| `MoLookups` | the look-ups of templates by validity: primary engagement both ways, addresses, engagements, it-users | `TemplatesProofs` |
| `Managers` | the climb of `get_legacy_manager_person_uuid` | `TemplatesProofs` |
| `Classes` | `get_or_create_job_function_uuid`, `create_mo_class` and its lock | `TemplatesProofs` |
| `Templates` | what the rendering of a template calls: composes `MoLookups`, `Managers` (which starts from such a look-up) and `Classes` | `TemplatesProofs` |
| `Fixups` | the three `/fixup/delete_non_existing_...` endpoints beside the export or imports, whichever make the it-users | `WriterAndEndpointsProofs` |
| `AddressPurge` | `/danger/purge_addresses` beside imports and itself | `WriterAndEndpointsProofs` |
| `Discriminator` | `filter_dns` and `apply_discriminator`, request by request | `WriterAndEndpointsProofs` |
| `Endpoints` | what an administrator calls: composes `Fixups`, `AddressPurge` and `Discriminator` (the CPR look-up) | `WriterAndEndpointsProofs` |
| `MCEventGenerator`, `MCLdapWrite`, `MCPersonSync`, `MCUserImport`, `MCEventRouting`, `MCUsernames`, `MCObjectHistory`, `MCTemplates`, `MCEndpoints` | values for TLC | |

How they fit together: a change in LDAP becomes an event in `EventGenerator`, finds
its handlers in `EventRouting`, and is imported in `UserImport`; a change in MO
starts in `EventRouting` and ends in `PersonSync` (which account, whose link),
`Discriminator` (which of several), `Templates` and `Usernames` (what the templates
look up or make) and `LdapWrite` (how the object is written). `ObjectHistory` is
`UserImport`'s single object over time, `Endpoints` what administrators do beside all
of it. These modules share no variables: each takes the others for its environment,
under the assumptions given below.

Each state-machine module starts with a comment on what it covers; the
operators marked *Mutant* are deliberate bugs, used only to see that each
property can fail, and no specification reaches them.

### EventGenerator

`now`, `within`, `mtime`, `ver` are the LDAP server: its clock in seconds, which
search bases find an object, its `modifyTimestamp`, and how often it was
written. `rows`, `lastRun`, `lock` are the table `last_run_gregorian` and its
row locks. `pc`, `todo`, `found`, `timestamp`, `pending` are the locals of a
running `_generate_events`; `alive` says whether the `_poller` task is not done.
`covered` and `sentAt` are history: the last write an event covers and when it
was sent. A consumer reads the object when it gets the event, so an event
covers all writes before it.

`EnsureRow` and `InsertRow` are the first transaction; they are two steps because
`SELECT ... FOR UPDATE` locks nothing when there is no row. `LockRow` to `Commit`
are the second: the search page by page, the decision of lines 265-270, the
concurrent sends, the update of the row. `Fail` rolls back and ends the task;
`Shutdown` cancels the tasks but lets a shielded cycle go on; `Crash` ends the
process; `Restart` is what the health check asks for.

Assumed: one LDAP server with a clock that does not go back; a write is stamped
and becomes visible at once; one page is answered from one state of the
directory. `raise_exceptions` is set on the connection, so the branch of
`_paged_search` for `operationsError` is never taken: such an error is a `Fail`.

### LdapWrite

One MO person and its object: `ou` and `entry` (RDN attribute and one other
attribute), what MO wants (`mo`, the `moVer`-th change), and `queued`, the event.
A handler goes find - render - read - identify - modify - rename - confirm; each
step is one request. Requests that go by a DN the object no longer has fail
(`Gone`) and the event is given back. `settings` is a variable that is chosen
once. `settings.exclusive` says that handlers take turns by the lock of `main.py`
line 245: without it they are `http_process_person` in two processes (a rolling
restart) or `mo_to_ldap` handlers, which have no lock. `settings.listening` is
`listen_to_changes_in_ldap`: with it a write of the object becomes an event about
the person, by way of the event generator and `http_reconcile_uuid`. It comes back
to `http_process_person` only; nothing brings an object that only a mapping writes
back to its handler.
`undisturbed`, `written` and `seen` are history.

Assumed: read-only mode is off; templates are functions of MO's state and render
the whole desired state.

### PersonSync

Accounts are LDAP uuids, of which a new account takes a fresh one; `name` is an
account's DN, `owner` the person it was added for, and so whose CPR number is on
it. `links[p][u]` counts the current ITUsers of `p` with `u` as user key.
`queued` and `announced` are the events of either side that wait. A handler
takes a person, runs the two lookups in any order (`asyncio.gather`), chooses an
account or makes a free DN and adds one, then links it: identify - check -
create. An importer does what `import_single_user` does with links: find the
person, find the accounts, check for the link and create it.

`settings` are chosen once: whether imports make links, whether there are
`discriminator_fields`, and which accounts `discriminator_filter` drops. With a filter that
drops every account, `_find_best_dn` returns None and another account is added at every
event: `filtered_away` is the run of it, and `OneAccount` counts accounts that pass.

Assumed: persons are in MO; `MayCreate` are those `create_user_trees` and the
template let through; the template does not skip a person who has an account;
the CPR number is written on accounts; the OU for new users is writable; of several
accounts that pass the filter any may be the best (which one is `Discriminator`'s matter).

### UserImport

One person, whose accounts (`ldap`) all carry the CPR number, and two mappings:
the employee, and an address for all that depends on it. `mo[k][e]` is the object
of employee `e`, `addresses[e]` how many addresses there are: two, and every
further import of it fails (`more than one`). A handler takes an event (`Start`),
finds the employee or generates a uuid (`FindEmployee`), chooses the best account
(`ChooseAccount`) and reads it if it is another than its own (`Reread`); then,
mapping by mapping, it takes the lock of the account's DN, looks the object up
(`Fetch`), and creates, terminates or edits it. `Good` and `Best` are
`filter_dns` and `apply_discriminator` over ranks: none, the single best, or an
error where two are as good. `settings` are `_import_to_mo_` of the employee
(`true` or `edit_only`) and whether terminations are sent.

`note` stands for an attribute no mapping has that is loaded and sent back with
an edit. The seniority of an employee is not one of them: it is never loaded (see
the hazards). `overlapped`, `mixed` and `crossed` are history: two handlers were
busy at a time; and held locks of different accounts; a user's edit came between
a fetch and the edit.

Assumed: templates find an existing address whatever its validity, and fail on
two; MO does not refuse a second employee with a CPR number. The accounts are
interchangeable, so `MCDirectories` has one directory of each kind. The lookup of
accounts also terminates links; that part is in `PersonSync`.

### EventRouting

`waiting` is the union of the queues, as pairs of a listener and a subject: events
that are the same twice are handled as one, and in any order. `relations[o]` is
whom the validities of an address, engagement or ituser name. A handler takes an
event (LDAP events not between 7:45 and 8:45, `open`), reads whom it concerns
(`PassOn`), has MO put events in one listener's queue at a time (`Refresh`, persons
before units) and is done (`Finish`). The handlers that synchronize
(`ProcessPerson`, `ProcessMapping`, `ProcessUuid`) are one step each; what they
write comes back as events (`Echo`), as long as there was news to write.
`scene` is chosen once and gives a deployment with bounds of its own.

`stale` is history: the handlings a change calls for. `Concerns` says what these
are from what MO's data is part of, not from what the handlers do. `cut` are those
that lost the relation by a change of an object's only validity: nothing of it is
left in MO for a handler to read.

Assumed: an import leaves MO and LDAP in accord; the accounts of a person stay;
objects that only `mo_to_ldap` mappings write are not reconciled from LDAP, and
changes of itusers, engagements and units not checked against LDAP: no handler
does either.

### Usernames

`ldap[p]` is the username of `p`'s account, `reserved[p]` the user keys of `p`'s
ituser at any time, `latest[p]` and `ended[p]` the ituser itself. The template is
that of `src/tests/integration/test_it_user.py:342-360`: it takes the username
from MO or has one generated; `settings.remembers` says whether it looks for past
itusers as well, the other settings are those of `UsernameGeneratorConfig` and
which generator is called. A handler tries candidates in order, from `at[p]` on:
`CheckLdap`, `CheckMo`, and at last `Write`. `Import` is MO learning of the username, by
any import that maps an ituser; nothing says when it happens.

Usernames are a core and a number. What a name and a combination, or a name's
letters, make of a person's name is a constant (`Combis`, `Letters`): formatting.
`PositionsOf` says which candidates there are and `IsFirst` in which order: numbers
2 to 9 for an X, combinations too short or forbidden left out, the other generator
from 1 without end (`MaxNumber` is never reached).

A second event before the import makes another username: the first is the
account's own, and so taken in LDAP. `lost` is history and holds usernames an
account lost like this, or with its deletion, before MO knew of them.

### MoApi and ObjectHistory

`MoApi` has no state: for each kind of object and each attribute that is not required,
what an object has that was loaded (`Load`), and what is sent of it (`Create`, `Edit`), as
the lists in the queries, the models' defaults and the calls of `moapi.py` have it. An
it-system has only required attributes. `Stored` is MO, which is external: what is not named
stays, and whether null clears is a setting, as the code never asks.

`ObjectHistory` follows one object. `timeline` is its state on each day, with one slot
for all days after the last; `ValiditiesOf` is how MO presents that. An import fetches
(`Fetch`, by `extract_current_or_latest_validity`), terminates (`Terminate`) and writes from
today on (`CreateNew`, `EditOld`, `Skip`); midnight, failures, edits by users of MO and
changes in LDAP come between. `PurgeRead` and `PurgeWrite` are the purge of validities.
`synced`, `repeated` and `later` are history. `settings` are the kind, the attribute that is
followed beside the required one, and whether the mapping gives it and terminates.

Assumed: MO consolidates validities of equal state; an edit applies to the interval it is
sent with; the day of MO's clock and of the program's is the same.

### MoLookups, Managers, Classes and Templates

A look-up is one request or two: all validities that match, of which one object is chosen,
then the validities of that one. `disturbed` says that MO or the day changed meanwhile. `mo` ranges over all sets of
validities of two objects that do not overlap. `Managers` is a forest of units; MO answers with
the managers inherited from above (`Inherited`, external). In `Classes` each handler finds,
or takes its process's lock, looks again and creates. `Templates` picks what a rendering
`uses`; the rest stands still.

Assumed: a validity ends at the midnight where its neighbour begins
(`tests/integration/test_update_validity.py`); units are never moved below themselves.

### Fixups, AddressPurge, Discriminator and Endpoints

`Fixups` reads LDAP's keys page by page, then MO's it-users, and terminates those whose key
LDAP did not have; `at` is the midnight of the terminations. Meanwhile accounts come, go and
move to other pages (`where`): LDAP is searched one OU after the other. Who makes the it-users is
`maker`. Those of the LDAP it-system, with the LDAP uuid as user key, the export makes: MO announces a
termination (`http_process_ituser`), and `Link` is what `listen_to_changes_in_employees` makes of
the event. It finds an account without a link only by the CPR number, and goes on to `ensure_ituser_link` only if
it chooses it and has something to write (`matched`); otherwise nothing is linked but an account it just
added. It-users with account names or external ids come from imports: `Import` happens when
something changes in the account, and no termination makes it happen, because the export asks LDAP nothing about them.

In `AddressPurge` two calls read, find the account and terminate, each today or at a `later` midnight
until which its addresses are current, though `ending`; the account is announced at once. An import
finds the one address there is (`ImportFind`; with several `get_address_uuid` fails and the event is
delivered again) and writes it (`ImportWrite`), which may be after a midnight or another call.

`Discriminator` takes the accounts as
they were read, asks MO for it-users in the mode of the legacy it-system and reads the names
by DN, one request after the other, as `sam_account_name_map` is filled, so that accounts may trade DNs in
between; `Cement` is the synchronization that creates such an it-user; `Move` are others; `held` are the
DNs that the it-user's account had meanwhile, by any of which it may be found.

The settings satisfy the validators of `config.py` (`FilterHasFields`; no termination of
employees in `HistoryAssumption`).

## 3. The runs

| run | expects | shows |
|---|---|---|
| `event_generator` | pass | `TypeOK`, `ImplementsFeed`, `OnlySameSecondWritesAreLost`, `EventuallySilent`: two objects, two processes on one search base, two writes per object, three seconds, one failure |
| `same_second` | violation | `NoChangeMissed`: an object written again in the second of its event, after the search, is never announced |
| `ldap_write` | pass | `TypeOK`, `AcknowledgedIsWritten`, `NoStaleWrite`, `Converges`, `EchoEnds`: two handlers, one change of MO, one by others, one failure; handlers of two processes that listen to LDAP, and handlers in turn that do not |
| `lost_update` | violation | `ConditionalWrites`: a change made between read and modify is overwritten |
| `person_sync` | pass | `TypeOK`, `LinkedOnce`, `LinkedToOwn`, `OneAccount`, `Served`: two persons (one without CPR), four names; without imports and a discriminator, with both, and with an account that is filtered |
| `filtered_away` | violation | `NewIfNone`: a person whose account the filter drops gets another |
| `user_import` | pass | `TypeOK`, `OneEmployee`, `CreatedOnce`, `UnmappedKept`, `SyncedInTurn`: two accounts, two handlers, one change, one edit by a user of MO, one failure, all four settings |
| `event_routing` | pass | `NothingLost`, `QueuesDrain`: six scenes, of one or two handlers, up to two changes, a failure, a morning, ignored uuids, and listening on one side only |
| `templates` | pass | `CurrentServed`, `PrimaryFound`, `RightManager`, `OnePerProcess`, `FailsOnlyAsFound`, `RenderingEnds`: two engagements and two addresses with every timeline of up to two validities; three units with every tree; three renderings in two processes that want a class |
| `object_history` | pass | `TypeOK`, `Followed`, `RepeatedIsNoop`, `PastKept`, `OthersKept`: a day before today, today, one after and the rest of time; fourteen settings with one or two events each |
| `usernames` | pass | `TypeOK`, `NamesApart`, `NeverReused`, `Handled`: two persons with the same names, two events each, two changes by others, one failure, four settings |
| `endpoints` | pass | `TerminatesTheMissing`, `Relinked`, `RightValueLeft`, `StaysTheOne`: two keys on two pages, made by the export or by imports, two purges at once of three addresses, each today or later, two accounts under three DNs that are moved up to three times, two events outside |

The bounds are small but let every interesting case happen. Two pollers are
enough for every interaction over one row, because the row lock lets one of them
in at a time; a third adds only waiting. Two writes of an object are needed for a
change during a search, three seconds for a second before, during and after it.
One failure at any step, after which the retry itself meets the other handler.
Two handlers interleave in every order; two persons, of which one has no CPR
number, compete for names, and there are more names and uuids than two persons
and a retry use up, so `Unused # {}` never blocks. Two accounts of a person are
enough for a best one to be overtaken, and two uuids for a second employee. Each
scene of `event_routing` pairs two of what may interleave (handlers, changes, a
failure, a morning), as all of them at once are out of reach; the longest way of an
event has four hops. The two persons of `usernames` have two usernames for up to
four generations, so that these collide, are lost, taken over and run out. Four slots of
days let a validity be past, current, to come, touch another, or end within a day of today;
the settings of `object_history` take one attribute of every sort (sent and read, not
read, not sent, refused, with a default, not read where MO clears null). Three renderings are needed for two in
one process beside another process. Two keys on two pages let an account be
added, deleted or moved to another page between each pair of requests of a fixup, and two such events one after the
other. Three addresses are needed for one that neither of two purges keeps. Three moves are what two accounts need to trade their DNs. Every action of every next-state relation is taken
in some passing run.

`object_history` is symmetric in `Values`, which no operator tells apart; it checks no liveness.
The other runs use no symmetry: most of them check liveness.

`TypeOK` is an invariant of the runs above but for `event_routing`, `templates` and
`endpoints`, where the properties evaluated at every state leave no room for a wrong type; there
it is a theorem.

`CHECK_DEADLOCK FALSE` is set where the system may rest: all events handled and
the bounded environment out of changes.

### Fairness

`EventGenerator`: weak fairness of each poller's steps (the event loop runs every
ready task) and of `Restart` (an orchestrator restarts a process that reports
itself unhealthy). None for `Tick`, `Write` or failures.

`LdapWrite`: weak fairness of each handler's steps: a request is served to its end
and a waiting event is delivered. None for MO, others or failures.

`PersonSync`: the same, and strong fairness of taking each person's event: the
queue delivers in some order and does not hold one event back for ever while
another handler is busy with that person from time to time.

`UserImport` and `Usernames`: weak fairness of each handler's steps. `EventRouting`: the
same, and of `Open`: the morning's interval ends. None for changes, failures, or
the import that tells MO a username.

`Templates`: weak fairness of each part's own steps, a look-up, a climb, each rendering that wants
a class: requests are answered and the lock is handed on. `Endpoints`: the same of each call, of the
export's handling of each person's event and of the import that a purge announces; and of the midnights that
addresses are to end at, as the clock goes on. None for `Edit`, `Move`, the imports that make it-users, other
changes or failures. `ObjectHistory` has no liveness property and no fairness.

### Where code and text disagree

Three have a run:

1. `same_second`. The comment in `ldap_event_generator.py:289-291` wants no object
   missed that is modified in the second of the search. The comparison of line
   269 (same uuids, same timestamp: send nothing) misses it. What remains true is
   `OnlySameSecondWritesAreLost`.
2. `lost_update`. `modify_ldap_object` builds an assertion control for a
   conditional write and does not send it. `Converges` still holds while the
   program listens to LDAP, because the write comes back as an event.
3. `filtered_away`. `_find_best_dn` returns None "if no LDAP account was found"
   (`dataloaders.py:311-317`), and also when all that were found are filtered away.

Others were met while modelling; where a property is touched it names them as exceptions:

- `poll` says it returns what changed since the last search; its pages are answered at
  different moments, and what changes between pages may be missing. The proofs
  assume that a search fits one page (`SinglePage`), for this reason.
- `ensure_ituser_link` checks and then creates; an import of the same link may come in
  between. Two links with one user key make `extract_unique_ldap_uuids` raise for
  that person from then on. `LinkedOnce` excepts deployments with such imports.
- `import_export.py:440-441` says that MO is always synchronized from the best account. The
  account is chosen and read before the lock is taken, the lock is one by DN and not by
  person, and three events are handled at a time: an overtaken handler writes what is
  no longer true, and no event is left to correct it. `SyncedInTurn` is about handlers that do not overlap.
- The comment of `generate_username.py:50-57` says that no username is ever reused. MO keeps
  usernames only once it knows them; `NeverReused` names the exception (`lost`).
- `import_export.py:763-767`: an object whose validity starts later than today is skipped like
  one that differs in nothing; it is not moved to begin today. `Followed` excepts it (`later`).
- `get_or_create_job_function_uuid` promises a class of the facet: `create_mo_class` looks by user
  key alone, so that a class of another facet may be returned.
- The fixups take what they did not see in LDAP for missing. The accounts are searched OU by OU
  (`ldap.py:675-679`): one that is moved to an OU that was read before is not seen. `TerminatesTheMissing`
  excepts it (`present`).
- What a fixup takes by a race comes back only as a link of the LDAP it-system, ended today, of an account the export matches
  without it: `Relinked` is about those (`maker`, `matched`, `lapsed`). An it-user that imports make is gone until something
  changes in the account; a link that ends at a later midnight ends without an event; an account that is not
  matched stays without its link, and the export may add another one (`PersonSync`).
- The docstring of `purge_addresses` has it trigger a synchronization; a call that fails after its last
  termination does not, and the next call finds nothing to do.
- `fraction` of an engagement is rendered and compared, and never sent; the seniority of an employee
  is sent and never read (the TODO of `models.py:51`). So it is with the unit of an it-user. Where MO
  clears null, a value of such an attribute stays when LDAP has none: to the comparison there never was
  one. `Followed` excepts it (`Unseen`).

## 4. The proofs

All are for arbitrary sets of objects, pollers, handlers, persons and names, and
arbitrary bounds, under the named ASSUMEs of the modules. Besides types these say that the kinds of
things are apart (persons, units, accounts and what relates to them), that there is a process, a user key
and a facet, and that what is counted or chosen the last of is finite: the objects MO keeps, the
validities of an answer, the handlers, the names of accounts. Where a value could be mistaken for another, a module says it
is not.

- `FeedNeverForgets` (ChangeFeed, in `EventGeneratorProofs`): `Spec => []NothingForgotten`. `Advance` checks
  what is asked; a `Write` stamps its object with a second no cursor is past,
  because no cursor is ahead of the clock. That is the strengthening.
- `NeverForgets` (EventGenerator, `SinglePage`): the inductive invariant `IndInv`
  says that whoever is in a transaction holds the row (`HoldsRow`), that locals
  are clean between cycles (`CleanLocals`), that no stored time is ahead of the
  LDAP clock (`BehindClock`), that a finished search left out nothing it should
  have found (`PollIsComplete`, hence `PollsAreComplete`), and that while
  publishing whatever was written before the second to be committed is announced
  or pending (`Promised`). The last is what a commit needs to keep
  `NothingForgotten`; it is not visible in `NothingForgotten` alone.
- `LostInTheSameSecond` (EventGenerator, `SinglePage`): what `OnlySameSecondWritesAreLost` says is
  reached, wherever a search would find nothing, or just what the row says. `SentInv` adds to
  `IndInv` when events were sent: every uuid of a row (`RowsWereSent`), and every
  uuid found that is no longer pending (`FoundWasSent`), not before the second that goes with it, and
  no event after a write it misses (`SentBehindClock`). So an object of the row that is not announced
  was written no later than the row's second, and an event about it was sent no earlier.
- `ImplementsChangeFeed` (EventGenerator, `SinglePage`): each step is a step of
  `ChangeFeed` or a stutter, with `cursor` the row's datetime: `Send` is `Notify`,
  `Commit` is `Advance`, `Tick` and `Write` are themselves.
- `AcknowledgedWrites` (LdapWrite): inductive are `Typed` (type correctness and
  which locals are set where) and `Honest`: an object nobody else wrote since it
  was read goes from what was read, by way of the read RDN with the new value, to
  what was rendered (`Progress`).
- `NeverStale` (LdapWrite; `settings.exclusive` is in the property): with `Turns`, that at most one handler is
  busy and whoever has rendered has seen the latest change written.
- `NeverTwoAccounts` (PersonSync, `Exclusive`): with `Alone`, that handlers of a
  person take turns, that a handler adds only when its lookups are answered and
  found nothing, and that what the lookup by CPR did not find still is not there.
  Others only delete accounts, so the last survives every interleaving.
- `EmployeeIsOne` (UserImport): with `KnowsEmployee`, that a lone handler knows of
  every employee there is. An employee created by a handler that failed is found by
  its CPR number at the retry; that is why the handler generates no second one.
- `LinkedOnlyOnce` (PersonSync, `Exclusive`, without imports of links): with `StillUnlinked`, that
  whoever is about to create a link looked for it and it still is not there.
- `NeverAnothers` (PersonSync, of handlers that take turns or not): with `Own`, that a name is one account's
  (`OneName`) and what a handler or importer has found, chosen and identified is its person's
  (`OwnHandler`, `OwnImport`, `OwnLinks`), as long as no account of that person is gone (`There`).
- `AddressIsOne` (UserImport): with `OneLock`, that of handlers with one account one
  is between fetch and write, and that what it did not find still is not there; and
  `NoneCounted`, which ties the count to the object.
- `UnmappedIsKept` (UserImport): with `NoteFetched`, that whoever is to edit an object
  has fetched what the user wrote, and `NotedStays`, that objects stay.
- `NamesStayApart` and `ReusedIfUnknown` (Usernames): both from `IndInv`. What was
  checked is still free at the write (`StillFree`), because a lone handler is the only
  one who gives usernames, and an import reserves only a username an account has;
  the usernames of accounts and those MO keeps are apart (`Separate`); and what an
  account has had is in MO, or on the account, or lost (`Accounted`). None is
  inductive without the others.
- `LeavesThePast` and `LeavesOthers` (ObjectHistory): the first follows from what days each request
  covers. The second needs that what an import fetched is one validity (`FetchedOne`): `SharedDay`
  shows that two validities of one answer with a day in common are one, because each is as long as its state
  lasts, and `ExtractsOne` that the current or the latest so is one at most; and `RoundTrip`, that what
  is loaded of an attribute and sent back is what MO had, kind by kind.
- `ChangesReachAll` (EventRouting): nothing is lost, except for whoever lost the relation by the
  change of the only validity (`cut`, as in the property). The property alone is not inductive: a handler that fails drops
  the requests it has yet to make, computed from relations as they were when it read them. `IndInv`
  says that nothing would be lost whichever of the handlers fail (`NothingLostIf`, for every set of
  them), that events are about subjects of their listener's kind (`WellAddressed`) and that what
  waits to be done is at the ends of the ways and not ignored (`OnlyWanted`). A way has four hops at most: that is a lemma about the tables
  of listeners, not a bound.
- `TwoRequestsServe` and `PrimaryIsFound` (MoLookups): with `LookupInv`, that between the requests what was
  chosen is what the first answer makes of the candidates (`ChosenFrom`), and that an answer from
  which the primary is calculated has something that did not end before today (the `max()` of
  `calculate_primary`). They rest on lemmas about answers for any finite set of validities: of one
  object at most one is current, `Extract` returns it or those that end last, and on each day of an
  employment one validity is primary.
- `ClimbEndsRight` (Managers): with `BelowIsHers`, that the climb is above its start and she manages
  herself in every unit below it. The units above a unit are the least set that holds the unit and is closed
  under parents, so that what is closed under parents contains them; units and managers are any sets.
- `FailsOnFound`, `CreatesOnlyNewKeys` and `LockExcludes` (Classes), of one process: with `StillNone`,
  that who is about to create found no class of the user key and there still is none, because the lock
  keeps the others out (`OneInCriticalSection`), and `CreatedAlone`, that a class that was
  created is the only one of its user key.
- `OneEach` (Classes), of any number of processes: with `AllCounted`, that the classes of a user key that MO had none of and the
  processes that are about to create one (`Creators`) together are no more than the processes.
  In each process one handler is about to create, and after it no other comes so far.
- `ImportsFollow` and `SecondIsNoop` (ObjectHistory): both from `IndInv`. While MO is as an import left it, what was
  fetched is what MO still has but for what the import terminated (`FetchedIs`); an import that
  ended left MO as LDAP (`Matches`), and in one state that the next import would not change
  (`Steady`); and an import that begins so fetches that state and finds nothing new
  (`NothingNew`). They rest on `LongestSpan` and `FetchedIfThere`, that MO answers with a validity for every
  day with a state and a load extracts today's; on `EditMakes`, `CreateMakes` and `EqualMatches`,
  what a request makes of an attribute and when it compares equal, for every attribute of
  every kind; and on `PurgeKeeps`, that a purge writes from today on what MO had.
- `SynchronizedAtRest` (LdapWrite), `SyncedAtRest` (UserImport), `ServedAtRest` (PersonSync, `Exclusive` and
  `LinkSystem`): what the liveness properties `Converges`, `SyncedInTurn` and `Served` say is reached holds in every state in which
  nothing is left to do: no event waits and no handler is at work. So no interleaving, crash, retry or
  write of others acknowledges an event too early; that the program gets to rest is left to TLC. The
  first two are inductive with `Attended`: unless an event waits, whoever is at work `Attends`,
  that is, holds what makes the object right if nothing comes between (the DN it has now, the MO state that is
  current, for an import the best account as it is, and what was fetched but for the end it has
  written since), and with nobody at work it is right already. In LdapWrite a handler may hold something older as long
  as the writes of the program come back as events, and then one that attends is enough. `ServedAtRest`
  is inductive with `Own` and `StillUnlinked`: a handler that ends without giving its event back has found
  the one link of its person's account, or made it.
- `OnlyTheMissing` and `RelinkedAtRest` (Fixups): with `Known`, that the keys LDAP always had on one page are
  found if that page was read and those it never had are not, and what is bad was not found; `Complete`,
  that of the it-users whose key LDAP
  never had those on the pages of MO that were read are bad until they are terminated: nothing makes
  them again, because exports and imports only make what LDAP has; and `Announced`, that of a key that was `taken` though LDAP had it, is
  made by the export and is `matched`, an event waits, unless it is linked again or lapsed at a later
  midnight, when MO sends none. Of it-users that imports make `RelinkedAtRest` says nothing.
- `RightAtRest` (AddressPurge), of any number of calls at once, today or later: with `PurgeInv`. Once a call has published, an event waits
  until an import finds at most one address, and then there is at most one, because calls, midnights and
  removals only take addresses and an import creates one only where it found none; what an import is about to
  write is the only address there is (`WritesTheOne`); and as long as no call failed, the address is as LDAP has it and
  not about to end, or an event waits, an import is at work, or a call is still to publish (`AtIt`).
- `TheOneStays` (Discriminator): with `Considering`, that accounts are apart, that `held` has the DNs of
  the it-user's account while others are considered, and that what was read under its name has one
  of them; and `Cemented`, that the it-user that was made stays the only one. A request is taken apart by
  lemmas on each step's ways on (`AskAnswers`, `LoadItUsersAnswers`, `LoadNameAnswers`), which show
  that the cases of `AnswerAmong` leave none out.
- `TypeCorrect` in eight modules, and `EndpointsTypeCorrect`. The theorems of `LdapWrite` and of
  `Endpoints`, which have nothing in common, share one module.

Only model-checked: the liveness properties (`OnlySameSecondWritesAreLost`,
`EventuallySilent`, `Converges`, `EchoEnds`, `Served`, `SyncedInTurn`, `QueuesDrain`,
`Handled`, `RenderingEnds`, `Relinked`, `RightValueLeft`): liveness under fairness and ENABLED
are out of the prover's reach, but for what six of them rest on (above). Every invariant and every
action property of a passing run, and its refinement, is a theorem, with the hypotheses its theorem names.

The library's induction theorems take an operator as a parameter, which no installed
prover can instantiate. Where a proof needs an induction it takes a minimal
counterexample instead (`WFMin`, of the strict subsets of a finite set: the least and the greatest of
some numbers, the longest span of a state) or a least closed set.

## 5. Not modelled, and what could come next

Not modelled: schema and overview endpoints, the CLI, the customer specific checks and configuration
parsing (no state of their own, or pure I/O); the string and date
filters of the templates (formatting); TLS, connections and their timeouts, which
appear as a failure at any step; of the generated GraphQL client all but the filters
that decide what comes back; `refresh_uuid` of the endpoints, which is an
event like any other; the inspections that look up one person, whose look-up is `PersonSync`'s.

Of what is modelled, left out are: dry runs of the writer, value conversions, templates that skip an
existing account, persons deleted in MO (`PersonSync`, `LdapWrite`); dry runs, `_for_each_`,
`ldap_to_mo_any`, templates that skip or requeue, the skip of imports without CPR number
(`UserImport`); names that give no letters (`Usernames`); related look-ups by user key
(`MoLookups`); templates that pick one of several addresses, and addresses that were to end before the first
call (`AddressPurge`). An edit of an object leaves MO's days after its end alone; in `UserImport`, where an object has one end, it
keeps a later end that MO has, and the days are `ObjectHistory`'s. Of a class, `published` always has a value, as its default
is not null, and counts as required (`MoApi`).

What could come next, in this order:

1. The dry run of the export, which is said to change nothing (`import_export.py:372`) but passes
   the lookup that terminates links.
2. `_for_each_` and `ldap_to_mo_any` in `UserImport`: one account that several objects come from.
