# CSM in TLA+

CSM keeps an inventory of clusters, hosts, virtual machines, network interfaces, networks and IP
addresses. A FastAPI backend (`src/backend/app`) runs one database transaction per request on
PostgreSQL at READ COMMITTED; several requests run at once. A React frontend (`src/frontend/src`)
shows lists, details, forms and panels of these objects, each with its own requests in flight. The
repository also holds the subagent extension (`src/.pi/extensions/subagent`), which runs batches of
child processes for the development agent. These modules model the parts of all three in which the
order of events matters.

    AllocationLedger <--- Ipam <--- MCIpam            Inventory <--- MCInventory    Subagents <--- MCSubagents
          ^                ^                              ^                            ^
     LedgerProofs     IpamProofs                      InventoryProofs             SubagentsProofs

    Optimistic <--- Clients <--- Pages <--- ListPage <--- PageProofs
        ^
    DetailPage      Bindings      HostAddresses      <--- DetailProofs
    Selections      Imports       Authorizations
    FormFields <--- Forms         Session            <--- PanelProofs
    MCWeb extends all of these, WebProofs it and the three modules of proofs;
    MCBindings and MCSession one each

## 1. Inventory of the system

| component | state | operations | what is hard | what makes it correct |
|---|---|---|---|---|
| Networks, pools, addresses (`services/network.py`, `ip_pool.py`, `ip_address.py`) | three tables, a row lock per network | create, update, delete, restore of each; manual and automatic allocation | rows read before the lock is granted and not refreshed after; mixed locked and unlocked handlers; partial unique indexes | an address has one holder; RESERVED stays free; everything lies in its network; deletion finds nothing below |
| Clusters, Resources, Interfaces (`cluster.py`, `resource.py`, `interface.py`) | three tables and `virtual_machine_details`, a row lock per Resource | create, delete, restore; move a machine to another host, an interface below another parent | checks of other rows with and without locks; triggers that look at other rows | no live row refers to a deleted one; parents form a forest; a machine's host is bare metal in its Cluster |
| Imports (`resource_import.py`, `resource_interface_ip_import.py`, two panels) | the tables above; the panel's input, validation and confirmation | validate, confirm, one transaction with a savepoint for each row | partial failure; batches that wait for each other; the input changes while it is validated | all or nothing; only what was validated is sent |
| Cluster authorizations (`cluster_authorization.py`, `ClusterAuthorizationPanel.tsx`) | grants; list, modal, candidates | grant, revoke, paged lists | a modal closed and opened again during its request; lists that overlap writes | the list is current; the candidates belong to the account of the modal |
| Users, sessions (`auth.py`, `user.py`, `App.tsx`, `LoginPage.tsx`) | accounts and sessions; the phase of a tab | login, logout, disable, boot | a login that overlaps the disabling of its user; a 401 that comes late | a disabled user has no session |
| Web list pages (`pages/*Page.tsx`) | query, list, form, dialog, activity; requests in flight | filter, turn pages, create, edit, delete, restore, release, revoke, view activity | answers late, lost, out of order; version conflicts; other users | the list is current and answers its query; a write lands on what the user saw |
| Web detail and create pages (`ClusterDetailPage.tsx`, `ResourceDetailPage.tsx`, `HomePage.tsx`) | section, loads, view, form, dialog | open, leave, edit, delete, restore, create | loads of a page that was left; a create that outlives its page | as above, for one object |
| Web addresses of a Resource (`ResourceIpAddressesPanel.tsx`) | pages of interfaces, a pool of workers, outcomes | list by offset, load each, summarise, retry | the list changes between its pages; some loads fail | nothing is silently left out |
| Web address binding (`InterfacesPanel.tsx`, `InterfaceIpBindingPanel.tsx`, `interfaceIpSelection.ts`) | candidates, selection, queue of PATCHes, cache | search, select, submit one by one | others bind the same addresses; some requests fail | no address is taken from anyone; the results are true |
| Web forms (`components/*Form.tsx`, `*.ts`) | texts, base object, request | open, type, submit | empty, zero and unknown; partial updates against an old row; a server that rewrites some values | the object becomes what the form showed, or the server's normal form of it |
| Web selections (`CandidateSelect.tsx` and the forms with dependent selects) | parent, search, options, choice | choose, search, reload | answers for an earlier parent; a search that comes back with its parent | options and choice belong to the parent and search on screen |
| Subagent batches (`batch.ts`, `proc-manager.ts`, `task-plan.ts`, `index.ts`) | registry of declarations; slots, workers; one process and timer per task | execute, cancel, worker loop, spawn, terminate, close | cancellation between any two awaits; processes that ignore SIGTERM | overlapping tasks never run together; a cancelled batch ends all it started, and resolves |
| Services, endpoints, API keys, IP capacity, normalization | tables, or none | create, update, delete, restore; pure functions | few locks; block edges | see section 9 |
| Audit, search, dashboard, deleted lists, routes, schemas, configuration, scripts, deployment | append-only log, or none | queries and plumbing | - | - |

`PROJECT.json` lists every component with its sources and status, and under `hazards` each place
where a test would hardly reach, with the property that covers it or the reason none does.

Interactions: requests meet only in the database, through row locks, triggers and constraints. Pools
and addresses copy their network's Cluster; addresses are bound to interfaces; Resources are placed
in Clusters. The frontend sees the backend through `api/*.ts`: a row has a version, a versioned write
succeeds at the version it names, and any answer may be lost before or after the server acted.
`HomePage` mounts one section at a time, and what an unmounted page hears is dropped, except the
answer to a create. Batches of subagents meet in the registry.

## 2. Plan

1. `Ipam`, with `AllocationLedger` as what it promises: the core, where most locks are. *Done.*
2. `IpamProofs`, `LedgerProofs`. *Done.*
3. `Inventory`, `InventoryProofs`. *Done.*
4. `Subagents`, `SubagentsProofs`. *Done.*
5. The web screens, from the pages to the panels, one module for each kind of control, composed in
   `MCWeb`; liveness under answered or abandoned requests. *Done.*
6. `Imports`, `Authorizations`, `Session`: the panel together with the handlers under it. *Done.*
7. `PageProofs`, `DetailProofs`, `PanelProofs`, and `WebProofs` on what they compose to. *Done.*
8. Left: `Inventory` with `Ipam` (the deletion of a Cluster that has networks, bindings and
   endpoints, once a document says what is to hold); the order in which the large import locks hosts
   and networks.

## 3. Ipam

**State.** `networks`, `pools`, `ips` are the tables: `state` is absent, live or soft-deleted,
`version` the optimistic counter. `lock` is who holds a networks row `FOR UPDATE`. `pc` and `job`
are, for each request, how far it is and what it was asked and has read.

**Steps.** A handler that calls `_lock_network` is four steps, since others commit between them:

| step | code |
|---|---|
| `Read...` | the rows loaded before the lock is asked for. SQLAlchemy's identity map keeps them: later queries of the same row do not refresh its columns |
| `Acquire` | `SELECT ... FOR UPDATE`, when no other request holds the row |
| `Check...` | the queries made with the lock held; these see what is committed by then |
| `Write...` | the INSERT or the conditional UPDATE with version, constraints, triggers, COMMIT |

`Abort` stands for every other ending: a validation error, a version that moved, a constraint, a
timeout, a lost connection. A handler that takes no lock (`CreateNetwork`, `RestoreNetwork`,
`SwitchNetwork`, `DeletePool`, `DeleteIp`) re-validates all it read in its UPDATE, so it is one
step. The foreign-key triggers of pools and addresses read the network row `FOR KEY SHARE`, so
writes of a child wait for whoever holds that row `FOR UPDATE`.

**Properties.** `LockDiscipline`: what a handler checked under the lock still holds at its commit.
`ReservedFree`, `LocationConsistent`, `DeletedOnlyWhenEmpty`, `GatewayChangeAvoidsAddresses`,
`RestoreIntoCurrentNetwork`, `SourcePoolRecorded`, `LowestFreeAddress`: what the checks are for.
`LedgerSpec`: seen through live addresses and RESERVED pools, every commit is a step of
`AllocationLedger`, in which granting, releasing and reserving are atomic.

**Runs.** `ipam_pools`: two requests, one /31, one pool, two addresses, so that an AUTO allocation,
a manual one and a reservation compete for the same address and a pool runs empty. `ipam_moves`: two
requests, one network that is a block of four or a /31, two Clusters, gateway, CIDR, Cluster and
status changes, deletion and restore. `MaxVersion = 3` lets each row be created, deleted and
restored (or changed twice). Two requests are what every race in the code takes: each conflict is
between one check and one commit. Requests and, where rows are alike, addresses are symmetric; no
liveness is checked with symmetry.

`orphan_address` shows that the network is read before the lock and used after it: an address is
created in a network that was deleted meanwhile (`network.py:562` says otherwise). For the same reason
a network that becomes INACTIVE in between still gets the address, and one whose gateway moves onto
the address as well; these follow from the same read and have no run of their own.
`GatewayChangeAvoidsAddresses` is therefore about the change of the gateway, whose check is made under
the lock.

## 4. Inventory

**State.** `clusters`, `resources`, `interfaces`, the Resource `lock`, and `pc`, `job` as above.
Immutable columns are constants: `BareMetal` (type), the Cluster of a Resource, `Owner` (interface
to Resource). A machine's `host` is its row in `virtual_machine_details`.

**Steps.** Locked handlers have the same four steps; the lock is on the host
(`validate_virtual_machine`), the Resource (`delete_resource`) or the owner (`interface.py`). The
triggers of migrations 0006 and 0007 read other rows without a lock in the statement that writes;
they run under the same lock as the checks before them and are part of `Check...`. The parent
trigger fires on every UPDATE of an interface, so even a deletion needs a valid parent. Restores
take no lock and are two steps, check and write, with anything in between.

**Properties.** `ChecksHold`: what a request checked about the host, owner and parent it will refer
to still holds when it commits. `Acyclic`, `WellPlaced`. And, for rows that are deleted:
`UnreferencedHolds` (what delete found unreferenced stays so until it commits), `HostsLive`,
`OwnersLive`, `ParentsLive`. The last four are false of `Spec`: the unlocked restores break them.
`restored_guest` shows it of a machine and its host (the requirement is quoted in `findings`), and a
restored interface meets its owner and its parent in the same way. They hold of
`LockingSpec`, which is `Spec` without `restore_resource` and `restore_interface`, so the locking of
every other handler is shown to be enough.

**Runs.** `inventory_tree`: three interfaces of one host, two requests; three is the least that
makes an ancestor walk longer than one parent, and `MaxVersion = 2` lets each be created and then
moved or deleted. `inventory_places`: hosts in two Clusters, a machine and its interface, with
restores (`MaxVersion = 3`). `inventory_fleet`: two hosts, a machine and two interfaces of it under
`LockingSpec`, `MaxVersion = 3`.

## 5. Subagents

**State.** `claims` is the registry; `cancelled`, `next`, the workers and `tasks` (a slot with its
process) are the variables of one `runTaskBatch` per batch; `awaits` says at which task a worker's
loop is suspended, 0 if it is about to take the next.

**Steps.** JavaScript runs to completion, so a step is what runs between two awaits or events:
`Start` (plan, register, start the workers), `Cancel` (the abort event, `requestCancel`),
`TakeTask`, `TakeTaskThrows`, `Settle`, `WorkerReturns` (the worker loop), `Resolve` (`Promise.all`
and the `finally` block); and per process `Spawn` or `SpawnFails` after the prompt file is written,
`Escalate` (the timer's SIGKILL), `Close`. `Scope` says what each task declares; two declarations
conflict when they intersect, which stands for equal resource names and overlapping paths.

**Properties.** `Exclusive`: overlapping tasks never have processes at the same time, across batches
and cancellations. `ResolvedClean`: a resolved batch left nothing behind. `CancelReaches`: nothing
of a cancelled batch is queued, and every process it still has was told to end. `ResultsKept`: final
statuses stay. `CancelResolves` (liveness): a cancelled batch resolves, even if its processes ignore
SIGTERM.

**Fairness** (`FairSpec`): a promise that is ready gets to run, a prompt file is written or fails, a
timer fires, and SIGKILL ends a process. Nothing is assumed of a process that got no signal or only
SIGTERM, of users, or of batches that were not started. It is assumed that signals are delivered.

**Runs.** `subagent_batches`: two batches of two tasks that share a resource, with two workers each,
so that tasks are queued, starting, running and finished when a cancellation comes, and one batch
waits for the other's declarations. `ObserverCancels` says whether the observer
passed to `runTaskBatch` may abort the signal itself; the extension's own observer only forwards to
the host and does not, which is its value here. (If one did, the slot would be marked running before
its handle exists, and be started afterwards without being told to end.)

## 6. The frontend

Every request of a screen has three steps: sent, done by the server (or not), and its answer heard
(or lost). Answers arrive in any order; other users write between any two steps. An effect's
`cancelled` flag is a field of its request.

**Lists** (`ListPage`, with `Pages` and `Clients` as data). All list pages are one control: a list
loaded by an effect, a form, a confirmation dialog with its commit guard, an activity view. `Pages`
says what each offers: buttons with the permission and the rows they need, queries, the requests of
forms and dialogs and after which errors a dialog offers a reload; `Clients` says which queries and
writes the API client of each type has and which writes carry a version. `floor` is history: the
newest version of each object the page was told of. `ListFresh`, `ShowsItsQuery`,
`DialogOverItsRow`, `NoBlindOverwrite`; `ListSettles`, `RequestsSettle`.

**Details** (`DetailPage`): the section switch of `HomePage`, the loads of a detail, its edit form and
dialog, and the create page with the request that outlives it. `deletedFlag` is the page's own idea
of whether its object is deleted. `DetailFresh`, `EditsWhatItShows`; `DetailSettles`.

**A Resource's addresses** (`HostAddresses`): interfaces listed by offset while others create and
delete them, then workers that share `nextIndex`. `CompleteUnlessDeleted` says what holds of DR-383:
none that stays is silently left out, unless one is deleted while they are listed (a deletion moves the
interfaces behind it to the front, and one may move to a page already read). `HostSettles`.

**Binding** (`Bindings`): candidate lists, a selection with versions, the queue of PATCHes, and the cache of
each interface's addresses. `NeverSteals` (the server alone would move a bound address), `TruthfulResults`;
`BindingSettles`. The dialog shows its results only when the loop of a submission is over, and until it is
submitted again or closed; `batch` keeps the versions submitted, so `TruthfulResults` speaks of the results
gathered so far and of those shown, long after the queue is empty. `stale_bound_list` refutes
`BoundListFresh`: a load that the server answered before a binding may arrive after the one begun by it, and
nothing drops it. The order of a submission is that of the addresses (`Ordered`), given by their ranks, so
that it can be proved about.

**Forms** (`Forms`, with `FormFields` as data): the ways a text is read (trimmed, verbatim, number,
optional, ...), and for each form its fields, what a create carries and what a patch may carry; a create
carries only fields the form has inputs for. Fields are independent, so a behaviour watches two of one form.
`SavesWhatWasTyped`: an accepted save leaves the object as the form showed it in the fields it can change,
and in no other. The server stores some values in a form of its own: the host bits of a CIDR are zeroed,
hostnames and usernames get small letters. `Loose` is a text that is another after that, `Normal` the
conversion (`Normalised` names the fields), and the property asks for the normal form of what was typed
there and for nothing else anywhere. The empty description, which the frontend never stores, is no starting
value.

**Selects** (`Selections`): a parent, an optional search, the load they start, the choice. A search text is
kept with the parent it was typed under (`Scoped`), counts only under that one, and loads 300 ms after the
last keystroke (`CommitSearch`). Changing the parent clears the choice and not the text: a user who goes
from one cluster to another and back without typing finds the first search again and the load uses it,
although the header of `CandidateSelect.tsx` (line 17) says that the text is cleared. `OffersCurrent`
demands that the options fit the parent and the search committed under it, whichever they are. Of the choice
it says that it is a child of the parent, or was while the form was open (`was` is history: others move and
delete children). An interface an address is bound to is the exception the code makes: it is offered under
every Resource, marked as the binding of now (`IpAddressForm.tsx:551`), and choosing it leaves the address
as it is. The server, not the select, decides whether the choice is good.

**Import panels** (`Imports`), **authorizations** (`Authorizations`), **session** (`Session`).
`ImportsWhatWasValidated`, `BatchesWhole`; `AuthorizationsCurrent`; and the settling of each. `Imports` has
the server's side too: validation, the validation repeated by the import, rows staged one by one against the
unique index, savepoints, deadlock, rollback. `Session` has the two statements of a login;
`disabled_session` refutes `DisabledHasNoSessions`, since nothing locks the account between them.

**Composition** (`MCWeb`). A behaviour is the life of one mounted screen; the others rest in one state
with nothing in flight, as nothing of an unmounted screen is kept. What two screens share is the
database, and it enters each as the writes of others, so composing them as running at once would only
multiply states.

**Runs.** `web_safety`: all screens. One object per list page is enough for what the properties say of it
(rows do not interact; `PageProofs` has any number), with three versions, so that it is created, changed and
deleted, and two requests in flight, so that a late answer and a current one race. Pages mounted:
`DistinctSections`. The page of the pools has the record of the networks'; those of the addresses and
services combine what the networks' and the endpoints' pages have. All forms and all selects; interfaces one
per page and a cap of two pages, so the list is cut off, shifts by a creation or deletion, and ends early;
two addresses to bind, one contested; two import batches over two names in both orders, which is what a
deadlock takes; two parents and two children of a select, of which one is searched for and the other moved
or deleted by others, so that a search leaves and comes back with its parent; two accounts and two Clusters,
of which at most one grant exists at the start (which one does not matter: accounts and Clusters are alike);
one account with two sessions, disabled and enabled once. `web_liveness`: the same screens except forms (a
form that is sent is part of the list and detail screens), smaller, because liveness is expensive: of the
pages the endpoints', fewer versions, accounts and names, no contested address. `stale_bound_list` and
`disabled_session` are the smallest instances of their disagreement.

**Fairness** (`FairWebSpec`): weak fairness of the server's answer and of hearing an answer or giving
up, for each kind of request: a browser ends every request. Nothing is assumed of users or of other
writers, so `ListSettles` and `OffersSettle` allow a user who keeps changing the query. For the import
panel it is one weak fairness of everything the server and the panel do, and PostgreSQL's deadlock
detector is part of that. A list effect that is cancelled may still be answered, but nothing waits for it.

## 7. What is proved

For every number of requests, rows, addresses, batches, tasks, workers, pages and versions:

| module | theorems | argument |
|---|---|---|
| `IpamProofs` | `Typing`, `Discipline`, `NoReservedAddress`, `Located`, `DeletedEmpty`, `GatewayAside`, `RestoreCurrent`, `SourceRecorded`, `LowestAllocated` | the inductive invariant is `Safety`: `LockDiscipline` with `ReservedFree` and `LocationConsistent`. The last two alone are not inductive: a write is safe only because of what its request checked, and that is what `LockDiscipline` keeps. Its step splits into the request that steps (`QuietKeeps`, `WriteKeeps`, `UnlockedKeeps`) and all others (`OthersKeep`: a write in a network cannot falsify the checks of a request that would have to hold the same lock). `SourceRecorded` adds `SourcesKnown`: undeleted pools of a network share no address, and a checked allocation names the one its address lies in. `LowestAllocated` adds `LowestKnown` and assumes `[]NoOrphanAddress`, which the code does not keep (below) |
| | `ImplementsLedger`, `OneHolder` | `StepShape`: every step leaves the ledger alone, or grants one free address, releases one, or replaces one reserved set. With `LedgerSafe` it follows that the tables keep the ledger's promise |
| | `OrphansComeFromAllocations` | the cause of the finding of `orphan_address`: while no network is deleted between the read and the insert of an allocation, `NoOrphanAddress` is an invariant, and with it the lowest-free rule |
| `LedgerProofs` | `LedgerSafe` | `Safe` with the typing is inductive |
| `InventoryProofs` | `Typing`, `Checks`, `NoCycle`, `Placed` of `Spec`; `StillUnreferenced`, `HostIntegrity`, `OwnerIntegrity`, `ParentIntegrity` of `LockingSpec` | `Shape` (checks, places, no cycle) is inductive for `Spec`; `Sound` adds liveness of references. The checks need the tables to be well formed and the tables need the checks, so each is one invariant. `Acyclic` says that no non-empty set of interfaces has its parents within itself, which needs no path or recursion |
| `SubagentsProofs` | `Typing`, `Separation`, `CleanResolution`, `Cancellation`, `Results` | `IInv` says, per batch, that a process belongs to a running slot, a running slot to exactly one worker that has not returned, and declarations to an active batch; `OneBatch` and `UntouchedKeeps` leave only the batch that steps. `Cancellation` adds `Told` and assumes `~ObserverCancels` |
| `PageProofs` | `ListsAlwaysFresh`, `PagesShowTheirQuery`, `DialogsStayOverTheirRow`, `NeverOverwritesBlindly` | `ListIInv`: a load that is not cancelled is for the query of now and, once the server answered it, no older than `floor` (`LoadsCurrent`); the activity likewise; the dialog and the form send the version shown, and what an answer brings is no newer than the server. `ListFresh` needs `LoadsCurrent`, since freshness is decided when the server reads and not when the answer comes |
| `DetailProofs` | `DetailsAlwaysFresh`, `AlwaysEditsWhatItShows` | `DetailIInv`: as above for one object, with what each answered request leaves (`Left`), and that after a create the page it opens is not told of more than exists |
| | `ResultsAlwaysTruthful`, `BindingNeverSteals`, `OnlyLateAnswersGoBack` | `BindIInv`: what a candidate list or the selection names at a version was free if it still has that version (`WasFree`), and what a submission reports as bound is bound at the version after the one submitted (`WasBound`). `Covered` says that the addresses with an outcome and those still in the queue are together the batch, each once; with an empty queue that is what is shown. `OnlyLateAnswersGoBack` is the cause of the finding of `stale_bound_list`: of all steps only the arrival of a list read before the binding makes the list go back behind it |
| | `NothingLeftOut` | `HostIInv`: an interface that stayed is listed, or its rank is beyond the pages read (`Behind`). A creation only raises ranks, so the end of the list leaves no one behind, or `total` tells that it is cut off. A deletion lowers ranks: from then on the invariant, like the property, says nothing of who stayed. Each position is with one worker, has its outcome, or is still to be taken (`Positions`) |
| `PanelProofs` | `OffersAlwaysCurrent`; `AuthorizationsAlwaysCurrent`; `AlwaysImportsWhatWasValidated`, `BatchesAlwaysWhole` | `SelectIInv`, `GrantsIInv`, `ImportIInv`: loads that count are for the parent and search that stand on screen (`CurrentAsks`), and what they bring and what is chosen belongs or belonged to that parent (`ChildrenOwned`); what the panel was told is revoked is not active at the server; the names a batch has staged are free and no other batch has staged them (`Staging`, `StagedApart`) |
| | `AlwaysSavesWhatWasTyped` | `FormsIInv`: the object an edit was opened on is the stored one as long as the versions agree (`EditsOldObject`), every text can be typed in its field, and a request sent is for the version of that object and carries what the texts submitted read as, in the fields a create or a patch carries (`MadeOf`). The lemmas about the ways to read a text carry the weight: `AllReadBack` (what is read shows as the same meaning), `StoresWhatShows`, `NormalForms` (what is stored is its own normal form, and taking it commutes with the meaning), and `SheetsFit` for the forms as data |
| | `OnlyLateLoginsSlipIn` | the cause of the finding of `disabled_session`: only `create_session` of a login verified before the account was disabled gives a disabled account a session (`InsertsTooLate`) |
| `WebProofs` | `ScreensImplemented`; `WebListsCurrent`, `WebScreensCurrent`, `WebImportsWhole`, `WebWritesWhatItShows`, `WebTyping` | each step of `MCWeb` is a step of the mounted screen's own specification or leaves its variables; the others are at rest and stay so (`UnmountedRest`, `NeverMounted`). With that, what is proved of each screen holds of the application. `WebTyping` rests on `ListTyping`, `DetailTyping`, `BindTyping`, `HostTyping`, `SelectTyping`, `GrantsTyping`, `ImportTyping`, `FormsTyping` and `SessionTyping`, each by an inductive invariant of its screen |

Assumptions are the `ASSUME`s of the modules (bounds are naturals, inputs have the type the schemas
give them, NULL is no value), and the runs evaluate them.

`LowestFreeAddress` is not a theorem of `Spec` with several networks: an address left undeleted in a
deleted network (the finding of `orphan_address`) may occupy an address of a network created
later in its place, and its deletion waits for the row of the deleted network and not for the one that
an allocation holds; so a lower address may come free between the search and the commit.
`LowestAllocated` shows that nothing else can: undeleted networks of a Cluster are apart
(`NetworksApart`), so every other occupant of a pool is an address of the locked network. The run has
one network, where the case does not arise.

What the four findings refute is not proved, but for three of them the theorem names the only step that
breaks the property (`OrphansComeFromAllocations`, `OnlyLateAnswersGoBack`, `OnlyLateLoginsSlipIn`), and for
the fourth, `restored_guest`, `HostIntegrity` shows that without the unlocked restores it holds.

The proofs changed the model where it could not be reasoned about or was wrong. `Reads` was a `CASE` with
overlapping guards, which TLA+ leaves open although TLC takes the first; it is a chain of `IF`s, in the order
of the code. A create sent a field of an account that its form has no input for; `CreatePayload` excludes it
(`AccountManagementPanel.tsx`). `Normal` had to be the last thing done to a value, after trimming, and objects
have to start in normal form, or an edit of one field would be asked to normalise another it does not send.

Only model-checked: the liveness properties `CancelResolves` and `WebSettles`. Liveness under fairness,
`ENABLED` and induction over data are outside what the proof system can do; for this reason a page of
interfaces and the queue of a submission are given by ranks (`AtRank`, `Ordered`) and not by a recursive sort.

## 8. Bounds and deadlock

Bounds: the sets in the `.cfg` files, and those named in the guards: `MaxVersion` (`Ipam`, `Inventory`,
`ListPage`), `LastVersion`, `LastSaved`, `LastWrite`, `LastGrant` (how often a row is written),
`MaxFlights`, `MaxLoads`, `MaxReads`, `MaxAsks`, `MaxCalls`, `MaxTabCalls` (requests in flight),
`MaxBatches`, `MaxChanges`, `MaxStatusChanges`, `LastSession`; `Searches`, `Movable` and `Contested`, which
objects are searched for and which ones others write. `DetailPage` has one create in flight at a time: its
section is opened only when none is (`GoTo`). The theorems hold for every value of them. `Subagents` has
none. `CHECK_DEADLOCK FALSE` is set where the system rests: a server without requests once every row has
used its versions, batches that have all been executed, and a screen on which all is loaded and nothing is
allowed.

## 9. Not modelled

- Services and endpoints: their handlers lock no row they refer to, so nothing holds of two rows
  beyond their own version checks (which `ListPage` and `Optimistic` have) and unique indexes. The
  binding of addresses is modelled from the web side.
- API keys: one row and one conditional UPDATE per operation; their page is one of `Pages`.
- IP capacity, normalization: pure functions on intervals and strings; `Ipam` uses what they return
  on blocks of at most four addresses, and `Forms` what normalization does to a value that is written.
- Access scope: it filters which rows a request may name; the models have one operator who sees all.
- Audit, search, dashboard, deleted lists, health: reads, or an append-only row written in the same
  transaction that no modelled handler reads.
- Names, descriptions, hardware and metadata columns other than as fields of `Forms`; lock and
  statement timeouts other than as `Abort`; the deadlock of handlers outside `Imports` (each holds one
  row lock); a crash of the server, which rolls back like `Abort`.
- A listing of interfaces (`ListPageArrives`) reads and answers in one step: the panel awaits each page
  before it asks for the next, so nothing of its own can come in between.
- In the frontend: what columns and messages say, filters whose options are loaded, checks of one
  field against another, layout, the test client.
- In the subagents: messages, usage, rendering, agent files, the single and chain modes, a signal that
  cannot be sent, and other processes of the agent, which the registry does not cover by design.
- Routes, schemas, configuration, scripts and deployment: plumbing.

## 10. Mutants

Operators named `...NoWait`, `...Early`, `...Blind`, `...Unaware`, `...Once` and so on, defined just before
the operator they vary, are plausible bugs of it; no behaviour uses them. `PROJECT.json` pairs each checked
property with one that breaks it.
