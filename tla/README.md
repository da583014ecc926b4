# WebBoard in TLA+

WebBoard is a dashboard for self-hosted services. A web UI (ASP.NET, one or more
replicas over one PostgreSQL database) shows *modules* - containers, systemd units,
HTTP, Minecraft and Steam servers - on *hosts*, checks their health, keeps a history
of it, and lets users start, stop, restart, enable or disable containers and units.
An *agent* on each host performs those operations through the Docker socket and the
host's systemd manager.

This directory holds a specification of the parts where order, failure and
concurrency decide whether the program is correct, the TLC runs that check it on
small instances, and proofs of its main invariants for every instance.
`PROJECT.json` lists the runs, the source lines behind each definition, the hazards
each property is for, and for every property a mutant: a plausible mistake in the
code under which TLC finds the property violated.

## 1. Inventory

Paths are relative to `src/` of the repository's source tree (`Webboard.Domain`, ...).

| Component | State it keeps | Operations | What is hard |
|---|---|---|---|
| Module operations (`ModuleOperationService`, `PostgresModuleOperationStore`) | rows of `AuditLogs` with an `OperationId` (unique), advisory locks (78211, host) | `ExecuteAsync`: authorise, find target, reserve, lock host, call agent, complete | same request id twice at once, crash between any two awaits, lost lock session, an answer that is late, lost or unreadable |
| Agent HTTP client (`AgentOperationsClient`, `AgentAuthenticationHandler`) | none | one POST per operation; maps answers to outcomes | what an error status or an unreadable body says about the host |
| Agent operations (`WebBoard.Agent/Operations.cs`, `Program.cs`) | semaphore, dictionary of completed requests (2048) | `POST /operations` | concurrent calls, id reuse, restart, exceptions on every path, host actions that finish late |
| Agent drivers (`DockerSocketClient`, `SystemdClient`, `ProcessRunner`) | none; the host itself | container control; `systemctl`; unit-file change followed by a manager reload | deadlines, killed processes, partial completion |
| Monitoring collector, blocks, invalidation | `LatestMonitoring`, `MonitoringResults`, `MonitoringBlocks`, advisory locks (70111, module) | `CollectAsync`, `ObserveAsync`, `InvalidateAsync`, `RetainAsync` | replicas, edits during a check, shutdown during a check |
| Monitoring worker | none | scan due modules each second, collect in parallel, hourly cleanup | a failing module must not stop the others |
| Monitoring reader, timeline | none | latest status, block at a time, history slices | boundaries of slices, retention and freshness |
| Hosts, modules (repositories and management services) | `Hosts`, `Modules` with `Version`, `MonitoringVersion` | add, edit, delete with optimistic versions | edits of a host and its modules at once, dependents read before they are locked |
| Users, grants, registration | `Users`, `UserCrudAccess`, `PermissionVersion` | register, grant, revoke, delete | two first users, concurrent grants, stale sessions |
| Sessions (`JwtSessionService`, `SessionAccessValidator`) | a cookie | create, refresh, validate | claims that outlive grants |
| Health checks (`ModuleHealthHandlers`, agent, Minecraft clients) | none | one check of one module | pure I/O |
| Steam query | none | challenge, request, packet assembly | UDP loss, duplication, reordering |
| Menus of operations (`operations.js`, `request-lifecycle.js`) | a flag, the current request and the content of each menu | open, close, fill, post an operation, end | answers of openings that are over, menus filled while an operation runs |
| Dashboard refresh (`dashboard-refresh.js`) | a flag, the tiles | refresh by timer or by the tab | overtaken answers, a flag that is never given back |
| Order of tiles (`module-order.js`) | a sequence in `localStorage`, the tiles, a drag | load, move by drag, button or key, reset | ids the page does not show, storage that throws, gestures cut off |
| Module editor, comboboxes (`module-editor.js`, `searchable-select.js`) | the fields, the requests for options, each list | choose type and host, load options, open, submit, filter | answers for another host, selects that change under an open list |
| Monitoring history (`monitoring-history.js`) | rows, their canvas and how far each is loaded, a queue, workers | refresh, reset, load a slice, show and hide rows, change the range | a range that rolls while rows load, failures and aborts half-way |
| Audit log queries, Razor pages, migrations | - | reads, forms, schema | - |
| Installer (`deploy/install.sh`) | lock directory, managed files | install, manage | interrupted runs |

Interactions. A browser posts a form to the UI; the UI reads grants and the module
row, reserves the attempt in the ledger, takes the host's advisory lock, and calls
the agent over HTTP; the agent runs the action on the host and answers; the UI
records the outcome. The monitoring worker of each replica takes a module's advisory
lock, checks it, and writes result, latest row and block in one transaction; edits
of modules and hosts take the same locks to invalidate what has been observed.
Pages poll the UI while they are shown, and their scripts go on while answers are on the way.

What must hold, component by component: an operation is on record before it is
dispatched, is dispatched at most once, takes place at most once, and what the record
says about it is true for ever; an agent runs one operation at a time and its answers
are true; monitoring shows only what was observed under the present configuration;
edits never overwrite what their author has not seen; a permission once revoked stops
working; and a page shows what was last asked for, of the time it says, and keeps what its
user did not touch.

## 2. Modules

| Module | Models |
|---|---|
| `OperationResults` | kinds, verbs and outcomes both sides share |
| `AgentChannel` | HTTP between UI and agents: requests and replies in flight, their loss |
| `AgentOperations` | the agent: gate, cache, allowlist, each await of an execution, restart, late effects |
| `AgentService` | the agent under arbitrary callers, and the properties it owes them |
| `ModuleOperations` | the UI side: each await of `ExecuteAsync`, ledger, host locks, crashes |
| `OperationsSystem` | UI, channel and agents together, and the properties of the whole |
| `OperationLedger` | abstract: what an operation promises |
| `OperationsInvariant` | the inductive invariant behind "once", "on record" and "final" |
| `AgentTruth`, `OperationsTruth` | what makes the answers of agents and of the UI true, as inductive invariants |
| `MonitoringStore` | the tables of monitoring, its advisory locks, the block projection, invalidation |
| `MonitoringCollector` | the worker and `CollectAsync` of every replica, retention, time |
| `InventoryEdits` | what users do to hosts and modules, await by await |
| `MonitoringSystem` | workers and editors together, and the properties of the whole |
| `MonitoringInvariant` | the inductive invariants behind these properties |
| `Permissions` | what a grant may be and what it means: when saved, when read, in the table's constraints |
| `Accounts` | registrations and the requests of the page User management, query by query, over the rows of `Users` and their grants |
| `Selections` | elements of a sequence picked in their order: retention and the order of tiles use it |
| `OperationMenus` | menus, the latest request of each, the buttons of a page |
| `DashboardRefresh` | the refreshes of the dashboard and its timer |
| `ModuleOrder` | the stored sequence, the tiles and the gestures that move them |
| `SearchableSelect` | the combobox, as operators on boxes and selects |
| `ModuleEditor` | the dialog with its four comboboxes and the loading of options |
| `MonitoringHistory` | the rows of the history, its refreshes and their workers |
| `BrowserScripts` | the scripts side by side |
| `MCAgentService`, `MCOperationsSystem`, `MCMonitoringSystem`, `MCAccounts`, `MCBrowserScripts` | instances for TLC |
| `AgentProofs`, `AgentServiceProofs`, `OperationsProofs`, `MonitoringProofs`, `AccountsProofs`, `SelectionProofs`, `HistoryProofs`, `BrowserProofs` | lemmas about agents, selections and the history; theorems about `AgentService`, `OperationsSystem`, `MonitoringSystem`, `Accounts` and `BrowserScripts` |

### State and code

*UI.* `pc[c]` is the await at which call `c` of `ExecuteAsync` is suspended:
`authorize`, `find`, `reserve` (the lookup), `insert`, `lock`, `send`, `await`,
`release`, `complete`; then `answered` (result returned), `replayed` (an earlier
attempt's result returned), `refused` (an exception to the page) or `dead`. Calls of one
replica and of several look the same, since all they share is the database. `ledger` is the
set of audit rows with an operation id, `locks` the advisory locks with the session that holds each.
`form` and `id` are what the browsers will post: two calls with the same id are a
retry, a second tab, or a colliding client. `row` is the module row read by
`FindTargetAsync`; it may be any row of the module at each read, which stands for edits in between.

*Agent.* `gate` is the semaphore, `running` the executions between `WaitAsync` and
`Release` with the await each is suspended at (`inspect`, `control`, `change`,
`reload`), `completed` the dictionary. `completed` is kept in slot order: .NET's
`Dictionary` enumerates its slots in order and reuses a freed slot for the next key,
which decides what `Remove(Keys.First())` removes. The part of `ExecuteAsync` before
the first await is one step (`RejectRequest`, `ReturnCached`, `Begin`).

*Host.* `effects` is a ghost: the actions that took place. A call that was cut short
(deadline, killed process, broken socket, agent restart) may have happened, may
never happen, or stays in `lingering` and may happen at any later time (`LateEffect`).

*Channel.* A request or a reply in flight may be lost, or reach its reader after the
UI has given up. HTTP over TCP does not duplicate.

*Monitoring.* `latest`, `blocks` and `results` are the three tables per module. A
transaction takes effect when it commits, so its writes are one step (`CollectCommit`,
`CommitHost`, ...); what it reads before, under READ COMMITTED, is a step of its own
(`CollectStart`, `BeginHost`, `BeginModule`). `locks` holds the transaction locks
(70111, module). A worker uses `pg_try_advisory_xact_lock` and goes away, an edit
waits (`LockNext`). `job[c]` is a check between its first read and its commit.
`edit[e]` is one request from the page its user opened: it carries the version that
page showed. `Review` and `Validate` are the reads the services make outside the
transaction. `Skew` is how far the clock of each replica is ahead. Ghosts: `seen`
(what a check really addressed), `version` of a result, `vouched` (the URL an edit
found healthy), `saw` (what the page showed).

*Accounts.* `user` is the table `Users` with each row's `UserCrudAccess`: a resource
without rights stands for a missing row, which the code treats the same. `tableLock` is the
`LOCK TABLE` of a registration, which keeps out other registrations and all updates of rows.
`reg[r]` is a registration at the query it does next (`lock`, `name`, `count`,
`insert`); `edit[e]` a request of User management: the two queries of
`SessionAccessValidator`, the decision on the claims, the two queries of
`RequireUserPermissionAsync`, then the handler - three queries of `GetAccessAsync`, or the
search for the target and the update of `ReplaceAsync`, or the deletion. The update is
one `UPDATE ... WHERE`, so with its commit it is one step. A request may act for any account
that was ever registered: a cookie outlives what it was issued for. `shown` and
`version` are what the editor holds; after a conflict the page keeps both, as the code
does. Ghosts: `founder` (given grants by registering), `held` (the actor was live and had
the right at some moment of the request), `fresh` (nobody has saved since the editor was loaded).
Passwords, tokens and the expiry of cookies are left out. Some
modules keep, next to a definition, a variant marked "Fault": it is not part
of any specification, but a mistake the properties are shown to notice.

*Browser.* Each script keeps variables of its own, and no two share one; `script` is
chosen at the start, and the others rest. JavaScript runs a handler to its
end, so a step is an event with all it calls, or what follows an `await`. In the menus,
`asked` holds the requests for forms that have not ended and `aborted` those that were
aborted; a rendering is a tile and the opening it answers, and `buttons` are the renderings whose buttons a
post has disabled. In the editor, `form` is one record - fields, options, the request number of
each loader, `fetches` under way, the save button as `blocked` - and the methods of
`ModuleTypeConfiguration` and `RemoteModuleOptions` are operators from forms to forms;
`Becomes` gives every combobox the refresh that the script, its `MutationObserver` or a reset gives it.
In the history, `history` is the page: `run` is the refresh that holds `busy`, `queue` what its
workers have not taken, `loads` the requests under way; each point of a canvas shows the time it was drawn
for, and `wanted` are the rows in view and not hidden. Ghosts: `of` and `calm` (menus), `seen` and `reset` (order), `subject`, `touched`
and `listed` (editor), `done`, `asOf` and `spoiled` (history). Names, texts, icons, focus,
scrolling and canvas sizes are left out; ranges of the history all have one length, and a
module's text stands for its value.

A module's `target` stands for its type and address. A state of a check stands for
state and message, which decide together whether a block goes on. Health checks are nondeterministic
answers: a handler that fails or times out is an observation, a shutdown is not. Host
names, texts and audit rows are left out.

Abstractions. Of a result only its outcome is kept; "Failed" splits in two, because
"Operation was not dispatched." tells the user a retry is safe. A target stands for
the container or unit it resolves to. Reasons, exit codes, captured output, names and
times are left out. An agent answers a conflict with a JSON body that holds only
`message`; the client reads that as a result with the defaults of
`AgentOperationResult`, so such a call is recorded as Failed, not Rejected, as in the code.

## 3. Runs

| Run | Instance | Question |
|---|---|---|
| `agent_service` | 3 calls, 2 ids, 5 bodies, cache of 1 | are the agent's answers true and its executions serial, whatever the callers do and whenever it restarts |
| `agent_recent` (violation) | 4 calls, 4 ids, cache of 2 | does the cache hold the ids recorded last |
| `operations` | 2 calls, 2 ids, 2 users with a one-step and a two-step operation, a module that moves between 2 hosts behind one agent, a unit on the one and a container on the other | is what the ledger says true, final, and the same to all who ask; audit before dispatch; the invariant the proofs rest on; does the system implement `OperationLedger` |
| `operations_live` | 2 calls, 1 id, Docker | does every attempt on record get an outcome |
| `monitoring` | 1 module, 1 host, 2 URLs, 2 workers, 2 editors, clock to 3 | blocks, what an enabled module is vouched by, optimistic edits; the invariant the proofs rest on |
| `monitoring_skew` | 1 docker module that stays on its host, 2 URLs, one replica an interval ahead, clock to 2 | what holds when clocks disagree; is the latest result of the present configuration |
| `monitoring_moved` (violation) | 1 module that may move to the host | the same question when modules move |
| `monitoring_live` | 2 modules on 1 host, 1 worker, 2 editors | do edits end, are due modules checked |
| `accounts` | 4 ids, one a legacy actor, 2 names, 2 registrations, 2 editors, 3 resources | the first account, authority at every request, optimistic saves, deletion |
| `accounts_unseen` (violation) | 2 ids, 1 registration, 2 editors | does a save replace only grants its editor showed |
| `browser` | 2 menus, 2 tiles and a newcomer, 3 modules to arrange, 2 hosts and 3 saved modules, 3 rows and 2 workers | does each script show what was last asked for and keep what its user has, whatever is late, fails, is aborted, hidden or changed meanwhile |
| `history_tail` (violation) | the history alone, clock to 6 | does a refresh load its rows to the end of their range |

Bounds and why they suffice. Every hazard of an operation is a race of at most two
calls (same id, or same host), so two calls reach it; the third call of
`agent_service` is the duplicate that arrives after an eviction. A cache of one
makes eviction happen on the second operation. Restarts, losses, broken sessions and
crashes are unbounded; calls are not reused, so the state space is finite and a run stops
when all calls have ended: the configurations switch deadlock checking off for that reason.
Calls and ids are interchangeable, hence symmetric, except in the runs with
liveness properties, which use no symmetry. In `AgentService` replies are kept after
delivery so that a property can speak of everything an agent ever said.

Monitoring runs count time in units of the interval. With results fresh for 2 and a clock to 3, observations follow each other inside,
exactly at, and after the end of the block before (a gap), and retention of 1
removes blocks that an edit has cut. With clocks to 2 and one replica an interval ahead, a
check and an edit of different replicas meet in every order at every moment of
two intervals, the block that begins before one that is there included. Each editor makes one edit; two editors are enough for
every conflict in the code, which is between two transactions. Workers, editors and
the two answers are interchangeable where clocks agree.

The accounts runs start from a table that holds only a legacy actor, which counts as empty,
and from settled tables with an administrator and perhaps a second account that may manage
users, so that two people can revoke each other's rights or delete each other. Each
of the two editors opens the page once and submits until a save succeeds or is refused, or
deletes once, and each of the two registrations is one attempt: a conflict is between two of them. The three
resources are one of each kind: plain, operable, read-only. One of the forms submits rights no
page offers, since the handler is what must drop them.

The browser run gives each menu two openings, which is what it takes for an answer to be of one that is over, and the
page two operations. The dashboard may fail once, the history once, so that a failure meets
requests that go on. What is stored at first is nothing, unreadable, or an order with
an id twice, one of a deleted module and one that is none; one other tab stores once. Of the saved modules one is named by its
container's id, one is on a host that is unavailable now, one has a service that its host
no longer has; every answer may be the host's names, none, or an error. With two
workers for three rows one always waits, and a range of two points in slices of one is
rolled, shifted and left half-loaded while the clock goes on; two gestures interrupt each other
or a refresh. `MaxGestures` bounds what the user does to the history; dialogs and drags are not bounded.

Fairness. `operations_live` uses `CalmSpec`: no crash of the UI and no failed commit
(either leaves a row Pending for ever, by design: "verify the target manually"), but
messages are lost, agents restart, sessions end and the UI may shut down gracefully. Each call is weakly fair:
each await has a deadline (database command timeouts, `HttpClient.Timeout` of 310 s).
Nothing is assumed of agents, hosts or the network. That an execution of the agent
always gives its gate back is stated as a safety property, `Serialized`: the gate is taken
exactly while something runs, and what runs has deadlines (5 and 30 s for Docker, 30 s for processes).

`monitoring_live`: the worker scans each second, checks in parallel and goes on after
any failure, so a module that is due again and again is taken up (strong fairness of
`CollectStart` per module), and not every check is cut short (strong fairness of
`CollectCommit`). PostgreSQL serves the waiters of a lock in order, which keeps checks
of the same module from overtaking an edit for ever (strong fairness of an editor's
steps). `EditStops` and `CollectStops` may happen at any time and are not relied on.

`browser`: the interval of the dashboard goes off again and again while the tab is shown, the server answers, and
`AbortSignal.timeout` ends every request after ten seconds; each is weakly fair (`FairSpec`). That the
tab is looked at again is a premise of `ObservationsReachThePage`. The progress of the
history is too slow to check as liveness; `RefreshLosesNoRow` states why it never stalls: what
holds `busy` has a request under way.

Accounts have no liveness property: what a registration could do to those after it is to leave
the table locked, and `TableIsFreed`, which is proved, says that it does not.

`deploy/ui/README.md` says that the bootstrap runs only when `Users` is empty; the code
ignores the rows of legacy actors, which a migration makes, and so does the model.

### What the violations show

`accounts_unseen`: `UserCrudAccessService.GetAccessAsync` reads the grants of a user
and then, in a query of its own, the version, which it puts on all of them. A save that
commits in between leaves an editor with the old grants under the new version; its
own save then passes the version check and undoes a change nobody at that page has seen. The test
`StaleHostModuleAndPermissionEditsDoNotOverwriteNewerChanges` (`UserAccessTests.cs:60`)
covers a version that is itself stale. What does hold is `LoadedSinceLastSave`: the
version was read after the last save.

`monitoring_moved`: `HostRepository.UpdateAsync` asks which modules depend on the
host before it has their locks. It then waits for locks, possibly for as long as a check takes. A
module that is moved to the host meanwhile, and checked at once at the old URL, is not
among them: when the new URL is committed, its latest result and monitoring version
stay, although `deploy/ui/README.md` says that configuration changes invalidate
current results immediately. The next check, an interval later, corrects it.
`monitoring_skew` shows that it takes a module that comes to the host, by a move, a
change of type or an addition: while modules stay what and where they are, it holds.

`history_tail`: `load()` returns before its requests when a row has been loaded and its range ended more
than `staleSeconds` ago, however far it was loaded. A range that ends in the
future is loaded up to now. When nothing refreshes the page from then until `staleSeconds`
after the end of the range - the tab is hidden, or requests fail - the rest is never
loaded, and a refresh that succeeds clears the message as if all were shown.
`monitoring-history.js:107` means to "revisit the freshness tail".

Two smaller observations show in the premises of properties. `Promise.all` rejects with the first worker
that fails while the others go on drawing for the range they were made for, also after a
new refresh has shifted the canvas; `RowsShowTheirRange` is stated for pages where that did not
happen (`spoiled`), and a change of the range clears it. A second tab that moves tiles writes the sequence it
loaded, without what the first has stored since; `ArrangementIsKept` and
`HiddenKeepTheirPlaces` speak of the time in which no other tab stores (`seen`).

`agent_recent`: the agent's README says that it "caches recent completed IDs in
memory". `completed.Remove(completed.Keys.First())` removes the entry in slot 0, and
the insertion that follows goes into the slot just freed. From the moment the
dictionary is full, every insertion therefore evicts the entry inserted immediately
before it: the 2047 oldest ids stay for ever and the recent ones are forgotten. The
safety properties do not depend on it (the UI never dispatches an id twice), which is
what `CachedNeverRuns` and `AtMostOnce` show with a cache of one.

## 4. Proofs

Every safety property that a passing run checks, and the refinement, is also a theorem: the run
shows it on the instance of section 3, the theorem for every value of the constants - any
number of calls, ids, users, modules, hosts, agents, targets, menus, rows and so on, any
allowlist, any capacity of at least one. The theorems rest on the named assumptions of the modules
(`AllowlistAssumption`, `RowsAssumption`, `TimesAssumption`, `OrderBoundsAssumption`, ...), which only
say what constants are, and which TLC evaluates in the runs. Two theorems
about monitoring have a further hypothesis, discussed below.

*The operations system.* The properties proved are not inductive. `IInv` in
`OperationsInvariant` adds what makes them so:

- an id has at most one row, and the row belongs to a call that got past the insertion (`RowsAreOfCalls`, `OneRowPerId`);
- a call past the insertion owns the row of its id (`OwnersHaveRows`), so no second call of that id gets there;
- a request that was sent is exactly the request its call builds, and its call is past `send` (`RequestsAreOfCalls`);
- a call that has not reached `await` has sent nothing (`NothingUnsent`);
- a lock has one holder (`LocksAreExclusive`);
- whatever is in flight, running, done or lingering was sent, and an execution is where its request was sent to (`AgentInv`).

From it: `Audited`, `DoneOnce`, `LeasesExclude`,
and the action property `OutcomesStay`. Also proved, though the other properties of
the runs cover their consequences: `DispatchedOnce` (`NeverRedispatched`) and
`PendingIsOwned` (`PendingHasOwner`).

*True answers.* That a "Succeeded" is about something that happened, and that of a "Rejected" or
"NotDispatched" nothing did or will, takes one argument about agents and one about the UI.
`AgentTruth`: a request that nobody has read has no effect, no execution and no answer
(`UnreadAreIdle`); what a running request has done is told by the await it is at
(`RunningAreInStep`), and a host call that was cut short is the only one of its request
(`LingeringAreInStep`); so what is cached when an execution ends, and what is replied, is true
(`CacheIsTrue`, `RepliesAreTrue`), and a request that was refused stays without effect. The only thing it asks of
callers is one request per call (`OneRequestPerCall`), so `AnswersCanBeBelieved` holds under
arbitrary ones, and `OperationsProofs` reuses the lemmas for the callers there are.
`OperationsTruth` carries the truth on: from a reply to the result a call holds until
`CompleteAsync` (`ResultsAreTrue`), to the row (`RowsAreTrue`), to what other calls of the id are told
(`AnswersAreRecorded`). `TruthInv`, all of it together, is inductive (`TruthInvariant`), and the run `operations`
checks it as it stands. `SuccessesAreReal`, `RetriesAreSafe` and `AnswersNeverDiffer` follow.

*Refinement.* `LedgerImplemented`: under the mapping of `OperationsSystem` the initial states are
those of `OperationLedger`, and each step is one of its steps or a stutter: the insertion
of a row accepts an id, a host action is one of an accepted id and its first of that
step, the commit of `CompleteAsync` is a truthful verdict. It needs `TruthInv` for the verdict, and
`NeverRedispatched` with the phase of each execution for the action; a loss or a restart ends an id if it was the last that could act, all else is a stutter.

*The agent.* `AgentProofs` shows once that each agent action keeps `AgentTypeOK`,
`Serialized`, `RunsItsOwn` and `AgentTruth`, and that nothing runs or acts which did not arrive; both theorem
modules about operations cite it. `AgentServiceProofs` adds that cached ids are fresh when they are inserted, which gives
`DuplicatesAreAnswered` and `CacheIsBounded`.

*Monitoring.* `MonitoringProofs` builds the invariants of `MonitoringInvariant` in four parts.

- Edits (`EditsAreSane`): the await an edit is at follows from its kind; as long as the version of its row is the one it read, the row is what its page showed (`SawRow`), and a form that enables a host without a probe is for a host already enabled at that URL (`Vouches`). The version checks of the commits then give `NothingUnseen` and `EnabledAreVouched`.
- Locks: a module has one holder; an edit holds what it is about to write, and a check holds its module, so the row it read is the row at its commit (`EditsHold`, `ChecksHold`).
- Results: none is ahead of its module's version, and the latest row is the last of its version (`ResultsAreOfModules`); a check under way was due by its own clock (`ChecksWereDue`). Hence `ChecksAreSpaced`, for any skew of the clocks.
- `MonitoringInv` is these together; `monitoring` checks it, and `MonitoringIsSafe` proves it.

`LatestStaysCurrent` is `Spec /\ [][NoArrivals]_vars => []LatestIsCurrent`: no module may come to rely on a
host while an edit of that host is between its query for dependents and its commit. The
code does not exclude that, and `monitoring_moved` shows what happens then; the hypothesis says that
nothing else can go wrong. `monitoring_skew` is an instance of it. The proof adds that the
dependents an edit has are all there are (`DependentsAreKnown`).

`TimelineIsExact` has the hypothesis `ClocksAgree`: with clocks apart, a check can commit a
result that is older than the last, and the replay of results is no longer the
order in which blocks were cut. With it, results are in order of time, blocks do not
overlap, and at every moment from the first retained result on the blocks show what the results say
(`BlocksInv`). This is the longest proof: each commit of a check extends the
last block, starts one after a gap, or cuts, and retention drops a prefix of
the results together with what was drawn for it. The sequence of results that retention
leaves is a selection (`Picked`), about which `SelectionProofs` proves, without recursion, what is needed: the ranks of the places kept
are the numbers up to how many there are (`RanksAreAll`), and each element kept is at its
rank (`PickedIs`).

*Accounts.* `AccountsProofs` proves every safety property of `accounts`, for any
resources, accounts, registrations and requests, from `ResourcesAssumption`,
`FormsAssumption`, `LegacyAssumption`, `NobodyAssumption` and `TablesAssumption` (the table
the program starts with is one it could have left). Its `IInv` says:

- a registration past `LOCK TABLE` holds the lock (`LockIsHeld`), so what it counted still holds when it inserts (`CountStillHolds`);
- a request's actor was registered (`HasParties`), and a request that has found its account live and would now find the right among its grants has seen both together (`HeldIsWitness`): grants do not change once an account is deleted, so the two queries cannot combine an old account with new grants;
- a request on its way to a save is one for updates (`SavesAreUpdates`), and an editor with the present version is fresh (`VersionIsSeen`);
- the table is locked only for a registration at work, which is inductive by itself (`TableIsFreedHolds`);
- the rows keep one founder, distinct names and grants that columns and claims read alike (`RowsAreSound`).

`NormalizeIsActionsFor` and `NormalizedIsCoherent` show that saving a grant and reading it
as claims drop the same rights, and that what is saved passes the table's constraints.

*The browser.* `BrowserProofs` treats all five scripts, each with an invariant of its own variables, for any number of menus, tiles, hosts, names and texts.
`MenuInv`: the current request of a menu is that of its latest opening or none, and a menu that
says it loads has it under way; the flag is set exactly while a post is, of which there
is one; forms there since before the post are among those it disabled. `RefreshInv`: a
request exists only while the flag is set, and there is one, so an answer under way
is no older than the page. `EditorInv`: only the remote field of the type is enabled or loads; there is at
most one request, of the field and host selected, with the number its loader waits for, and for
the name the form was opened with as long as nothing was touched. `Apply` puts any form in this order
(`ApplyHolds`), which is why opening, refusing and changing the type need not know what was there
before. `BoxesInv`: every box is one its select may have, which each operator on boxes
keeps (`RefreshBoxIs`, `OpenBoxIs`, ...) and `Becomes` restores after any change of the form; what a form
does to its fields is not opened in that proof, so it holds for any such change.
An aborted request is gone in the model, since its `load()` has no effect any more, by its
AbortError or, when its answer had been read already, because it is not the latest; so what
ends is always the latest, which `EditorInv` implies.

`EditorTyped` adds that a select offers the value it has: what is chosen from a list was picked from its
options, and what an answer does not contain is appended.

*The order of tiles.* `OrderInv` says of a page that its sequence has no id twice and contains what is
listed, and its cards are the listed ids in the order of the sequence (`PageOf`); of page and
storage together that, while the page says "saved" and nobody else has stored, a page loaded
now would show the same cards, and that as long as nothing was reset and nobody else has stored, the stored ids that the page does not
show are in the page's sequence at the places they are stored at (`Agrees`); and that a
drag is of a card of the page (`DragOf`). `Replaced` puts the cards into the visible slots by their rank (lemmas on
`Rank` and `Picked`), which leaves the hidden ones where they are; a
reset forgets them, and `HiddenKeepTheirPlaces` says so. A storage that throws leaves the
page ahead of what is stored, which is why the invariant needs the part about hidden ids and not just the property.

*The history.* `HistoryProofs` has `HistoryInv`. Its first part is about work: while a refresh
holds busy, either all its workers have a request under way or no row is left waiting, each row has
one request at most, and the states are asked for exactly when no request is left (`RunIsAtWork`); each run other than
that has failed once, so there is a number free for the next (`Strays`). Its second part is about pictures, and
holds unless `spoiled`: every row shows at each point the time of that point or
nothing, all it counts as loaded is drawn, and each request under way is for the range of the page, with
everything before its cursor drawn (`RowsAreRight`). A row may be blank behind what another slice drew,
so the last is what makes `loaded` true when the last slice arrives.

*Only model-checked.* Liveness (`PendingSettles`, `EditsEnd`, `DueIsCollected`,
`ObservationsReachThePage`), which is outside the prover's reach. The four violations are TLC's counterexamples. Where the models of the first
version used folds or `SelectSeq` - retention, the order of tiles, the rows taken by workers, the matches of a
combobox - they now use `Picked` or say which rows are taken, because what a
recursive definition computes cannot be proved by induction here; the state spaces stayed the same.

## 5. Not modelled

Stateless reads (listings, capabilities, audit queries), rendering, DNS and address
policy, schema migrations. Steps of other components appear as nondeterminism:
grants and module rows may change between any two steps of an operation. The monitoring reader and timeline are pure
functions of the tables, which the model has; the Steam query and the installer are planned.
Of the browser: `site.js` and `theme.js` (confirmations, menus outside tables, local dates, the
theme: one event each, nothing awaited), and in the history the inspection of single blocks
and the stored visibility of rows.

Two things the code leaves to its users are not stated as properties: a host may be deleted between `HostExistsAsync` and
the insertion of a module that names it, which the foreign key of the table then refuses, and two
administrators may delete each other. `PROJECT.json` says of each component what is left out.

## 6. Plan

1. Operations (done): `AgentOperations`, `ModuleOperations`, `OperationsSystem`, `OperationLedger`, proofs.
2. Monitoring and edits (done): `MonitoringCollector`, `InventoryEdits`, `MonitoringSystem`, proofs.
3. `MonitoringTimeline`, `MonitoringReader` as functions against a reference definition.
4. Accounts (done): `Permissions`, `Accounts`, proofs. The refresh of a session and the expiry of its cookie remain.
5. Browser scripts (done): the five modules, `BrowserScripts`, proofs. Steam query assembly and the installer's lock remain.
6. Proofs (done): truth of recorded outcomes, refinement of `OperationLedger`, monitoring invariants, order of tiles, history. Open: what remains true of the timeline when clocks differ, and an abstract specification of monitoring.
