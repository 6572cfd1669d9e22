# TLA+ specification of mlflow-oidc-auth

mlflow-oidc-auth is a plugin that puts authentication (several OIDC providers,
basic auth, bearer tokens, Kubernetes service accounts) and authorisation
(permissions of users and groups on experiments, models, prompts, scorers,
gateway objects and workspaces) in front of an MLflow server. It runs as a
FastAPI application with several worker threads, usually with several replicas,
over one SQL database; permission decisions are cached in each process or in
redis.

What makes it hard to test is that nearly every operation is a *chain* of short
transactions (a resolve reads up to eight times, a login callback commits up to
seven times) with other requests in between, and that the caches are
invalidated by a step of their own after the commit. The specification models
these chains step by step and states what must hold in every interleaving.

## 1. Inventory

Paths are relative to `src/mlflow_oidc_auth/`.

| component | state | operations | interacts with |
|---|---|---|---|
| permission levels (`permissions.py`) | none | priority, capabilities, `compare_permissions` | every comparison of permissions |
| permission resolution (`utils/permissions.py`) | `_permission_cache` | `resolve_permission`: cache lookup, walk over `PERMISSION_SOURCE_ORDER` (user, group, regex, group-regex), default, workspace fallback, cache set | repositories, workspace cache, request context |
| workspace permission cache (`utils/workspace_cache.py`) | `_cache` | cached lookup, the same walk on workspace tables, invalidate entry / user / group / all | resolution, store |
| cache backends (`cache/`) | a TTL map with a size limit per process, or redis | get, set, delete, delete_prefix, clear | both caches |
| store (`sqlalchemy_store.py`) and repositories (`repository/`) | the SQL tables | grants, patterns, membership, wipe, rename; each wrapped with `flush_permission_cache` and a workspace invalidation | caches, routers, hooks |
| batch resolution (`utils/batch_permissions.py`) | a context and a memo per request | five queries, then one resolution per resource | listings, workspace cache |
| user accounts (`repository/user.py`, `user.py`, `ownership.py`) | `users` | create, update, delete, last-admin guard, ownership guard | logins, routes, CLI |
| sessions (`repository/auth_session.py`) | `auth_sessions` | create, resolve, revoke, expire, prune | logins, accounts |
| database commands (`db/cli.py`) | a journal file | restore-admin, prune-sessions, reconcile- and restore-ownership | accounts |
| browser login (`routers/auth.py`, `repository/auth_state.py`, `identity_resolution.py`, `provisioning_policy.py`, `repository/user_identity.py`) | `auth_state`, `user_identities`, the cookie | begin, callback: claim the attempt, exchange the code, resolve, provision, bind, synchronise groups, open the session | accounts, groups, identity providers |
| bearer and service-account provisioning (`middleware/auth_middleware.py`) | users, groups | create the user on the first request, create groups, set membership | accounts, groups |
| request authentication and refresh (`middleware/auth_middleware.py`, `routers/auth.py`) | the browser's cookie, the request's session | basic, bearer and session credentials; expiry check, awaited refresh, logout | sessions, providers, store, token validation |
| token validation (`auth.py`) | one key set per provider, with a TTL | select the provider by issuer, verify, retry once with fresh keys | bearer path |
| lazy store (`store.py`, `sqlalchemy_store.py: init_db`) | the instance and its lock | double-checked creation, engine retries, migration | every access to the store |
| permission routes (`routers/*_permissions.py`, `dependencies.py`) | none of their own | check the caller, write or list rows, emit an audit event | resolution, repositories, audit |
| authorisation hooks and validators (`hooks/before_request.py`, `validators/`) | a stash of names in the request | choose the capability and the names to check, refuse ambiguous requests | resolution, MLflow |
| after-request hooks (`hooks/after_request.py`) | none | grant to creators, rename and delete cascades, filter and refill search pages | store, MLflow |
| workspace context (`middleware/`, `utils/`) | a context variable | header's workspace or the default one | hooks, listings |
| configuration, provider registry | read at start-up | – | everything |
| trash, webhooks, health, GraphQL, web interface | MLflow's | administrator routes, field filters | MLflow |

`PROJECT.json` lists each part with its status, and every hazard with its line.

The properties that make the parts correct:

* **Resolution and caches**: a decision served from a cache agrees with the
  database, except for a bounded time after a change; what a write invalidates
  covers what it changed; a key never serves another resource's or another
  workspace's decision; a listing decides like the single-resource path.
* **Accounts**: an active administrator always remains; a source does not
  overwrite rows of another; a write changes no column it was not asked to;
  ended sessions stay ended.
* **Login**: an attempt is used once; a session belongs to an account its
  identity is bound to; one provider per account; a cookie carries tokens of one
  login.
* **Groups**: additive never removes; authoritative replaces; every service
  account is in its namespace's group.
* **Routes**: only a caller who was entitled during the request writes or sees a
  row of someone else; authority over a resource never comes from authority over
  another; the audit log tells the rows; a request changes only the decisions it
  is about.
* **Lifecycle**: rows are keyed by name, so a new resource must not inherit those
  of an earlier one of its name; a created resource has a manager; MLflow acts
  only on what was checked.
* **Searches**: following the page tokens shows exactly the readable items, in
  order, and every search ends.
* **Requests**: who is admitted was entitled at a moment of that request; a
  session ends with its token and with a logout; a fresh key is accepted (not
  always: section 3, divergences) and a retired one is not, beyond the key cache's TTL;
  every request is answered.
* **Store**: there is one, nobody sees it half made, and a failed initialisation
  blocks nobody.

## 2. Modules

| module | models | lines of the source |
|---|---|---|
| `Permissions` | the five levels, priorities, capabilities | `permissions.py` |
| `PermissionResolution` | what `resolve_permission` returns, as one definition over a database value | `utils/permissions.py`, `utils/workspace_cache.py`, repository queries |
| `PermissionCache` | the same walk as interleaved transactions through both caches, with the store's writes | plus `cache/`, `sqlalchemy_store.py` |
| `ResolutionProofs` | lemmas about `PermissionResolution`, shared by the next row and `PermissionRoutesProofs` | |
| `PermissionCacheProofs` | theorems about `PermissionCache` | |
| `SourceLoops` | the row loops, one iteration at a time, against the definitions of `PermissionResolution` | the three `for` loops |
| `BatchResolution` | listings against `PermissionResolution` | `utils/batch_permissions.py` |
| `UserAccounts` | users, sessions, ownership, commands | `repository/user.py`, `repository/auth_session.py`, `db/cli.py`, `user.py` |
| `UserAccountsProofs` | theorems about `UserAccounts` | |
| `LoginFlow` | the callback chain with several providers | `routers/auth.py`, `identity_resolution.py`, ... |
| `LoginFlowProofs` | theorems about `LoginFlow` | |
| `GroupSync` | the three paths that write membership | `routers/auth.py`, `middleware/auth_middleware.py`, `repository/group.py` |
| `GroupSyncProofs` | theorems about `GroupSync` | |
| `RouteTable` | every permission route: type, holder, scope, operation, check, filter | `routers/user_permissions.py`, `group_permissions.py`, `experiment_permissions.py`, ... |
| `PermissionRoutes` | the handlers behind the routes, overlapping | the same, `dependencies.py`, `audit.py`, repositories |
| `PermissionRoutesProofs` | theorems about `PermissionRoutes`, and about `SourceLoops` and `BatchResolution`, which decide with the same definitions | |
| `ResourceLifecycle` | an MLflow request from the before- to the after-request hook | `hooks/before_request.py`, `hooks/after_request.py`, `validators/` |
| `ResourceLifecycleProofs` | theorems about `ResourceLifecycle` and `SearchRefill` | |
| `SearchRefill` | filtered, refilled and paged searches | `hooks/after_request.py`, `utils/data_fetching.py` |
| `InitOnce` | what the store proxy promises (abstract specification) | |
| `LazyStore` | the double-checked proxy and `init_db` | `store.py`, `sqlalchemy_store.py` |
| `KeyCache` | key sets of the providers and the validation of a bearer token | `auth.py` |
| `RequestAuthentication` | the middleware; composes `LazyStore` and `KeyCache` | `middleware/auth_middleware.py`, `routers/auth.py` |
| `RequestAuthenticationProofs` | theorems about `RequestAuthentication`, and about `LazyStore` with its refinement of `InitOnce` | |

`MC<module>` gives a module small constants for TLC; `MCListings` does so for
`SourceLoops` and `BatchResolution`, a behaviour being of either. The `map` of
`PROJECT.json` names the lines each definition stands for; definitions carry the
source's names where possible.

### How state and actions correspond to the code

**PermissionResolution.** A database is a record of direct grants (holder,
target), pattern rows (holder, the targets the pattern matches, priority,
permission) and memberships. The seven resource types share one definition,
because their `_build_*_sources` differ only in table names. A pattern is the
set of names it matches: `re.match` is abstracted to that.

**PermissionCache.** A worker's record holds where its `resolve_permission` is.
`StartResolve` is the cache miss (a hit returns what is stored, changes nothing
and is covered by the invariants on the stored entries); `ReadSource` one query;
the group-regex source takes two steps because the code reads group ids and rows
in two transactions; `FallBack`, `get_workspace_permission_cached`,
`ReadWorkspaceSource`, `SetWorkspaceCache`, `DenyByWorkspace` and
`SetPermissionCache` follow the code's order. An admin request commits, then
flushes the permission cache, then invalidates workspace entries, each a step.
`wipe_workspace_permissions` has two commits; `delete_user` is not wrapped and so
leaves nothing to do. With `SharedCache` every server uses one cache node and any
redis call may raise; otherwise each server has its own, with a size limit
(any other entry may be the one evicted). `Tick` advances the clock and drops
expired entries. Redis' `clear` (a SCAN with deletions) is one step.
`Faults` adds swallowed read errors, aborted writes and restarts.

**SourceLoops.** One iteration of a `for` loop a step, over a table and an order
of its rows chosen at the start. What a loop should find is said by what
permissions allow (`Prevails`), not by the priority numbers the code compares: a
denial among the rows blocks access, otherwise the row counts that allows all
that the others allow.

**BatchResolution.** The five queries of the context are a step each. So is every
read of the workspace lookup (`ReadWorkspaceSource`; two for the group patterns),
any of which may fail and pass for "no row", and the storing of its result;
commits fall in between. A commit leaves the workspace cache alone:
`DropWorkspaceEntry` is the invalidation, which may come late or never, or the
expiry. `origin` is history: in which databases the lookup ran that gave a
workspace's value, and whether a read failed.

**UserAccounts.** `update` and `delete` are two steps: the reads with their
guards, and the commit, in which the ORM writes only the changed columns.
`create_user` of `user.py` is a lookup followed by an update or a create
transaction.

**LoginFlow.** A handler's record says which store call comes next. The claim of
an attempt is a read and a delete whose row count decides; `link` is its checks
and its insert. Claims are small records; the five tests an email must pass are
one boolean.

**GroupSync.** `create_groups` and `set_groups_for_user` are each a read and a
write; membership rows have ids, so a transaction deletes the rows it has read.
The errors the middleware swallows end the provisioning with what is committed.

**RouteTable and PermissionRoutes.** The routers repeat one handler for seven
resource types, two holders, direct rows and patterns. `Routes` is the set of
records that says for each path and method what it checks ("admin", "manage",
"read", "none") and whether it filters its answer; `PermissionRoutes` has the
handler. A request reads the administrator flag, then the caller's permission,
then writes (or fetches and filters) and then emits its audit event: each a
transaction or a step of its own, with a crash possible between the write and
the event. There is one resource of each type, so a row is named by its holder
and its type; the direct rows of a prompt and of the model of its name are one
row, as in the table, and `prompt` is a column of it: a group's prompt routes see
rows with the flag only, the list of a model's groups those without, and the
decisions (`direct`) ignore it. Decisions are uncached here, the caches are
`PermissionCache`'s subject.

**ResourceLifecycle.** A slot's request goes through `before_request_hook` (the guard
against a field in two spellings, the user row that a creation needs, the
workspace gate, the capability of the operation on every name the request
refers to, the stash of gateway names), MLflow's own commit (external: it acts
on what MLflow reads from the request, by its own precedence of id and name) and the
after-request handler, one store call per step. Resources have identities and
present names; a row remembers in `of` for which resource it was granted, which
the database does not know. `spoiled` marks names at which a handler was cut
short, or two handlers interleaved; `abandoned` resources whose manager was deleted.

**SearchRefill.** A page token is an offset into MLflow's result list. The first
page comes from MLflow's handler; the filter decides once per item and request
(`memo`), then the loop asks MLflow for further pages until the page is full.
Experiments, models and versions ("offset") look the workspace up by id on the
first page and take it from the item afterwards; logged models ("logged") put
unused items back by moving the token; the `fetch_all_*` helpers ("all") take
every page. Others may change permissions and MLflow's list between any two steps.
`Kept` is the loop that drops what is not readable, a recursive function over the
list.

**LazyStore and InitOnce.** A thread's call looks, takes the lock, looks again,
connects (up to `max_retries` times), migrates, makes the repositories,
publishes, releases and reads the instance once more. Whatever raises releases the lock
(`with`). `InitOnce` knows one store and what each call has come to; the
refinement maps a call that is anywhere between the first look and its return to
"asking". The events it promises are one creation and answers or, before the
creation, errors.

**KeyCache.** A provider signs with a generation of keys; `validate_token` is one
step because it is synchronous code on the event loop. It picks the provider by
the issuer if there are several and uses the cached key set if it is young enough.
A provider may name its keys or not (`KeyId`). A token without a key id is
tried with the set as it is, and a bad signature makes the code fetch once more;
a key id that the set does not have is another exception, which is raised
again without a fetch. The `iss` claim is compared where the provider has an issuer
configured (`WithIssuer`), which the synthesised default provider may lack; a
token may be signed by a stranger.

**RequestAuthentication.** One account, one browser with its cookie, API clients.
The event loop and the basic-auth worker are the two threads of `LazyStore`:
a store access by the loop blocks every request, one by the worker only its own.
A cookie holds the session id, the expiry and the refresh token; a response
writes the session of its request back, so a late one overwrites what another
response put there. The token endpoint may rotate refresh tokens, fail, or
answer without an expiry. What a behaviour is about (credentials, provider,
rotation, logouts, failures, bounds) is the `scenario` chosen in `Init`.

### Isolation

The code sets no isolation level, so it runs under the database's default: READ
COMMITTED on PostgreSQL, effectively one writer at a time on SQLite. The modules
model the former. A history variable (`overlapped`, `contended`,
`disturbed`) records whether transactions overlapped; a property that holds only
on serialised databases has it as a hypothesis, so one run covers both kinds of
database and says for each property which one it needs.

## 3. Runs

All 12 are in `PROJECT.json`, with a mutant for every property of a passing run.

| run | instance | states | result |
|---|---|---|---|
| `cache` | three deployments: a replica that two writes of another one never invalidate; two replicas on one redis with all faults; one worker with every kind of row and three writes. `PermTTL` 1, `WsTTL` 2 | 1.1 M | `TypeOK`, `StalenessBound`, `FreshByBasis`, `CoherentUnlessMissed` hold |
| `listings` | loops: every table of up to 3 rows from 12, every order; listings: 2 resources, 2 groups, 2 writes between queries, failing reads, stale cache entries | 0.85 M | `LoopsMeetDefinition`, `BatchAgreesWhenQuiet`, `GrantsWereHeld` hold |
| `accounts` | 2 users, 2 requests, 5 operations | 1.3 M | `TypeOK`, `SerialWritesKeepAnAdmin`, `EndedForGood` and the action property `ColumnsChangeOnDemand` hold |
| `login` | 2 providers, 3 attempts, 2 callbacks at once, 1 deletion, 1 failure | 1.5 M | `AttemptUsedOnce`, `SessionsAreBound`, `OneProviderPerUser`, `CookieOwnsItsTokens` hold |
| `groups` | 5 users on three paths, 2 requests at once, 1 failure | 0.6 M | `TypeOK`, `AdditiveKeeps`, `AuthoritativeReplaces`, `GroupedWithoutContention` hold |
| `routes` | every route of two types at a time, two requests in sequence; direct rows of one type with two at once; one demotion, membership change or crash | 0.26 M | `EntitledDuringRequest`, `AuthorityIsInherited`, `AuditTellsTheRow` and the action property `DecisionsChangeByRequest` hold |
| `lifecycle` | seven types, 2 names, 3 resources, 2 requests at once, 1 failure, 1 grant or deleted user; with and without workspaces | 3.2 M | `TypeOK`, `NoInheritedRows`, `NoOwnerlessResource`, `ActsWherePermitted` hold |
| `search` | lists of up to 4 items, pages of 1 and 2, every set of readable items, 1 change | 0.55 M | `ShownWereReadable`, `OrderKeptUnlessShifted`, `QuietSearchIsComplete` and the liveness property `SearchesAreAnswered` hold |
| `refresh` | 2 requests at once, 2 providers, 10 scenarios of up to 4 requests, keys with and without ids | 0.35 M | `AdmittedWasEntitled`, `NoSessionOutlivesItsToken`, `OnlyARaceLogsOut`, `LoggedOutStaysOut`, `AcceptedKeyIsTheIssuers`, `PresentKeyIsAccepted`, the liveness property `RequestsAreAnswered` and the refinement `StoreIsInitOnce` hold |
| `doc_scorers` | two scorers of one experiment | | `ScorersKeptApart` **violated** |
| `doc_rename` | a model with group rows only | | `RenameReachesGroups` **violated** |
| `doc_ownership` | the instance of `accounts` | | `ForeignRowsNeverWritten` **violated** |

**The bounds.** A cache hazard needs one user, one resource, one workspace, a write and
resolves on either side of it. Replicas with caches of their own meet only in the
database, so one is looked at at a time; the tables start with a workspace row,
whose removal a cached workspace entry outlives; the three writes of the worker alone let a group
be joined, granted and left again with decisions cached in between. `WsTTL` is 2 so that a decision can be built from an ageing workspace
entry, and `MaxTime` lets the clock pass the staleness window of the earliest
change. Two requests are enough for every race of two chains; three attempts
let a third login follow two racing ones. Two requests after one another let
authority be passed on; two types at a time cover the pairs that share rows
(model and prompt, scorer and experiment) and the workspace, whose rows reach
every other type. Three resources with two names allow create, delete, create
again and a rename onto a freed name. Four items and pages of two make a page that is refilled
twice and a token that falls inside a page. In `refresh`, `Lifetime` 2 and `Leeway` 1 make
a token expire while requests are under way, `JwksTTL` 1 lets a cached key set be
both young and stale after a rotation, and two retries let the database fail once
or for good. `MaxOps`, `MaxChanges`, `MaxEdits`, `MaxWrites`, `MaxRequests`, `MaxObjects`,
`MaxUid`, `MaxId`, `MaxDeletes`, `MaxFailures`, `MaxFaults`, `MaxGeneration` and
`MaxTime` only bound the length of behaviours. Runs that stop at such a bound
say `CHECK_DEADLOCK FALSE`. `lifecycle` uses the symmetry of the two names; no liveness
property is checked under symmetry.

**Fairness.** `SearchRefill` assumes that the handler goes on (`WF` of `Handler`):
it is a loop in one thread, and MLflow's stores answer. Nothing is assumed
of the client and of other requests; that the loop ends comes from the
token, which only moves forward. `RequestAuthentication` assumes weak fairness of
each request's step in the middleware and of each thread's step in the store: the event
loop schedules what is ready, the worker runs, the database answers or raises
(both are steps), and the token endpoint answers or the client's timeout expires.
That a waiting thread gets the lock is not assumed; with the bounded number of
requests of the run it does. (With requests that never stop coming and a database
that stays down, weak fairness would let another thread take the lock first each
time; Python's locks promise no more.) The other modules state no fairness and check
safety only.

### What the violated runs show

* `doc_scorers` (defect): `effective_scorer_permission` keys the cache by the
  experiment alone, so the decision for one scorer answers for its siblings.
* `doc_rename` (defect): after MLflow renamed a model, the handler
  (`hooks/after_request.py:458-462`) renames the user rows and then the group
  rows. `RegisteredModelPermissionRepository.rename` raises if there is no user
  row, so a model that only groups hold keeps its group rows under the old name,
  where the next model of that name inherits them. In the mirror case, a model
  with user rows only, the group renaming raises after everything is done and the
  client gets an error for a renaming that happened.
* `doc_ownership` (defect, where transactions overlap): `update` evaluates the owner
  of the row it has read and then writes by primary key. A row that another
  transaction claims in between is overwritten with enforcement on, against
  `repository/user.py:324` and `docs/configuration.md:125`, and nothing is audited.
  One writer at a time (SQLite) excludes it.

### Divergences seen on the way

Counterexamples that these modules produce when a property's hypothesis is
dropped, or when a sentence of the docs is stated literally. They are not runs
of the project.

Resolution, caches, listings:

* `docs/workspaces.md` gives `WORKSPACE_CACHE_TTL_SECONDS` as the time a change
  takes to reach other replicas; a decision cached just before the workspace
  entry expires adds `PERMISSION_CACHE_TTL_SECONDS`. `StalenessBound` is the
  bound that holds.
* Of two workspace patterns of one priority a comment
  (`utils/workspace_cache.py:156`, D-08) promises the most permissive, as does
  `docs/permissions.md:66` for every source; a `NO_PERMISSIONS` row has the largest
  priority number and wins over `MANAGE`. `docs/permissions.md:18` says that a denial
  blocks access, and `LoopsMeetDefinition` holds the loops to that: by what
  permissions allow, a denial prevails, and otherwise the most permissive row.
* With redis a change is said to propagate immediately; a resolve that read
  before the commit stores after the flush (`missed` in `CoherentUnlessMissed`).
* `delete_user` removes permission rows without a flush (`deleted` there).
* A listing without a workspace header falls back to MLflow's default workspace,
  the single-resource path to the configured default permission; and a listing
  records a fallback before the workspace may replace it (both excluded from
  `BatchAgreesWhenQuiet`). A stale or torn workspace entry makes the two paths
  disagree until it expires (`WorkspaceSettled` there).
* A group's prompt rows count for the model of the same name, and the other way
  round, while the routes that list the groups of a model or of a prompt filter on
  the `prompt` column: someone may manage a model through a group that the model's
  list leaves out (`routers/registered_model_permissions.py:94`: "a list of groups
  that have permissions for the specified registered model").

Accounts, logins, groups:

* Under READ COMMITTED two transactions remove two administrators and each guard
  counts the other one (`repository/user.py:136`; `~overlapped` in
  `SerialWritesKeepAnAdmin`).
* `restore-ownership` recognises the rows the reconcile wrote by their owner's name.
  A row given away and back since, or deleted and created anew, has that name too
  and is reverted, against the comment at `db/cli.py:240`.
* The checks and the insert of `link` are two statements (`~overlapped` in
  `OneProviderPerUser`); the session is opened by name (`disturbed` in
  `SessionsAreBound`); a failed bind leaves the user row that `create_user`
  committed; a first login that loses the race for a name updates the winner's
  row.
* Overlapping additive logins lose a group (`overlapped` in `AdditiveKeeps`), and
  overlapping authoritative ones leave the union (`~contended` in
  `AuthoritativeReplaces`); bearer provisioning does not prefix group names with
  the provider, as logins do.
* Two service accounts of a new namespace create its group at once; the loser's
  error is swallowed after its user row is committed, and provisioning is skipped
  for it from then on (`middleware/auth_middleware.py:378`).

Routes:

* The update of a user's pattern for models, prompts and the gateway types keeps
  the old regex, answers with success and audits the new one (excepted in
  `Tells`).
* The manage-check dependencies (`dependencies.py:64-240`) return nothing, so the
  routes that use them audit an event without an actor.

Lifecycle and searches:

* Renaming a gateway model definition moves no rows. The cascade of a workspace's
  deletion is never reached, because the after-request handler is looked up by
  the exact path (`hooks/after_request.py:763`; `docs/workspaces.md:206` describes
  it).
* The handler runs after MLflow's commit, so a deletion that overlaps a creation
  of the same name, or a renaming that overlaps a re-creation, wipes or moves the
  rows of the wrong resource; a grant between the commit and the creator's row
  makes the latter fail; a gateway name stashed before the commit may be out of date
  (`spoiled`).
* Registering a new version of an existing scorer grants its caller `MANAGE`, or
  answers "already exists" after MLflow has committed.
* On the first page of a search an item that was deleted meanwhile counts as having no
  workspace (`hooks/after_request.py:217-231`).

Requests:

* Two overlapping refreshes with a provider that rotates tokens: the loser clears
  the cookie, and a late response may restore a refresh token that was used
  (`overlapped` in `OnlyARaceLogsOut`). A session of a provider other than the
  default one is never refreshed. A refresh answer without an expiry makes the
  session one that does not expire (`Never` in `NoSessionOutlivesItsToken`).
* Key rotation is documented as handled by a retry with fresh keys
  (`docs/architecture.md:81`). The retry follows `BadSignatureError` only; a provider
  that names its keys gives the new one an id that the cached set does not have,
  for which authlib before version 2 raises `ValueError`, and `auth.py:381-383`
  raises it again. Tokens of the new key are refused until the cached set expires
  (`NewToTheCache` in `PresentKeyIsAccepted`).

## 4. Proofs

Eight modules hold proofs; every theorem is about all values of the constants
that satisfy the named assumptions, and so about any number of users, requests,
resources and failures, lists and tables of any length. Every safety property of
every passing run is proved; what is left to TLC is liveness.

| theorem | of | establishes |
|---|---|---|
| `TypeCorrect`, `Freshness`, `BoundedStaleness`, `CoherentAfterWrites` | `PermissionCache` | `TypeOK`, `FreshByBasis`, `StalenessBound`, `CoherentUnlessMissed` |
| `AccountsWellFormed`, `EndedSessionsStayEnded`, `SerialKeepsAnAdmin`, `StaleCopiesStayUnwritten` | `UserAccounts` | `TypeOK`, `EndedForGood`, `SerialWritesKeepAnAdmin`, `ColumnsChangeOnDemand` |
| `AttemptsAreUsedOnce`, `LiveSessionsAreBound`, `AccountsKeepOneProvider`, `TokensFollowTheSession` | `LoginFlow` | `AttemptUsedOnce`, `SessionsAreBound`, `OneProviderPerUser`, `CookieOwnsItsTokens` |
| `MembershipsWellFormed`, `AdditiveSyncKeeps`, `AuthoritativeSyncReplaces`, `ServiceAccountsJoinTheirGroup` | `GroupSync` | `TypeOK`, `AdditiveKeeps`, `AuthoritativeReplaces`, `GroupedWithoutContention` |
| `CallersAreEntitled`, `NoAuthorityFromNothing`, `LogTellsTheRows`, `WritesAreLocal` | `PermissionRoutes` | `EntitledDuringRequest`, `AuthorityIsInherited`, `AuditTellsTheRow`, `DecisionsChangeByRequest` |
| `RowsAreOfKnownUsers`, `ChecksCoverTheTarget`, `NamesStartClean`, `EveryResourceIsManaged` | `ResourceLifecycle` | `TypeOK`, `ActsWherePermitted`, `NoInheritedRows`, `NoOwnerlessResource` |
| `LoopsComputeTheirSource` | `SourceLoops` | `LoopsMeetDefinition` |
| `ListingsGrantWhatWasHeld`, `ListingsAgreeWithLookups` | `BatchResolution` | `GrantsWereHeld`, `BatchAgreesWhenQuiet` |
| `SearchesShowWhatWasReadable`, `SearchesKeepOrder`, `QuietSearchesShowEverything` | `SearchRefill` | `ShownWereReadable`, `OrderKeptUnlessShifted`, `QuietSearchIsComplete` |
| `AdmittedWereEntitled`, `LogoutsAreFinal`, `SessionsEndWithTheirToken`, `AcceptedTokensAreTheIssuers`, `PresentTokensAreAccepted`, `OnlyRacesLogOut`, `StoreStaysInitOnce` | `RequestAuthentication` | `AdmittedWasEntitled`, `LoggedOutStaysOut`, `NoSessionOutlivesItsToken`, `AcceptedKeyIsTheIssuers`, `PresentKeyIsAccepted`, `OnlyARaceLogsOut`, `StoreIsInitOnce` |
| `LazyInvariance`, `ProxyImplementsInitOnce` | `LazyStore` alone | `LazyInv`, `StoreIsInitOnce` |

**How the proofs are laid out.** A module first proves its types and what a
request's record looks like at each point of its chain. The larger modules then
sort the actions into a few *kinds of step* (a request moves on, a row is
written, a user is deleted, ...), defined by what changes, with one lemma per action that says
of which kind it is; an invariant is preserved by each kind rather than by each
action. The last step of each theorem combines the initial state, the step and
the implication. The assumptions are those of the modules: that nil is none of
the values it stands beside, that bounds are natural numbers, that constants
have the types the configuration gives them. The ones with content: a token
lives longer than zero seconds (`expires_in > 0`, `routers/auth.py:201`) and so does
a cached key set (300 s by default); the group names a token can carry
(`Claimable`) and the names of resources (bounded strings) are finite sets.

### Resolution and caches

`StalenessBound` is not inductive: it says nothing of a resolve in flight that
carries an old value into the cache later. `FreshByBasis` is the strengthening.
Every cached value and every resolve has a *basis*, a time at or after which
everything it was computed from was read: the start of the resolve, or the
basis of the workspace entry it used, if that is earlier. The invariant has two
halves. *Times*: a resolve is at most `MaxResolve` old, a workspace entry was set
at most `MaxResolve` after its basis and lives less than `WsTTL`, so a permission
entry's basis is less than `PermTTL + WsTTL + 2 * MaxResolve` old. *Agreement*: a
value whose basis is later than the last change agrees with the database, and a
walk in that position has found nothing in the sources it has passed. A commit
sets `lastChange` to now, which no basis exceeds, so it makes the second half
vacuous for what is there; every other step preserves it because the database
has not changed since. When the window has passed since the last change, every
live entry's basis is later, and the bound follows. TLC checks `FreshByBasis` in
`cache`.

`CoherentUnlessMissed` speaks of a node with no write in progress; its
invariant `Kept` has to say what holds while writes are. For each node that missed
nothing: a worker is busy there only while no write is in progress anywhere,
and what its walk has passed is what the database answers; each permission entry
agrees with the database or a flush is still to come; each workspace entry agrees
or is covered by an invalidation still to come. The argument that the
invalidation a write leaves behind covers every entry it can change rests on
`SameDecision`: a decision depends only on the user's groups and the rows on its
target.

`ResolutionProofs` has what both this and the routes need: the answers of the
sources are permissions, what a walk knows that has passed some sources,
that a decision other than the default has a row it came from (`DecisionHasRow`,
with the least element of a set of positions in place of the loop), and which
rows it depends on.

### Loops and listings

*Loops.* `LoopInv` says of each loop what it has found in the rows before its
position. *First match* (`ResourceSoFar`): nothing matched, or the loop has
stopped at the first match, which is of the first matching tier because the rows
come in order of priority. *Best of the tier* (`WorkspaceSoFar`): every match so far
is of one priority and the best of them is `best_perm`; the loop breaks at a row of
a larger priority, after which no row can be of that tier. *Groups*
(`GroupSoFar`): the best of all rows so far. At the end the rows so far are all
rows, or the rest cannot matter, and the permission with the largest priority
number is the one that prevails: a denial if there is one, otherwise the row
that allows all that the others allow.

*Listings.* Both properties come from `BatchInv`. Each list of the context is what
its query gives in some database of the call's lifetime (`ContextHeld`), the rows
of the group patterns in one and the group ids in another. So every decision made
from the context was given by its source at some instant (`AllGiven`). For the
workspace, `WalkHeld` says what a lookup that ran in some databases knows
(`Knows`): a value it came to was given there by a single source, and if there was
one database and no read failed, it is what that database says. While the lookup
runs, no source it has passed answers (`Unanswered`), and the group ids it read
are those of a database it ran in. The value keeps this in the cache, however long
it stays, in the memo, and in the decisions made of it (`MemoShown`). When no
write fell into the call there is one database for the context, and the walk
over the context is the walk of `resolve_permission` up to the workspace's value
(`AsResolved`); with a header that is the header's workspace, and if its value
is the present one the decisions are equal. That the call returns only when every
resource has its decision (`Finished`) makes the returned list the manageable
ones.

### Accounts, logins, groups

*Accounts.* `TypeOK` needs what an open transaction carries (`TxnShape`) and
what the journal holds (`JournalOK`), because both are later written into the
tables. `EndedForGood` follows from a stronger statement: a session that ended
is revoked or gone. The property about undisturbed transactions uses
`Serial`: as long as nothing has overlapped, an open transaction is the only one,
so what its guard counted is still so at its commit; READ COMMITTED makes it
false otherwise. `StaleCopiesStayUnwritten` is an action property and
needs no such hypothesis: a commit takes the row as it is and replaces the
columns it was asked for; that only a writer with override is asked for the owner
(`Overridden`) is the invariant it rests on.

*Logins.* An attempt that a callback claimed is gone from the table, so no later
delete of it counts a row (`Once`). A callback past `link` has its binding in the
table, unless its account was deleted (`LinkedBound`). As long as no two bindings
overlapped, a callback between its checks and its insert is alone there, and its
checks still hold (`LinkAlone`).

*Groups.* `Sound` adds to the types that membership rows name existing users and
groups, once each. `AdditiveInv` follows one request per user
whose logins do not overlap: what it will write contains the membership, and the
rows it has read are the rows there. `ApartInv`, for databases that serialise
writers: a transaction between read and write is alone and what it read still stands
(`Exclusive`), a membership is empty or one of the sets that a synchronisation
wrote (`Replaced`), and a service account is in its group or a request of its
is still to write (`Cared`).

### Routes

The types of the rows (`Typed`) are a lemma; `DirectWriteTypes` says what a write of
one row changes under each of its two names. `RouteOK` holds of all 75 records of the table and says what each pair of check
and operation implies. `CallersAreEntitled` needs that what a request is entitled to now is recorded
among what it has been entitled to (`Told`), and that a request past its check
was entitled or its route has no check, in which case the rows it shows are
filtered to its own or those it is entitled to (`Steady`). `NoAuthorityFromNothing` is an invariant on rows, not on
requests (`Roots`): every `MANAGE` row, and every write that is about to be made by
someone who is no administrator, goes back to an origin of the same resource, a
row of the beginning or an administrator's. A decision to `MANAGE` has a row by
`DecisionHasRow`, unless `MANAGE` is the configured default, which
`AuthorityIsInherited` excepts: then everybody manages everything.
`LogTellsTheRows` keeps for each row (`Audited`) that the last event tells it, or a
request that wrote it has its event still to emit, and that two such requests
make the row torn. `WritesAreLocal` is an action property, from
`SameDecision`.

### Lifecycle

`Typed` holds what a request's record looks like and that names are borne by one
resource each; `TypeOK` follows. `ChecksCoverTheTarget`: when a request is past
its check, everything it could act on (`Targets`) is in `could` or `fresh`, and
later changes of names add to `fresh` only. For this the guard against two
spellings is needed: of two names in an experiment request, the validator reads
one.

`NoInheritedRows` and `NoOwnerlessResource` speak of settled names and are far from
inductive. `Follows` (TLC finds it true on the instance of `lifecycle`, with its
quantifiers over requests restricted to those in the slots) says for every name
that is not spoiled:

* at most one request's handler is at work on it (`Lone`), and if none is, its rows
  are of the resource that bears it and someone manages that (`AtRest`);
* otherwise the handler finds what it expects (`Handling`). *Creating*: the resource
  bears the name, and the name is managed or has no row at all. *Deleting*: nothing bears the
  name, and the holders who still have rows are those of the calls still to be made.
  *Renaming*: no resource bears the old name, its rows are of the renamed
  resource and of holders still to be seen to, and a manager has a row under the old
  name or under the new one;
* the two names of a renaming are spoiled together (`Sided`).

`FollowsStep` reduces the preservation to what a step does at the names it
disturbs; `HandlesFollow` to what a call of a handler leaves at the names of its
request. The commit is the hard case: it finds its names at rest because whoever
else works on them would be in `Spoils`.

### Searches

`SearchInv` has one part for each property; TLC finds it true on the instance of
`search`.

* `PageReadable`: the memo's positive decisions, and what is readable now, are
  in `could`; so is the filtered page. A permission taken away leaves `could`
  alone. This part holds whatever the list does.
* `PageInOrder`, as long as the list has not shifted: the client's token and the handler's
  next token cut the list. What was seen stands before the client's token; an
  unfiltered page is the part between the two tokens; what was seen, followed by the
  filtered page, stands before the next token. `InOrder` says this of entries and of pairs
  of entries, so that it goes through concatenation (`OrderConcat`).
* `PageComplete`, as long as nothing has changed: the same with equality. What was
  seen, with the filtered page, is all that is visible up to the token.

Every turn of a refilling loop adds what is kept of a batch (`Fetched`), and
`RefillFetches` and `LoggedFetches` show that the batch is the part of the list
from the old token to the new one, or that there was nothing left; the arithmetic of offsets,
cut batches, last pages and early stops is there and nowhere else. A batch that is
cut to what is missing, and a walk that stops when the page is full, end where
the token says; if either were off by one the part would not fit.

What `Kept` computes for lists of any length (that it goes through
concatenation, keeps order, depends only on the entries themselves) is proved by induction over
the prefixes of the list. The library's induction theorems cannot be
instantiated by the provers; `EveryLength` replaces them, from the least
counterexample in a set of numbers (`LeastOf`, from the well-foundedness of the naturals).

### Requests and the store

Each property of `RequestAuthentication` has its own invariant. `EntitledInv`: a
request that is past the read of `is_active` was entitled then. `LoggedOutInv`: a
logged-out session's row has ended, and a request that is refreshing, resuming
or admitted carries no session that was logged out when it arrived, whatever late
responses write into the cookie. `VouchedInv`: every copy of a session, in the
cookie, in requests and in answers that are not applied yet, expires no later than
some answer of a provider vouched for; that bound only grows. `KeysInv` with the lemma `Validation`:
the whole of `validate_token` as one case analysis over cached, fetched and
refused key sets, with bad signatures apart from missing keys. What `KeysInv` adds is that a
cached set is the provider's own, and holds its present key or was fetched before the last rotation. `PeaceInv`: as long as there is no race, every request's session carries a
refresh token that the provider accepts, and so does the cookie or, under
rotation, the one request that is busy with it.

`LazyInvariance` and `ProxyImplementsInitOnce` are about the proxy alone
(`LazySpec`), for any set of threads and any retry limit. That nobody creates a second
store is not inductive: `LazyInv` adds that a thread past the second look holds
the lock, and that until it publishes there is no instance. With the lock held by
one thread this makes the publication the creation of `InitOnce`, of a store whose
repositories exist; that what a call returned is the instance makes every return
an `Answer`, and that a raise comes from a thread between the second look and the
publication makes it a `Refuse`. Every other step is a stutter.
`StoreStaysInitOnce` carries this to the middleware: each of its steps is a step
of the proxy or leaves the proxy alone.

### Only model-checked

Liveness: `SearchesAreAnswered` and `RequestsAreAnswered`. TLAPS here has no
rules for fairness and ENABLED.

## 5. Not modelled

* Cryptography and parsing: password hashes, signatures, audiences and algorithms of
  tokens, inline keys (never fetched), PKCE and the issuer check of RFC 9207,
  redirects.
* Configuration and the provider registry: read once at start-up, without state
  that changes afterwards; the modules take the result as constants.
* The artifact and gateway proxies, whose validators parse URLs, and the FastAPI twin
  of the before-request hook, which repeats its decisions; budget policies;
  `RESTRICT_RESOURCE_CREATION`, which is off by default.
* GraphQL (filters fields by the same decisions), trash, webhooks and health
  (administrator routes over MLflow's own stores), the web interface (a client).
* The contents of migrations; the automatic workspace assignment at login; formats and
  paging of the permission routes' answers; log formats and proxy headers.

## 6. Plan

Done: resolution and caches, listings, accounts, login, groups, routes, resource
lifecycle, searches, request authentication with its key cache and the lazy store;
and the proofs of section 4. What remains of the source is listed in section 5.

No proof of a safety property is outstanding.
