# distr-server in TLA+

distr-server is a NestJS / GraphQL server. Its users belong to organisations;
an organisation owns *systems*, a system has *deployments* (a cloud account
with its credentials), and a deployment has *resources*. A resource is a row in
MySQL **and** something real at a remote *service*: services are programs
registered by their authors, which the server calls over gRPC to create,
update, inspect and delete the resource. Users log in with a password, hold a
short-lived access token and a refresh token, and confirm a telephone number
with a one-time code.

This directory models the parts of the server in which order, failure and
concurrency matter, checks them with TLC on small instances, and proves the
main results with TLAPS for every instance. Paths below are relative to
`src/src`.

## 1. Inventory

| Component (`src/src/...`) | State | Operations | Talks to | Hard behaviour | What makes it correct |
|---|---|---|---|---|---|
| Systems, deployments, resources (`system/**`) | tables `system`, `deployment`, `resource`; the remote resources at the services | create, update, delete of each; cascading deletion | services over gRPC, the tables, access checks through the organisation | a deletion spans many awaits and several remote calls; `Promise.all` fails early and goes on; removals are marks in an entity manager until a flush; calls may fail after they took effect | no row leaves the tables behind a service's back; a stored resource exists at its service; a successful deletion is complete; a flush removes only what its document asked for; every mutation is answered |
| Connections to services (`service/connection.ts`) | none | `create`, `update`, `delete`, `get`, `status`, `usage`, `reflect` | services | no deadlines; an error says nothing about the effect | part of the row above |
| Service registry (`service/**`) | table `service` (`blocked`, `introspectionURL`, `namespace`); the global entity manager of the job | register, update, delete, hourly validation and blocking, connect | HTTP servers of the authors, the tables | the job works on a list read before many awaits, and shares its entity manager with its next run; the file at an address may change between validation and use | a service is blocked for what an address of its own answered; blocked services stay so; what was validated is what connecting needs |
| Authentication (`auth/**`, `user/timeout`, `user/update`) | `loginAttempts`, `timeout`, `locked`, `password` of a user; table `token` | login, refresh, logout, update, lock, timeout | the tables | logins overlap and write from stale copies; the deletion of a token is not awaited | handed-out tokens work until given up, and never after; counters and locks survive stale copies |
| One-time codes (`auth/code/**`) | table `code` | request, verify, clean-up every twelve hours | SMS provider, the tables | unique codes and retries; expiry; clean-up and verification overlap | a code stays until it expires or is accepted; one row per code; generating ends |
| Users and organisations (`user/**`, `organisation/**`) | tables `user`, `organisation` | sign-up, administrative creation, add and remove member, update, delete | the tables, authentication (a sign-up whitelists a token) | checks long before the write; updates and deletions overlap | one account per address; no organisation without members; roles come from above |
| Generic queries, pagination (`common/base`, `common/search.builder.ts`) | none | lists by pages, fields that are lists, lists by identifiers; generic mutations | the tables | rows and their number come from two queries; pages are offsets into a list that changes, read by queries without an order; page numbers at and beyond the ends | the pages together have as many rows as the list; who is given none twice has missed none; a page tells exactly whether there is a next one; every walk ends |
| Status, usage, overviews (`system.service.ts`, `deployment.service.ts`, `resource.service.ts`) | none | status, usage and details of a resource; counts of healthy and unhealthy resources | all services concerned, at once | two levels of `Promise.all`; calls without deadlines; `HEALTHY` and `LIMITED` are zero on the wire, empty lists are not sent; rows vanish meanwhile | what is counted is what was said; nobody who was there all along is left out; a service cannot make an overview fail |
| Credentials of deployments (`system/deployment/credentials/**`, `deployment.service.ts`, `common/cipher`) | the credential columns of table `deployment`; one copy per document | store, update provider by provider, decrypt for a call | services, which are sent the clear text | secrets are assigned again as they were loaded; overlapping updates write column by column; a rejection nobody handles | each secret is encrypted exactly once, stays with the name it was given with, and reaches the services as given |
| Guards, JWT strategy (`auth/*.guard.ts`, `auth/jwt.strategy.ts`) | none | authenticate, check roles | authentication | the caller is loaded once per request and may be stale | stale callers give away no rank (checked with the users) |
| Helpers, notifications, logging, errors, plugins, configuration | none | - | - | - | - |
| Terraform, Kubernetes, jobs, generated code | none | - | - | - | not program logic |

Components interact through the tables (foreign keys from resources to
services, from tokens and systems to users and organisations), through calls of
one service class by another inside one request, and through gRPC. The only
callbacks are the jobs of the scheduler (`ServiceService.validateAllServices`,
`CodeService.cleanUp`) and promises nobody awaits (the deletion of tokens, the
sending of notifications).

`PROJECT.json` lists every component with what is modelled of it, and under
`hazards` the places where the code is hard to test, with the properties that
cover them.

### The modules

| Order | Module | Role | State |
|---|---|---|---|
| 1 | `ResourceCatalog` | abstract: entities are added, whole subtrees retired | done |
| 2 | `ResourceLifecycle` (+ `MC`, `Proofs`) | the core: rows, remote resources, cascades | done, proved |
| 3 | `AuthSessions` (+ `MC`, `Proofs`) | login, lockout, tokens | done, proved |
| | `TokenList` | abstract: tokens are listed, given up, exchanged, struck | done, implemented by `AuthSessions` |
| 4 | `OneTimeCodes` (+ `MC`, `Proofs`) | codes and their clean-up | done, safety proved |
| | `CodeBook` | abstract: codes are entered, lapse, are accepted, struck | done, implemented by `OneTimeCodes` |
| 5 | `Accounts` (+ `MC`, `Proofs`) | users and organisations | done, proved |
| | `Directory` | abstract: users join, are edited, moved, leave; roles wane | done, implemented by `Accounts` |
| 6 | `ServiceRegistry` (+ `MC`, `Proofs`) | registration, validation, blocking, connect | done, proved |
| | `ServiceBoard` | abstract: services are entered, move, are blocked, removed | done, implemented by `ServiceRegistry` |
| 7 | `Pages` (+ `MC`, `Proofs`) | lists by pages over a changing table | done, safety proved |
| 8 | `Overviews` (+ `MC`, `Proofs`) | status, usage, overviews | done, safety proved |
| 9 | `Credentials` (+ `MC`, `Proofs`) | encryption, updates and use of credentials | done, proved |
| 10 | sessions and accounts together | composition | planned |

`ResourceLifecycle`, `Overviews`, `ServiceRegistry` and `Credentials` look at the
same calls of services from four sides: what they do to the rows and the remote
resources, what is made of their answers, which client they are made with, and
what they carry.

## 2. What the models have in common

* **Steps.** Node runs one callback at a time; every `await` is a point where
  other requests step. An action is the code between two awaits, or the part of
  the outside world (database transaction, gRPC service) an await waits for.
* **Entity manager.** Each GraphQL HTTP request has its own MikroORM entity
  manager (request context). A flush is one MySQL transaction, all or nothing;
  it writes the columns whose values differ from those the entity manager
  loaded; an UPDATE or DELETE that meets no row is no error; foreign keys
  restrict. Flushes are the ones the code asks for; MikroORM's automatic flush
  before some queries and stale loads from the identity map by later fields of
  the same document are left out.
* **Promise.all** rejects at the first failure while its other promises go on.
* **Identifiers** are uuids and signed tokens carry fresh signatures: neither
  is ever drawn twice.
* **gRPC.** A call ends with an answer or an error. After an error the service
  may have carried out the call, or may do so at any later time, also when the
  server process is gone. No deadline is set by the code.
* **Crash.** The process, or a single request, may stop between any two steps;
  its memory is lost, the tables and the services are not.

## 3. The core: systems, deployments, resources

`ResourceLifecycle` models every mutation that changes the four tables and the
remote resources behind them, `ResourceCatalog` is the abstract specification,
`MCResourceLifecycle` holds the instances for TLC, `ResourceLifecycleProofs` the
proofs.

| Variable | In the code |
|---|---|
| `row` | the rows of `system`, `deployment`, `resource`, `service`; "deleted" remembers that there was one |
| `minted` | identifiers drawn with `v4()` |
| `remote` | does the service hold the resource? |
| `stray` | calls that ended in an error, or whose caller crashed, and may still be carried out |
| `fate` | history: was the service asked to delete the resource, did it do so? Asked counts as soon as the call is attempted: it may fail on its way, or for want of such a method (`connection.ts:134-135`) |
| `marked` | the remove stack of the entity manager of an HTTP request |
| `job`, `phase` | which operation a mutation runs on which entity, and where it stands |
| `begun`, `listed`, `closed` | the `deploymentService.delete` promises of a cascade: started, resource list read, resolved |
| `task` | the promise that works on one remote resource: connect, call, done, failed |

| Actions | Code |
|---|---|
| `BeginCreate`, `BeginUpdate`, `BeginDelete`, `BeginRefused` | the resolvers: load the entity, check access, enter the service |
| `OpenSystem` | `system.deployments.init()` in `SystemService.delete` |
| `ListResources`, `CloseDeployment` | `DeploymentService.delete` up to and after its inner `Promise.all` |
| `Connect`, `ConnectFails` | `ServiceService.connect`: load, fetch the protocol, open a client |
| `CreateAccepted` ... `DeleteFails` | the ways `ServiceConnection.create/update/delete` end, and what `ResourceService` does then |
| `StrayCall` | a service carries out a call nobody waits for |
| `Commit`, `Rollback` | the flush of `BaseService` / `DeploymentService` / `ResourceService` |
| `EndRequest`, `Crash` | the end of an HTTP request |

A creation and an update of a system, a deployment or a service touch one row
and call nobody; they differ from those of a resource only in having no task.
An update that meets a row deleted meanwhile writes nothing and is answered
without an error, as an UPDATE of no rows is.

### Runs

| Run | Instance | Checks | Distinct states |
|---|---|---|---|
| `lifecycle_races` | one system, deployment and resource; two HTTP requests with a mutation each: create, update, delete | `TypeOK`, `NoSilentRemoval`, `RowMatchesService`, `CleanedStaysGone`, `OkDeleteIsComplete`, `CatalogSpec` (refinement) | 106 792 |
| `lifecycle_document` | one system, two deployments with a resource each; two fields of one document: create, delete; under fairness | `RemovesWhatWasAsked`, `Answered` | 321 868 |

Two deployments with a resource each are enough for one call to fail while the
others go on, and for the failure to pass both levels of `Promise.all`; two
requests for every race of two mutations, that of a creation in a subtree whose
deletion is under way among them (`OkDeleteIsComplete`), which fields of one
document, as they run one after the other, cannot have; two fields of one
document for marks to be left behind. A request that has ended may be followed by another, so two
stand for any number that never overlap in threes; the proofs cover any number
and any forest. A process may stop at any time, so no state is a deadlock; that
no mutation rests halfway is what `Answered` says. `CatalogSpec` is the abstract
specification, `Catalog == INSTANCE ResourceCatalog WITH ...`, as a property of
`Spec`.

*Fairness.* `FairSpec` assumes weak fairness of `ServerStep(m)` (the event loop
runs every continuation whose promise has settled, and the database answers)
and of `CallEnds(m, r)` (a gRPC call ends with an answer or an error; the
code sets no deadline, so this is a promise of the services and of the
transport, not of the server). Nothing is assumed of clients, of crashes or of
calls that take effect late.

### Proofs

`ResourceLifecycleProofs` proves, for every forest of systems, deployments and
resources, every number of mutations and every grouping of them into requests:

* `Spec => []IInv`. `IInv` strengthens the checked invariants with what they
  leave out: the foreign keys hold and only drawn identifiers are used
  (`RowsInv`); what a job in each phase knows of its row (`JobsInv`); tasks and
  removal marks stay within the subtree the mutation was asked about
  (`ScopeInv`); what is known of the remote resource while its row is being
  created, is stored, is being deleted (`FateInv`). The key of the argument is
  that a row is marked only by a deletion task that has called the service, and
  that a creation with an outstanding or failed call never reaches its flush:
  so no late creation exists for a stored row.
* `TypeOK`, `NoSilentRemoval`, `RowMatchesService`, `CleanedStaysGone`,
  `OkDeleteIsComplete` as corollaries, and `RemovesWhatWasAsked` as an action
  property.
* `OnePerContext /\ Spec => CatalogSpec`: when every request carries one
  mutation, the detailed specification implements the catalogue. Without that
  assumption it does not: in a document with two fields the second flush may
  also remove rows a failed first deletion left marked, which is neither an
  `Add` nor a `Retire`. `RemovesWhatWasAsked` is what holds then.

The assumptions are the three ASSUMEs of the module: the four sets of
identifiers are disjoint, foreign keys point to the right table, mutations
belong to requests. `Answered` (liveness) is only model-checked.

## 4. Sessions

`AuthSessions` models logins, refreshes, logouts and the updates of a user's
password, lock and timeout.

| Variable | In the code |
|---|---|
| `account` | the columns `password`, `locked`, `loginAttempts` of a user, and whether its `timeout` lies ahead |
| `whitelist` | the rows of table `token` |
| `issued` | refresh tokens signed so far |
| `revoking` | deletions of tokens that were started and are awaited by nobody |
| `phase`, `asked` | where a mutation stands, and what it was asked |
| `seen` | the user as the request's entity manager loaded it |
| `got` | the refresh token a login or a refresh signs |

| Actions | Code |
|---|---|
| `LoginFind`, `WrongPassword`, `RightPassword`, `SaveToken`, `LoginAnswer` | `LoginResolver.login` with `AuthService.incrementLoginAttempts`, `resetLoginAttempts`, `saveToken` |
| `RefreshVerify`, `RefreshBarred`, `RefreshIssue` | `RefreshResolver.refreshToken` with `verifyToken` and `revokeToken` |
| `Logout`, `Revoked`, `RevokeFails` | `LogoutResolver.logout`, and the deletion nobody awaits |
| `UpdateFind`, `UpdateWrite` | `userUpdate`, `adminUserUpdate`, the timeout mutations |
| `TimePasses`, `Breaks` | a timeout ends; a query or flush fails, or the process stops |

`auth_sessions` (one user, two passwords, three tokens, four requests) checks
the type invariant and four properties: a token that login returned is on the
whitelist until its client asks to refresh it or to log out
(`LoginTokensListed`); the table of tokens implements the abstract `TokenList`
(`TokenListSpec`, next paragraph); the counter of failed logins is at most the number of failures
(`AttemptsBounded`); only an update that asks for it changes a password or a
lock (`OnlyUpdatesTouchCredentials`). Four requests allow two logins to overlap
while two more mutations step between them. Tokens and requests are
interchangeable, and the configuration uses their symmetry. Requests are run
once each, so the instance comes to rest and deadlock is not checked.

`TokenList` is the promise made to the holders of refresh tokens, without
requests, copies or deletions under way. A token is `"none"` until it is signed,
then `"listed"` (a login's) or `"spare"` (a refresh's), and a listed one may
become `"struck"`: only after its client gave it up, and for good. Only a token
that a login has listed is ever exchanged, and always for one of the same user.
The mapping `Standing` reads the standing of a token from `issued`, `whitelist`
and the logins that signed it (`FromLogins`); `Surrendered` are the tokens that
an answered logout or refresh presented. `SaveToken` is `List`, `RefreshIssue` is
`Exchange`, `Logout` is `Surrender`, a `Revoked` that still finds its row is
`Strike`, all others stutter. `RevokeFails` stutters too: that a given-up token is
struck some day is a promise the code does not keep, and `TokenList` does not
make it.

Two runs show where the code differs from what the repository says of it:

* `auth_refreshed`: the refresh token that `refreshToken` returns was never
  put on the whitelist, so it cannot be used
  (`auth/refresh/refresh.resolver.ts:53` against `auth/login/token.response.ts:19`).
* `auth_logout`: `logout` answers before the token has left the whitelist
  (`auth/auth.service.ts:135` against `test/auth/logout.e2e-spec.ts:71`).

`AttemptsBounded` is one-sided on purpose: of two overlapping failed logins
both count from the copy they loaded, and one of the two is lost
(`auth/auth.service.ts:144`, where the comment in line 139 has each add one).

`AuthSessionsProofs` proves all five for any number of users and tokens and any
finite set of requests. The inductive invariant adds `TokensInv`: deletions are
under way only for tokens somebody asked to revoke; and `ListInv`: only logins
fill the whitelist, a presented token was signed, a verified one comes from a
login and belongs to the user who refreshes, and a mutation that has not signed
yet has no token. With it every step is a step of `TokenList` (`ListStep`), and
`Spec => TokenListSpec` follows (`TokenListIsKept`); that no token returns to the
list (`NeverRelistedHolds`) is one consequence, proved by itself. `OnlyUpdatesTouchCredentials`
needs no invariant beyond the types, it is the argument that a flush writes
changed columns only. `AttemptsBounded` has an invariant of its own, `CountInv`:
the counter in the row, and the one in the copy of every login that has not yet
compared the password, are at most the number of failures of this user
(`Denied`), a set that only grows.

## 5. One-time codes

`OneTimeCodes` models `requestCode`, `verifyCode` and the `cleanUp` job that runs every twelve hours, with
a clock. `row` is the table (a row is named by the request that inserts it),
`draft` the entity a request builds, `left` the retries it has left, `seen` the
rows a verification or a clean-up has read. The telephone number is a column
that is copied with the code and never compared, so it is left out.
`SweepMisses` is a deletion of the job that fails (its `Promise.all` does not
stop the others), `Breaks` any other failure. A verification that breaks off while
its deletion is on its way to the database may leave the row deleted: it then ends
as `"lost"`, its code was judged valid and nobody has a token for it.

* `codes_stay`: four requests, one code, so that the codes run out; a clock
  that passes both ages. The table implements the abstract `CodeBook`
  (`BookSpec`): a code is entered when no entry has the same digits, is accepted
  only while it has not lapsed, and its entry is struck only when it has lapsed
  or was accepted, also when the same digits were given out again while a
  verification was about to delete the first row. Among the rows codes are unique
  (`OneRowPerCode`). Under weak fairness of the steps of `generate`
  every `requestCode` ends (`GenerateAnswers`): the event loop runs the
  continuation and the database answers. Every failing flush consumes a retry.
* `codes_once`: two overlapping verifications of one code are both answered
  with a token, although `auth/code/code.service.ts:71` says that a code is
  deleted so that it cannot be used again. The deletion names the row's id, and
  a DELETE that meets no row is no error.

The ages are scaled (`Lifetime = 0`, `SweepAge = 2`): only their order matters.
`SweepsDeadCodes` (`Lifetime < SweepAge`) is an assumption on the configuration;
the defaults, thirty minutes and twelve hours, satisfy it, an `OTC_LIFETIME` of
half a day would not. A comment of `cleanUp` (line 101) speaks of codes "older
than a day", the code in line 99 asks for twelve hours; the model follows the
code. `MaxTime` bounds the clock so that TLC ends.

`OneTimeCodesProofs` proves `TypeOK`, `LiveCodesStay` and `OneRowPerCode` for
any number of requests, codes and retries. The invariant adds `SeenInv`: what a
request has read was stored, and what it is about to delete as expired or as
old is so for ever, because a row's draft no longer changes and the clock only
advances.

`BookIsKept` proves `Spec => BookSpec`. The mapping takes a row for the entry of
the request that inserted it: `Digits` are the codes of the rows there have been,
`Lapsed` those past the lifetime, `AcceptedOnes` those some verification has
accepted, `Struck` those that are gone. `RemovalStrikes` is the heart of it: a
row that is removed, by a verification, by the job or by a flush that was
committed though its request broke off, has lapsed or was accepted before.
A tick of the clock is one `Lapse` of all entries it makes too old, which is why
`Lapse` takes a set. `GenerateAnswers` is only model-checked.

## 6. Users and organisations

`Accounts` models every mutation of users and organisations but the renaming of
an organisation, as the guard that loads the caller, the queries between, and
one flush.

| Variable | In the code |
|---|---|
| `user`, `organisation` | the rows of the two tables (address, organisation and role of a user) |
| `drawn` | identifiers of users that were ever stored |
| `holding` | users that rows of table `token` refer to |
| `phase`, `job` | where a mutation stands; operation, caller with the role it had then, arguments |
| `seen` | the user as loaded by an update |

| Actions | Code |
|---|---|
| `UserCreate`, `AdminUserCreate`, `FirstCheck`, `LastCheck`, `Register`, `SaveToken` | `UserCreateResolver`, `UserService.create`, `OrganisationService.createDefault` and `addMember`, `AuthService.saveToken` |
| `OrganisationMemberAdd`, `CanAdd`, `AddMember` | `AddMemberResolver` |
| `OrganisationMemberRemove`, `RemoveMember` | `RemoveMemberResolver` |
| `UserUpdate`, `AdminUserUpdate`, `CheckUpdate`, `Update` | `UserUpdateResolver`, `UserService.update` |
| `UserDelete`, `Delete` | `UserDeleteResolver`, `BaseService.delete` |
| `FindUser` | `BaseService.findByID` and `findByIDOrFail` |
| `LogsIn`, `LogsOut`, `Breaks` | what `AuthSessions` does to table `token`, as far as the foreign key sees it; failures |

A removal checks nothing of the caller but that somebody is logged in, as in the
code. Addresses are told apart up to case, as the lookup does.

`accounts` (an administrator, a member of staff, room for a third user, three
addresses, two overlapping mutations) checks that no two users have one address
(`OneAccountPerEmail`), that no organisation is stored without a member but one
made for a member who is deleted meanwhile (`OrganisationsBornOwned`), that the
tables implement the abstract `Directory` (`DirectorySpec`), and that a rank which nobody holds any more, in the
table or as the caller of a mutation under way, is never given again
(`NoPromotionFromBelow`). Two mutations are enough for one to step between the
check and the write of the other.

`AccountsProofs` proves all of them for every seeded table and any number of
users, addresses and mutations. The inductive invariant adds `JobsInv`: a
mutation under way asks for no role above its caller's, an addition that passed
`isMember` names an organisation that exists (organisations are never deleted),
and it is complete for what it will do. Address uniqueness comes from the unique
index in every flush; the queries before it only refuse early.

`Directory` has the two tables, the users there have been, and the roles that
somebody may still give (`Givable`: those of the ranks that are reached, and
customer). A user joins once, with a free address and a role that may be given;
may be edited, which leaves the organisation alone; may be moved, only to an
organisation that is new; and leaves for good. In every step the roles that may
be given stay or become fewer. Callers, checks, copies and mutations under way
are not part of it. `DirectoryIsKept` proves `Spec => DirectorySpec`: an `Update`
from an old copy is an `Edit` of the row as it is now, a removal a `Move`, or, if
its member has been deleted meanwhile, an organisation `Found`ed for nobody;
`RoleGivable` says that a mutation under way keeps the role it was let in with
givable, and `RankStep` that nothing else adds a role. That who leaves an
organisation joins only a new one (`MovedOnlyToNewHolds`) is proved by itself, too.

## 7. The registry of services

`ServiceRegistry` models the registration, update and deletion of services, the
hourly job, and what a connection finds at the address of a service.

| Variable | In the code |
|---|---|
| `row` | the rows of table `service`: address of the protocol, namespace, `blocked` |
| `web` | what each address answers at the moment: nothing usable, a file without names, or a protocol with its namespace, its `MainService`, the methods of it, and whether the files it imports are found |
| `req` | the request under way and what it has read |
| `loaded`, `dirty` | the global entity manager: services it has loaded, and those marked as blocked and not yet written |
| `fetches`, `due` | callbacks of `validateAllServices` that wait for a file, or for their flush |
| `origin`, `had`, `faulty` | history: what a service was registered with, the addresses it has had, the addresses that were ever unsound |

| Actions | Code |
|---|---|
| `BeginCreate`, `FetchForCreate`, `StoreCreated` | `service/create/create.resolver.ts`, `ServiceService.getNamespace`, `validate`, `create` |
| `BeginUpdate`, `FlushUpdate`, `BeginDelete`, `FlushDelete` | the generic mutations of `BaseResolver` and `BaseService` |
| `BeginConnect`, `Connect`, `ConnectEnds` | `ServiceService.connect`, `loadProto`, the constructor of `ServiceConnection` |
| `JobLoads`, `JobFetches`, `JobFlushes`, `JobFlushFails` | `validateAllServices`, one callback per service |
| `Publish`, `Crash`, `Breaks` | authors change their files; the process stops; a query fails |

`registry` (one service, two addresses, two namespaces, four answers, two
requests) checks that the table implements the abstract `ServiceBoard`
(`BoardSpec`), and further: a service is blocked only when an address it has or had
answered with an unsound protocol (`BlockedForCause`), not because a fetch
failed or because another service of the run shares the flush; and while
the address answers as it did at the registration, a connection finds its client
(`SteadyServiceConnects`). It is *had*, not *has*: the job validates the address
it loaded, and `serviceUpdate` may have replaced it meanwhile. Addresses and
requests are symmetric. The job's runs are not numbered: each may begin at any
time, so any number of them overlaps. That one service shares a flush with
another takes two services, which the proof covers and the run does not.

`ServiceBoard` has the rows, the addresses each service has had and those that
were ever unsound, and five steps: `Enter` an identifier that was never used,
open; `Move` to another address, which changes neither namespace nor block;
`Block` several services at once, each for an unsound protocol at an address of
its own; `Remove`, for good; and an address that becomes unsound, `Fault`. It
knows no requests, no job, no global entity manager and no fetches. So a flush
with a stale copy that undid a block, changed a namespace, or stored a row that
was deleted meanwhile, would be no step of it.

`ServiceRegistryProofs` proves all of this for any number of services,
addresses, answers and requests. The inductive invariant says that a service
in the table was registered with a sound protocol and keeps its namespace
(`OriginInv`), that a registration is alone with its identifier and that what a
request has read comes from a registered service (`RequestInv`), and that the
job works with addresses the services have or had (`JobInv`). From it each step
is a step of the board or leaves it alone (`BoardStep`), whence
`Spec => BoardSpec` (`BoardIsKept`): a flush of the job is one `Block` of all
services it finds marked, those of other callbacks included, and `JobInv` gives
each its cause.

## 8. Lists by pages

`Pages` models a client that asks for page after page as long as the answer says
that there are more, over a table that other requests change. `table` is the set
of rows there are; `walk` is the page asked for and which of its two queries have
come back, `seen`, `twice` and `given` what the client has been given, as rows
and in number, and `due`, `grew`, `shrunk` and `moved` the history the properties
need: how many rows there were from the first page on, and what has changed since.
The five kinds of list are those of the code: `systems`
(`SystemResolver.systems`, which sends a negative offset to the query builder,
which throws), lists that are fields of their parent (25 rows and no more, no
next page), `services` (`SearchQuery`, which counts when it has the rows and
takes the row that holds the count for the count, which gives `NaN`), the
lists of `BaseService` (its `search` returns nothing), and lists by identifiers.

The rows have no order. `systems` is read by `findAndCount` with a limit and an
offset but no `ORDER BY` (`system.service.ts:70-78`), and so are the fields: the
database may read the table in one order for one page and in another for the
next. `Slices` therefore lets a query return any rows, only as many as there are
on the page. (`SearchQuery` does ask for an order; as nothing is claimed about
the rows of `services`, the model lets them come in any order too.) What the code
cannot promise then is that a walk misses nothing: a row may be given on two
pages and another on none, in a table nobody changes. What is left to promise is
checked by `pages`:

* the pages of systems have together no more rows than there were from the first
  of them on, unless one was inserted meanwhile, and at the end no fewer, unless
  one was removed (`PagesAddUp`);
* so that who follows them from the first to the last, while the list does not
  change, and is given no system twice, has been given all (`WholeListSeen`): a
  repetition is the only way to miss a row, and can be noticed;
* a page says that there are more exactly when the query of the next page would
  find a row, if the table did not change while it was read (`NextPageIsTold`);
* every walk ends (`WalkEnds`), under weak fairness of the steps that answer it:
  the database answers, maybe with an error.

The instance has up to four rows, pages of one, two and three, and first pages
-1, 1 and 2. Rows are finite and never return, so that a walk cannot go on for
ever by insertions alone; this is the only bound. Four rows with pages of one and
two give full and partial last pages, and room for an insertion or a removal
between any two of them.

`PagesProofs` proves `TypeOK`, `PagesAddUp`, `WholeListSeen` and `NextPageIsTold`
for every finite table, page size and first page. The argument counts and needs
no order: what the client has been given and what the offset of its next query
leaves (`Rest`) together make up what was due, exactly so in a table that stands
still, at most so in one that shrinks and at least so in one that grows
(`DueInv`). The last page is the last because the count says so; a count that is
out of date may lack rows inserted since, but none that was due unless a row was
removed, so that `DueInv` has the same bound for the count as for the table. From
there
`WholeListSeen` follows by the size of sets: who has been given none twice has
seen as many rows as were given (`SeenInv`), which are as many as there are, all
of them in the table. `CountInv` says that a count is that of the table until it
changes, and gives `NextPageIsTold`. `WalkEnds` is model-checked.

## 9. Status, usage and overviews

`Overviews` models one request at a time about one system: the overview of the
system or of a deployment, and the status, usage or details of a resource, while
others create and delete deployments and resources and change the members of the
organisation. `view` is the request and how far it is, `opened`, `listing` and
`listed` the deployments and resources it has found, `came` what has come of the
call to each service and `counted` the overviews of single deployments; `said`
is what the service really said.

| Actions | Code |
|---|---|
| `AskSystem`, `AskDeployment`, `AskResource`, `Find`, `Access` | the resolvers, `findByIDByUser`, `hasAccess` |
| `Open`, `ListResources`, `CountDeployment`, `AnswerOverview` | `SystemService.getStatus` around `DeploymentService.getStatus` |
| `CallEnds`, `AnswerResource` | `ResourceService.getStatus`, `getUsage`, `getDetails` and the fields of `ResourceResolver` |
| `DatabaseFails` | a query of the request itself |

`overviews` (two deployments, with two resources and one) checks: an overview
shows as unhealthy exactly the resources whose services said so or did not
answer, and no more healthy ones than services said to be (`OverviewIsTrue`); it
asks the services of all resources that were there from request to answer
(`SteadyAreAsked`); it fails because of the database only, whatever services say,
and the field of a resource besides only for an answer that cannot be given
(`FailsForCause`, below); and only a
service that never ends its call holds a request up (`HeldBySilenceOnly`). The
healthy ones are an upper bound because `HEALTHY` is zero: an encoder that
leaves the zero out sends a status that arrives as undefined
(`service.service.ts:118` loads the protocol without defaults), and such a
resource is counted nowhere (`deployment.service.ts:268`). The fairness is that
of the event loop and the database, and of calls to all services but those in
`Silent`, for which nothing is assumed as no deadline is set. Resources, not
requests, are many here, as one request already runs all calls at once and
requests share nothing but the tables.

What a service may say depends on what it is asked (`Says`), and what arrives of
it on the wire (`Arrives`). The fields of a resource do fail for some answers,
which `AnswerResource` models and `Ungivable` names:

| Field | Fails for | Because |
|---|---|---|
| `status` | `HEALTHY` left out of the message; a number outside the enumeration | the field may not be null; an enumeration of GraphQL has no form for other numbers (-1, `UNRECOGNIZED`, is a member) |
| `usage` | `LIMITED` left out; a number outside the enumeration or a quantity that is not finite; no answer at all | the same (`usage.type.ts:11`); the promise is returned, not awaited, inside `try` (`resource.resolver.ts:48`) |
| `details` | no properties, which are never written to the message; a property with an empty name left out; a value without a form; no answer at all | the list and the name may not be null (`resource.resolver.ts:54-58`, `property.type.ts:8`); nothing catches the rejection |

The status of a resource whose service gives no answer is `DOWN`, never an error.

`OverviewsProofs` proves `TypeOK`, `SteadyAreAsked`, `FailsForCause` and
`OverviewIsTrue` for every
assignment of finitely many resources to deployments; the key is `SteadyInv`, by
which a resource that was there all along is listed already or belongs to a
deployment that is still to be listed.

`OverviewIsTrue` compares the sums an answer has added up, deployment by
deployment, with the resources whose services said this or that. `CountedInv`
says what the sums are made of: a resource is listed under its own deployment, a
deployment is counted once, when the calls of all its resources have ended, and
these do not change after that. `Total` writes the
sum over the deployments as the size of a set, of the pairs of a deployment `d`
and a number up to the one counted for `d`; the lemma `DisjointUnion` builds a
bijection of this set with the resources counted, as those of different
deployments differ. `CallInv` then relates what has
arrived to what was said, and what was said to what was asked: all that was said
to be unhealthy, and all that failed, arrive as such, and no call arrives as
healthy that was not (`Truth`); and the lemma `Failing` goes through the answers
that make a field fail.

## 10. Credentials

`Credentials` models what a deployment keeps for each provider: a column that is
no secret and one that is, encrypted, or for any other provider one column of
encrypted values. `row` is the table, `doc` the documents under way, each with
the copy of the deployment its entity manager loaded once and goes on using from
field to field; `given` remembers what clients asked to be stored, `raced` where
an update was based on a row that had changed.

| Actions | Code |
|---|---|
| `BeginCreate`, `Create` | `system/deployment/create/create.resolver.ts`, `DeploymentService.create`, which encrypts |
| `BeginUpdate`, `Update` | `system/deployment/update/update.resolver.ts`, `DeploymentService.update` |
| `BeginCall`, `Call` | `getCredentials` before every call of a service |
| `Delete`, `Leaves`, `Stops` | deletion by another request, the end of a document, the end of the process |

A value of "other" that is no text makes the encryption throw in a callback
whose promise nobody handles, which ends the process: `Stops`, which may also
happen at any time. Encryption is a layer around the clear text, so that
encrypting twice, or sending what is still encrypted, shows. An update writes
the columns that differ from its copy; a secret that was asked for always does,
since each encryption draws a new vector.

`credentials` (one deployment, AWS and another provider, six inputs, two
documents) checks in `TypeOK` that each stored secret is encrypted once and each
sent one not at all, and: what is stored for a provider is what one client gave
for it, secret and name together, unless the last update of it overlapped another
(`WholeUnlessRaced`); services are called with credentials a client gave
(`ServicesHearWhatWasGiven`); an update leaves the other providers as they are,
though it assigns them as it had loaded them (`OthersAreKept`). Two overlapping
documents are all it takes for a write to meet a stale copy; the inputs combine
both halves of a pair, an absent provider, and the odd value.

`CredentialsProofs` proves the four for every set of deployments, documents,
providers and inputs. The inductive invariant adds that a deployment is created
once (`OriginInv`), that what a copy has is whole if its row was when it was
loaded, and that a row never loses what a copy has (`CopyInv`), and that what is
sent is the decrypted copy (`SendInv`).

## 11. What is assumed of the outside

* Identifiers are fresh, signatures of tokens differ, constraints (unique,
  foreign key restrict) are enforced when a flush commits, and a flush is a
  transaction.
* A flush writes only columns that differ from the loaded entity; whether it
  commits or is rolled back, the entity manager forgets what it was to write
  and remove. The global entity manager of the hourly job is the exception: its
  marks stay, and go with its next flush. MikroORM may also refuse to be used
  outside of a request; then the job does nothing, which the model allows.
* An entity manager has one copy of an entity, and finding it again gives this
  copy.
* `removeAndFlush` of a plain object, as `TokenService.delete` uses it, may
  delete the row, be late, or fail: the models allow each.
* A document's mutation fields run one after the other, those of different
  requests in any order.
* Node ends the process at a rejection nobody handles, as it does from version
  15 on.
* Two queries sent at once may be answered in any order and with other
  transactions between them.
* A query with a limit and an offset but no `ORDER BY` returns as many rows as
  there are on the page, any of them, and each at most once.

## 12. Proved, checked, left out

*Proved for every value of the constants* (under the ASSUMEs of the modules):
the type invariants and all safety properties listed above, and five
refinements: `AuthSessions` implements `TokenList`, `OneTimeCodes` implements
`CodeBook`, `Accounts` implements `Directory`, `ServiceRegistry` implements `ServiceBoard`, and `ResourceLifecycle`
implements `ResourceCatalog` when every request carries one mutation. Each proof
module has one inductive invariant (`IInv`; `AuthSessionsProofs` a second one for
the counter), found by checking it with TLC on the same instances first; the
runs check the properties, the proofs the invariants they follow from.

A refinement says more than an invariant: the abstract specification lists all
that may ever happen to the state it shows, so that every step of every request,
job, failure or crash is one of these or changes nothing of it.

*Only model-checked:* the liveness properties `Answered`, `GenerateAnswers`,
`WalkEnds` and `HeldBySilenceOnly`, which are beyond the prover (they rest on
fairness and ENABLED), and the three counterexamples.

*Not modelled:*

* The words of a search, the filters and the order of lists: they select the
  rows of the list, and no property depends on which; no order is assumed
  (section 8). Reading them showed that
  a filter passes `field = ?` as the name of a column (`search.builder.ts:65`),
  that the search by identifier compares with `'%...%'` by equality, and that the
  order said to be descending by default (`search.builder.ts:50`) ascends.
* The length of a timeout (`auth.service.ts:180-193`): the models know of a
  timeout only whether it lies ahead.
* The temporary files of `service.service.ts:115`, which nothing removes: their
  number grows with the connections, and nothing else depends on it.
* Access tokens and the guards that check them, which keep no state; what a guard
  lets through is a condition of the action behind it, and the caller it loaded
  is the copy the mutation uses. So is `isMember` in
  `add-member.resolver.ts:32`, asked long before the member is stored.
* The cipher, notifications, formatting, logging, configuration, infrastructure
  and generated code: no state, or a library's. `auth/forgot` is commented out.
* Where a generic mutation of `common/base` has the same name as a specific one
  the specific one is modelled.

## 13. Plan

1. An abstract specification of the credentials of a provider, implemented by
   `Credentials`, as far as updates do not overlap.
2. Sessions and accounts together: deletion of users against tokens, with both
   modules' state.
3. A second service in the registry's instance, with fewer answers.
