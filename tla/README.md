# A TLA+ verification of nanas

nanas is a backend platform: a Go control plane (`cmd/api`), a Go dataplane that
runs functions (`cmd/dataplane`), PostgreSQL, MinIO and NATS JetStream behind them,
and a web UI and an SDK in TypeScript.  This directory holds TLA+ modules translated
from its source, the TLC runs that check them on small instances, and TLAPS proofs
of what holds on every instance.

## 1. Inventory

The control plane.

| Part | State | Operations | What is hard | What must be true |
|---|---|---|---|---|
| Versions, builds, deployments (`cmd/api/main.go` 918-1141, `internal/store`) | `function_versions`, `build_jobs`, `deployments`, `functions.current_version`, `functions.last_deployment_status`; goroutines `simulateBuild` | register a version, build, deploy, roll back | every statement commits alone, handlers overlap, a dataplane call of up to 30 s in the middle, builds live in memory | one active deployment, of a built version, acknowledged by the dataplane; the status shown is the newest one's; rows never change their version; builds and deployments end |
| CDC listeners (`internal/cdc`, `internal/store/cdc.go`) | `cdc_subscriptions`, a map of listeners under a mutex, one LISTEN connection each | subscribe, unsubscribe, bootstrap, reconnect with back-off | list-then-stop against insert-then-ensure, notifications while disconnected | a project with subscriptions has a listener, one without has none |
| Trigger bus (`internal/natsbus`) | JetStream stream and consumers, `trigger_dlq_events` | publish, dispatch, async invoke, dead-letter | redelivery, at most five attempts, process restarts | a message that cannot be handled is kept in the dead-letter table; nothing is delivered for ever |
| Invocation and dataplane registry (`cmd/dataplane`, `internal/datalane`, `buildInvokePayload`) | the dataplane's `sync.Map` | invoke, async invoke, public entrypoint | the registry dies with the dataplane; the deployment is read in three statements | an invocation runs the version of the active deployment, with the environment it was deployed with |
| Realtime hub (`internal/realtime`) | connections per channel, query subscriptions | subscribe, broadcast, poll, disconnect | registrations that outlive a connection, several writers of a socket | nothing is sent to a closed connection; nothing leaks |
| Provisioning (`internal/provision`) | `projects.provision_status`, bucket, tenant database | one goroutine per project | no restart, no retry; the event precedes the update | ready means both exist; "complete" event means ready |
| Accounts, roles, API keys, disable, quota (`internal/middleware`, `internal/store/rbac.go`) | users, permissions, keys, per-project limiters in memory | register, grant, revoke, disable, change quota | the first-user check is read-then-write; limiters keep the first rate they saw | one super admin by registration; changed quota applies |
| Marketplace (`internal/store/marketplace.go`) | packages, versions, `latest_version`, installs | publish a version, recompute latest, install | recompute is read-then-write | `latest_version` is the highest published version |
| Span store (`internal/telemetry/store.go`) | ring buffer | append, list, get | wrap-around | list is newest first and loses only the oldest |
| Tickers (`cronTicker`, `dbPollTicker`, `retentionTicker`) | last firing times in memory | tick | restart, failing publish | a trigger fires once per interval |
| Pure algorithms (`internal/dsl/payload`, semver, `slugify`, `sigwebhook`, `tenantddl`) | none | | boundaries | agree with their reference definitions |

The web UI (`web/src`).

| Part | State | Operations | What is hard | What must be true |
|---|---|---|---|---|
| Session (`auth`, `api/client.ts`, log-in pages, router, query client) | the store, its copy in `localStorage`, requests in flight with the token they carry | log in, register, log out, send, retry, redirect | a 401 that answers an old token; other windows; redirects by token and role | a valid session ends for a reason, an expired one ends, redirects end |
| Realtime hooks (`hooks/useRealtime.ts`, `useQueryRealtime.ts`) | refs, sockets and timers, the buffer of events | connect, reconnect, change, unmount | callbacks of an old socket after a new one was opened | one socket or timer, no event twice, the right status, connected again |
| Query cache (`features/*/queries.ts`, the queries in pages, `app/providers.tsx`) | an entry per key | mount, poll, mutate, invalidate | a refetch that began before a mutation, keys that nobody invalidates | a page at rest shows what its user did |
| Editor and Versions tabs (`EditorTab.tsx`, `VersionsTab.tsx`) | files, version, draft query, forms | edit, save, publish, upload, register | edits and tab changes while requests run, refetches, partial publication | nothing typed is overwritten; what is published is what was stored |
| Deployments tab (`DeploymentsTab.tsx`) | the form, the deployment followed | deploy, roll back, poll | two answers in the other order | the live card shows the last operation |
| Settings forms (`EntrypointTab.tsx`, `ProjectSettingsTab.tsx`, quota, role, allowlist) | inputs seeded from a query | load, edit, save | saved before loaded, others' saves | a save does not silently undo another |
| Forms and dialogs (sixteen) | inputs, dialog, answer, error | fill, submit, cancel, dismiss | retries, late answers, a page that has gone | the server does not act twice on one filling |
| Local list of versions (`lib/localCache.ts`, `BuildsTab.tsx`) | text in `localStorage`, a parsed copy per window | register, show, choose | several windows write the whole list | no window writes back an old list |
| Storage page (`StorageBrowserPage.tsx`) | key, file, presigned answer, listing | presign, upload, list, delete | inputs that change while requests run, keys in URLs | a file goes where it was signed for, the object confirmed is deleted |
| Payload builder (`PayloadDSLBuilder.tsx`) | filter text, rows, JSON | edit a row, edit JSON | text is parsed and written at each edit | an edit changes what it edits |
| Paged lists | page, filters, cached pages | turn, filter, go to | rows added between two pages | nothing is skipped |

The parts meet in PostgreSQL (handlers share rows, never locks), over HTTP (control plane to
dataplane, browser to control plane), through JetStream (triggers, async invocations, dead
letters) and in memory (hub, limiters, listeners, tickers).  In the browser they meet in the
query cache, the session store and `localStorage`, and nowhere else: the state of a page is lost
when it is unmounted, while its requests and their callbacks go on.

## 2. Plan

Written, in this order: `Deployments` (the core: what a client deploys and what serves it),
`CDCManager`, `TriggerBus`; then the web UI from the outside in: `RealtimeClient`, `Session`,
`ServerCache`, and the pages `Publishing`, `Settings`, `Forms`, `Deploying`, `Recents`, `Uploads`,
`Bucket`, `PayloadForm`, `Lists`, composed in `MC_Pages`.

What is left, most important first.

| Module | Composes | Models | Questions | Theorems |
|---|---|---|---|---|
| `Invocations` | `Deployments` | the dataplane's registry, deploy and invoke calls, `buildInvokePayload` in its three statements, restarts of the dataplane | does an invocation run the version of one deployment, with its environment; what does a restart of the dataplane lose | the payload names one committed deployment |
| `RealtimeHub` | `RealtimeClient` | `hub.go`, `query.go`: registrations per channel, broadcasts under the read lock, writes outside it | registrations end with their connection, one writer per connection | registrations belong to open connections |
| `Provisioning` | | one goroutine per project: bucket, database, event, status | is ready only said of what exists; does the event precede the status | ready implies both |
| `Accounts` | `Session` | registration with the first-user promotion, members, keys, disabled projects and users, the cached limiter of the quota | one super admin, revoked keys stay revoked, quota changes apply | revocation is final |
| `Marketplace` | | publishing versions, the recomputed latest, installs | the latest is the highest | |
| `SpanStore`, `Payload` | | the ring buffer; payload filters, semver, slugs and the DDL allow list as functions | agree with reference definitions over bounded inputs | index arithmetic of the ring |
| `Tickers` | `TriggerBus` | cron, database poll and retention with last firing times in memory | one firing per interval, through restarts | |

There is one run per distinct question; a new module either joins a run whose question it
shares, as the pages do, or replaces a counterexample that sections 5 and 6 already state.

## 3. Modules

| Module | What it is |
|---|---|
| `Deployments` | versions, builds, deployments and rollbacks of one function |
| `Releases` | the abstract specification of the same: an append-only list of releases, one of them live |
| `DeploymentsProofs` | theorems about `Deployments`, with the proof that it implements `Releases` |
| `CDCManager`, `CDCManagerProofs` | subscriptions, row triggers, the Manager's entry and the listeners of one project; theorems |
| `TriggerBus`, `TriggerBusProofs` | the stream, the two consumers, asynchronous invocations and dead letters; theorems |
| `RealtimeClient`, `RealtimeClientProofs` | one mounted realtime hook with its sockets, timers and events; theorems |
| `Session`, `SessionProofs` | the session of one window: tokens, requests, guards, redirects; theorems |
| `ServerCache` | the queries of the pages whose data a page writes, and the mutations that write them, over one entry of the query cache |
| `Publishing`, `PublishingProofs` | the Editor and Versions tabs over draft, bucket and versions; theorems |
| `Settings` | six ways to change a value the server already has, one of them followed |
| `Forms` | sixteen forms and dialogs, one of them followed |
| `Deploying` | the Deployments tab |
| `RequestsProofs` | theorems about `Forms`, `Deploying` and `Settings` |
| `Recents` | the local list of versions and the Builds tab, in several windows |
| `Uploads` | the upload card of the storage page |
| `Bucket` | the objects card of the storage page |
| `PayloadForm` | the builder of a trigger's payload transformation |
| `Lists` | four lists that are fetched page by page |
| `PagesProofs` | theorems about `Uploads`, `Recents`, `Lists`, `ServerCache`, `Bucket`, `PayloadForm` and the pages together |
| `MC_*` | the symmetry sets and definitions the runs use; `MC_Pages` also composes the pages |

Operators marked *Mutant* in a comment are plausible bugs: each is an altered version of the
definition below it, and no specification uses it.  Replacing the original by its mutant breaks
a property, which shows that the property depends on the code.

### Deployments

The code never opens a transaction around a request, with the exception of
`InsertDeployment` and `RollbackFunctionDeployment`, so a handler is a sequence of statements.
`work[h].at` is the program counter of a handler, named for what it has just done.

| Action | Code |
|---|---|
| `InsertVersion`, `SetCurrentVersion`, `QueueBuild` | `POST versions`: the two statements of `InsertVersionQueued`, then the job and `go simulateBuild` |
| `CompleteVersion`, `FinishBuild` | the two updates of `simulateBuild`; their errors are dropped (`BuildDbError`) |
| `CheckVersion`, `DeployCurrent` | the deploy handler up to the build status check |
| `BeginInsert`, `RunInsert`, `CommitInsert` | the transaction of `InsertDeployment`; `started_at` is taken at `BEGIN`, the rows to supersede are those the UPDATE sees, all is visible at `COMMIT` |
| `MarkDeploying`, `RejectUnprovisioned`, `DataplaneAccepts`, `DataplaneFails`, `MarkActive`, `MarkFailed`, `UpdateLast` | the rest of the deploy handler, statement by statement |
| `SelectRollback`, `CommitRollback` | the two newest rows are read, then swapped in the commit |
| `Crash`, `Disconnect`, `DbError` | the process dies with handlers and builds; the request context is cancelled; a statement fails, and the handler goes on or returns as the code says |

A deployment is named by the rank of its `started_at`, because every query of the code orders by
it.  The deploy specification (strategy, resources, health check) is only stored, so it is left out.

### CDCManager

Projects share the mutex of the Manager and nothing else: the model is one project, and its entry
in the map is `listener`.  `Ensure` holds the mutex throughout and is one step.  `Stop` lets go of it
before it calls the cancel function: a request between the two is `cancelling`, another request may
start a listener meanwhile, and the history variable `overtaken` keeps which listener was started
before the cancel of which got through.  A listener hands a change to the bus and to the hub for one
subscription after the other, and a cancel between them stops nothing, because the hub takes no context.

| Action | Code |
|---|---|
| `BeginSubscribe`, `DropTrigger`, `CreateTrigger`, `InsertSubscription`, `EnsureListener` | `POST cdc/subscriptions`; `InstallTriggerForTable` is two autocommitted statements |
| `DeleteSubscription`, `ListRemaining`, `StopUnsubscribed`, `CancelStopped` | `DELETE cdc/subscriptions/:id`; the last two are `Stop` under the mutex and after it |
| `Connect`, `Receive`, `Lookup`, `Publish`, `Exit`, `Retry`, `ConnectionFails`, `LookupFails` | `run` and `listen` of one listener goroutine, with the notifications that PostgreSQL has queued on its connection |
| `ChangeRow` | the trigger function `nanas_cdc_notify`, at the commit of a row change |
| `Crash`, `Bootstrap`, `BootstrapFails`, `StatementFails` | the process dies; `main` starts listeners for the projects with subscriptions; a statement fails or a request is cancelled |

### TriggerBus

JetStream is external and modelled from the consumer configuration in `bus.go`: explicit
acknowledgement, deadlines, at most `MaxDeliver` deliveries, deliveries counted by the server.
The client keeps delivered copies in memory (`inbox`) and calls the handler of a consumer for one
copy at a time (`task`).

| Action | Code |
|---|---|
| `Publish`, `PublishFails` | all senders; every one of them drops the error |
| `RunLocally` | `POST invoke/async` without NATS: a goroutine per job |
| `Deliver`, `Expire` | the server (external) |
| `Take` | `Consume` calls the handler |
| `Dispatch`, `Refuse`, `DeadLetter`, `DeadLetterFails`, `Persist` | the handler of `dispatch_worker` and `invokeDLQPersist` |
| `StartJob`, `LookupFails`, `Invoke`, `Record`, `RecordFails` | `asyncInvokeFromNATS` and `runAsyncInvokeJob` |
| `Settle`, `SettleFails` | `msg.Ack()` |
| `Crash`, `Restart`, `RestartDisconnected` | the process dies with its copies and goroutines; NATS is optional at start-up |

The dispatch worker only broadcasts to the hub.  In this code no trigger (cron, database poll,
ingress, CDC) goes on to invoke its function, so a served trigger is a broadcast one.

### RealtimeClient

A *line* is what one call of `connect()` by the effect starts: its socket, the timer of its
`onclose`, the socket that timer opens, and so on.  The closures of a line keep the dependencies
they were made with, while the refs (`ws`, `timer`, `closedByUs`, `attempts`) are shared by all
lines of the hook: this is where an old socket meets a new one.  Close events come some time after
`close()`, so a run of the effect can overtake one; `overtaken` counts those.  Browser events
(open, message, close, timers, a constructor that throws), dependency changes, mounting, the
reconnect button and the loss of the session are the actions.

### Session

The store, `localStorage` (which other windows write), requests with the token they were sent with,
the retries of the query client, the guards and index routes (`RedirectOf`) and the log-in,
registration and API-key forms.  A JWT is a model value with or without a staff role; expiry and
revocation are external.  The query client retries a query only while a component observes it, and
mutations never: a request has a `watch`, and whenever a page is rendered (`Rendered`: links, redirects,
log-ins, logging out) any of the queries in flight may be left, as the page that observed them goes, or
observed, as the layout and the next page may want the same.  A query that is left ends at its next
back-off.  `Query` and `Mutate` send the two kinds.

### ServerCache and the pages

`ServerCache` lists each query (key, what of the server it shows, on which pages, whether it is
polled) and each mutation (where it is offered, what it writes, which key prefixes it invalidates)
as the pages declare them, over TanStack Query's rules for one entry, modelled from the options in
`app/providers.tsx`.  Data is the set of writes it reflects.  The uploads of the Editor and Versions tabs
are among the mutations: they put objects into the bucket that the storage page lists.  Left out are
mutations that write nothing a query shows (consoles, presigned URLs, invocations, test mails,
installs), queries whose data no page writes (databases, metrics) or that show a trail of everything
(audit log, logs, traces), and what the server does on its own afterwards (provisioning, builds, dispatch).

In the other page modules a request is a record in a function over a finite set of names
(`pubOps`, `depOps`, `saves`, `submissions`, ...): sent, carried out by the server, answered or
failed, with `mounted` for whether the page that sent it is still there; React drops the state of a
page that goes, so a late answer changes only what outlives it.  Handlers run to their next `await`
in one step.  Content is abstracted to what the properties tell apart: the text of all files
together, a filling of a form by number, a setting by the write it comes from, a condition by the
form of what it compares with.

| Module | State | Actions, as the handlers and effects are called |
|---|---|---|
| `Publishing` | editor, form, draft query, operations; server: draft, artifacts, versions | `Hydrate` (the effect on the draft's id), `updateActiveContent`, `addFile`, `removeFile`, `swapRuntime`, `SaveDraft`, `Publish`, `presignAndUpload`, `onRegister`, their server sides, `ShowTab` |
| `Settings` | the value, its query, the form, saves of this and other users | `Open`, `SettingRead`, `SettingArrives` (seeds the form as each kind does), `TypeValue`, `Save`, `SaveLands`, `SaveEnds`, `OtherSaves` |
| `Forms` | page, dialog, inputs, answer, error, submissions | `Fill`, `Submit`, `ServerTakes`, `Succeed`, `Fail`, `Refuse`, `OpenDialog`, `CancelDialog`, `Dismiss`, `Mount`, `Leave`; the sets `Closing`, `Clearing`, `Showing`, `Dropping`, ... say what each of the sixteen does |
| `Deploying` | form, followed deployment; server: deployments | `onDeploy`, `onRollback`, `Carries`, `Answered`, `PollDeployment`, `VersionsFetched` |
| `Recents` | the stored text, a parsed snapshot and a Builds tab per window | `Registered` (`addCached`), `BuildsTab`, `setVid`, `PollBuild` |
| `Uploads`, `Bucket` | card, presign, uploads; prefix, listing, removals, objects | `setKey`, `onDrop`, `Presign`, `PresignSucceeds`, `upload`; `ObjectsFetched`, `remove`, `Removes` |
| `PayloadForm` | the transformation, JSON text and mode | `AddField`, `update`, `RemoveRow`, `AddCondition`, `ReduceBuilder`, `applyJson` over `splitTopAnd`, `parseFilter` and `serialiseFilter`; a part has the form of its text, the backslashes or parentheses around it (`layers`), and the parentheses that its text leaves open (`depth`) |
| `Lists` | page, filters, cached pages; server: number of rows | `Pagination`, `setFilters`, `FetchPage`, `Forgotten`, `GoTo`, `RowAdded` |

`MC_Pages` composes them: pages share nothing in the browser but the query cache, so a behaviour
follows one page (`followed`) while the others rest, and one run answers for all of them without the
product of their states.

## 4. Runs

| Run | Bounds | Shows |
|---|---|---|
| `Deployments_serial` | 1 handler, 2 versions, 3 rows, 2 faults (crash, disconnect) | serial requests: one active deployment; an acknowledged one serves; a job that succeeded belongs to a complete version; the table implements `Releases`; while nothing fails, builds end, deployments leave `deploying` and the status shown is the newest one's |
| `Deployments_overlap` | 2 handlers, 2 versions, 3 rows, 1 fault of any kind | what survives overlap: rows name built versions and never change them |
| `Deployments_refailed` | 1 handler | counterexample: a rollback activates a deployment the dataplane refused |
| `CDC_serial` | 1 handler, 2 tables, 3 listeners, 1 change, 2 faults (crash, connection) | a listener exists between requests exactly if a subscription does; cancelled listeners end; kept ones listen |
| `CDC_single` | 2 handlers, 1 table, 3 listeners, 1 change, 2 faults of any kind | a listener at work is the Manager's or about to be cancelled; no change is routed twice but by listeners that overlap because a subscribe came between the two halves of a stop |
| `CDC_race` | 2 handlers, 2 tables | counterexample: unsubscribe stops the listener of a subscribe that ended in between |
| `Bus_fair` | 1 job, 1 trigger, 1 message that is not JSON, 2 deliveries, 2 faults of any kind | acknowledged implies served; runs are bounded by deliveries; accepted leads to served if no crash |
| `Realtime` | 3 lines, 2 subscriptions, 2 events, 2 changes, 1 lost connection, 1 click | without an overtaken close there is one socket or timer, no event twice, and a true status; each overtaken close leaks one at most; what is asked for is subscribed in the end, whatever was overtaken |
| `Session` | 1 JWT with a staff role, 1 API key, 2 requests, 1 retry, 1 lost answer, 1 reload | a valid session ends by logging out, a reload or the late answer to a request older than it; an expired one that a query of the typed client uses ends, unless its page is left or loaded again; redirects end |
| `Pages` | per page: 2 operations, 2 edits or fillings, 1 or 2 writes of others, 2 windows, 3 keys, 4 rows, filters of 2 conditions, ... (`Pages.cfg`) | what is typed in the editor survives; what is published is stored under its key; a stale draft, a repeated action, an overwritten setting and a stale page have the reasons their properties name; the live card is the last operation; uploads go where they were signed for; local lists are the newest; editing one condition leaves the others that the form can write as it read them; no row is skipped |
| `Publishing_overwrite` | 1 version, 2 operations | counterexample: publishing a version again replaces its artifact |
| `Bucket_delete` | 3 keys, one with a `#` | counterexample: another object than the one confirmed is deleted |

**Why the bounds are enough.**  Two handlers are every pair of overlapping requests; the hazards of
this code are races of two.  Three rows are the smallest table in which a rollback has an older row
to skip.  Two tables let an unsubscribe and a subscribe touch different ones while sharing the
listener; three listeners are a stopped one, its successor, and one more after a restart; one change is
enough for what is asked of a change, that it is not routed twice.  Two deliveries give every bus message
a first and a last attempt.  Two faults let a second one hit the recovery from the first.  Three lines are
an overtaken socket, its successor, and the line the old one opens again; two subscriptions and two
changes are a change and one back.  Two requests are a retry beside a log-in; a JWT and a key are a session
and the next one, with a role and without.  Two conditions are one that is edited and one that may suffer,
in either order.  On a page two operations of one name are every overlap of an answer with what comes
after it, because the button of a pending operation is disabled; a third would repeat the first.  Three
versions and a limit of two are the smallest local
list that drops one; four rows in pages of two move a row over the end of a page, twice.

Every safety property that a passing run checks is a theorem for all bounds (section 6), so these runs
mostly guard the statements, and the liveness.

Deadlock is not checked: with every bound used up and no client that sends requests the systems
rest, and resting is legal.

**Fairness** is weak everywhere.  `Deployments`: handler steps and build goroutines.  `CDCManager`:
handler and listener steps and `Bootstrap`.  `TriggerBus`: deliveries, deadlines, handlers, jobs and
`Restart`.  This rests on the Go scheduler, on statements that return, on the 30 s timeout of the
dataplane client, and, for restarts, on a supervisor.  `RealtimeClient`: a socket that connects opens
or closes, close events and timers fire.  `Session`: redirects are rendered, requests are answered,
back-offs end; that a query is observed to its end is assumed by the property that needs it, not by
fairness.  Nothing is assumed of clients, users, tenants, provisioning, or faults; `Pages` has no
liveness and no fairness.

## 5. Divergences the runs show

| Run | The code | The promise |
|---|---|---|
| `Deployments_refailed` | `store.go:665` makes the second newest row active whatever its status | `store.go:620` "re-activates the previous one" |
| `CDC_race` | `main.go:2367` lists and stops in two steps outside the mutex | `listener.go:31` on when listeners exist |
| `Publishing_overwrite` | `EditorTab.tsx:195` uploads before the registration is refused, under a key made from the version alone (`main.go:813`) | `openapi.yaml:663` "immutable function version" |
| `Bucket_delete` | `StorageBrowserPage.tsx:273` builds the path with `encodeURI`, which keeps `#` and `?` | the dialog of `StorageBrowserPage.tsx:367`, "Delete ${obj.key}?" |

Met while modelling the control plane, without a run of their own:

- `main.go:1078` answers 400 after the row was marked `deploying` and leaves it, against the comment at
  `main.go:1066`; `DeploymentsResolve` speaks of provisioned projects.
- `listener.go:139` drops and creates the row trigger in two statements, against "idempotent" at
  `listener.go:98`: a second subscription that fails in between takes the trigger of the first
  (`SubscribedTablesNotify`, a theorem where no statement fails).
- Deliveries are counted while copies wait in memory; a crash after the fifth loses the job, against
  `docs/MVP_RUNBOOK.md:22`.  Without NATS any crash loses it (`main.go:1202`).
- `bus.go:156` decodes what was dead-lettered for not decoding, so nothing is ever listed, against
  `docs/API.md:117`.
- Two overlapping deploys write `last_deployment_status` in the order of the dataplane's answers, so the
  status of the older one can stay (`LastStatusIsLatest` fails with two handlers).
- Two overlapping `InsertDeployment` transactions both commit an active row (`SingleActive` fails with two
  handlers); the newest serves.
- A build goroutine that dies with the process leaves its version `queued` for ever.
- An unsubscribe drops the error of its list, and a failing list looks empty and stops the listener
  (`ListenerMatchesSubscriptions` fails with a failing statement).
- `Stop` deletes the entry, unlocks and cancels only then (`listener.go:82-84`), against `listener.go:31`
  "Manager keeps one listener per project": a subscribe in between starts a second listener beside one that
  nobody has cancelled yet, and both route a change that is made then.  `OneListener` allows a listener that is
  about to be cancelled, and `RoutedOnce` excepts the pairs in `overtaken`; each fails without that.
- The row event for the subscribers of SQL queries (`listener.go:206`) is sent before the lookup and takes no
  context either, so a stopped listener still sends it; it is not modelled.
- Row changes committed before the listener has executed `LISTEN`, or while it reconnects, reach nobody.
- The reset of the back-off at `listener.go:171` is reached only if `listen` returns no error, which it
  never does, so after a few losses every reconnect waits 32 seconds.
- An asynchronous job may run up to five times: the first deadline is 500 ms, an invocation up to 30 s.

And in the web UI:

- The poll of a deployment never stops, although the comment at `DeploymentsTab.tsx:75` says "until it
  reaches a terminal state"; the rows of the history beside it are not polled.
- Mutations that leave pages as they were are listed in `Gaps` of `ServerCache`: for instance
  `useRollback` does not invalidate the list of functions, which shows the last status.
- A late 401 clears the session that began after its request (`outlived` in `Session`).
- Neither upload of a function's artifact (`EditorTab.tsx:178`, `VersionsTab.tsx:42`) refreshes the list of
  the storage page, which shows the bucket they write to (`Gaps`).
- Overtaken close events leak a socket or a timer of a hook (`overtaken` in `RealtimeClient`).
- The Entrypoint tab can be saved on its defaults after its query has failed, and the retention card
  and the allowlist before theirs has loaded (`SavesUnloaded` in `Settings`).
- "Add condition" never adds a row, because `serialiseFilter` drops rows without a field; the
  parentheses of `IN` are wrapped once more at each edit.
- The filter is read without regard to quotes (`PayloadDSLBuilder.tsx:333-341`): a text that opens a
  parenthesis, `status = 'open (' AND amount = 3`, swallows the conditions behind it, and one with an AND
  becomes two parts.  Quote marks get a backslash at each edit (357), which nothing takes away (323-326),
  though the placeholder of line 220 suggests to type them; quoted digits and the quoted words true, false
  and null lose their quotes (355-356), and unquoted names get some.  `OtherClausesKept` excepts these parts, and
  what an open parenthesis swallows; without any one of these exceptions it fails, in filters of two or three
  conditions.
- The filters of the list of functions look only at the page that was fetched, and the page is not
  reset when they change.

## 6. Proofs

All theorems hold for all sets of handlers, versions, tables, jobs, lines, files, requests and for all
bounds; the assumptions are the named `ASSUME`s of the modules.  The bounds are natural numbers; kinds of
messages are disjoint; placeholders are no members of the sets they stand beside; there is a version and a
line; what is counted (`Lines`, `Saves`, `PubOps`) is finite; a page of a list has a row at least, and its first
filter passes what any other does; what is typed in the JSON tab of the payload builder is a filter of the
length that the bound allows.  TLC evaluates each of them in a run.

**Deployments.**  `TypeInv` adds to the types that a handler past `BeginInsert` owns a row.
`DeployedAreBuilt` is not inductive: a handler carries its version over several steps.  `RowInv` adds that
handlers deploy versions that are complete (and complete is final), that a row has one owner until it is
committed, and that rows appear once; `OnlyBuiltVersionsAreDeployed` and `ReleasesNeverChange` follow.
`SucceededJobs` needs that no statement fails, because `simulateBuild` drops errors: then the goroutine
reports a job only after it has completed the version.  `SerialInv`, for one request at a time, says which
rows are active at every point of the handler; with it `SerialSingleActive`, `SerialActivatedIsServed`
and `SerialKeepsPromise`: every step is a step of `Releases` or stutters, the
commit being `Publish`, marking being `Withdraw` or `Confirm`, and a rollback `Restore`.  `SerialLastStatus`
adds `RecordInv`: while nothing has failed, what a handler wrote to its row is still there, and the newest
settled row is recorded with the function or its handler is about to record it.

**CDCManager.**  `ListenerInv` makes `OneListener` and `RoutedOnce` inductive: two listeners that nobody has
cancelled overlap (`UncancelledOverlap`), which holds when one is started because `overtaken` then takes
the pairs; and what a listener has routed, or has found subscriptions for, no other claims, and who else
has it queued is cancelled, unless the two overlap (`ClaimsAreExclusive`); known changes are older than
the counter.  `NotifyInv` follows a subscription through the handler that installs its trigger
again, and needs that no statement fails and the API does not crash.  `MatchInv` says what `listener`
must be at every point of a single handler: `SerialListenerMatches`.

**TriggerBus.**  `SettledInv` adds that a consumer about to acknowledge has served its message:
`AcknowledgedWasServed`.  For `RunsBounded` counting copies is avoided by their order: `RunsInv` says that
attempts of a job grow along the inbox (`AttemptsGrow`), that every waiting copy has a higher attempt than
there were runs (`WaitingIsLater`), and that the copy that was taken lies between (`TakenIsLater`);
an invocation then uses up one attempt.

**RealtimeClient.**  `ClientInv` holds through every callback of an old socket.  `RefsInv` says what the refs
point to, so that a run of the effect finds something to stop; with it `LeakInv` counts: busy lines are at
most the one asked for and one for each overtaken close, closing lines included while the hook is mounted,
because their close event opens them again (`LeaksAreExplained`).  `EventsAreShownOnce` needs that an inbox is
ordered, belongs to an open socket (`InboxInv`), and that until a close is overtaken all of it is newer than
what is shown (`EventInv`); `StatusesAreTrue` that a busy line is then subscribed to what the page asks for
(`StatusInv`).

**Session.**  `RequestsInv` says that a request that has not outlived the session it was sent in carries the
token of that session, or is a log-in and there is none, because the log-in pages are shown to no session.
So an answer that ends a session the server accepts belongs to an older request: `ValidSessionsAreKept`.
`SessionTypeCorrect` says too that a page that is submitting waits for a log-in that is under way.

**Publishing.**  `TabsTyped` types the two tabs and says that what is saved is a revision.
`PublishedIsItsSource` needs `SourcesInv`: a publication carries its own version as its key, and while it
is `stored` its source is among those stored for that version, which only grow.  `StaleDraftsWereReopened`
needs `DraftsInv`: drafts are numbered, data that nothing makes doubtful are as new as every save this
browser has heard of (`FreshData`), so is an answer on its way that is not late (`FreshRead`), and an entry
that is fetched again is marked (`RefetchesInvalid`).  `EditsSurvive` needs no invariant: only `Hydrate`
writes an editor by itself, and never one that is hydrated.  The types (`PublishingTypeCorrect`) bound the
number of the draft by the saves that were sent (`CountInv`), and need that the editor that shows a draft has
an active file (`ShownInv`).

**Deploying, Forms, Settings.**  `LiveIsLast` needs that requests of the page that are under way
together know of each other (`FlightsOverlap`), and that one carried out comes after every answer heard
unless it ran beside it (`FlightsAreLater`); `DuplicatesHaveReasons` that what a form that clears itself still
holds is under way or has failed (`TypedIsOpen`); `AnswersMatch` that only the last submission is under way for
the form that is mounted (`AnswerInv`).  `OverwritesHaveReasons` needs `OverwriteInv`: every write of the value
has a number of its own, a form with an effect shows the value the browser has, and what was under way when
the button was pressed was sent by a form that had shown it, or by a row.  Their type invariants are theorems
too, with the button that is disabled as the reason for what they say of counts.

**Uploads, Bucket, Recents, Lists.**  `UploadsGoWhereSigned` needs that a presigned answer, and one that is
awaited, are for the key in the input unless the user has typed since.  `PlainKeysAreDeleted` is the converse
of the finding about the objects card: where the path names the whole key, only what was confirmed goes.
`RecentsAreNewest` needs that a snapshot has the items of its text and that the text is the newest of all that
was ever added, so that adding to it, whichever window does, gives the newest again (lemmas on removing the
first occurrence and on prefixes).  `NothingSkipped` follows from what a page is: the answer to a fetch made
when there were so many rows, and rows only grow; the arithmetic is for any page size.

**ServerCache.**  `CacheInv`: a success that is not overtaken, of a mutation that refreshes the query, is in
what a fetch will bring (`Reflects`) and in the data that is shown, unless a fetch is under way or has failed.
The tables are facts of their own: for every query the mutations that write what it shows are listed with the
reason why it is refreshed, polled, or in `Gaps` (`QueriesAreCovered`).

**PayloadForm.**  A filter is read into rows and written again by `Only`, a recursive function.  What it keeps of
a sequence (`OnlyKeeps`: everything in the set, at places of its own, and no more than there was) is proved by
induction over the length; the induction theorems of the library take an operator and no prover here can
use them so, but the theorem on least elements takes a set, from which `NatSetInduction` follows.  The
depth of the parentheses is a difference of two cardinalities, so up to the first text that leaves one
open every part stands on its own, without an induction (`PartsAreClauses`).  Then reading
gives back each plain part there (`ParsedAreRows`), writing gives back each row that was read from one
(`WrittenAreClauses`), an edit changes one row, or makes two of it when an AND is typed (`RowsAfterEdit`), and
`EditsKeepTheOthers` puts them together.  `PayloadTypeCorrect` rests on the same lemmas: no edit writes a part
that the reading does not know.

**The pages together.**  `PagesImplementEach`: a behaviour of `MC_Pages` is a behaviour of every page, so each
of the theorems above is one about the run; `PagesTypeCorrect` collects the types.

**Model-checked only.**  Liveness (`BuildsComplete`, `DeploymentsResolve`, `CancelledEnd`, `ListenersListen`,
`AcceptedAreServed`, `StaysSubscribed`, `ExpiredSessionsEnd`, `RedirectsEnd`), which needs fairness and
`ENABLED`, and the four counterexamples.  Of the pages only safety is checked: that a page is fetched again
in the end is left to the library.

## 7. Not modelled

What the plan names is not written yet.  Drafts on the server, integrations, GraphQL, logs, metrics and
localisation are rendering and I/O without a state machine of their own; migrations run once at start-up,
and their constraints are used in the models of the tables.  Of the web UI, markup, styles, widgets, charts
and the flame graph are left out, and read-only pages are in `ServerCache` by their queries alone.  The
SDK is typed HTTP calls without state.  Which user an entry of the query cache belongs to is not modelled,
so that logging out leaves the cache (`Topbar.tsx:180`) is a hazard without a property.

Hazards of parts without a model that the list of `PROJECT.json` leaves out: the rate limiter keeps the
first rate it was made with (`projectquota.go:41`); the latest version of a package is read and written in
two statements (`marketplace.go:84`); the walk through the ring buffer of spans after it has wrapped
(`telemetry/store.go:78`); a deleted object leaves its row (`main.go:1481`).

Two simplifications of the pages that a reader should know: a read and a write of `localStorage` by one
handler are one step, although nothing locks it between windows (`localCache.ts:67-72`); and of the texts
of a filter those with line breaks, which are no row, count as `odd`.  In `TriggerBus` a message that was
dead-lettered into the stream counts as served, and the dropped errors of senders are excused.

Time is only an order: lengths of timeouts, back-offs and poll intervals do not appear, only that they
may pass.
