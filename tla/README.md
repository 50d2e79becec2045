# Statiko, verified

TLA+ models of the Statiko agent: the Go program (`src/`) that runs on every
node of a cluster of web servers, keeps the list of sites in a store shared by
the nodes, and makes its own nginx serve what the list says. The modules model
the program's control (which goroutine does what in which order, and what can
happen in between); data is abstracted to what the properties tell apart.

Line numbers below refer to `src/`.

## 1. The system

| Part | State it keeps | Operations | Interacts with |
|---|---|---|---|
| Sync queue, `sync/` | `semaphore`, `isWaiting` (channels of capacity 1), `syncError`, `StartupComplete` | `QueueRun`, `Run`, `runner` | called by the API handlers, the monitors, the store's callback, `main`; calls the app manager, nginx, the API server |
| State manager, `state/state.go` | `siteHealth`, `RefreshHealth`/`RefreshCerts` channels, `updated` | `ReplaceState`, `AddSite`, `UpdateSite`, `DeleteSite`, `SetDHParams`, secrets, certificates, `SetNodeHealth` | the store, under the store's lock |
| etcd store, `state/store-etcd.go` | `state` (in memory), `lastRevisionPut`, `clusterMemberLease` | `AcquireLock`, `ReleaseLock`, `WriteState`, `ReadState`, two watchers, `StoreNodeHealth`, `setIfDifferent` | etcd; calls `QueueRun` back when the state was replaced |
| File store, `state/store-file.go` | `state` | `WriteState`, `ReadState`, no-op locks | a file |
| Worker controllers, `worker/controller-*.go` | jobs, waiters, leadership | `AddJob`, `CompleteJob`, `WaitForJob`, leader election | etcd or channels; the worker's processor |
| Worker's monitors, `worker/*.go` | notification flags, tickers | DH parameters, certificates' expiry, health | state manager, jobs, sync queue |
| Certificates, `certificates/` | – (secrets in the state) | `GetCertificate`, ACME, self-signed, Key Vault | state manager, jobs |
| App manager, `appmanager/` | the file system | `SyncState`, staging and activation of apps, folders | file storage, state's site health |
| nginx, `webserver/nginx.go` | configuration files | desired/existing configuration, `SyncConfiguration`, restart | the state, the file system |
| Status check, `statuscheck/` | `healthCache`, its age, a semaphore | health of every site and app, tested or from the cache | the sync queue (`IsRunning`), the state manager |
| API server, `api/server.go` | `srv`, `running`, `restartCh` | `Start`, `Restart` | restarted by `runner` and SIGUSR1 |
| API routes, `api/routes/` | – | sites, deploy, certificates, state, status | state manager, sync queue |
| File storage, `fs/` | files or blobs with metadata | `Get`, `Set`, `Delete`, metadata | disk, S3, Azure |
| Utilities, configuration, notifications | – | | |

`main.go` (27-64) starts the parts in order: file storage, notifications, the
worker (whose jobs wait for `StartupComplete`), one synchronous `sync.Run`,
nginx, the API server.

### What makes each part correct

* Sync queue: one sync at a time; every request is followed by a sync that
  starts later; a node at rest without an error has the files of what was last
  requested, and serves them unless a sync has failed after it changed some.
* State manager and etcd store: of two operations past the lock one at most has
  a lease; a call that returns nil has stored its change; nodes at rest agree
  with etcd; a node that runs is registered.
* File store: a change that was acknowledged survives a restart.
* Worker controllers: at most one leader works, and some node does; an answer
  means that the job was processed; there is an answer.
* Monitors and certificates: what expires is renewed or announced in time; a
  site gets the certificate it asks for and keeps it.
* Node registration and status check: the cluster ends with the health of each
  node as it is after its last sync, and with none of a node that is gone.
* File storage and staging: the storage holds what the answers have told; a node
  stages only whole bundles, those that were uploaded.
* App manager and nginx: after a sync that ended well the disk and nginx have
  what the list of sites says; a site is reported unhealthy for its own faults.
* API server: a restart ends, and the server runs again after it, with the
  certificate that is on the disk.
* API routes: domains and aliases are unique; a site's certificate exists;
  concurrent changes of a site are not lost.

### What is hard here

* Every API handler, three monitors and two watchers call `QueueRun`; calls are
  merged, dropped, and attempted by goroutines that outlive the call.
* The state is one pointer per process, replaced by two watchers while handlers
  change the object behind it. The cluster's lock excludes other operations,
  not the watchers; its lease is not renewed.
* Every call of etcd may fail, or be made although its answer is lost; leases
  expire; processes stop between any two calls.
* A sync restarts the API server and waits for its loop, which waits for the
  requests under way, which wait for a sync: a timeout ends the circle.
* The three storages test and write in different orders; a bundle in the cache
  and a staged folder are never looked into again.
* Jobs are handed to a leader through keys of etcd and waited for with watches
  that may be registered too late.

`PROJECT.json` lists every hazard at the line where it bites, with the
properties that would show it.

## 2. Modules

| Module | Models | Proofs |
|---|---|---|
| `SyncRequests` | abstract: every request is followed by an attempt that starts later | |
| `SyncQueue` | `sync/run.go`, `main.go` up to the API | `ApiServerProofs` |
| `ApiServer` | extends `SyncQueue`: `api/server.go`, the node's certificate, requests and signals | `ApiServerProofs` |
| `ClusterLock` | abstract: the lock has one owner at most, until it leaves or its lease ends | |
| `EtcdLock` | the cluster's lock, `store-etcd.go` 246-324 | `JobsEtcdProofs` |
| `EtcdPut` | `setIfDifferent`, `store-etcd.go` 611-647 | `NodeHealthProofs` |
| `NodeHealth` | extends `EtcdPut`: `StoreNodeHealth`, the health worker, the status check, syncs | `NodeHealthProofs` |
| `EtcdState` | operations of the manager over the store: `WriteState`, `ReadState`, both watchers | `EtcdStateProofs` |
| `JobsEtcd` | `worker/controller-etcd.go`: the leader and the jobs; a client of a job | `JobsEtcdProofs` |
| `Sites` | the slice of sites, as handlers change it and a sync reads it | |
| `Storage` | the operations of the three storages of `fs/` on one name | |
| `Bundles` | extends `Storage`: `api/routes/app.go` and `StageApp`, from upload to disk | `BundlesProofs` |
| `AppManager` | extends `Sites`: `SyncState` of `appmanager.go` | |
| `Nginx` | extends `AppManager`: `SyncConfiguration` of `nginx.go`, the reload | |
| `Deploy` | extends `Nginx`: the composition, with requests, crashes and restarts | `DeployProofs` |
| `FileStore` | `state/store-file.go` and the operations of `state.go` over it | |
| `Routes` | extends `FileStore`: the handlers of `api/routes` that change the state, the worker of the DH parameters | `RoutesProofs` |
| `JobsFile` | `worker/controller-file.go`: the jobs of a node that runs alone | |
| `Certificates` | extends `JobsFile`: `GetCertificate` of `certificates/`, as a sync calls it | |
| `CertMonitors` | extends `Certificates`: the composition with `processor.go`, `cert-monitor.go`, `node-cert-monitor.go`, requests and time | `CertMonitorsProofs` |

`MC*` modules give the constants values for TLC; each `.cfg` is one run. An
operator whose name has a suffix (`Take_OffByOne`) is a mutant: the form the
definition below it would have with a plausible bug. `PROJECT.json` says which
property finds it. `TypeOK`, `ApiTypeOK` and `NodeTypeOK` say which values the
variables take; what of them a proof needs is proved with it (`TypeCorrect`,
`ServerTypes`, `HealthTypes`), the runs are kept for the other properties.

Runs that check one specification under several environments have a CONSTANT
`Scenarios`: a set of records that say which requests come, what may fail and
how often. A behaviour picks one of them at the start.

### Sync queue and API server (`SyncQueue`, `SyncRequests`, `ApiServer`)

The variables are the channels (`semaphore`, `isWaiting`: the number of
elements), `syncError`, `startupComplete`, and for each caller the place in
`QueueRun` and in `runner`, which is a goroutine of its own. One action per
channel operation and per stage of `runner`; every stage may fail. `version`,
`requested`, `attempted`, `written` (the files) and `applied` (what the web
server has loaded) relate what was asked and what was done. A sync that fails
has changed files or none; `unloaded` says that one has failed after it changed
some, since the web server last loaded its files: the next sync finds nothing to
change, does not reload, and clears the error (section 4). `QuietMeansApplied`
promises the files of the last request at rest, and that they are served unless
`unloaded`. `SyncRequests` forgets the channels: a sync is owed or it is not.

`ApiServer` adds the loop of `Start` (`loop`), one goroutine per server
(`server`), `srv` and `running`, which it sets, and the two files of the node's
certificate, which a sync writes one after the other (`misc`); a write that
fails leaves a part of the file (`Tear`). `Restart` is a rendezvous: the sender,
a sync or the goroutine that receives SIGUSR1, takes its step when the loop
receives; each signal then starts a goroutine that calls `QueueRun` (`resyncs`). `SpawnServer` may be followed by the next restart before the
new server has set `s.srv`, as in the code. A request is handled by a server
(`request`), queues a sync and is answered when `QueueRun` returns;
`DrainTimeout` is the 15 seconds of the restart, after which the process
panics; `Terminate` is a signal that stops it, whose five seconds lead to the
same state. `cause` tells why a process has ended; `overlapped` and `lost` mark
the behaviours in which a restart met another one, or a sync failed after it
had changed the certificate.

Run `server`, four environments. `Merged`: the callback of the store and a
monitor queue syncs, with the foreground sync of `main`, while the state changes
once. `Restarts`: the certificate is renewed once, two requests and a signal
come. `Signals`: two signals, whose syncs may meet. `Stopped`: a signal and the
one that ends the process. One change of the state is enough for a sync to serve
the old one while the new one is requested. Two callers are enough for one call to run, one to wait and, with
`Run`, a third party at the semaphore, so that calls are merged and dropped; the
proofs hold for any number. Five servers are never used up in these
environments. The run checks `SyncRequests` as a property. Fairness: a goroutine
that can run does, every call returns, and goroutines blocked on a channel are
served in their order (the Go runtime keeps a queue), hence strong fairness of
`RunAcquire`. The loop, the servers and the goroutine of the signals go on, and
a request whose sync is done ends. The timeout is one of the loop's fair
steps: it may come as soon as a request is under way, which is more than the
code can do. No fairness makes an error, a signal or a request happen.

### Lock, conditional put, registration (`EtcdLock`, `EtcdPut`, `NodeHealth`)

etcd is modelled by what its answers promise: a transaction is atomic, a key
put with a lease ends with it, an error says nothing about whether the
transaction was made. Leases expire at any time.

* `lock`: three processes, one of them patient (no timeout), two attempts
  each instead of 20, three leases. Of two processes past `AcquireLock` at most
  one has a lease that lives (`ExclusiveWhileLive`); the comment "only one node
  at a time" holds no further, because the lease is not renewed. A lock is
  always freed: a process may stop for good wherever it is, only the lease frees
  the lock then, whose expiry is fair because nobody keeps it alive (the only
  fairness the run assumes). `ImplementsLock`: each step is one of `ClusterLock`,
  where a process enters when the lock is free, owns it until it leaves or the
  lease ends, and may be inside without it afterwards.
* `node`: the sync, the health worker and `GET /status?force=1` of one node,
  each of which makes the health (`object`) and stores it. `nodeHealth` is a
  pointer that the manager shares with whoever has not serialized the object
  yet (`current`): `SyncBegins` changes it in place. The health is whether a sync
  runs, which was the last one, and after which one the apps were tested; the
  cache of the status check (`healthCache`, `cacheOf`, `old`) may answer with an
  older test: also after a change of the state by another node, for which the
  watchers do not call `setUpdated` (`updated`), until the cache is old.
  `Grant`, `KeepAlive` and the assignment of the field are three steps, and the
  lease may end between any two of them. `setIfDifferent` is `EtcdPut`, whose
  properties are checked here: `OkMeansStored` says what nil means,
  `RevisionIsOwn` what `lastRevisionPut` relies on. Two environments: one request and the loss of a lease or a call;
  two syncs and the loss of a call. The node may stop anywhere. `KeyIsLeased`
  and `NodeIsForgotten` except a node that has lost a lease: a key put without
  one stays (section 4). `MaxRevision` 12 is never reached. Fairness:
  goroutines go on, tickers tick and the cache gets old, the semaphore of the
  status check is served in order, a lease nobody keeps alive expires, and the
  client notices the end of one it keeps alive. Only changes of the state, the
  losses and the requests are bounded; `HealthIsReported` is about what remains
  when they have ended. It excepts a node whose lease has ended between
  `KeepAlive` and the assignment (`Stuck`, section 4).

### Replicated state (`EtcdState`)

Each node has `mem` (`s.state`), `lastRev` (`lastRevisionPut`, plus one so that
the semaphore value -1 is 0), how far its three watchers have got and what they
are about to install: that of the state's key, that of the secrets and that of
the DH parameters. Each operation has its place between `AcquireLock` and
`ReleaseLock`. Sites and secrets are sets; the DH parameters are one of the
secrets, with a key and a watcher of their own (`Watched`). `WriteState` puts
the keys of the secrets, then that of the parameters, then the state. A node that boots reads or creates
the state without the lock, as `Init` does. A failed acquisition leaves no lock
behind here; that it may is the subject of `EtcdLock`.

An operation is `AddSite`, `UpdateSite`, `DeleteSite`, `ReplaceState`,
`SetSecret`, `SetDHParams` or `DeleteSecret`; a state that replaces another one
brings any secrets and parameters; two sites may have one domain, so that an update
replaces a site by another one. `DeleteSecret` changes nothing in etcd, and a
secret a replaced state does not have stays there too: `dropped` marks these
secrets, which `Converged` excepts, because the nodes do not agree on them.
A put of a secret before that of a state with other sites makes the watchers of
the other nodes read the state that is about to go, and they may install it over
the new one. `mixed` marks these operations, which only a replaced state can be
when operations come in turn; `Converged` and `NoLostUpdate` hold until the
first of them (section 4).

* `state`, four environments. `InTurn`: two nodes boot at once, then three
  operations start one after the other, each when the cluster is at rest, and
  one of them loses its lock or writes slowly; the nodes converge and no
  acknowledged site is lost. It is the strongest promise the code keeps, and it
  ends there (`CalmAssumption`): after an error or a crash the memory of a node
  keeps a change that was never stored, which its next operation writes.
  `Changes`: two operations in turn, of every kind, on two sites of one domain and
  a secret. `Overlap`: two overlapping operations, additions and
  replacements of the state, and one fault anywhere
  (an error, a lost lease, a write slower than the watcher's patience, a crash).
  `Reloading`: a state replaced with parameters of its own, and one error. What
  is left there is `CleanAckIsStored`.
* `state_overlap` (violation): two overlapping operations, no fault.

Two nodes are enough: the parties of every race are the watchers of a node,
its operation, and one writer elsewhere.

### Jobs (`JobsEtcd`)

The leader's key with its history of events, what each node's watch has seen,
`isLeader`, the goroutine that lists and watches jobs, jobs under way, and the
clients in `AddJob` and `WaitForJob`. A watch is registered by a goroutine: at
once (`prompt`) or late, and may end with an error. A watcher of the jobs that
is cancelled goes on with the events of the response it has (`Cancelled`,
`LookAt`), beside the next one.

* `jobs`, three environments. `LostLeader`: two nodes, one client, the leader
  is lost once by its lease or a crash. `SameJob`: two clients, the same job,
  which may fail. `Late`: late watches, one error, failed job or crash.
* `jobs_leader` (violation): late watches and nothing else.

An attempt to become the leader is one step, as is receiving and handling an
event. Fairness: goroutines go on, watches are registered and deliver, jobs
end, a lease that nobody keeps alive expires. `WaitEnds` is claimed only where
nothing fails for good and watches are prompt (`Undisturbed`): a job that fails
is not tried again by the same leader. Late watches together with a lost lease
are too many states and are not checked.

### Deployment (`Sites`, `AppManager`, `Nginx`, `Deploy`)

What one node does with its list. `GetSites` returns a slice, so the sync keeps
its length (`seen`) and reads, site by site, an array the handlers go on
changing; an append to a full array gives the state a new one and leaves the
old one to the sync (`own`). `SiteApp` objects are indices of `loaded`, which
holds the app whose manifest was last stored in them; `AddSite`, `UpdateSite`
(a deploy) and `DeleteSite` are those of `state.go`.

The sync has one step for each site of the loops of `SyncApps` and
`SyncSiteFolders` and for each file of `SyncConfiguration`, which is written,
then tested. Bundles are fetched and extracted by concurrent workers. The disk
has the cache, the staged apps, the folders and links of the sites and the
files of nginx; a file is known by the app whose rules it contains. nginx is
`served`, what it has loaded, and a test that refuses a file with the rules of
a bad manifest or one that was cut short. A failed first sync ends the process
(`Exit`), requests come only after a good one, and a crash may come anywhere
and leaves what was being written cut short.

* `deploy`, four environments: `Requested` (two sites, four requests, nothing
  fails), `Growing` (the list begins empty, so that its array is replaced),
  `Faulty` (two sites that share an app, two requests, two faults or crashes of
  any kind), `Absent` (a bundle is not in the storage, one fault). Whatever has
  happened before, a sync that ends well, with the sites it began with, leaves
  on the disk exactly what the list says (`DiskMatches`, `RulesApplied`,
  `AppsComplete`); nginx serves it unless a sync has ended badly meanwhile
  (`ServedIsCurrent`); a site is rejected for its own rules (`BlameIsFair`).

Abstractions: the loops of `DesiredConfiguration` and `ExistingConfiguration`
and the one over the folders of the apps are one step each. Three workers or
fewer are never a limit with two apps. Elsewhere: what is in a bundle, its hash
and the steps of `StageApp` (`Bundles`), the node's certificate and the restart
of the API server (`ApiServer`). Not modelled: the default app and site, TLS
files' content (getting a certificate may fail), errors of `stat`.

### Bundles (`Storage`, `Bundles`)

`Storage` has what is stored under one name: `file`, the file that has the name
(a number, so that an open file outlives its name), its `data` and the `meta`
under the name. Each operation is a sequence of calls whose order is that of the
storage (`kind`): the local one tests, creates, copies and then writes the
metadata to a second file; S3 tests, then puts both at once; Azure puts the
content on condition that there is none, then the metadata, and deletes the blob
when that fails. Every call may fail, and its answer may be lost. A file that
two uploads write may be a mixture (`Torn`).

`Bundles` adds the handlers (upload, update of the hash, delete) of two clients
and the node that stages the app, as far as it was in the list when the sync
scanned it (`listed`): fetch to the cache, comparison with the hash,
the file with the type, extraction, the folder that is moved up (`aside`), and
the end of `SyncApps`, which removes folders without a site. The signature of a
bundle is treated like its hash: a bundle does not match it, matches it, or has
none. The history variables say what a property may expect: `known` is what the
answers have told of the storage (`Unknown` after errors and concurrent
requests), `damaged` that something was cut short or taken without hash or type,
`calm` that nothing but a sync happens.

* `bundles`: for each storage, a wrong hash that is corrected, with an error or
  a crash; an upload that replaces another one and a removed hash, by two
  clients at once; a site that goes and comes back while folders are moved, with
  two errors or crashes; an archive without files. Two clients are enough for
  the races of the storage (a second file, a shared one), `MaxFiles` is the
  number of uploads.

### Requests (`FileStore`, `Routes`)

A node with the file store, whose `AcquireLock` does nothing. `mem` is what
`s.state` points to; `gone` keeps, of the objects it has pointed to before
(`ReplaceState`), the certificates and parameters, for a `WriteState` that is
still serializing one of them, and `object` tells which one is the state now;
`file` is the state on the disk. Each handler is a record in `at`: its place, its
request, what it has read of the state (`Handler`). The steps are the reads of its tests, one for each name; the operation of the manager, which
reads the list (`Find`) and then changes it (`Store`), since nothing protects
the one from the other; the serialization, the sites before the secrets; the
file; `QueueRun` and the answer. An update keeps the index it has found, which
may be another site's by then, or none's: a panic, which the router answers
with an error. The list is a sequence, and an append is made to what was read;
the array that slices share is the subject of `Sites`.

`may` is the reference: the set of abstract states (a set of sites, the
certificates, the DH parameters) that the answers given so far allow. A request answered with
success has had its effect (`Effect`), one that failed or was cut short has or
has not. `PUT /state` stores whatever it is sent, and a process start whatever is
in the file: `given` collects these states, and the properties say what the
handlers make of them. A site whose certificate is missing, and a name that is
there twice, may come from one of these states only.

* `routes`: `Serial` (three requests one after the other), `AtOnce` (two at
  once), each with an error of the disk or a crash anywhere, from two states;
  `Unchecked` (the same in turn, where the states that are `PUT` lack a certificate
  or have a name twice);
  `Three` (three at once, nothing fails). The requests are chosen so that each
  name can be a domain, an alias and free, and the certificate used, unused and
  absent. `Params` and `ParamsInTurn`: the DH parameters, which requests,
  `ReplaceState` and the worker set. `CheckParams` is the worker's tick: it
  compares the age and generates (minutes later: `Generated`), unless the
  parameters change meanwhile and it notices. `POST /dhparams` queues no sync, so
  with the file store the new parameters reach nginx with the next sync only
  (`mute` in `ChangesAreApplied`). `met` records which kinds of requests were handled at once; each
  property names the smallest set of them that breaks it.

### Certificates (`JobsFile`, `Certificates`, `CertMonitors`)

A node with the file store. `JobsFile` has the map of the controller
(`channels`), the goroutine of each `AddJob` (`worker`) and the place of each
client between `AddJob` and its answer. The clients are the sync, which holds
the semaphore all the while, and the two monitors. `Certificates` follows one
sync from name to name: the certificate of the type the site wants is looked
up in `secret` (`state.Secrets`), a job is added and waited for when there is
none, and the files (`disk`) are written; a site whose imported certificate the
state does not have is skipped before its folder is expected, so that the same
sync removes the folder and the certificate (`skipped`, `RemoveFolders`).
`CertMonitors` adds what the jobs do,
the monitors with `refresh` (`RefreshCerts`) and `sent`
(`certMonitorNotifications`), requests, days, crashes.

A certificate is the number of days it has left. Three days stand for the life
of a certificate and two for the thresholds (`SelfSignedMinDays`,
`ACMEMinDays`), two checks for the nine of `certMonitorChecks`; what matters is
that the monitors begin to renew before a certificate expires and the sync only
after.

* `certs`, six environments, of the node, one site or both: `Acme` (a site
  without a certificate asks for an ACME one and may change its mind; no ticks),
  `Expired` (node and site start with expired certificates), `Renewal` and
  `OfNode` (days pass), `Imported` (an imported certificate expires, is replaced
  or is lost with a state that is replaced), `Replaced` (the state is replaced by one without secrets). A job
  may fail or the process crash, once. At most six jobs are added between two
  starts (`MaxCalls`). The bound is not reached while a property waits for a
  job: a behaviour that stopped there would violate it.
* `certs_wait` (violation): `Replaced` alone.

Fairness: goroutines go on, jobs end, tickers tick (in `Acme` and `Expired`
there is no tick: the trigger alone has to do). The monitor polls the semaphore
every two seconds; that it finds it free some time is strong fairness of
`NoSync`, which the code does not force but syncs that end do. The properties
except a job that failed, or that was added while under way, since nobody is
answered then: that is the finding.

Not modelled here: certificates of Key Vault, aliases, errors of the store, a
concurrent access to the controller's map, which Go may turn into a panic.

## 3. What is proved

TLAPS proves these for every value of the constants; the runs check the same
definitions on small instances, and TLC was used to find each invariant first.

* `ApiServerProofs`, first part: the queue. `SyncInv` relates the channels to the places of the
  callers: the semaphore is full exactly when one goroutine is between acquire
  and release, `isWaiting` exactly when one caller waits, and a request not
  attempted yet is owed. Neither `OneRunner` nor `NoRequestLost` is inductive
  alone, since the next acquire or drop depends on these contents. `ProgressInv`
  adds what each stage of `runner` knows about `attempted`, `written`, `applied`
  and `unloaded`, for `QuietMeansApplied`. `Implementation` maps each step to one of
  `SyncRequests` or a stutter. Assumption: `Main` is no caller.
* `JobsEtcdProofs`, last part: the lock. `LockInv` is the types, `LeasesInv`
  (leases that two processes hold are different and were granted) and
  `LiveOwnerHasKey`, which is inductive with them; `ExclusiveWhileLive` follows
  because the key has one value. `LockImplementation` maps each step to one of
  `ClusterLock` or a stutter: an answer that was lost is a lock held for nobody,
  and a process that ends leaves with its key in place.
* `NodeHealthProofs`, first part: a key with any writers. `PutInv` is the types, `OkMeansStored` and what a caller
  knows after its first transaction, in terms of `seen`, the calls whose value
  the key has had since they began. `DurableWriteIsMade` drops the proviso of
  the lease under the assumption `~Leased`, which is the case for the state,
  the secrets and the DH parameters. `RevisionInv` adds that the revisions in
  answers are bounded by the key's, for `RevisionIsOwn`.
* `ApiServerProofs`, second part: the process. `Composition`: every step of `ApiServer` is one of
  `SyncQueue` or a stutter, so that what is proved of the queue holds in the
  process, `SyncRequests` among it (`OneRunnerInProcess`,
  `NoRequestLostInProcess`, `QuietInProcess`, `ImplementationInProcess`).
  `RestartIsSafeAlways`
  needs three facts. `PortInv`: unless restarts have overlapped, every server
  but the last one was shut down and has given its port back before the next
  one can listen; `s.srv` is the last one while the loop selects. `FilesInv`: the
  two files differ only while a runner is between them or when one was cut short
  (`lost`), which uses that one sync runs at a time. `CauseInv`: a process that
  has a cause has ended. `CertIsServedAlways` adds `LastInv` (the server that
  serves while the loop selects is the last one and was not shut down) and
  `LoadedInv`: when it has not loaded the certificate on the disk, some sync
  that has changed it has its restart still before it.
* `NodeHealthProofs`, second part: the node. `NodeComposition`: a step of the
  node is one of `EtcdPut` or a stutter, from `HealthTypes`, which says where
  each goroutine is in its call; so the properties of the key hold of the
  node (`NodeIsStored`, `NodeRevisions`). Their hypothesis `KeyOfNode` says that
  the key has a lease, the three goroutines are its writers and health is what
  they write; TLC evaluates it in `MCNodeHealth`. `LeaseInv`: as long as no lease was
  lost, leases that are kept alive live, the field holds one from the check of
  `StoreNodeHealth` on, and so does the call that puts the key; `KeyIsLeased`
  follows, for any number of syncs, requests and lost calls.
* `EtcdStateProofs`. `CleanAckIsStored` needs no assumption on faults or
  overlap. `CleanInv`: an operation that is still clean has the lock and nobody
  writes beside it (`CleanOp`), so from the change to the put its site is where
  the next step takes it from (`Holds`): nothing the watchers of its node have
  still to install could take it away. `Converged` and `NoLostUpdate` are
  about operations one after the other. `CalmInv` says that the cluster is
  `Fresh` (nodes start, nothing was stored) or `Running`: each node whose memory
  is not what etcd holds has an event with that state before it (`Informed`,
  `Equipped`), which its test of the revision will not skip; and the operation
  under way has changed the newest state (`OpInv`). A watcher of keys that has
  read a state (`reload`) has read the newest one, or the one the operation under
  way is about to replace by one with the same sites, until an operation is
  `mixed`; from then on the invariant promises nothing. Assumed:
  `CalmAssumption`, that such a scenario has no error and no crash. TLC finds both
  properties violated with either, and without the exception of `mixed`. `LockIsClusterLock`: the lock this module models with
  one variable is a `ClusterLock` too (`TakesClusterLock`, proved and in no
  run): what goes wrong in `state_overlap` goes wrong although the lock keeps
  every promise that the one over etcd was shown to keep there.
* `JobsEtcdProofs`, first part: the jobs, for late watches too. `BelievesInv`: what makes a node
  believe that it leads is the last event it has seen of the key. `WaitInv`: as
  long as a client waits for a job that was not processed, its key exists, no
  worker is about to delete it and no deletion of it is among the events still
  to come, although other clients may add the same job and two leaders may
  process it.
* `CertMonitorsProofs`. `JobsInv`: as long as no job was added while it was under
  way and none has failed, the goroutine that processes a job is the one whose
  channel the map has, it has looked up its own channel or has still to, and the
  closed channels are those of the goroutines that are done. So who waits on a
  channel has a goroutine that will close it (`JobsAreAnswered`), though the sync
  and both monitors change the map without a lock and may crash.
* `BundlesProofs`, for each of the three storages. `WholeInv` says, for each stage
  of a sync, which of the cache, the file with the type, the staged folder and
  the folder moved aside are there, and that they are whole; it needs nothing of
  the storage, because what is cut short is `damaged`. `StoryInv` is what a
  request knows at each of its places if no other one was concurrent with it
  (`Solo`): it begins with a storage as `known` tells, and leaves one as its
  answer will tell. `Overlap` says that of two requests under way each is in
  `during` of the other, so that no answer tells more than it may. Uploads to
  Azure are the exception, since the put has a condition: of any number at once
  one has put its blob (`Uploads`). `CalmInv` follows a sync that nothing
  disturbs from the storage to the folder, from `StoryInv` and `WholeInv`. The
  assumptions say that "nothing", "truncated" and "a part" are no contents and
  which requests a scenario may have.
* `RoutesProofs`, the four properties of the run, for any number of requests
  and of handlers at once. Each holds under the proviso about `met` that it
  names, and so does its invariant: `MetInv` says that what is handled at once
  has met. `CertInv` is what a handler has found out (`CertKnown`): the
  certificate of its site is there from the test to the change; of the list it
  has read and of the data it is about to write, each site has its certificate
  or is one of those a state from outside has brought without (`Backed`), because
  imports only add and a removal is alone; and no handler reads an object that was
  replaced meanwhile. `NameInv`: the names that were looked at are free
  or the site's own, the copy is a site of the list with the change, and the
  index is still that site's (`NameKnown`), as long as requests about sites come
  in turn and the states from outside have unique names; anything else may be handled meanwhile. `AllowedInv`, for
  requests in turn: memory and file are states that `may` has, or, once the
  handler has changed them, that its request makes of one. It uses the first two
  invariants: `Ready` collects what is known at the change, `ChangeGranted` shows
  that the reference grants the request then, and `ChangeEffect` that the
  operation on the sequence (append, replace at an index, move the last element)
  does to the set of sites what `Effect` says. `AppliedInv`: when the last sync
  has read another state, a sync is queued, or a handler that will queue one has
  still to answer, or an error was answered; a removal needs none because no
  site has the certificate. `RoutesAssumption` says that what comes from outside
  has its type, no more.
* `DeployProofs`. `ServedIsCurrent` speaks of the end of a sync only. `ServedInv`
  says what holds in between: the files differ from those nginx has loaded only
  when `interrupted`, or while the sync is at one of the steps after the first
  change of a file and `updated` is true. The second part is what makes it
  inductive: the errors that lose `updated` without setting `interrupted` all
  come before these steps. `FairInv`: as long as nothing was left untested,
  every file on the disk is valid but the one just written, which is what the
  sync has rendered; `BlameIsFair` is an action property and follows for the
  steps that test. `SyncInv` is for `DiskMatches`, `AppsComplete` and
  `RulesApplied`: it follows a sync that reads the sites it has begun with
  (`Steady`) through its loops, each of which has done its part for the sites
  before `at`. `ScanInv` and `StagedInv`: their apps are on the disk or have
  failed, and their manifests are read into the element of the list they were
  indexed at; `FoldersInv`: their folders and links; `FilesInv`: their files are
  those rendered, except the ones still to do. It holds for any faults and
  crashes because it says nothing of a sync that meets a change or fails, and
  the next one begins with any disk. It rests on `ListInv` (a site with an app
  has a manifest entry, also in the array only the sync has) and `DistinctInv`
  (domains and entries are distinct), for which `SitesAssumption` says that the
  domains in the list the process starts with are distinct.

Every safety property of the passing runs is proved. Only model-checked: the nine
liveness properties (`NobodyStarves`, `ServerComesBack`, `LockIsFreed`,
`HealthIsReported`, `NodeIsForgotten`, `WaitEnds`, `AcmeServed`,
`ExpiredIsRenewed`, `ExpiryAnnounced`), since fairness and ENABLED are outside
what the prover does here.

## 4. Findings

The runs with `expect: violation` show where the code and its own comments
disagree; `PROJECT.json` quotes the comments.
`tlc -config X.cfg M` prints the trace.

* `state_overlap`: a watcher replaces the state in memory between an
  operation's change and its serialization; the operation writes the state
  without its change and returns nil.
* `jobs_leader`: the watch that sets `isLeader` may be registered after the key
  it watches was created: the cluster has a leader that does nothing.
* `certs_wait`: a job that is added while it is under way gets a new channel,
  and who waits on the first one waits for ever. If it is the sync, it holds
  the semaphore.

Met while modelling, without a run of their own. Each is a behaviour of the
model, which the property it touches has to except. For `mixed`, `Stuck`,
`unloaded` and `given` TLC finds the property violated without the exception.

* One `PUT /state`, when the cluster is at rest, may leave a node on the old
  state (`mixed` in `EtcdState`). `WriteState` puts the secrets and the
  parameters before the state (`store-etcd.go` 519-546, 605); another node's
  watcher of these keys (239, 242) reads the whole state in between, and
  installs what it has read after the watcher of the state has installed the new
  one. The node serves the old state until the next event, and its next
  operation writes it back.
* A lease that ends between `KeepAlive` and the assignment of the field
  (`store-etcd.go` 464-481) leaves the field on a dead lease for good: the goroutine
  that resets the field has gone already. Every put of the node's health is
  refused from then on (`Stuck` in `NodeHealth`).
* The lease of the node's key is tested, then read again (`store-etcd.go` 455,
  501); reset in between, the key is stored without a lease and outlives the node
  (`LeaseLost`).
* After a reload of nginx has failed, or another step after a file was
  changed, the next sync finds no file to change and reports success, while nginx
  serves the old configuration (`run.go` 146-171): `unloaded` in `SyncQueue`,
  `interrupted` in `Deploy`.
* A site whose imported certificate the state does not have loses its folder and
  the certificate on the disk with the next sync (`appmanager.go` 193-249), so
  that the monitor has nothing to announce: `ExpiryAnnounced` excepts it when
  the state has lost the certificate, in no other case.
* `PUT /state` looks neither at names nor at certificates (`routes/state.go`
  42-53): one request may install two sites with one name, or sites without their
  certificates (`given` in `Routes`).

Smaller ones: `DeleteSecret` deletes no key of etcd
(`state.go` 457-483, `store-etcd.go` 519-546); `Run` returns `syncError` after
it has released the semaphore, so it may be another sync's (`run.go` 75-79);
two sites with the same app share one manifest entry (`appmanager.go` 307).
A bundle in the cache is taken for complete also when its transfer was cut
short (666), and so is the folder of an app whose extraction failed (286-290);
one that is fetched while it is uploaded to the local storage has no hash yet
and is taken as it is (`damaged` in `Bundles`). A restart of the API server that
comes before the last one has set `s.srv` shuts the old server down again and
leaves two servers that want the port (`api/server.go` 91-107); a sync that fails
after it has written the node's certificate forgets to restart the server
(`lost`); a restart that waits more than 15 seconds for a request ends the
process.
A certificate may be deleted while a site that uses it is created
(`certificate.go` 164-178), and two requests may create the same name
(`site.go` 87-157); PATCH with `"aliases": null` answers with a site without
aliases and stores nothing (`site.go` 418-420).

## 5. Plan

What is left, in this order:

1. Late watches together with a lost leader in the runs of `JobsEtcd`.

## 6. Not modelled

The clients of S3, Azure and Key Vault (calls of libraries; what `fs/` does
around the first two is in `Storage`), ACME's protocol and the generation of keys
(libraries), certificates of Key Vault, the values of secrets and the content of
TLS files, templates, the default app and site, notifications, configuration,
authentication and the middlewares, which only read or only answer. `PROJECT.json`
lists each part with the reason.
