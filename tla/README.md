# goat-client: TLA+ models and proofs

goat-client is a desktop and mobile client for two network layers: an outer
WireGuard tunnel (`wg-cp0`) and an inner NetBird mesh. A long-lived daemon
(`cmd/goat-clientd`, `internal/daemon`) owns the enrolment profiles on disk,
brings the layers ("legs") of the selected mode up and down, points the host's
DNS at the mesh, answers names from a signed cache when the mesh's resolvers are
silent, exchanges files and latency probes with peers, and serves a local
JSON-RPC socket that the tray, the window and the command line talk to. On phones
an SDK plays the daemon's part under a native shell.

This directory models those parts: what they keep on disk and in memory, what
interleaves and what fails. TLC checks the models on small instances; TLAPS
proves every safety property that the passing runs check, and the refinement of
the profile store, for every instance.

## 1. Inventory

| Component | State it keeps | Operations | Hard behaviours | What makes it correct |
|---|---|---|---|---|
| Profile store, `internal/profile` | `<slug>.cbor`, `<slug>.meta.json`, `active.json` | `Add`, `Remove`, `Rename`, `SetActive`, `UpdateMode`, `UpdateRosenpass`, `MigrateLegacyBundle` | several files per operation; a write fails or the process dies between two of them | only verified bundles on disk; a rename never loses the profile; only Replace overwrites; marker and files agree |
| Daemon, profiles, `internal/daemon`, `internal/mode` | `currentSlug`, `currentBundle`, `currentMode`, `rosenpassOverride`, `persistedCfg`; `config.toml` | start-up, `ImportBundle`, `AddProfile`, `SetActiveProfile`, `RemoveProfile`, `RenameProfile`, `SetMode`, `SetRosenpass`, `LoadPersistedBundle` | handlers in several lock sections; crash between sections; an operator editing the file the daemon rewrites | memory equals what a restart would read back; only a store operation cut short leaves a marker that does not load; the operator's keys survive |
| Daemon, legs | `currentMode`, `meshWanted`, `mesh`, tunnel state, DNS none, applied, or left over from a failed call | `Connect`, `Disconnect`, `SetMode`, profile switches, `Enable`/`DisableInnerMesh`, `SetInnerMeshProfile`, `SetRosenpass`, `Shutdown`, `runMeshSupervisor` | mesh start-up blocks outside every lock; supervisor and shutdown race the handlers; the management plane refuses or is silent; a DNS call fails and the handler goes on | no leg outlives its mode; DNS goes before the tunnel; a failed bring-up is retried; shutdown releases all |
| Inner mesh, `internal/innermesh` | state, config, embed client, closed flag | `Configure`, `Connect`, `Disconnect`, `Close` | `Connect` takes its lock twice around a blocking Start | one client per mesh object, stopped by Disconnect and Close |
| Tunnel manager, `internal/tunnel` | state, device | `Configure`, `Connect`, `Disconnect`, `Close` | each may fail; Disconnect keeps the device | state tells whether the device is up |
| Host DNS: `applyDNS` ... `restoreDNS`, and `names.Forwarder` | `lastDNS`, the forwarder's health and listener | `applyDNS`, `restoreDNS`, `onForwarderState`, `supervise` | a detached goroutine per health change; a listener lost and rebound on a ladder of delays | the host asks the forwarder only while it is healthy |
| Host DNS adapters, `internal/tunnel/dns` | the adapter's book of what it registered; the host's entries | `Apply`, `Restore` for systemd-resolved, scutil, NRPT | a host call fails after an earlier one took effect; exits | what Apply reported is served; Restore leaves nothing |
| Names, `internal/names` | signed snapshot pair, claims, observed tier, verified copy in memory | `PutSnapshot`, `LoadSnapshot`, `RecordObservation`, `PutClaims`, `Refresh`, `handle`, `Status` | two-file write, monotonic serial, cap and TTL, tier order, queries beside a refresh | never an unverified answer; serials do not go back; refresh converges |
| File drop, `internal/filedrop`, `daemon/filedrop.go` | inbox, ring of received files, receiver running or not | `handlePut`, `placeUniquely`, `runFileServer`, `GetIncomingFiles` | drops of one name side by side; a receiver that failed to bind | a drop reported stored stays; the receiver follows the mesh |
| Peer latency, `internal/peerping`, `runPeerConn` | per-peer rings, the bind that failed | `Start`, `Stop`, `SetTargets`, the pinger, `GetPeerConnectivity` | late and duplicated echoes, lost probes, targets changing | a sample belongs to its probe; pingers follow the mesh |
| IPC and tray, `internal/ipc`, `internal/ui` | one connection per client, request ids, deadlines; what the tray shows | `call`, `Dispatcher.Serve`, `refresh`, clicks | timeouts leave late replies in the stream; refreshes overlap in three sections | a reply answers its own request; the tray does not stay behind |
| Mobile SDKs, `mobile/*/GoatClientSDK`, `runmobile*.go` | state, mode, cancel function, mesh, device, Android's descriptor | `ImportBundle`, `Run`, `Stop`, `SetMode`, status polls, `onDestroy` | Stop against Run; a Run that starts while the last winds down | Stop ends the run; a Run keeps its mesh; with no Run no device and no mesh is up |
| Bundles and trust, `internal/bundle`, `internal/trustanchor` | trust roots | `Unmarshal`, `VerifyBundle`, `CheckExpiry` | several roots, rotation | accepted iff signed by a root |
| Reachability, `internal/reachability` | last fingerprint | `Probe`, `Run` | snapshots dropped on a full channel | the consumer learns every lasting change |
| QR transport, `internal/qrbundle` | none | base45 encode, decode | odd lengths, out-of-range groups | decode inverts encode |
| Command line, tools, window, shells' screens, test doubles | none across steps | one request each | none | |

How they interact: the IPC server starts one goroutine per connection and calls
the daemon's handlers directly. Handlers share `d.mu` for short sections only
and call the store, the tunnel manager, the mesh and the DNS adapter, each with a
lock of its own. `ServeIPC` starts three further goroutines (mesh supervisor,
peer latency, file server) that read the daemon's fields under `d.mu` and act on
the mesh afterwards. The forwarder answers queries from the names store on a
goroutine each and calls back into the daemon, on one of its own, at every health
change. `main` calls `Connect` once at start-up from yet another goroutine and
`Shutdown` when the context ends, waiting for nobody.

## 2. Plan

| Step | Modules | What it adds |
|---|---|---|
| done | `ProfileCatalog`, `ProfileStore`, `ProfileStoreProofs` | the store, its abstract specification, the first theorems |
| done | `DaemonProfiles` | the profile handlers over the catalogue; start-up, `--mode`, `config.toml` and its operator |
| done | `DaemonLegs`, `HostDns`, `DnsAdapters` | legs, supervisor, shutdown; DNS, the forwarder's ladder; the three platform adapters |
| done | `NamesStore`, `NamesService` | snapshot pair, claims, observed tier; refresh and answers over it |
| done | `MeshView`, `FileDrop`, `PeerConn` | the two peer services and their loops over one view of the mesh |
| done | `IpcSession`, `MobileSession` | sockets, dispatcher and tray; the mobile SDKs |
| done | `ProfileStoreProofs` | the refinement `Spec => Catalog!CSpec`, and whole operations until the first fault |
| done | `DaemonProfilesProofs`, `HostDnsProofs`, `IpcSessionProofs`, `NamesProofs`, `PeerServicesProofs`, `MobileSessionProofs` | every safety property of these components |
| done | `DaemonLegsProofs` | every safety property of the legs, from invariants on what each actor still has to do |
| done | `PeerServicesProofs`, `HostDnsProofs` | `PeerConn` and `DnsAdapters` proved beside their neighbours, and the split into batches |

Where a question can be asked in a run that exists, it is asked there.

## 3. Modules

| Module | Models | Correspondence |
|---|---|---|
| `ProfileCatalog` | the promise of `internal/profile`: whole operations on a catalogue | abstract; `Abort...` actions say what a failed or cut-short operation may leave |
| `ProfileStore` | `profile.go` | one step per `writeAtomic` or `os.Remove`; `step`, `req` are the operation that holds the write lock |
| `...Proofs` | | theorems about the module they are named after (`NamesProofs`: about `NamesService`; `PeerServicesProofs`: about `FileDrop` and `PeerConn`; `HostDnsProofs`: about `HostDns` and `DnsAdapters`) |
| `DaemonProfiles` | the profile handlers and the start-up of `daemon.go`, `main.go`, `migrate.go`, `internal/mode` | extends `ProfileCatalog` (the store seen through its lock); one step per section under `d.mu` or the store's lock; `pc`, `loc` per connection; a store operation is whole, or cut short by an error or a crash in one of the ways the catalogue's `Abort` actions allow (`AddCutShort`, `RemoveCutShort`, `RenameCutShort`); `config` is `config.toml`, `persisted` the `mesh_dns_*` keys of `persistedCfg` |
| `DaemonLegs` | the leg handlers of `daemon.go`, `Manager` of `tunnel.go`, `netbird.go` | `prog[a]` is the list of calls an actor still makes, `loc[a]` what it read at its start; one step per call or section; `dns` is "none", "applied" or what a failed Apply or Restore "left" |
| `HostDns` | `applyDNS` ... `restoreDNS`, `forwarder.go` supervision | one step per section or adapter call; `Callbacks` are the goroutines of health changes |
| `DnsAdapters` | `adapter_linux.go`, `adapter_darwin.go`, `adapter_windows.go`, the life of the interface | one action per `Apply` and `Restore` (each holds its mutex throughout), with the host call that fails chosen; `hostEntries` is what the operating system holds, the book variables what the adapter believes |
| `NamesStore` | `store.go`, `names.go`, `claims.go` | files, caches and the pure parts: verification, tier lookups, suppression, cap |
| `NamesService` | `refresh.go`, `service.go`, `handle` of `forwarder.go` | extends `NamesStore`; one step per GET, write, Stat after the write, or lock section; `ref` is the refresh loop, `qpc`, `loc` the queries |
| `MeshView` | what `State`, `LocalIP` and `Peers` of the mesh report | shared by the next two; moves freely |
| `FileDrop` | `filedrop/server.go`, `client.go`, `daemon/filedrop.go` | a handler's step is one system call; `loop` is `runFileServer`, `srv` and `closing` the listeners, `late` the servers cancelled before they reached `net.Listen` |
| `PeerConn` | `peerping`, `runPeerConn`, `GetPeerConnectivity` | `pingLoop`, `ctrl`, `failedBind` are the locals of `runPeerConn`; a pinger carries its wire and its ring |
| `IpcSession` | `ipc/client.go`, `dispatch.go`, `server.go`, `ui/tray.go` | `reqs`, `reps` are the two directions of the tray's connection, which its goroutines share behind `rpcClient`'s mutex; a refresh goes from section to section (`ShowRows`, `NoteState`, `SetIcon`, `SetMenu`); other connections are `HandleElsewhere` |
| `MobileSession` | both `GoatClientSDK`s, `runmobile*.go`, when the shells start and stop a Run | `at[r]` is where Run `r` stands; `Client(r)` is one per process on Android, one per start on iOS; `tunUp` are the devices over the duplicated descriptors, `fds` the descriptors handed over |
| `MC...` | | the instances for TLC |

The abstractions, and what they keep:

* A bundle is an opaque value; `Trusted` is the set that parses, verifies against
  a trust root, has a matching key pair and has not expired. In `DaemonLegs` a
  bundle is the set of legs it has settings for; in `MobileSession` it is there or
  not, and expires in a step of the environment.
* A name is an opaque value with a slug, `None` for a name `validateName`
  refuses; two names may share a slug. Timestamps are left out of the store.
* The two modes of a profile in the store's and the profiles' instances stand for
  the three; they are never interpreted there. `DaemonLegs` and `MobileSession`
  have all three.
* A signature is the artifact it was made over. Time in the names modules is
  whole seconds, and every TTL comparison is the code's. What `Stat` reports of a
  file (size and time) is a value of `Stats`: a rewrite by the service itself
  changes it, one by somebody else may keep it. `loadSnapshotLocked` takes its
  `Stat`s and reads in one step.
* The uid gate of the socket is abstract: a request that changes the daemon may be
  refused, whatever its sender. Which uid is trusted, and that a root daemon has
  no gate (`dispatch.go:225`), is not modelled.
* A drop's contents are its number; `name (k).ext` is the pair of name and `k`. A
  sample of a ring says which probe it counts and whether its echo came; its RTT
  is left out. A JSON reply decoded as another method's gives that method's zero
  value, as `encoding/json` does.
* A domain of a DNS configuration is its length, at least 1. The configuration is
  not checked for empty entries; `splitDomainsIntoBatches` would count one without
  its separator.
* Definitions with a suffix (`Verified_Skipped`, `TearDownWG_DnsLast`, ...) are
  plausible mistakes. No specification uses them; each shows that a property
  would notice the mistake.
* History variables (marked so where they are declared) record what has happened.
  No action's guard reads them, except as a bound.

## 4. Runs

| Run | Instance | Distinct states | Shows |
|---|---|---|---|
| `profile_store` | 2 slugs, names that share a slug and one that is refused, a forged bundle, crash and failing writes at every write | 46,256 | what is on disk verified; a rename keeps the profile; without faults the files are consistent; only Replace overwrites; every operation implements the catalogue's, and a whole one until a fault |
| `daemon_profiles` | one connection, 2 slugs, a legacy bundle, store operations that fail or are cut short by a crash at any of their writes, with and without `--mode`, one edit of `config.toml` | 527,686 | the marker loads unless an operation on its profile was cut short; memory follows the marker and the files between requests; SetMode keeps the operator's keys |
| `daemon_legs` | one connection, any 3 requests (shutdown included), supervisor and shutdown interleaved, management plane answering, refusing, silent, DNS calls that fail | 614,415 | no leg outlives its mode; DNS before the tunnel; shutdown releases all; a failed bring-up is retried |
| `host_dns` | one connection and up to 3 callbacks, ladder of 2, two configurations, a failing adapter | 267,759 | the host follows the forwarder's health; the listener comes back |
| `dns_adapters` | three platforms, configurations from empty to several keys, 2 faults | 6,129 | a successful Apply is served, a successful Restore leaves nothing, whatever failed before |
| `names` | 2 names, 3 artifacts (one forged), 2 editions, 2 anchors, 3 values of `Stat`, one query, one fault | 970,047 | fallback answers are covered by a signature; the replay bound; cache coherence; the observed tier; refresh converges |
| `filedrop` | 2 handlers, 3 drops of one good and one bad name, ring of 2, one crash | 690,120 | a drop reported stored stays; the list is the ring's last; no stray temporary files; the receiver follows the mesh |
| `peer_conn` | one peer, 2 own addresses, ring of 3, 5 probes | 150,696 | every probe counted once and in order; responder and pingers follow the mesh |
| `ipc_session` | the tray's two goroutines, other clients, 2 slugs, 2 calls given up, shutdown | 1,051,158 | replies shift by exactly the calls given up; the tray ends up showing the daemon |
| `mobile_session` | Android and iOS, 2 Runs that may overlap | 104,077 | with no Run no device is up; a Run keeps its mesh; what puts a Run out of Stop's reach; Stop ends Runs |
| `double_connect` | 2 requests | | violated: see below |
| `restore_leftover` | Linux, one fault | | violated: see below |

The violated ones state what a comment or a document of the repository says; the
counterexample shows where the code departs from it.

* `double_connect`: after `SetActiveProfile` brought the mesh up, `Connect` starts
  a second client and drops the reference to the first (`docs/cli.md:137`:
  "calling it when already connected is a no-op").
* `restore_leftover`: an `Apply` whose `SetDomains` fails leaves our resolver on
  the link with `applied` false, and `Restore` returns without taking it back
  (`dns.go:68`: "Restore removes whatever Apply registered").

Other places where the code departs from what it says of itself. The models
contain the behaviour, and the passing properties are stated around it:

* `profile.go:494`: `Rename` deletes the old files before it rewrites
  `active.json`; a crash in between leaves the marker naming a profile that is
  gone (`:441` "updated atomically if it pointed at oldSlug"). A failed or missing
  marker write in `Remove` (`:432`) does the same. The catalogue's `Abort` actions
  allow both, and the daemon takes them: `torn` holds the profiles left that way,
  and `MarkerResolves` excepts a marker that names one of them until a whole
  operation on it. The next start cannot load such a marker and runs without a
  profile (`unadopted` in `MemoryFollowsMarker`).
* `profile.go:395`: the rollback of a failed Add with Replace deletes the bundle of
  the profile that was there before, leaving its meta (`:393` "we don't want a
  half-installed profile"). If it was the active one its marker does not load any
  more, and it is `torn` too.
* `daemon.go:1703`: `RemoveProfile` forgets the active profile, a `RenameProfile` on
  another connection moves files and marker, the removal finds nothing: no profile
  in memory, one in the marker (`:173` "Safe for concurrent use"). Hence
  `disturbed` in `MemoryFollowsMarker`.
* `daemon.go:708`: `SetInnerMeshProfile` after a failed bring-up moves the mesh from
  error to configuring, which the supervisor leaves alone for ever (`:196`
  "reconnects whenever wanted-but-down").
* `daemon.go:529`: a health callback that read `lastDNS` before a teardown applies
  it after the teardown (`:533` "can't resurrect a torn-down DNS config").
* `daemon.go:836`, `:1085`, `:1506`, `:1883`, `:1911`: a `Restore` that fails is logged
  or dropped, and the tunnel goes down all the same. What it left on the host is
  `dns = "left"`; `OuterWithinMode`, `DnsRestoredBeforeDown` and `ShutdownReleases`
  rule out a configuration still in force in full (`"applied"`), not remains. What
  the remains may be is `DnsAdapters`' matter.
* `daemon.go:1162`: `SetMode` writes back the `mesh_dns_*` keys as they were loaded
  at start-up, so an edit made while the daemon runs is lost (`persist.go` "a
  setmode round-trip must never drop them"). `OperatorKeysSurvive` is about edits
  made before the start.
* `refresh.go`: claims are fetched only when the snapshot is newer, so a claims
  file published with the same snapshot is not picked up. `RefreshConverges` is
  about the snapshot.
* `store.go:143`, `:174`: the copy in memory is keyed by size and time, and the key is
  taken after the rename (`:101` "any change to either file misses the cache"). A
  rewrite by another process that keeps both, or that falls between the rename and
  the `Stat`, is not noticed. Hence `blind` in `CacheIsCoherent` and
  `RefreshConverges`.
* `filedrop/server.go:196`: two drops between `stat` and `rename` on one name; the
  second replaces the first (`:191` "never overwrites"). Hence `raced`.
* `daemon/filedrop.go:141`: a receiver that failed to bind counts as running until
  the mesh leaves `StateUp`. Hence `seenDown` in `ReceiverFollowsMesh`.
* `adapter_darwin.go:109`, `adapter_windows.go:143`: the book is emptied although
  removals failed. Hence `forgot`.
* `ipc/client.go:95`: after a call given up every later call on the connection
  reads the reply of the one before. `RepliesShiftByTimeouts` says exactly by how
  many; the tray never redials, so `TrayConverges` is about sessions without one.
* `tray.go:270-279`: the state is compared and noted under the lock, the icon drawn
  after it and only on a change. A refresh preempted in between draws an older icon
  over the newer one, and no later poll corrects it (`window.go:19` "the two are kept
  in sync by polling the daemon"). Hence `overlap` in `TrayConverges`, for the icon
  alone: rows, noted state and menu converge regardless.
* Mobile: a `Stop` before `Run` registered its cancel function is lost, and the Run
  it was meant for may overwrite the next one's; so may the end of the service
  (`onDestroy`) let go of a Run that a start in between has begun. `outrun` holds
  exactly those Runs.
* `client_android.go:265`: the clean-up of a Run that winds down closes whatever mesh
  the Client has, which may be the next Run's; that Run then blocks as connected
  without a mesh (`:278-280` "The inner mesh keeps running in its own goroutines").
  Hence `overlap` in `MeshKeepsRunning` and `IdleReleases`.
* `runmobile.go:72`: the engine duplicates the descriptor it is given and closes only
  the duplicate, on success and on failure; nobody closes the one `detachFd` handed
  over (`TunAdapterImpl.kt:109` "detachFd hands ownership to Go; Kotlin must NOT
  close the fd"). `fds` only grows, and `IdleReleases` speaks of the devices over the
  duplicates.

What else the passing properties leave out, and why, is part of their statement:

* `MemoryFollowsMarker` and `MemoryMatchesDisk` are about behaviours in which no
  two handlers overlapped and no store write failed since start-up (crashes before
  it, at any write, are included), and not about
  a profile whose files AddProfile replaced without being asked to switch, nor
  about the mode while it is still the one `--mode` gave.
* `OuterWithinMode` and `MeshWithinMode` are about requests one after the other.
  The supervisor may bring a mesh up that a request has just detached, since it
  connects from values it read before; `raced` marks those behaviours, and they
  are explored, but `MeshWithinMode` and `ShutdownReleases` say nothing of them.
* A mesh enabled with no profile loaded (`enabled = "bare"`) is not torn down by
  the first profile switch, because `setActiveLocked` tears down only when a
  profile was active.
* `HostFollowsForwarder` is about callbacks and handlers that did not overlap:
  `applyDNSCurrent` reads the health before it calls the adapter.
* `ReplayBound` holds while no write of the pair was torn and nobody else wrote
  the files (`cut`): a torn pair verifies as nothing, and with it the serial that
  bounds replays is gone until the next refresh.

### Bounds

* Four runs have a state constraint (`Focus` in their MC modules) that keeps two
  dimensions from multiplying, and nothing else: in `daemon_profiles` Rosenpass keys
  and edits of `config.toml` with a second profile, and a torn profile with another
  one, with `--mode` or with an edit; in `names` live answers for a
  second name with snapshots and faults; in `filedrop` the third drop with a crash;
  in `ipc_session`, after a call was given up, different states of the daemon, of
  which `TrayConverges` says nothing by then, and the second such call with a shutdown. The safety properties are proved
  without any of them.
* 2 slugs and 2 to 4 names: every operation works on at most two slugs, and the
  interesting collisions (same slug, taken slug, refused name) all occur.
* One edit of `config.toml`: before or after a start, and before or after a
  SetMode; a second edit repeats one of these.
* 3 requests in `daemon_legs`: a request that brings up, one that moves the mode,
  the profile or the mesh, and one that takes down or shuts down. All of the
  hazards listed need at most three. `Meshes` and `Clients` follow from the bound.
* `Rungs = 2` and 3 health changes: lost, recovered and lost again, with attempts
  on the ladder, at its end and beyond it.
* `dns_adapters`: domains whose batches are empty, exactly full and split by count
  and by bytes; two faults, so that one call fails after the recovery of another.
* `names`: clock 1 to 2 with a TTL of 1 and 2, so an entry is fresh, at its limit
  and expired; cap 1, so each new observation evicts; a crash, failing write or
  tampering at any point of a refresh; three values of `Stat`, so that a rewrite has
  the old one, that of the key, or another.
* `filedrop`: `MaxCopies = 1` stands for 9999, so that the names run out; 3 drops
  over a ring of 2.
* `peer_conn`: 5 probes over a ring of 3: filled, wrapped and wrapped again.
* `ipc_session`: ids modulo 3, one more than the calls given up, which is what the
  comparison of ids needs.
* One connection in `daemon_profiles` and `daemon_legs`: what several connections
  break is described above. `MarkerResolves` and `OnlyVerifiedInUse` are proved for
  any number.

### Fairness

Weak fairness on every actor's next call (goroutines are scheduled, lock sections
end) and on the loops whose timers fire: the supervisor's tick, the forwarder's
supervise loop, the refresh loop, `runFileServer` with its listener opening and
closing, `runPeerConn`, the tray's poll and the dispatcher of its connection, the
next step of each mobile Run. The tray's two goroutines have strong fairness,
because they alternate on `rpcClient`'s mutex and a `sync.Mutex` does not starve a
waiter. Mesh Start is the exception the model makes explicit: with the management
plane silent it returns only under `connectMesh`'s deadline or when the daemon's
context is cancelled. Nothing is assumed of operators, shells, other clients, the
management plane (`ReachChange`), the mesh (`MeshView`), the origin of snapshots
or the forwarder's port (`PortChange`). Local causes of a failed bring-up (the
state directory, the client's construction) are counted as a management plane
that refuses.

### Deadlock

Checked in every run but `mobile_session`, whose shell may stop for good once its
Runs are used up.

## 5. Proofs

The theorems hold for every value of the constants that satisfies the `ASSUME` of
the module: any sets of slugs, names, bundles, connections, handlers, queries and
Runs, any cap, ring and ladder, any choice of faults. The bounds that TLC needs
(`MaxRuns`, `MaxCrashes`, `MaxTimeouts`, ...) are arbitrary naturals here.

`PeerConn` and `DnsAdapters` share a proof module with the component they work
beside (`PeerServicesProofs`, `HostDnsProofs`), which extends both: that is why
their actions and specifications have names of their own (`PingNext`, `PingSpec`;
`AdapterNext`, `AdapterSpec`).

| Theorem | States | Inductive invariant |
|---|---|---|
| `ProfileStoreProofs` | | |
| `TypeCorrect` | `[]TypeOK` (with `OpFacts`) | `OpFacts` |
| `VerifiedOnDisk` | `[]OnlyVerifiedOnDisk` | with `OpFacts` |
| `RenameIsLossless` | `[]RenameKeepsProfile` | follows from `OpFacts` |
| `ClobberResistance` | `ClobberOnlyByReplace` (steps) | `OpFacts` |
| `CleanUntilFault` | `[]ConsistentUntilFault` | `CleanInv` |
| `StoreImplementsCatalog` | `ImplementsCatalog` (refinement) | `Tracks` |
| `WholeOperations` | `WholeUntilFault` (steps) | `Tracks`, `CleanInv` |
| `DaemonProfilesProofs` | | |
| `DaemonTypeCorrect` | `[]TypeOK` | `SafeInv` |
| `MarkerAlwaysResolves` | `[]MarkerResolves` | `SafeInv` |
| `VerifiedInUse` | `[]OnlyVerifiedInUse` | `SafeInv` |
| `KeysSurvive` | `[]OperatorKeysSurvive` | `KeysInv` |
| `ServesTheMarked` | `[]MemoryFollowsMarker` | `MarkerInv` |
| `RunsWhatIsStored` | `[]MemoryMatchesDisk` | `DiskInv` |
| `DaemonLegsProofs` | | |
| `LegsTypeCorrect` | `[]TypeOK` | `Typed`, `Budget`, `Numbered`, with `Inv` |
| `DnsBeforeTunnel` | `[]DnsRestoredBeforeDown` | `Base`, `OuterInv` |
| `OuterLegFollowsMode` | `[]OuterWithinMode` | `Base`, `OuterInv` |
| `InnerLegFollowsMode` | `[]MeshWithinMode` | `Base`, `MeshInv` |
| `ShutdownReleasesLegs` | `[]ShutdownReleases` | `Base`, `OuterInv`, `MeshInv`, `DetachedInv` |
| `HostDnsProofs` | | |
| `HostDnsTypeCorrect` | `[]TypeOK` | `TypeInv` |
| `ServingAlwaysHealthy` | `[]ServingIsHealthy` | `TypeInv` |
| `HostAlwaysFollows` | `[]HostFollowsForwarder` | `HostInv` |
| `RestoredHostIsClean` | `[]RestoreLeavesNothing` | `BookInv` |
| `SplitLosesNothing` | what `splitDomainsIntoBatches` returns, for every list | induction on the list |
| `AppliedAlwaysServed` | `[]AppliedIsServed` | `ServeInv` |
| `IpcSessionProofs` | | |
| `RepliesAlwaysShift` | `[]RepliesShiftByTimeouts` | `QueueInv` |
| `NamesProofs` | | |
| `ReplayAlwaysBounded` | `[]ReplayBound` | `StoredInv` |
| `CacheAlwaysCoherent` | `[]CacheIsCoherent` | `CacheInv` |
| `ObservedAlwaysLatest` | `[]ObservedIsLatest` | `ObservedInv` |
| `AnswersAlwaysJustified` | `[]AnswersAreJustified` | `QueryInv` |
| `PeerServicesProofs` | | |
| `NeverStrayTemp` | `[]NoStrayTemp` | `TempsInv` |
| `DropsAlwaysKept` | `[]DropsAreKept` | `KeptInv` |
| `RingAlwaysRecent` | `[]RingIsRecent` | `RingInv` |
| `ProbesAlwaysCounted` | `[]EveryProbeCounted` | `PingInv` |
| `MobileSessionProofs` | | |
| `IdleAlwaysReleases` | `[]IdleReleases` | `StateInv`, `DeviceInv`, `OwedInv`, `AloneInv` |
| `MeshAlwaysKept` | `[]MeshKeepsRunning` | `AloneInv`, `KeepInv` |
| `OrphansOnlyByEarlyStop` | `[]OrphanOnlyByEarlyStop` | `PlaceInv`, `CancelInv` |

The inductive invariants were run through TLC on the instances above before they
were proved. What they say, and why the property needs them:

* Store. `TypeOK` is not inductive: `AddWriteMeta` writes `req.meta`,
  `RenameActive` writes `req.slug`, so the next step's type depends on the
  operation in progress. `OpFacts` says, for every value of `step`, what that
  operation has already done. `CleanInv` relates the files of the slugs no operation
  is working on, and those of the slug in progress step by step.
* The refinement. `before` holds the files as the catalogue shows them. `Tracks`
  says how the files on disk differ from it at each step, and that the checks of
  the operation held on it. From there every step either leaves `before` alone (a
  stutter) or ends an operation, and for each kind of end a lemma names the
  catalogue's action (`AddDone`, `AddCut`, `RemoveDone`, `RemoveCut`,
  `RenameCutEarly`, `RenameEnds`, `SingleDone`); `StepsAreShown` puts them together.
  A crash is the end of whatever operation was in progress. With `CleanInv`, an
  operation without a fault ends in a whole action, which is `WholeOperations`.
* Daemon, profiles. `SafeInv` follows every handler from section to section: what
  it read, what it has verified, what the store's lock lets others do to it in
  between (`Fits`); and that a marker that does not load names a profile in `torn`. `MarkerInv` and `DiskInv` say, for the one handler at work
  while nothing overlaps, how far memory is behind the store.
* Daemon, legs. The properties look at moments when nobody is at work; what holds
  between the calls of a handler depends on the calls it has left. Every handler's
  program makes each call at most once and in one common order (`Rank`), so the proof
  replaces the sequence by the set of its calls (`Todo`): the call at the head is the
  one of least rank, a step removes it (`PlanTail`, `Pops`) and joining two programs
  is a union (`PlanCat`). `Fit` says which calls can still stand beside which.
  `SoloInv` reads the histories: while `crossed` and `raced` are clean, one actor is
  at work. `OuterInv` and `MeshInv` then say that a leg that is up and should not be
  is one that this actor still has to take down, `DetachedInv` that after Shutdown
  began the mesh is detached or about to be. For `TypeOK`, `Budget` counts the actors
  that may still make a mesh against the requests: `MaxCalls + 1` mesh objects are
  enough, which is what makes the bound of the model sound.
* Host DNS. `HostInv` ties the configuration a callback read to the health it
  saw, for the only callback at work.
* DNS adapters. `RestoreLeavesNothing` speaks of the host after a Restore; what
  Restore removes is what the adapter has in its book. `BookInv` says that while
  `forgot` is clean the book covers the host: the created keys on macOS, the counted
  rules on Windows, both flags on Linux, where a link that is gone has no settings.
  `ServeInv` says that what the last successful Apply served is routed (`RouteInv`)
  and that every batch in the host keeps to the limits, those of a failed or earlier
  Apply too (`CutInv`): a key that could not be removed stays beside the new ones.
  The step of a successful Apply needs what was written: the entries have different
  keys, all carry the port and hold every domain between them (`Covers`). On Windows
  that is arithmetic (`ChunksCover`: domain `j` is in chunk
  `(j - 1) \div MaxDomains + 1`), on macOS `SplitLosesNothing`.
* The split. `Splits` is a recursive function; `SplitsExist` builds it up to `n` from
  the one up to `n - 1`, `WithDomainGood` shows what one more domain does to the
  batches so far, and `UpTo` closes both inductions: the least number without the
  property would have a predecessor with it. The library's induction theorems take an
  operator as a parameter, which the provers cannot instantiate; `UpTo` takes a set.
* IPC. `QueueInv` is about the one stream through request queue, dispatcher and
  reply queue: ids are consecutive in it (`InOrder`), and the distance of the
  caller in front from its head is the number of calls given up (`Place`). The
  comparison is modulo `IdSpace`, which exceeds `MaxTimeouts`.
* Names. `StoredInv` follows PutSnapshot between its two writes; `CacheInv` says when
  a copy in memory may be taken for the files, and with `KeyFits` that a key that
  still fits was taken of the files as they are, short of a rewrite in `blind`; `ObservedInv` relates the memo of
  the suppression, the tier and the newest live answer; `QueryInv` what a query
  has found at each tier. `LookupClaimIsValid`, `LookupObservedIsRecord`,
  `LoadedIsVerified` and `LoadKeepsCache` are the operator lemmas they use;
  `LeastNumber` (a set of naturals has a least member) gives the youngest claim.
* File drop. `JobInv` gives the drops in progress distinct numbers; `RingInv`
  places the last `RingCap` entries of the log modulo the capacity (`Back`).
* Peer latency. The property reads the ring oldest first, from an index that depends
  on how full it is. `Counted` reads it backwards from the head instead (`Place`): the
  sample `i` places back is right for the `i`-th last probe that ended, so that a new
  sample shifts every place by one (`PlaceMoves`), full or not; `RingWrap` turns one
  reading into the other. A probe under way is not in the ring (`Ended`), and a late
  echo changes nothing because only the probe under way may take one.
* Mobile. `OwedInv` names, for every mesh a client holds, the Run that still has
  to close it; `KeepInv` is the converse, that a Run that has a mesh to close finds
  its own, which needs that a client has one Run at a time (`AloneInv`); `CancelInv`
  says who is registered with whose cancel function, and that a Run the shell let go
  of is cancelled or in `outrun`.

Assumptions beyond the shape of the constants: None differs from every value it
stands for the absence of; the ids of the connections differ from those of
callbacks; a claim's time of issue is a natural number; there are more values of
`Stat` than the two a rewrite must avoid (`StatsAssumption`); a domain is not empty
(the proofs do not use it, the model of `splitDomainsIntoBatches` does). No theorem
assumes fairness.

Only model-checked is liveness (`FailedBringUpIsRetried`, `ListenerComesBack`,
`RefreshConverges`, `ReceiverFollowsMesh`, `PingingFollowsMesh`, `TrayConverges`,
`StopEndsRuns`): fairness and ENABLED are out of the prover's reach.

## 6. Not modelled

* The uid gate of the socket beyond a request that may be refused.
* Cryptography: the CBOR format and signature verification are the set `Trusted`
  (`Signed` for snapshots).
* The wire types of the IPC methods that read, and the handlers that only format
  what the modelled state holds.
* Routes, addresses and the UAPI text of the tunnel: I/O, seen as calls that take
  effect or fail.
* The reachability prober: no package of the repository calls it. Its `Run` marks a
  snapshot as sent even when the full channel dropped it (`prober.go:196-204`).
* QR transport: a pure encoding used by one command-line tool, with a round trip
  of its own in its tests.
* Window, panes, command line, generators and smoke tests: one request each and no
  state across steps; as clients of the socket they are `HandleElsewhere` of
  `IpcSession`. Test doubles are not part of the shipped program.
* `goat-clientd --import-bundle` (`main.go:83-104`) beside a running daemon: two
  processes on one store, which no lock spans.
* The directory `<slug>.innermesh` of the embed client, which a rename or removal
  of the profile leaves behind.
