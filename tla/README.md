# Verification of the xboard client

This directory models the parts of the client where several things happen at
once, or where one thing goes through many hands: the connection state machine
of the core, the launchers and the privileged daemons below it, the profile on
its way from the panel to the kernel, the desktop's reconnects, sessions and
Home page, and the mobile core under its Android shell. The modules are
translated from the source (Rust, TypeScript, Vue, Kotlin); the `map` of
`PROJECT.json` names, for every definition, the lines it stands for. TLC checks
the modules on small instances, TLAPS proves theorems about them for every
value of their constants.

Contents: [inventory](#inventory), [modules](#modules), [runs](#runs),
[what the runs found](#what-the-runs-found), [fairness](#fairness),
[proofs](#proofs), [limits](#limits), [plan](#plan).

## Inventory

The client signs in to a subscription panel, downloads the profile of the
account, injects its own settings into it, runs a proxy kernel (mihomo, xray,
sing-box) on it and points the machine at that kernel, by a tun device or by
the OS proxy. `core` is shared by the desktop app (Tauri, Vue) and the mobile
apps (uniffi bindings, Kotlin, Swift). On the desktop the kernel is started by
the client itself, or by a daemon with privileges (`xboard-helper` on macOS,
`xboard-svc` on Windows).

| component | state it keeps | operations | what makes it correct |
|---|---|---|---|
| kernel manager (`core/src/kernel/manager.rs`) | published `ConnectionState`, launch handle, driver, controller address and secret, supervisor, proxy guard, OS proxy | connect, reconnect, disconnect, fail, supervisor and teardown, guard tick | the OS proxy never rests on a dead port; every kernel has somebody who stops it; Connected is supervised and guarded; connects end; crashes are noticed |
| direct launcher (`core/src/kernel/launcher.rs`) | the child between spawn and hand-off, one stop signal, one `expecting_stop` flag, a watcher per kernel | spawn, stop, the exit watcher, the failure broadcast | one owner per process, one kernel at a time, a stop reaches its kernel, crashes are reported |
| remote launchers (the same file, `commands/helper_install.rs`, `svc_install.rs`) | the handle of the client | `ensure_privileged`, spawn, stop, each over connections that time out | what a client was told of its kernel is so; a user drives no other user's kernel; every operation ends |
| daemons (`helper/src/main.rs`, `svc/src/main.rs`) | one slot with the child | Start, Stop, Status, shutdown | no kernel is lost, none outlives the daemon, two never overlap, every request is answered |
| installers | the registration of the daemon, the account it serves | install, uninstall | an installation leaves a daemon its user can reach |
| profile fetcher (`core/src/profile/fetcher.rs`) | the cached profile | fetch with fallback, retries | a refused account gets nothing; a usable cache is not lost |
| profile injection (`core/src/profile/inject*.rs`) | none | pure transformations | the client's keys win, the panel's rules and resolvers are kept, the default rules go to the group the page shows, nothing is named that is not defined |
| auto-reconnect (`desktop/src/stores/connection.ts`) | banner, cancelled flag, timer, listeners | crash event, timer, command answers, connect, disconnect, setMode, hydrate, dispose | bounded, only after a crash, ends |
| home page controls (the same store, `pages/Home.vue`, `commands/connection.rs`, the health half of `manager.rs`) | shown state, banner, `in_unresponsive`, traffic poll, list of nodes, saved choice | heartbeat, sampler, forwarders, hydrate, refresh, select, restore, geo probe | the screen says what the manager holds; the node in use is the chosen one; a banner comes down |
| session (`commands/session.rs`, `commands/auth.rs`, `stores/auth.ts`, `router.ts`, the sign-in pages) | the shown account, the bearer, `AppState::auth`, keychain entries, the snapshot in memory and on disk | hydrate, login, register, check, logout, clear, the router's guard | what is shown is what the backend holds and what the next launch restores; what was dropped is not restored |
| mobile core (`core/src/ffi/`) and Android shell (`android/.../vpn`, `AppViewModel`) | two keys of the secure store, bearer, session, tun descriptor, requested mode, delegate and observer | login, logout, hydrate, connect, disconnect, establish, revoke, relaunch | one account or none is signed in; nothing runs for who is signed out; the kernel reads the tunnel that is up, and no tunnel is up without one; the screen catches up |
| kernel updater (`core/src/updater/`) | staged file, live file, backup | download, two renames, check, roll back | it has no caller in the tree, see [limits](#limits) |
| purchase, orders, tickets (`PurchaseModal.vue` and views) | the order, the poll's timer | create, checkout, poll, close | an answer is applied to the order it is about |
| API client, views, build | none | requests, rendering, scripts | not modelled, see [limits](#limits) |

How they interact. The front end calls Tauri commands, each on a thread of its
own; a command calls the kernel manager or the session functions. The manager
fetches the profile, patches it, writes the one `config.yaml` and calls the
launcher, and awaits each; the remote launchers open a connection to the daemon
per call. Events flow the other way: the direct launcher broadcasts the exit of
a kernel, the supervisor of the manager listens to it (with a daemon there is
only the supervisor's heartbeat), the manager publishes its state on one
channel and the health of the kernel on another, the forwarders of
`src-tauri/src/lib.rs` send both to the front end, and the store of the front
end reacts with more commands. On Android the core calls back into its host for
a tun descriptor and to tell state changes. The OS proxy, the keychain, the
preferences file, the profile cache, `config.yaml` and the daemon are shared
state that survives the process.

What is hard: calls that overlap in the manager; a guard that calls the OS
while somebody else clears the proxy; timeouts that give up on a request that
is carried out nevertheless; a daemon that is replaced, restarted or removed
under its clients; one flag shared by the watchers of successive kernels, and
another by two tasks that report its changes; answers and events that come in
another order than they were caused; store writes that fail one at a time; a
process killed between two of them; a document with thousands of shapes read
independently in two places. `PROJECT.json` lists each of these hazards at its
line with the properties that watch it, or with the reason why none does.

## Modules

A step ends where another actor may come in between: in Rust at an `await` (or
at a lock another task may hold), in a handler of the front end at an `await`
of JavaScript, and in the session commands, which run on threads of their own,
at every access to shared state. A definition named `Bug...` is the one that
follows it with a plausible mistake. No specification uses it; it is there to
show that the property named in `PROJECT.json` would notice.

**`ConnectionLifecycle`** is the abstract contract of a connection: what the
user is told, whether the OS proxy is ours, whether a kernel is ours. The proxy is
taken only on top of a kernel, the kernel given up only after the proxy, and
"Disconnected" or "Error" is told only when both have been given back.

**`KernelManager`** is `manager.rs`. `BeginConnect`, `Fetched`, `Elevated`,
`ConfigWritten`, `Spawned`, `AttachedTun` or `AttachedProxy`, `RouteSettled`
are the awaits of `connect`; `FailEarly`, `SpawnFailed`, `BeginRollback` and
`Rollback` its error paths; `CleanupDriver` and `CleanupStop` the task that
`fail` spawns; `BeginDisconnect`, `Detach`, `Stopped`, `StopFailed` are
`disconnect`; `Heartbeat...`, `FailureReceived`, `Teardown...` the supervisor;
`Guard...` the proxy guard, in two steps, as its synchronous body calls the OS
twice under a read lock only. A connect picks fresh ports and a fresh secret,
so its number stands for its port, controller address, secret and kernel.
`Launcher` selects who owns the process, `Client` whether calls overlap,
`GuardSettings` whether the user may switch the guard. `Publish` waits for a
guard that holds the read lock of `state`. `ImplementsLifecycle` is the
refinement: `phase <- state.kind`, the proxy is ours unless the OS refused to
clear it, the kernel is ours while the launcher holds one.

**`DirectLauncher`** is `DirectLauncher` of `launcher.rs`: `BeginSpawn` (which
bails out on a child in the slot), `StartProcess`, `StartFailed`, `HandOff`,
`StartTimeout`, `Stop`, and the branches of the watcher's `select!`:
`ExitSilent`, `ExitSeen` and `ExitReported`, `StopSeen` and `Killed`. A
process that is dropped is killed (`kill_on_drop`).

**`KernelSlot`** is where the two meet: one slot, filled by a spawn that
succeeds and emptied by a stop, which a kernel that exits leaves to be given
back. It has no run of its own; that the manager keeps to it in what it asks
of its launcher, and the direct launcher in what it does for its client, are
two theorems (`SlotIsUsed`, `SlotIsKept`). A kernel that was asked to stop and
is still dying no longer counts: its end is `StopReachesItsKernel`.

**`PrivilegedDaemon`** is one lifetime of either daemon, with a handler per
connection: `Send`, `Status`, `RejectStart`, `StartKernel`, `StopKernel`,
`Killed` (the wait of `kill_kernel`), `SpawnChild`, `SpawnError`, and the
shutdown `BeginStop`, `StopKilled`. `KernelManager` sees the daemon through
the outcomes of spawn and stop, lost answers included.

**`RemoteLauncher`** is `HelperSocketLauncher` and `SvcPipeLauncher` together
with the daemon they talk to, over many lifetimes of it and with several users
of one host. On the client `Open` connects (`CallFails` does not, which nothing forces
while a daemon runs: a busy pipe is tried again for ever), `Receive`
takes the answer, `Timeout` gives the connection up after fifteen seconds while
the daemon goes on with it, `Ready` and `StartTimeout` end the wait for the
controller, `Return` the operation. In the daemon a connection is refused
(`RefuseCaller`: the SID of the caller is not the one in the command line) or
handled (`Ping`, `RejectStart`, which includes the check of who owns the paths,
`StartKernel`, `StopKernel`, `Killed`, `SpawnChild`, `SpawnError`). Around both
stand `Install...` and `Uninstall...` with their outcomes, `ServiceStops`,
`DaemonCrash`, `LaunchdRestart` (KeepAlive) and `Reboot`. A shutdown is one
step here; its interleavings are the subject of `PrivilegedDaemon`.

**`ProfileInject`** has `patch_mihomo` and what it is made of (`PatchDns`,
`TunKeys`, `PickDefaultProxyTarget`) as operators over documents, and
`PickPrimaryProxyGroup` of `manager.rs`, which reads the same document on its
own. A document is a record of the parts the code looks at; keys that are
copied are text. **`SingboxInject`** is `patch_singbox` for iOS: proxies to
outbounds with their TLS and transport, groups to selectors with placeholders
for what they lost, rules and rule sets, DNS. What is asked of it does not use
the code's own reading: `Egress` is where a connection that matches any set of
rules goes, `OverTls` what a protocol needs however it is spelt.

**`ProfilePipeline`** is the first half of `connect` around them: a fetch is
`Refused`, `Unreachable`, answered with an `EmptyAnswer` or with an `Answer`;
the answer is written to the cache (`Write`, or `WriteFails` half way), a
failure reads it back (`Read`); then `Patch`, the write of `config.yaml` and
`Spawn`, between which another connect may write (the truncation and the
filling of that file are one step). `IosConnect` is the
extension's way, which has no cache. `Expire` lets an account run out, `Kill`
ends the process at any step. A scenario fixes the documents of the accounts,
the platform and who connects; `MCProfilePipeline` has them.

**`AutoReconnect`** is the reconnect loop of the connection store together
with what drives it: commands in the manager (reduced to what starts or stops
a supervised kernel), events under way, timers (also those whose handle was
overwritten and which nobody can clear any more), the listeners that `hydrate`
registers one await after the other, and `dispose`.

**`HomeControls`** is what the Home page shows and drives of a kernel that may
hang, resume and die: the heartbeat and the traffic sampler, which both swap
`in_unresponsive` in one step and send the event of the change in another; the
two forwarders, each in order and neither ordered with the other; the listeners
and `hydrate`, which reads the snapshot before it registers them; the traffic
poll; `refreshProxies`, the selection of a node, `restoreSelections` after a
connect, and the geo probe, which selects nodes of its own to locate them.

**`Session`** is who is signed in. Commands (`Backend`) run step by step over
the bearer, `AppState::auth`, the keychain and the preferences; `FrontEnd`
holds their answers and the router's guard (`GoTo`), which waits for the
bootstrap and, before `/login`, for a check of its own. `Relaunch` kills the
process at any moment. A write of the keychain or of the file may fail; one of
the preferences store always reaches the memory. A "careful" user waits for
what is under way, a "hasty" one follows links meanwhile.

**`MobileClient`** is the surface of `ffi/client.rs` and `ffi/manager.rs` under
the Android shell: the session commands from `GetSession` to `PutSession`, one
access of the two-key store per step and each of them able to fail; `TapConnect`,
`Establish` (the host opens the tun device and gives its descriptor away) and
the connect's two ends; disconnects, `CloseTun`, `Logout`, `Revoke` (another
VPN takes over), `Rotate` (the activity is made anew and its delegate
detached), `Relaunch` of a killed process, and `Observe`, which tells the
screen one state at a time. `device` is the reference the service keeps, `up`
the tunnel the host really has: the descriptor is detached from the first, so
closing it does nothing to the second. `publish` is two steps, as in the code:
a call or a supervisor writes the state (`Write`) and sends it later (`Send`,
`SendAlarm`); `crossed` remembers that a state was written while another was
still to be sent.

`MCKernelManager`, `MCAutoReconnect` and `MCMobileClient` add the symmetry sets
of their runs,
`MCProfilePipeline` the documents; the other modules need nothing beyond a
`.cfg`. The modules whose name ends in `Proofs` hold the theorems.

## Runs

| run | instance | distinct states | question |
|---|---|---|---|
| `KMSerial` | one call at a time, three connects, direct launcher, guard off, terminal after 2 misses, fair | 7,970 | at rest the OS proxy is released (`ProxyReleased`), every live kernel has an owner (`KernelHasOwner`), Connected means supervised and guarded (`ConnectedIsKept`); the contract is implemented (`ImplementsLifecycle`); a crash is noticed, a dead port released, a connect ends (`CrashIsNoticed`, `DeadPortIsReleased`, `ConnectSettles`) |
| `KMFree` | two tasks that overlap at will, two connects, remote launcher, guard switched at will | 346,336 | the guard never sets the OS proxy once anything but Connected is told (`GuardStaysInConnected`); a handle is in one place (`HandleHeldOnce`) |
| `DLSerial` | three spawns, stops in between, fair | 4,526 | one owner per process, one kernel not asked to stop (`KernelsAreOwned`); stops arrive, crashes are reported (`StopReachesItsKernel`, `CrashIsReported`) |
| `PDService` | `xboard-svc`, two connections, three process identities, both kinds of client, service stop at any time, fair | 11,322 | no kernel lost (`NoKernelIsLost`), none outlives the daemon (`NoKernelOutlivesDaemon`), two never overlap (`HandoverIsClean`), every request ends (`EveryRequestEnds`) |
| `RLHost` | two accounts, both platforms, two connections, two process identities, three operations, two events, fair | 322,835 | a kernel is where the next request finds it (`LiveKernelIsHeld`), accounts are apart (`OwnKernelOnly`), a stop that succeeds stopped (`StopEndsItsKernel`), an operation ends unless a running daemon never takes its request or nobody answers a dialog (`CallsEnd`) |
| `RLRestart` | macOS, one account, one connection, two process identities, five operations | counterexample (258 states) | the second start is refused (`RestartIsServed`) |
| `PFConnect` | some 390 subscriptions on iOS, those with two groups on Linux, the fullest one on every other platform; two accounts, one retry, kills, torn writes; on Windows two connects at once | 520,865 | what a kernel runs on was granted (`ProfileIsGranted`), is the text that was read (`RunsOwnConfig`), says what the subscription and the client want (`MihomoConfigIsRight`, `SingboxConfigIsRight`); the cache survives (`CacheIsNotEmptied`) |
| `ARLoop` | two commands, two deliberate actions, two crashes, two visits of the page, one at a time, fair | 313,820 | reconnects need a crash (`ReconnectNeedsCrash`), three attempts per crash at most (`ReconnectsAreBounded`), the banner comes down (`LoopEnds`) |
| `HCHome` | two nodes, thresholds 2, 2 and 3, four events, stalls or choices, fair | 1,277,227 | the screen is true once everything was heard of (`ScreenIsTrue`), the chosen node is in use (`ChoiceHolds`), the banner of a stall comes down (`BannerComesDown`); types |
| `SESafe` | two accounts, a careful user, two bearers, three launches, fair | 224,223 | shown = held = restored (`SessionIsBacked`, `LaunchRestoresSession`); dropped stays dropped (`DroppedStaysDropped`); the first page comes (`BootEnds`) |
| `MBShell` | two accounts, a patient and a hasty user, two calls, two descriptors, three taps, one fault, two launches | 1,744,365 | one account or none (`AccountsAgree`); signed out, no kernel runs and no notification stands (`SignedOutIsOffline`); notification, tunnel and kernel go together (`TunnelIsServed`); the screen catches up (`ScreenCatchesUp`) |
| `MBStrand` | the same, a patient user | counterexample (624 states) | a failed connect leaves a tunnel without a kernel (`NoStrandedTunnel`) |

The bounds, and why they are enough:

* `MaxGen = 3` connects: the first may leave something behind, the second may
  trip over it, the third starts from what the second left. Overlapping calls
  need two (`KMFree`), one per task. `TerminalMisses = 2` is the smallest
  streak in which an answer in between matters; the code's threshold differs
  from it only in the number of harmless misses, and the theorems hold for
  every value.
* `MaxSpawns = 3`: a stopped kernel, the one that replaces it, and one more
  whose watcher could read what the first two left in the shared flag.
* Three process identities for two connections of one daemon: one in the slot,
  one being killed, one being spawned; a fourth would be one of these again.
* Two accounts of a host, because what may go wrong is between two of them, and
  both may approve an installation; two events, so that a daemon can crash or be
  removed and then be restarted or installed again; three operations, so that an
  installation, a start and a stop follow one another.
* One retry stands for three: the retries differ in nothing but their number,
  and what an answer, a refusal and a loss lead to is met before and after one.
  The documents have at most two proxies of nine shapes, two groups of six and
  one of seven lists of rules, each shape chosen for a branch of the code that
  reads it; the theorems hold for every document.
* Two crashes, so that a reconnect loop can overlap the loop of an earlier
  crash; two deliberate actions, so that a cancelled loop can be started again;
  two visits, so that a page can be left and come back.
* Thresholds of 2, 2 and 3 keep the order of the code's (a streak resets before
  it reaches one, the flag is raised before the connection is given up); the
  bound `scene` splits the environment in two, stalls and crashes with the
  events they cause, and choices with the probes that cross them, as the two
  share nothing but the page.
* Two accounts, so that a session can be replaced by another's; three
  launches, so that what a killed process left is restored, dropped and then
  looked at again; one command suffices for a careful user, because the guard
  `UserMay` admits no second one (a fact the proof establishes, not the bound).
* Two calls and two descriptors on Android: the tunnel of one connect under the
  kernel of another. One fault at a time; two would need an independent cause.

`CHECK_DEADLOCK FALSE` stands where the bounded counters really let the
system come to rest.

## What the runs found

`RLRestart` and `MBStrand` are disagreements between the code and what it says
of itself; `PROJECT.json` quotes both sides.

`xboard-helper` refuses a StartKernel one of
whose paths is owned by somebody other than the caller
(`helper/src/main.rs:459`). One of the paths is `mihomo.log`, which the helper,
running as root, creates at the first start (268-271). A second start over the
same data directory is refused, although the comment of the check names the
case as accepted: "could be `p` itself, e.g. a pre-existing mihomo.log"
(435-436).

On Android a failed connect is rolled back by `close_tun` and
`set_tun_fd(None)`, "so we don't strand an established VpnService with no
kernel behind it" (`ffi/manager.rs:131-132`). The service has detached the
descriptor (`XboardVpnService.kt:121`), so its close does nothing, and the
manager only forgets the number: the tunnel stays up with its routes until the
next one replaces it, the host takes it away or the process ends. So does it
after a disconnect, and after a sign-out.

Behaviours met on the way for which there is no run. Either they are stated as
properties that are not checked, because the code does not keep them, or they
lie outside an assumption of a run, which is then named.

In the core and the launchers:

* With the guard on, `KernelManager` violates `ProxyReleased`. The guard
  decides to re-assert under the read lock of `state`, which it keeps until it
  has called the OS; teardown and disconnect clear the OS proxy before they
  publish, and so before they ask for that lock. `GuardDrift` (the check), then
  `BeginDisconnect` (the clear), then `GuardAssert` put the dead port back, and
  `Detach` and `Stopped` tell "Disconnected" over it. The comment at
  `manager.rs:712-716` takes this for excluded. What the lock does exclude is
  a guard that sets the proxy once the other state is told:
  `GuardStaysInConnected`, for any overlap (run and theorem). With the guard
  off `ProxyReleased` holds (run and theorem). In the model a publication waits
  for the guard before its step and not within it.
* With the remote launcher it violates `FailureIsRolledBack`: the launcher
  returns the controller's timeout without a StopKernel (`launcher.rs:882`),
  and the manager holds no handle. The next StartKernel kills the orphan.
* With `Client = "free"` it violates `ProxyReleased`, already by a connect made
  while Connected whose fetch fails, and `KernelHasOwner`, by two connects that
  overlap. The desktop makes its button unavailable while a call runs, the
  tray does not.
* `DirectLauncher` violates `StopIsSilent`: the next spawn resets
  `expecting_stop` (`launcher.rs:350`) before the watcher of the stopped kernel
  has read it, and the stop is broadcast as a crash.
* The first use of the manager checks for it and creates it in two steps
  (`state.rs:78-117`), and `MihomoDriver` starts and stops its streams without
  an order between the two.

In the daemons and their installation:

* `PrivilegedDaemon` with `Daemon = "helper"`, `Clients = {"impatient"}` and
  `MayStop = TRUE` violates `NoKernelOutlivesDaemon`: `xboard-helper` ends by
  `process::exit`, which runs no destructor, so a StartKernel that stores its
  kernel while the SIGTERM task waits for the previous one leaves it running.
  A crash of the helper orphans its kernel, and the daemon that KeepAlive
  brings back knows nothing of it.
* Status answers from the slot and says "running" of a kernel that has crashed.
* Installing `xboard-svc` registers it and does not start it, nor does it
  replace the SID a running service was started with
  (`svc/src/main.rs:158-160`), while `SvcInstaller` promises "Returns Ok once
  `xboard-svc` has been installed and is reachable". The SID is that of the
  account that approved the elevation, not of the one that asked; it is put in
  the image path while the service reads the arguments of `ServiceMain`; the
  data directory the service allows is derived from LocalSystem's environment;
  and the status page counts a frame that refuses the SID as "reachable".
* A pipe that stays busy is tried again without a bound (`launcher.rs:582-585`;
  the comment at 568 says "retry briefly"), and neither the connect nor the
  write of a request has a time-out (611-618, 818-825): `CallsEnd` excepts an
  operation that a running daemon never takes.

On the way of the profile:

* A failed fetch falls back to the profile of whichever account fetched last:
  the cache is named by the kernel (`fetcher.rs:66`). `OwnProfile` is stated of
  answered fetches only.
* `FdModeOmitsDevice` does not hold: the injection says "Deliberately omit
  `device`" for a tunnel the host made (`inject.rs:155`), but does not remove
  the one the subscription sets.
* On iOS a rule without a counterpart in sing-box is dropped
  (`inject_singbox.rs:569-571`): what it sent through a node falls to a later
  rule, a `DIRECT` one too; with no rule left, the client's default shunt
  (138-139) sends private and Chinese addresses out directly. `NothingLeaks` is
  stated of the first rule that was translated.
* A node whose protocol is spelt by an alias or with a capital (`hy2`,
  `Trojan`) has TLS, but loses the server name it asks for unless it sets `tls:
  true` (416-422, read at 339). `TlsSurvives` excepts the name of such a node.
* A subscription with a node or group named `direct` makes sing-box read rules
  for it as its own direct outbound; the run's documents have none.

On the desktop:

* `AutoReconnect` violates `DisconnectCancels`: the flag and the timer are on
  the front end, a reconnect already sent is in the manager
  (`connection.ts:215`). With two visits in flight (`Visits = {h1, h2}`) two
  listeners are registered for one event, and each crash starts two loops: the
  check for the handle and its assignment are an await apart.
* A swap of `in_unresponsive` and the send it leads to are not one step: the
  "unresponsive" of one task may be sent after the "healthy" of the other, and
  the banner stays. The state and the health channel are not ordered with each
  other either; a late answer of connect overwrites a newer state; `hydrate`
  reads the snapshot before it listens. `HomeControls` records each of these in
  `mishaps`, and its properties speak of histories without them.
* The Connect button on a page that shows a stall as an error starts a connect
  over a manager that is Connected, and the supervisor of the old connection
  goes on; a sign-out during a stall or a connect does not disconnect.
* `ChoiceIsRestored` does not hold: the geo probe of the default node puts it
  back after `restoreSelections` has chosen another
  (`connection.ts:293-295`). A Connected event missed while another page is
  shown restores nothing.
* With a hasty user `Session` violates `SessionIsBacked`: a check of the
  router's guard wipes the session a login is storing on another thread
  (`session.rs:118`). A refused refresh of the Home page, answered after the
  user has signed out and in again, logs the new session out. A login whose
  snapshot cannot be saved leaves the backend signed in while the page shows
  an error.

On Android:

* The two keys of the secure store are two writes (`client.rs:17` says "Both
  keys are written atomically"); `AccountsAgree` holds because of their order,
  as long as the store obeys.
* `publish` writes the state under its lock and sends it without
  (`manager.rs:969-972`, `teardown_after_failure` likewise at 1090-1092): the
  changes of two calls, or of a call and the supervisor, may be sent in the
  other order, and the screen stays on the older one. `ScreenCatchesUp` is
  stated of launches in which no two changes crossed.
* A delete of the secure store that fails, followed by a login whose bearer is
  stored and whose snapshot is not, mixes two accounts: after a failed access
  `AccountsAgree` says nothing.
* An activity made anew detaches the delegate while
  `ensureManager` keeps the manager that has it, and every later connect fails
  with "binder gone"; `onCleared` closes a manager that `AppContainer` goes on
  handing out. The sign-out does not wait for the disconnect it starts. A kernel
  that dies, and a disconnect that fails, leave the notification up as well as
  the tunnel.

## Fairness

Only what the code schedules is fair. The runtime polls every task it owns, so
calls, clean-ups, watchers and handlers progress; the awaits that are taken to end have a
timeout (the fetch, the controller probe, the stop of three seconds, the HTTP
client's twenty seconds, the fifteen of an answer of the daemon), hence weak
fairness of "one of the outcomes", never of a chosen one. In `RemoteLauncher`
only the timed steps of the operations of the clients are fair (`TimedStep`:
the read of the answer, the probe of the controller, a connect to a daemon that
is not there, the return), neither the daemon nor the connect to one that runs,
which a busy pipe may hold for ever, nor the dialog of an installation:
`CallsEnd` rests on the timeouts alone and excepts these two waits. In `HomeControls` the program's own steps are fair as a
whole. The supervisor's ticker ticks, but the heartbeat as a whole is fair and
not its miss: `CrashIsNoticed` rests on a dead kernel not answering. In
`PrivilegedDaemon` a kill takes effect. JavaScript callbacks and timers are
delivered. Users, the operating system, other applications, crashes, the
server's revocations and the passing of a day are never fair.
`ProfilePipeline` and `MobileClient` have safety properties only.

## Proofs

| theorem | statement | holds for every |
|---|---|---|
| `KernelManagerProofs!TypeCorrect` | `[]TypeOK` | set of calls, number of connects, threshold, launcher, client, guard |
| `HandlesAreMoved` | `[]HandleHeldOnce` | the same, overlapping calls included |
| `GuardKeepsToConnected` | `GuardStaysInConnected` | the same |
| `ProxyIsReleased` | guard off, one call at a time: `[]ProxyReleased` | number of connects, threshold, launcher |
| `ConnectionIsKept` | one call at a time: `[]ConnectedIsKept` | number of connects, threshold, launcher, guard |
| `KernelIsOwned` | the same, direct launcher: `[]KernelHasOwner` | number of connects, threshold, guard |
| `NextStopEndsIt` | daemon, or one call at a time: every live kernel is in the launcher's slot | number of connects, threshold, guard |
| `ContractByHandle` | one call at a time, guard off: the refinement of `ConnectionLifecycle` with "the manager has a handle" for its kernel | number of connects, threshold, launcher |
| `ContractIsKept` | the same, direct launcher: `Spec => ImplementsLifecycle`, with the launcher's slot for its kernel | number of connects, threshold |
| `SlotIsUsed` | one call at a time, direct launcher: `Spec => KernelSlot` with the manager's `current` and `running` | number of connects, threshold, guard |
| `DirectLauncherProofs!TypeCorrect`, `SlotAlwaysTransient` | `[]TypeOK`, `[]SlotIsTransient` | number of spawns, overlapping or not |
| `OneOwnerEach` | one call at a time: `[]KernelsAreOwned` | number of spawns |
| `SlotIsKept` | one call at a time: `Spec => KernelSlot` with the handles given out and those of them alive | number of spawns |
| `PrivilegedDaemonProofs!TypeCorrect` | `[]TypeOK` | connections, kernels, daemon, client |
| `NoKernelLost` | `[]NoKernelIsLost` | the same, overlapping requests included |
| `NoKernelIsLeft` | `xboard-svc`: `[]NoKernelOutlivesDaemon` | the same |
| `CleanHandover` | `[]HandoverIsClean` | the same |
| `RemoteLauncherProofs!TypeCorrect` | `[]TypeOK` | accounts, connections, kernels, operations, events, platforms |
| `KernelsAreHeld` | `[]LiveKernelIsHeld` | the same |
| `AccountsAreApart` | `[]OwnKernelOnly` | the same |
| `StopsEndKernels` | `StopEndsItsKernel` | the same |
| `ProfileProofs!ReadersAgree` | `PickDefaultProxyTarget` and `PickPrimaryProxyGroup` pick the same group | list of groups |
| `TypeCorrect` | `[]TypeOK` | set of documents, platforms, accounts; overlapping connects |
| `ConfigIsRight` | `[]MihomoConfigIsRight` | the same |
| `RenderedResolves`, `RenderedKeepsTls` | `[]SingboxResolves`, `[]SingboxKeepsTls` | the same |
| `RenderedIsRight` | no iOS document names anything `direct`: `[]SingboxConfigIsRight` | the same |
| `OwnConfig` | `RunsOwnConfig` | the same |
| `Granted`, `CacheSurvives` | `[]ProfileIsGranted`, `[]CacheIsNotEmptied` | the same |
| `ConnectionStoreProofs!HomeTypeCorrect` | `HomeControls`: `[]TypeOK` | set of nodes, thresholds, number of events |
| `ScreenTellsTheTruth`, `ChoiceIsKept` | `[]ScreenIsTrue`, `[]ChoiceHolds` | the same |
| `LoopTypeCorrect`, `ReconnectsStemFromCrash` | `AutoReconnect`: `[]LoopTypeOK`, `ReconnectNeedsCrash` | calls, crashes, overlapping visits |
| `LoopIsBounded` | finitely many calls, one run of `hydrate` at a time: `[]ReconnectsAreBounded` | calls, crashes, visits |
| `SessionProofs!TypeCorrect` | `[]TypeOK` | accounts, commands, bearers, launches, user |
| `DroppedIsNeverRestored` | careful user: `DroppedStaysDropped` | accounts, commands, bearers, launches |
| `ShownIsBacked`, `LaunchRestores` | careful user: `[]SessionIsBacked`, `[]LaunchRestoresSession` | the same |
| `MobileClientProofs!TypeCorrect` | `[]TypeOK` | accounts, calls, descriptors, taps, faults, launches, user |
| `AccountsAlwaysAgree` | `[]AccountsAgree` | the same |
| `ScreenIsTold` | `[]ScreenCatchesUp` | the same |
| `SignedOutMeansOffline`, `TunnelsAreServed` | `[]SignedOutIsOffline`, `[]TunnelIsServed` (of a patient user) | the same |

The assumptions are the named `ASSUME`s of the modules (ranges of the
parameters, a value for "none" that is none of the others, and in
`PipelineAssumption` that a subscription is a document) and, where the table
says so, a choice of a parameter (`Client`, `GuardSettings`, `Launcher`,
`Daemon`, `Users`). TLC evaluates the named ones in the runs.

`HomeControls` and `AutoReconnect` are two halves of one store,
`connection.ts`, and their theorems stand in one module, which extends both;
hence the prefix of `LoopSpec`, `LoopNext` and `LoopTypeOK`.

Where a theorem of the manager asks for the direct launcher or for the guard
to be off, TLC finds its property violated without it: `KernelHasOwner` by the
remote launcher (a start that timed out leaves a kernel no handle names),
`ImplementsLifecycle` by that and by the guard (which may set a port that has
just been cleared). Where it asks for one call at a time, two that overlap are
the counterexample (see "What the runs found").

The arguments, and why the invariants have to be strengthened:

* *Types of the manager.* `TypeOK` is not inductive: a spawned kernel has a
  number only because the connect has one and `config.yaml` has been written
  (`ConnectsAreNumbered`).
* *Handles.* Every step moves a handle or leaves it (`HandleMoves`), and the
  only new one has a number nobody has yet (`NumbersAreUnused`), so holders
  that were apart stay apart (`HandlesAreApart`).
* *The guard.* From its check to its last call into the OS the guard keeps the
  read lock of `state`: `GuardHoldsState` says that a guard in between sees a
  Connected state in SystemProxy mode, and each step keeps it because whatever
  publishes waits for the guard, and whatever aborts the guard does not stop
  code that runs. So outside Connected no step of the guard sets the proxy, and
  of the other steps only a connect that settles does.
* *`ProxyIsReleased`* needs where in the life of a connection the OS proxy may
  point at a port: in a Connected state in SystemProxy mode under a watching
  supervisor of that mode, or (the port being in `clearFailed`) anywhere. The
  supervisor's mode and the published one have to agree for the teardown to
  clear what the connect set.
* *Owners and the contract.* `Owning` says whose turn it is: the launch handle
  is that of the latest connect and names the kernel in the launcher's slot
  (`HandleIsCurrent`, `ConnectIsLatest`), no clean-up holds one and a teardown
  that waits for its stop has taken it (`NothingElseHolds`), and a published
  Connected has a supervisor and a proxy guard of the same number
  (`ConnectionIsWhole`); over the launcher that owns its process nothing else
  runs (`NothingElseRuns`). `ContractInv` adds who holds the proxy, and each
  step is then one of the contract's or a stutter: first by handles, over
  either launcher, where a disconnect that aborts a teardown is `DropKernel`;
  then, as the slot of the direct launcher holds what the manager has a handle
  of and nothing else, by the slot.
* *Manager on launcher.* Both halves of `KernelSlot` come from the invariants
  above and below: by `Owning` nothing is held when a connect asks for a
  kernel, and by `OneAtATime` and `Belongings` no handle is out when the
  launcher gives one away. The two are joined by the contract, not in one state
  space: a step of the manager's spawn is all of the launcher's.
* *The slot of the launcher* holds a spawn that is waiting; every way out of
  the wait empties it. `OneAtATime` and `Belongings` say which of spawn, slot,
  watcher and stop holds a process.
* *The daemon.* A process that is alive and not dying is the child in the
  slot; when the service ends it kills what the slot holds, and what was dying
  had been killed before. For the clean hand-over the invariant adds that a
  patient client has at most one request open, that the only kernel alive is
  the one in the slot or the one that request waits for, and that a request
  about to spawn finds none alive.
* *Clients and daemons.* `LiveKernelIsHeld` says where a live kernel is;
  `Links` follows a stop across the connection: what was asked for (`Asked`),
  who waits for the answer (`Waits`), which kernel is meant (`Meant`), what an
  answer "Stopped" implies (`Stops`), and whose kernel it is (`Owners`).
* *The profile.* `Fine(c)` describes one connect: the document it carries is
  patched (`Shaped`), its answer is in the cache or was refused (`Placed`), the
  secret in `config.yaml` names the connect that wrote it (`Configured`), and
  nothing of it depends on another (`Private`); the last two make it survive
  the steps of others. `ReadersAgree` is what makes the default rules and the
  page speak of one group.
* *iOS.* `TlsIsKept` and `SingboxKeepsIn` are lemmas about the conversion of
  any document; `Rendered` says that `config.yaml` is what it makes of the text
  its connect read. A rule resolves to its own target, to `block` or to the
  default outbound, and the latter is a group or a node, so no connection goes
  out directly unless the first of the translated rules it matches says so, or
  something of the subscription is itself called `direct` (`Unambiguous`); `Clean` carries that hypothesis along
  from the panel to the connect.
* *The loop.* While it is not cancelled, whatever is left of it (pending
  timer, timers lost, reconnects under way) stems from a crash handled since.
  All three parts are needed, each can start the next attempt.
* *Three attempts per crash.* A budget: an exit pays for three, and what a
  pending timer, a lost one, a reconnect under way and an exit not yet heard
  may still spend (`Debt`), with what was spent, never exceeds what was paid.
  The commands under way at their first and second attempt are counted by
  `Cardinality`, so the commands have to be finitely many. One exit starts one loop only while each callback
  is registered once (`Registered`), which takes one run of `hydrate` at a
  time; two of them do break the bound.
* *The screen.* For each kind of event: what was published last is what the
  manager is in (`Published`), the last report on its way is that one
  (`LastReport`), and when none is on its way the page has it (`Silence`). An
  exit on its way is news only of a supervisor that has ended (`ExitIsNews`).
* *The choice.* What `restoreSelections` is about to put back, and what a
  probe is about to, is the node the user chose (`ToRestore`, `OnChoice`),
  while no probe crossed a selection.
* *The session.* `Dropped`: one of the two stores does not know the session
  of the account and will not learn of it. That survives a step only if what a
  command is about to write is safe: a sign-in about to save has put its bearer
  since; a check about to touch the snapshot repeats the one that is there.
  Both need that a careful user leaves one command under way at most. For
  `ShownIsBacked` and `LaunchRestores` the invariant `AgreeInv` says that
  page, backend, keychain and preferences agree but for what the one command
  under way is in the middle of: a sign-in fills places that are empty
  (`Seats`, `SeatsOnEmpty`), a command that clears has cleared what precedes its
  step (`Unseats`), any other writes what is there (`OnlyChecks`).
* *The phone.* Nothing of an earlier account is left in the store when a login
  writes to it (`Progress`, `OneAccount`, `Written`). Until two writes cross,
  a state still to be sent is the core's, and with none the last one sent, or
  else the one shown, is (`Told`). For the tunnel
  `Patience` follows a patient user: one call at a time (`OneCall`), what is up
  is on its way up or down, or connected (`NothingStranded`), the kernel
  connected reads the tunnel that is up (`Serving`), and away from home, which a sign-out reaches
  without waiting for its disconnect, nothing runs but what a stop under way
  will end (`Leaving`).

Only model-checked is everything under fairness (`CrashIsNoticed`,
`DeadPortIsReleased`, `ConnectSettles`, `StopReachesItsKernel`,
`CrashIsReported`, `EveryRequestEnds`, `CallsEnd`, `LoopEnds`, `BootEnds`,
`BannerComesDown`): the prover has neither ENABLED nor a rule for leads-to over
these steps. Every other property of a passing run is a theorem.

No module uses a recursive operator; the walks over documents are set
comprehensions and folds.

## Limits

* A serial client of the manager is what the desktop's button and the mobile
  apps are: they wait for one call to return. The tray is not; that is
  `Client = "free"`.
* Fresh ports: the code picks unused ones, so two connects never share one. A
  machine on which no two ports are free is not modelled.
* Aborting a task is modelled at its awaits, not in the middle of a poll; the
  one exception is the guard, which an abort does not interrupt.
* In `KernelManager` the fetch and the spawn are their outcomes; their steps
  are those of `ProfilePipeline`, `DirectLauncher` and `RemoteLauncher`. The
  health flag and the traffic sampler are in `HomeControls`.
* The daemons' framing refuses a request before any state is read. Path
  validation is a choice between accepting and rejecting in `PrivilegedDaemon`;
  in `RemoteLauncher` its owner check and the caller's SID are modelled.
* `KernelsAreOwned`, `KernelHasOwner` and `ConnectedIsKept` are for one call at
  a time. Stated, but kept by no run because the code does not keep them:
  `FailureIsRolledBack` (manager), `StopIsSilent` (launcher), `DisconnectCancels`
  (reconnects), `ChoiceIsRestored` (home page), `FdModeOmitsDevice` (profile).
* The fetcher's in-memory snapshot and ETag are left out: its only caller
  makes a new fetcher per connect, so they are always empty. Only what the
  injection reads of a document is in it; what it copies is text.
* The reconnect loop never reads the traffic poll or the list of nodes.
  `setMode` is modelled from its disconnect onwards. Events are delivered late,
  and lost when nobody listens.
* `HomeControls` has one group of nodes; selecting in another group is the same
  code with another key.
* In the session, the e-mail code and the captcha hold nothing; the backend's
  address is fixed at build time; subscription and token refreshes of the Home
  page matter by their outcome only.
* On Android the permission dialog and the bind are outcomes of `Establish`.
  A kernel that is stopped there, also by the task a failed connect leaves it
  to, is gone at once; the task is in `KernelManager`. `AccountsAgree`,
  `SignedOutIsOffline`, `TunnelIsServed` and `ScreenCatchesUp` each except what
  their histories record (`failed`, `lost`, `crossed`).
  On iOS the state of the tunnel belongs to NetworkExtension; what the client
  does there is render a configuration, which `ProfilePipeline` has.
* Not modelled: the kernel updater (`KernelUpdater::apply` has no caller in the
  tree, so there is no behaviour of the program to compare with); purchase,
  orders and tickets; the API client, which decodes requests and answers; the
  views and translations; the build. Their reasons stand in `PROJECT.json`.

## Plan

Done are the connection lifecycle, the manager, both launchers, the daemons and
their installation, the profile from fetch to `config.yaml`, the reconnect loop,
the Home page, the sessions of desktop and phone. Next, in order of what
matters most to the machine the client runs on:

1. A composition of `KernelManager` with `RemoteLauncher` in place of the
   outcomes it has for it; the two meet at spawn and stop.
2. `KernelUpdater`, as soon as it has a caller: staging, two renames, check and
   roll-back with a crash between any two.
3. `Purchase`: the poll of an order; contract: an answer changes the order it
   is about. `VpnBinder`: the pending slot of a bind; contract: every caller is
   answered.
