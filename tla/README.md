# chrome-host in TLA+

chrome-host is a desktop application (Tauri, Rust) that creates Chrome instances in
environments, keeps them alive, saves and restores their login state, drives their pages over
CDP and offers all of it through a local HTTP API, MCP tools and a command line. This directory
models the parts of it in which several actors touch the same state, and the rules whose answers
other parts and users rely on; it checks them with TLC and proves the most important results
with TLAPS.

Paths are relative to `src-tauri/src/` unless they start with another directory; `cli/` is
`crates/cli/src/cli/`.

## 1. The system

Everything but the command line runs in one process: tokio tasks for API calls and watchers,
reaper threads that wait for the Chrome children, a SQLite database behind a mutex, and files
below one data directory. Nothing but rows and files survives a crash of the application; Chrome
does. The command line is a client of the HTTP API, one process per command.

| Component | State it keeps | Operations | Correct when |
|---|---|---|---|
| Instance lifecycle (`application/instance_service.rs`) | `instances` row; process table; reaper per child | create, start, stop, restart, delete, stop of an environment; exit callback | no browser is left that no row names; a row is stopped, or deleted, only after its browser; a run's cookies are promoted once; every call ends |
| Reconciler (`application/reconciler.rs`) | `EMPTY_TAB_SINCE` | reconcile on every read and on start-up; window check | what a crash, a missed probe or a relaunch of Chrome made of row and process is repaired |
| keepAlive watcher (`application/keep_alive.rs`) | map of registrations, crash window | register, cancel, scan, monitor loop | restarts what crashed and nothing else; no restart storm |
| Environment service (`application/environment_service.rs`), port allocation | `environments` row, used ports | create, update, cascade delete | no instance outlives its environment; two rows share no port |
| Session vault (`infrastructure/session_vault.rs`) | current file, history files | write_new, restore, clear | the identity changes at once or not at all; the newest generations can be restored |
| Session identity (`session_service.rs`, `profile_service.rs`) | vault lock, profile gates, login_profiles row, snapshot directory | promote, capture, restore, reset, clone | both layers belong together; the snapshot survives |
| Page control (`application/page_service.rs`, `domain/page_control.rs`) | record per instance: connection, tabs, references, frames, waiters, downloads, interception | ensure, some thirty tools, event loop, teardown | one loop serves a record; a tool meets the element it was told of; what it reports is so |
| Fetch interception (`domain/fetch_rules.rs`, `application/fetch_mock.rs`) | rules of a tab, mock listener, tokens | set, clear, decide, answer | a paused request is let go; a rule does what it says, once |
| Resident diagnostics (`diagnostics_service.rs`, `domain/diagnostics.rs`) | watcher per instance, ring, body budget | attach, events, body fetch, query | bounded memory; generations do not mix; secrets do not enter the ring |
| CDP connection (`infrastructure/cdp/ws.rs`) | pending table | send, read, close | every command gets its answer, an error or a timeout |
| CDP sessions (`application/cdp_session.rs`) | session table | issue, validate, sweep, clear | each end is audited |
| Tunnel (`application/tunnel.rs`) | desired and current state, child | apply, supervise, back off, shut down | the tunnel converges to what was asked; one ssh at a time |
| Kernel manager (`infrastructure/kernel/`) | download slot, version directory, meta.json | download, cancel, extract | one download; meta.json never vouches for a partial kernel; whoever asks is answered |
| HTTP, MCP, command line (`api/`, `crates/cli`) | none | some sixty calls by three ways | a call arrives as it was said; a command's exit code is true |
| Settings, database schema, extensions, UI, tray | rows | thin | see section 8 |

How they interact. An API call takes a snapshot of a row, awaits (ps, CDP, SIGTERM, a download)
and acts on what it remembers; there is no lock per instance, only single SQL statements and one
compare-and-set (`mark_stopped_if_alive`). The reaper's callback, the window check, the keepAlive
monitor and the clients' calls therefore all meet at the row. A stop exports the cookies before
the kill; the winner of the compare-and-set promotes them through the session service into the
vault under its lock, and the profile service copies the files under its gate. keepAlive calls the
same `start` a client does. On start-up `reconcile_all` ends before the API opens (`main.rs`).

Page control keeps one connection per instance, opened by the first command that needs it; an
event loop on another thread writes the tables the commands read. Commands of an instance come
one after another, but a command ends at any await: by its 30 s budget, or because the client
hung up and the server drops its future. Diagnostics keep a second connection with a watcher of
their own. Both go over `CdpWs`, one table of pending commands and one reader.

What is hard: the interleavings of those tasks, state read before an await and used after it, a
death of the application between a spawn and the row write or between two file steps, calls
dropped at an await, events that overtake answers, timeouts, limits (fuse, generations, backlog,
ring, budgets). The list with its lines is under `hazards` in `PROJECT.json`.

## 2. Modules

| Module | Models | Variables that matter |
|---|---|---|
| `InstanceLifecycle` | one instance: row, processes, reapers, concurrent calls, reconciliation, crashes | `row`, `proc`, `watch`, `task`, `export`, `emptyTab` |
| `KeepAlive` | EXTENDS it: registrations, monitors, fuse; a monitor's restart is a task of the lifecycle | `entry`, `window`, `mon` |
| `Provisioning` | creations and the deletion of one environment: names, ports, directories, rows, foreign keys | `rows`, `dirs`, `browser`, `create`, `del` |
| `VaultPromise`, `SessionVault` | abstract: what a vault promises whatever is interrupted; the files and their steps, which implement it | `cur`, `hist`, `op` |
| `SessionIdentity` | the two layers of an environment's identity: promotion, capture, rollback, reset, clone, the deletion of instances, the two locks, the swap of the snapshot by two renames | `vault`, `row`, `dir`, `old`, `lock`, `gate`, `inst`, `prof`, `task` |
| `PageConnection` | records, connections, event loops, commands, sessions, download-waits | `registry`, `rec`, `link`, `loop`, `call` |
| `PageRefs` | a snapshot and its references against the events of a tab and its frames | `doc`, `frame`, `queue`, `store`, `snap` |
| `PageInput` | clicks, key presses and fills, event by event | `call`, `down`, `field`, `focus` |
| `PageEvents` | the event loop of a session: enabling, dialogs, paused requests, rules set and cleared | `loop`, `dialog`, `request`, `rules` |
| `PageLoads` | navigations and their load waiters | `page`, `queue`, `waiters`, `call` |
| `PageAim` | where a tool aims: selector or reference, frame sessions, projection of a click through two frames | `there`, `box`, `table`, `aim` |
| `PageCommands` | wait, loadall, emulate: polls, clicks, overrides and what is reported | `element`, `clock`, `device`, `call` |
| `HoverScan`, `HoverRules` | the scan of style sheets for hover targets with its budgets; the reading of a sheet's text | `sheets`, `scan`; `sheet`, `made` |
| `AxTree` | the walk of the accessibility trees of a page and its frame, which need not agree with themselves | `page`, `frame`, `walk` |
| `TableExtract` | a table with spans, hidden rows, declared order and a cell budget | `table`, `made` |
| `RequestRules` | the rules of a tab and of the net-rules extension: globs, methods, filters, redirects, limits | `given`, `made` |
| `MockUpstream` | the mock listener: its start, tokens, preflights, retries, hang-ups | `cell`, `server`, `specs` |
| `Diagnostics` | watchers and generations, ring, pending table, body fetches with backlog, permits, budget | `registry`, `watcher`, `buf`, `fetch` |
| `Redaction` | what is taken out of urls, texts and JSON | `given`, `made` |
| `CdpConnection` | `send` with table, guard, write lock and drop; the reader and its drain | `sender`, `table`, `reader` |
| `CdpSessions` | issue, validation, bridge, sweeper, rotation, lock by lock | `session`, `request`, `sweep` |
| `Tunnel` | settings, supervisor, ssh processes with their shells, shutdown, crash | `saved`, `desired`, `sup`, `procs` |
| `KernelInstall` | the single-flight installation, file by file, with cancels, drops and crashes | `meta`, `parts`, `slot`, `task` |
| `Surfaces` | command line, HTTP, MCP: names, places, routes, what is required, dropped or defaulted | `given`, `made` |
| `CliFlows` | the commands of several requests: delete, acts by name, login capture and reset, kernel install | `server`, `kernel`, `cmd`, `at`, `did`, `code` |
| `PageSamples` | what the rule modules are applied to | |
| `PageParts` | the page modules, what the tools aim at and report, the server that mocks, diagnostics, socket and CDP sessions side by side, as far as theorems reach | `moving` |
| `MC...` | TLC instances; `MCSerial` and `MCKeepAlive` add a history variable | `moving`; `astray`, `begun` |
| `InstanceLifecycle_proofs` | theorems on the lifecycle and, at its end, on `KeepAlive` | |
| `SessionIdentity_proofs`, `Provisioning_proofs`, `Stores_proofs` | theorems on the first two; on `SessionVault`, and what carries all of them over to `MCStores` | |
| `Services_proofs` | theorems on `Tunnel`, `KernelInstall`, `CliFlows`, and what carries them over to `MCServices` | |
| `CdpConnection_proofs`, `Diagnostics_proofs`, `Pages_proofs` | theorems on the first two; on the other parts of `PageParts`, and what carries all of them over to it | |

An operator named `X_Something` beside an operator `X` is a seeded fault: a plausible bug in the
code `X` stands for, which breaks one property. No specification uses them.

Conventions common to all. One action is the code between two awaits, or between two steps of
file work a crash can fall between; an operation in flight is a record with a place `pc` and what
it remembers. A call that can be dropped has an action that drops it at any place an await is. A
history variable (marked so) is read by properties only. Variables that only bound a behaviour
(`calls`, `left`, `budget`, `changes`, `Max...`) are named as bounds where they are declared.

The rule modules (`Redaction`, `RequestRules`, `TableExtract`, `HoverRules`, `Surfaces`) have
behaviours of one step: an input is given, the rule is applied. Their properties compare what the
code's algorithm makes with a definition that does not follow the algorithm: a text that is built
as a tree and written out is read back as the tree, a glob is matched by the definition of a
glob, a table by what each cell covers, a call by what the client meant.

### Instances: lifecycle, keepAlive, provisioning

`Call` and `Read` begin a task; `Probe`, `Confirm`, `CheckTabs` are `reconcile`; the `...Decide`
actions are the status checks of start, stop, stop_all_for_env and delete; `EnsurePort`, `Mark`,
`Hosts`, `Spawn`, `WritePid`, `WaitCdp`, `Abort`, `WriteRunning`, `CleanExport` are start and
`launch_and_wait`; `Export`, `Kill`, `StopCas`, `Promote` are the stop sequence that stop, the
environment stop and the window check share; `DeleteRow` ends delete; `ExitRead`, `ExitCas`,
`ExitPromote` are the reaper's callback. restart is stop and then start in one task.
`BecomeReady`, `Die`, `CloseWindows`, `OpenWindow`, `Relaunch`, `Hang`, `Recover` are Chrome and its
user: a browser that hangs is a process that lives, holds its port and does not answer; `Age` and
`Ripen` are time; `AppCrash` loses tasks, watchers and memory, `AppStart` runs the boot
reconciliation.

Constants say what the environment may do. `MacOS`: Chrome outlives its last window.
`MayRelaunch`: Chrome replaces its process, which is then no child of the application.
`MayHang`: Chrome stops answering, and may answer again. `Terminate` kills what it is called for, as
SIGKILL does; that `terminate_platform` returns Ok without waiting for the end of a process that does
not go (manager.rs:229-261) is left out.
`MayGlitch`: a pid probe misses a live process. `SlowWatcher`: a reaper pauses between reading the
row and its compare-and-set. `Initially`: what earlier history left. One instance: nothing of the
code's state for two instances is shared but the ports, which are in `Provisioning`. A process id is
used once. A failing SQL statement in a launch is left out. The promotion policy is `always`, the
one that writes most.

In `KeepAlive`, `Poll`, `Confirmed`, `NotConfirmed`, `Restarting` are one round of `monitor`;
`Register` and `Cancel` are called where the code does, by the end of a creation, the environment
stop, delete, the environment update and the start-up scan. `WindowSlides` is time leaving the
60 s window. `begun` in `MCKeepAlive` counts the restarts of a registration by the monitors' steps
and not by the list of crashes the code keeps.

`Provisioning` takes two creations, step by step (used ports, probe, clone, insert, spawn,
ready), against the one deletion of the environment (list, stop and remove each, rows, profile,
environment, root), and starts of stopped instances. The foreign key and the unique index are
guards of the statements.

### Identity: vault and snapshot

`BeginWrite`, `OpenArchive`, `FillArchive`, `Prune`, `Replace` are `write_new`: the archive is
written in place, the current file by a temporary file and a rename. `BeginClear`, `ClearCurrent`,
`ClearHistory` are `clear`. `Interrupt` is a crash, or an I/O error that `?` returns, after any
step. `VaultPromise` knows the current vault and the generations behind it: `Save` moves
the current one to the past in one step, `Forget` may drop all but the newest `Keep`, `Wipe`
resets. The refinement maps the past to the complete history files of other generations.

`SessionIdentity` takes the vault as one value with its past and adds the file layer: a call holds
the vault lock, the gate or both, copies a profile, renames the snapshot away and the new one in
place, marks the row, and may fail, be dropped or die with the application at every step; the
start-up recovery puts back what a crash left under its other name, or fails to. An instance is
deleted file by file beside all this, since `delete` takes neither lock nor gate: a capture finds its
files going, gone, or no directory at all. `fate` is a history of where the last snapshot is: `held`
within reach of every repair, `adrift` when a rename that would have brought it back has failed,
`lost` when a capture without a source has then made an empty directory in its place.

### Pages

`PageConnection` is the record: `Begin` and `Lock` are `ensure`; `Connect`, `AutoAttach`, `Install` are
`establish`; `Route` the end of the attach handshake; `Send` and `Answer` any command of a tool;
`Return` every way out, the budget included; `RegisterWait` and `TimeoutWait` are `download_wait`;
`Receive` dispatches one event, `Enabled` ends the commands an attach sends, `LoopEnd`, `LoopCompare`,
`LoopRemove` are the end of the loop, cut at its locks.

The other page modules take the connection as given and look at one table of the record each,
since tools hold the record's command lock: what meets is one tool, the event loop and the page.
`PageRefs`: a snapshot in several reads, then one exchange of the table, against the events that
invalidate references. `PageInput`: every mouse and key event may be carried out, carried out
and not answered, or refused; `excuses` says which, so that what stays down must be explained. The
page may move the focus and rewrite, disable or remove the field between any two steps of a fill;
`astray` says whether the text went to another element, `since` what the page has done since the
field was cleared.
`PageEvents`: the loop waits inline for the commands it sends, and a dialog blocks them.
`PageLoads`: the answer to `Page.navigate` and the load event come in either order.
`PageAim`: node numbers mean something only in the session they came from; frames go and come back
between the commands of one aim, with a process of their own or in that of the page, before or after
the table has their session. `PageCommands`: each look, click and override may fail, the page
changes at any time, the clock passes.

### Surfaces and commands

`Surfaces` has one table per side and per file: what a body, query or tool may have, in which order
a handler passes it on, which path a client method builds and which route serves it, in which order
a command gives its arguments to the client method. Identifiers in a path are arguments. `OverCli`,
`OverHttp` and `OverMcp` put them together; `Meant` is what the client said, by name.

`CliFlows` has one action per request of a command and per question it asks; `Others` is any other
client, `Download` the installation. The lifecycle's operations are one step each here.

## 3. Runs

| Run | Question | Bounds |
|---|---|---|
| `Serial` | Do calls issued one after another keep row and browser together, while UI reads reconcile between their steps, against exit callbacks, window checks, missed probes, browsers that hang or crash? | 2 pids, a task for the calls and one for the reads, 3 calls or reads of all operations, every initial history |
| `StopRace` | Do concurrent stops, deletions, window checks and the exit callback end one run once and in order, over an application crash? | 1 pid, 3 tasks (two calls and a read, or a boot), 1 crash |
| `AppRestart` | Does a launch interrupted anywhere resolve, is a drifted pid found and a zombie noticed, does every call end? (liveness) | 2 pids, 1 task, 2 calls of start, stop, restart and delete, 1 crash, relaunches, hangs |
| `KeepAlive` | Are restarts per window below the limit with two monitors of one registration, and is an environment stop or a deletion never taken for a crash? | 2 monitors, 2 registrations, 2 pids, 1 call, limit 2, 1 update, 1 crash |
| `Stores` | Do the vault's files implement the promise? Do snapshot, row and cookies stay together? Does nothing outlive its environment? | vault: 3 identities, keep 3, 7 generations; identity: 2 identities, 2 instances, 2 calls at once of 4 (a deletion counts as two), 1 crash, I/O errors at every step; rows: 2 creations, 2 ports, 1 name, 1 start |
| `Pages` | See section 2, pages, and the rules | connection: 2 records, 2 connections, 2 commands at once of 3; 2 snapshots; 2 dialogs; 2 rule sets; 3 documents; 2 watchers or 2 sessions; 3 senders; 2 keys; samples of `PageSamples` |
| `Services` | Does the supervisor end in the settings with one ssh, does meta.json vouch for what is whole, is everybody answered, are clients served as told? | tunnel: 2 targets, 2 callers, 2 events (requests or restarts), 2 spawns; kernel: 2 tasks, 3 calls, 1 crash; every call of every surface with every choice of its optional arguments; 2 instances and 2 environments for the commands |
| `DoubleStart`, `StopKeepAlive`, `KillNine`, `PageRebuild`, `EnvDelete` | disagreements, see section 6 | the smallest that show them |

`Stores`, `Pages` and `Services` are sums: modules that share no state are put side by side, a
variable `moving` says which of them moves in a behaviour, and the others rest in one initial
state. A sum has as many states as its parts together, and a property of a part is checked in
all behaviours of that part; it says nothing of parts moving at once, of which the code has
nothing to say either. Where two modules do meet (a lifecycle under a monitor, the record under the
tables) one EXTENDS the other, or the state of the other is in the module in short (`vault` in
`SessionIdentity`, `server` in `CliFlows`).

`MCPages` extends `PageParts` by `AxTree` and the rule modules, most of which are recursive. The theorems are about
`PartsSpec`, in which the part that moves makes its own steps and the others rest. `MCInit` and
`MCNext` have `PartsInit` and `PartsNext` as their first conjuncts, so every behaviour of `MCPages` is one
of `PartsSpec`.

Why the bounds are enough. A conflict over the row involves a reader, one who changes the row
behind it and the exit callback: three tasks and the watcher of one run. In `Serial` one task makes
calls and the other only reads, so that a probe, its confirmation and the check of the tabs fall
between any two steps of a start, stop, restart or deletion; two processes are the run before and the
run that follows, and three operations are a read across a restart with a call behind it. Two calls
reach a start or restart behind a stop or an interrupted creation, and its wait for a port that a
browser, hanging or not, still holds.
The application crash is a reset of all volatile state: what a second would meet is a state the
first can leave as well. The vault prunes from the fourth generation on and goes three further. A
promotion that meets a capture and a reset behind it are three calls of two tasks. A page record
meets another generation with its second connection; two commands at once are one that connects and
one that waits, the third comes after both; one event is handled and one waits (two unread events
were tried as well). A reference table meets its events with one frame that may be there before
the connection, two documents and two snapshots. Three senders are one that writes, one that waits
for the write lock and one that waits for its answer. A body backlog of one, one permit, a ring of
two and a budget of one body bring every limit within reach of three requests. Two frames in
one another are needed for a projection of more than one step, and a third adds none of another
kind. The trees of `AxTree` have children that are missing, shared, repeated or cyclic. Every
shape a rule tells apart is in `PageSamples`, alone and beside another; texts over its few
characters are enumerated to a length past the longest pattern.

`CHECK_DEADLOCK FALSE` everywhere: when the bounds are used up and Chrome has exited, the system
may have nothing left to do, and a rule that was applied is done. That nobody waits for ever is
checked by properties instead (`SomebodyGoesOn`, `RequestsAreServed`, `TableMatchesWaiters`,
`CallsEnd`, `AskersEnd`).

What the choice of constants leaves out, on purpose:
- `SlowWatcher` is FALSE in `Serial`: with TRUE a late exit callback stops the next run, see section 7.
  It is TRUE in `StopRace`, where only one run exists.
- `MayRelaunch` is TRUE in `AppRestart` only: the exit callback of the replaced process writes
  stopped while the new one answers (section 7), which `StoppedMeansGone` forbids.
- `MayHang` is TRUE in `Serial` and `AppRestart`. In the runs without it nothing asks for an answer
  but the confirmation of a probe, and a probe that is missed while the browser hangs ends a run
  (section 7).
- `BusyQuit` is FALSE in `Services`: the application quits between two requests. With TRUE the run
  takes longer than a run may; with one caller it ends, and the properties hold. `ServicesOneTunnel` is
  proved for both.
- `stop` is left out of `KeepAlive` since it cancels no monitor: that is `StopKeepAlive`.
- `ClearFails` is FALSE in `Stores`; section 7 says what TRUE does.

## 4. Properties

| Property | Says | Would be broken by |
|---|---|---|
| `NamedUnlessAstray` | when nothing is in flight, a live browser is the one its row names, under a status that lets the user stop it; except one whose own run was ended by a read that looked before a restart, or by a missed probe while it hung | an abort that does not kill |
| `NoDoublePromote`, `StoppedMeansGone`, `DeletedMeansGone` | a run's cookies enter the vault once; stopped, or gone, only after the browser | a stop without the compare-and-set, a kill that is not waited for |
| `DeadStartResolves`, `DriftIsRepaired`, `ZombieIsNoticed`, `CallsEnd` | what a crash, a relaunch or a missed exit left is repaired in the end, whatever hangs; every call ends, the wait for the port and for CDP included | a probe believed at once, a wait without an end |
| `NoStorm`, `UserStopIsNoCrash` | all monitors of a registration together restart fewer than the limit per window, also when it is registered again; a stop is no crash | a new registration with a window of its own, a fuse off by one, a cancel after the kill |
| `KeepsPromise` | the files implement `VaultPromise` | pruning from the wrong end, generations that start again |
| `SnapshotSurvives`, `StatusIsHonest`, `SomebodyGoesOn` | the snapshot is there under one of its names unless it is `lost`, and under its own when nobody works and it is `held`; ready means it is there; the locks come free | a recovery that deletes, a guard held across an error |
| `FirstLoginOnce`, `CookiesFollowFiles` | the policy holds against everything that waits for the lock; both layers are of one capture, unless its instance was deleted under it | a check outside the lock |
| `GoneForGood`, `PortsDifferUnlessRaced` | nothing is left of a deleted environment, except a raced row; equal ports only if neither saw the other | a cascade in another order, ports of live rows only |
| `OneLoop`, `SessionsMatch`, `NoWaiterPassedOver` | one loop serves a record; no session crosses connections; a download reaches one who waits | a generation that is not compared |
| `RefsDescribeThePage` | a reference that may be used is of a document that is there, unless its snapshot was overtaken | an event that clears the wrong frame's |
| `NothingStaysDown`, `FillStaysInItsField` | what stays down has an excuse; the text of a fill goes elsewhere only if the page moved the focus behind the clear, and then success is not reported unless the page worked on the field as well | no second release, no check of the focus, a success that is not read back |
| `RequestsAreServed`, `LoadIsNotMissed` | a paused request is let go, a mocked one gets the answer of its rule, once; the load of a navigation is heard | a failure without fallback, a preflight that uses the token, a waiter entered after the answer |
| `BodiesAreAccountedFor`, `NewestIsRegistered` | the ledger is what the ring carries, no entry waits for ever; the newest watcher answers | an overflow that does not settle |
| `TableMatchesWaiters`, `ExpiryIsAudited` | who waits can be woken, locks end with their commands; each expiry is audited | a guard forgotten at the write lock |
| `ToolsTellTheTruth` | the node hit is the node meant; wait, loadall and emulate report what is so; the scan for hovering says when it missed something | a stale session, a selector in the wrong root |
| `SnapshotTellsTheTruth` | every node is shown once, sheets are read as meant | a visited set shared by two trees |
| `RedactionIsSafe` | no secret leaves, what is not secret stays | a flag not inherited by arrays |
| `RulesDoAsTheySay` | a glob matches what it says, a redirect goes where it says, an extracted table is that of the page | too many patterns cut instead of watching everything |
| `OneTunnel`, `TunnelFollowsSettings` | one ssh holds the forward, but for those the search for strays missed, which their shells end; the supervisor ends in the settings as saved, or as told last when requests overlapped or failed | orphans not cleaned, a switch that is not told |
| `VouchedIsWhole`, `AskersEnd` | what meta.json names is there; while no transfer stalls for ever, every launch gets the kernel or an error | a slot that is not released |
| `ClientsAreServedAsTold` | what was said arrives under its own parameter; 2 means nothing was touched, 5 a download that ended, 0 what was asked; nothing is stopped that was not agreed to | a key in another spelling, the first of several names, an edge that is no edge |

Where the code does less than one would wish, the exception is part of the statement, named and as
narrow as it could be made, and described in section 7: `astray` in `MCSerial` (two wrong verdicts of
a read), `fate` and `Vanished` in `SessionIdentity` (a failed rename, an instance deleted under its
capture), `missed` and `alone` in `Tunnel` (pgrep and ps fail, requests overlap), `NoneStalls` in
`KernelInstall`, `since` in `PageInput`, `CountedTwice` in `PageAim` (a box counted twice), blank
answers in `HoverScan`, `Beyond` in `Redaction` (quotes), `Beside` in `Surfaces` (every
`emulate --off` with more).

## 5. Fairness and proofs

Weak fairness on: every step of a call, since tokio polls ready tasks and every await in the code
has a timeout (CDP, ps, the port wait, the kill); every step of a reaper thread; UI reads, since
the desktop UI lists instances every 3 s (`src/App.tsx`), which is what drives reconciliation; the
passing of time (`Age`, `Ripen`); `AppStart`, which says that somebody starts the application again;
a monitor's step, woken every 3 s; the supervisor of the tunnel and the end-of-file its shells
wait for; every step of an installation but two. No fairness is assumed of clients, of Chrome (it need
not become ready, answer, exit or relaunch), of its user, of ssh or of crashes, nor of what the code
waits for without a limit: the transfer of a kernel (manager.rs:237-240 bounds the connection only,
the loop at 282-312 has no limit), the `--version` of its binary, and the ssh session that clears
the remote port (tunnel.rs:630-634). `AskersEnd` therefore says: if no transfer and no `--version`
stalls for ever; and `TunnelFollowsSettings`: if that session ends.

Proved with TLAPS, for every value of the constants that the assumption of the module allows. Each
theorem goes the same way: an inductive invariant, that it holds at first, that each action keeps it
(one lemma per action or group), that it implies the property. What the invariant adds to the
property is the reason why the property holds.

*Lifecycle and keepAlive.*

- `TypeCorrect`: `Spec => []TypeOK`, an inductive invariant as it stands.
- `StopRacePromotesOnce`: for any number of tasks, pids, crashes and relaunches, if the calls are
  stops, environment stops and deletions of a running instance, its cookies are promoted at most
  once. `WinnerInv` adds who may still promote: while the row is alive nobody has won the
  compare-and-set, afterwards at most one call or one callback holds a win, and until it is used
  nothing has been promoted.
- `StopRaceStopsGone`, `StopRaceDeletesGone`, `StopRaceBrowserIsNamed`: under the same condition and
  without relaunches, the row becomes stopped, or goes, only after the browser, and a living browser
  is the one its row names; all three without browsers that hang. `GoneInv` adds: one process was ever born; the row names it and is not
  alive only when it is gone; and what each call knows from its snapshot and place (an alive
  snapshot names the process; past the kill nothing lives; a call that decided to delete saw a row
  nobody can bring back). The condition (`OnlyStops`) is needed: with starts among the calls
  `NoDoublePromote` is false (section 7).
- `SerialBrowserIsNamed`, `SerialStopsGone`, `SerialDeletesGone`: the same three with every call
  allowed, launches and restarts among them, every initial history and probes that miss a live
  process, for any number of pids and calls, as long as calls come one at a time, no process is
  replaced or hangs, no exit callback is late and the application does not crash (`OneCaller`). `SerialInv` says
  which browser may live at each step of the call: none between the look at the port and the spawn,
  nor between the kill and the end of the stop; then the one just spawned; at all other times the one
  the row names, under an alive status. It adds that the row is `starting` exactly inside a launch,
  that a snapshot keeps the pid of the row and is alive if the row is, and that a callback that found
  its own pid has a dead one and no launch under way. The conditions are needed: without
  any one of the others TLC finds each of the three properties violated with two calls and three pids;
  with a browser that hangs, the first and the third. `NamedUnlessAstray` is what is left of the first
  with reads between the steps and browsers that hang, and is only model-checked.
- `FuseHolds`: `KSpec => []FuseBound` for every limit and number of monitors, registrations and pids:
  the list of crashes of a registration holds fewer restarts than the limit. `FuseInv` holds because
  a restart enters the window only below the limit. That the list is the right thing to count is
  what `NoStorm` checks.
- `StopsAreNoCrashes`: no monitor begins a restart behind the kill of an environment stop. `CancelInv`
  adds: a monitor that runs has its registration; while a client's stop is under way there is none;
  nobody calls beside the boot, which registers. The conditions (`StopsCancel`) are that stop and
  restart, which cancel nothing, are not called (the run `StopKeepAlive` is what happens then), and
  that a creation has no other client beside it, since its end registers behind the cancellation.
  That no update of the environment has come is part of the property.

*Stores.* Each is proved of its module and carried over to `MCSpec`, there under the names `Stores...`.

- `VaultImplementsPromise`: if no reset is cut short, the files implement `VaultPromise`, whatever
  writes are interrupted and whatever pruning fails, for every `Keep`. `VaultInv` adds: one file per
  generation; only copies of the current identity may be unfinished or carry its number; the current
  file is in the history once the archive is done; no current file means no history. Pruning maps
  to `Forget` because the newer files are the newer generations of the past and the current one.
  `ArchivesAreNew`: under the same condition, an archive overwrites no other generation.
- `StoresKeepSnapshot` (`SnapshotSurvives`) needs no condition: `fate` follows the renames that fail.
  `StoresRowIsHonest`, `StoresLocksLetGo`,
  `StoresKeepFirstLogin` and `StoresCookiesMatchFiles` follow from the same invariant, `IInv`: which
  operation can be where; who holds the vault lock and the gate; where the last finished snapshot lies
  and what each step of a swap finds; that the row says capturing exactly while somebody captures;
  that what a promotion saw under the lock still holds; that the source of the last snapshot is the
  instance whose cookies come next, or has vanished. Before the gate a call moves without
  touching the snapshot; behind it it is alone.
- `StoresDeletedStaysDeleted`, `StoresPortsCollideOnlyInARace`: for any number of instances,
  creations, names and ports. `RowInv` adds what a creation knows on its way: its id is its own and has
  no row; what it saw had a row, and has its port in the used set as long as the row is there; its
  port is not in that set; a row remembers only rows that were inserted before it. The deletion needs no
  more than the foreign keys.

*Pages*, as parts of `PartsSpec`.

- `OneLoopServes`, `SessionsStay`: one loop serves a record and no session crosses to another
  connection, for any number of records, connections, commands and targets. `PageInv` adds: whoever is
  past the lock holds it; whoever connects found the slot empty and its connection is its own and
  has no loop yet; a loop that serves is that of the connection in the slot. The slot is emptied by
  the end of the loop alone, so the generation a loop compares with every event is never an old one.
- `DroppedCommandsLeaveNothing` joins `LocksAreGivenBack` and `TableIsTheWaiters`. The lock of a record
  is held exactly while a command runs behind it: by `WaitInv` a live sender of a queue belongs to a
  command that waits, and is its only one, so a download that ends takes no command out from
  behind a lock. An entry of the table of a socket stands for a command that waits, and every command
  that waits has one or an answer, save those that entered after the last drain.
- `DownloadsGoToWaiters`: besides, who waits is in the queue it entered (`EnteredInv`).
- `ReferencesAreOfThePage`: for any number of frames, documents, sessions and snapshots and any length
  of the queue. `RefInv` says how a reference that is not stale is accounted for (`Kept`): its document
  is there and the table of frames has a living session of its frame, or an event under way ends the
  frame, or one tells of the navigation, whichever session the table has by the time the loop gets
  to it. For that it follows the sessions: one that is queued is alive or its end comes behind it; one
  is asked for only for a frame without usable references; none is drawn twice. What a snapshot has
  gathered so far is kept in the same sense (`SnapOk`), until an event overtakes it.
- `CallsReleaseWhatTheyPress`: what is down will be released by the call under way, or has its
  excuse (`DownInv`). `FillsStayInTheirFields`: a fill that is past
  the clear and whose field has lost the focus has a page that moved it since; once its text went
  elsewhere the field is empty, unless the page has worked on it, so that what is read back is not
  the text (`FillInv`).
- `RequestsGetTheirAnswers`: only a pause carries a request, and one that was decided on has a fate
  (`EventInv`). In the server that mocks (`MockInv`) at most one caller starts a server, and none when there is
  one; the one in the cell listens, and tokens lie there only; the token of a request that was sent on
  lies there until it is taken, and nobody asks for one before. `NavigationsHearTheLoad`: the waiter is entered before the command is sent and stays,
  and no event in the queue is of a document still to come (`LoadInv`). `ExpiredKeysAreAudited`:
  inductive with the types.
- `ToolsReportWhatIsSo`: for any number of moves of the frames. `AimInv` adds: a session is never used
  again, so a frame that has gone is known, if at all, under a session no other frame will have, and
  when the table has the session of the inner frame it has that of the frame around it too
  (`TableFollows`); a call nothing disturbed has climbed through as many boxes as its point has been
  projected through (`Climbing`). `CommandInv` says what a command remembers at each of its steps
  (`Waiting`, `Loading`, `Emulating`) for a module with all commands, of which both instances take
  steps (`CommandsMove`). `HoverInv`: a scan that has missed something other than a blank answer
  was cut, and a scan that waits has missed nothing. The exceptions `CountedTwice` and blank are the code's
  (section 7).
- `WatchersFollowEachOther`: watchers are born in order, and the registered one is the newest and of the
  current generation (`RegistryInv`). `BodiesAreKeptTrackOf`: the ledger is the sum of what the ring
  carries, and whatever waits for its body has a fetch under way (`BodyInv`, per buffer `Sound`).

*Services.*

- `ServicesOneTunnel`: the supervisor is before a spawn only when no ssh is alive but those it missed,
  which are orphans: neither registered nor in the hands of a spawn.
- `ServicesKernelIsWhole`: `InstallInv` adds that whoever is past the lock of the download holds it;
  between its look under the lock and its meta.json nothing vouches for the files, unless the binary
  had vanished; it writes meta.json only over all parts.
- `ServicesCommandsTellTheTruth`: the half of `ClientsAreServedAsTold` about commands of several
  requests. `CommandInv` adds: the instance acted on is the one that is named, and nobody else bears
  its name; nothing is changed before the first request that may, and a stop on the way was
  agreed to; what an installation has read of the kernel is still so.

The assumptions of the modules say no more than that a "none" is no member of a set, that bounds
are natural numbers and sets of frames finite, and that the limit of the fuse, the generations kept and
the ring are positive; TLC evaluates them in the runs.

Only model-checked:

- `DeadStartResolves`, `DriftIsRepaired`, `ZombieIsNoticed`, `CallsEnd`, `TunnelFollowsSettings`, `AskersEnd`:
  liveness, and whatever needs ENABLED, is out of the prover's reach. That the two locks of the
  identity let go is proved all the same, since `SomebodyGoesOn` states by guards who can go on.
- `SnapshotTellsTheTruth`, `RedactionIsSafe`, `RulesDoAsTheySay`: they are about `AxTree`, `HoverRules`,
  `Redaction` and `RequestRules`, which are recursive, so no theorem can be stated in a module that
  reaches them, and what a recursion computes would need induction over data; and about `TableExtract`,
  whose rows, columns and grid are folds, for which the same holds.
- The half of `ClientsAreServedAsTold` about single calls: `Surfaces` has no constants, and TLC goes through
  every call its tables allow, so a proof would add nothing.

## 6. Where code and text disagree

| Run | Code | Text |
|---|---|---|
| `DoubleStart` | `start` checks the status and writes `starting` three awaits later: two starts both launch | AGENT-API.md:172, the second gets 409 |
| `StopKeepAlive` | `stop` cancels no monitor, which may restart what the user stopped | keep_alive.rs:6 |
| `KillNine` | the exit callback writes stopped at once; the monitor takes it for a user stop | keep_alive.rs:4 |
| `PageRebuild` | the end of an event loop removes the record, so the next command connects in a new one; a download-wait on the old one is told nothing and runs into its timeout | page_service.rs:718 |
| `EnvDelete` | `delete_by_env` also removes the row of a creation that came after `list_by_env`: no foreign key is left to refuse, and the browser runs without a row | environment_service.rs:196 |

## 7. Observed while modelling, and not kept as runs

Found by TLC with other properties or constants of the same modules, or read off the code while it was
translated. The models follow the code in each.

*Lifecycle.* The old export is removed after `running` is written, and a browser that dies in between
has it promoted again (instance_service.rs:375, against the comment before it). A late exit callback
stops the next run, since its compare-and-set does not compare the pid (:803, against :788). An
`EMPTY_TAB_SINCE` record outlives its run (reconciler.rs:167). After a relaunch of Chrome the exit
callback writes stopped under the new process (against reconciler.rs:6). A crash between the spawn and
the pid write leaves a browser no row names. A kernel download over 300 s is given up as an error while
it runs (reconciler.rs:118). Updating an environment starts a second monitor for a registered instance
(keep_alive.rs:83), and two monitors may both count one crash. A starting row whose process lives stays
starting when the application that launched it has died (reconciler.rs:113-116), and can only be
stopped; a running row stays running while its process lives and does not answer (:79-84, :145-157). A
probe that misses the process of a browser that hangs ends its run, since CDP is the second opinion
(:86-109); so does a read that looked before a restart and judges behind it. Both leave a browser no row
names (`astray`). A failed insert leaves its directory; `map_insert_unique_violation` also maps
violations of foreign keys.

*Identity.* An interrupted `clear` leaves history beside no current file, and generations start again
(session_vault.rs:221; `ClearFails`). A reset is not final: a promotion or capture that waited for the
lock writes the older identity after it (session_service.rs:325-327). When the rename
back of a failed swap fails too, or that of the start-up recovery, the snapshot lies under its `.old` name
only; a capture that finds no source then makes an empty directory and calls it ready, and the next
repair deletes `.old` (profile_service.rs:265-269, copier.rs:113-115; `fate` is `lost`). `delete` takes
neither vault lock nor gate (instance_service.rs:713-741): a capture of an instance that is deleted
meanwhile finds no files, keeps those of an earlier one or an empty directory, and the cookies read
before enter the vault over them (`Vanished`). A promotion or capture may copy from an instance that was launched
again meanwhile, and a clone may mix two snapshots.

*Page control.* A command that waited for the lock of a removed record connects there while the next
connects in a new one, and both connections live (page_service.rs:406, against :302). `LoopCompare` and
`LoopRemove` remove the record of the newer connection when one came between (against :1228). A failed
`establish` leaks its connection. `matched: true` may be recorded for a download-wait that has just
timed out. A snapshot overtaken by a navigation brings dead references back
(domain/page_control.rs:270-276); `or_default()` makes tables for tabs that are gone; a tab whose
`DOM.enable` failed never hears of invalidations; `drop_tab` does not clear `intercept` (against :1725).
A press that was carried out and not answered is reported as "no input was dispatched"
(page_control.rs:186) and never released; so is one whose call is dropped between press and release. A
field disabled or made read-only during a fill is read back as `textContent` (:2455), which an input has
not and a textarea had from the start: a fill of "", or of the original text, is then verified as
success. Text typed behind a moved focus goes to the other element, and is not taken back. The pass path ignores a failed
`continueRequest` and journals "passed" before it; the loop waits up to 15 s for each command a dialog
blocks. `loaded: true` may come from a load that was under way before (documented at :5060). `wait --state
detached` succeeds when any look fails (:4373). The screenshot of a reference in a frame ignores the
frame's session. `project_frame_point` adds the box of
a frame that lives in the process of the page once more, since the quads of what it holds are counted in
it already (:3491-3505; `CountedTwice`). A frame whose parent was skipped is attached under a foreign owner number, and two frames of
one number overwrite each other (:2950-2965). `loadall` does not count the time of its clicks, and
`interval * max_clicks` (:891) and `timeout + WAIT_TOOL_GRACE` (:631) panic on overflow although
`parse_duration` (page_control.rs:846) says it avoids that. A failed override of `emulate` leaves those
before it; a new connection clears them all. A style sheet that is answered without text, and a
selector without a list of nodes, are not counted as truncated (:3250-3256, :3345-3350, against
:3211), so the scan may say ok and have missed them; the rule budget of the scan counts all rules (page_control.rs:935); a `;` in a quoted selector
empties the buffer.

*Rules.* `glob_match` takes a literal `*` in a url for a wildcard's end (fetch_rules.rs:262-290, against
:257). `$01` becomes `\01` and a backslash in a target is not escaped (net_rules.rs). In table_extract.rs
`visible_total` (:213) is not what :44 says, the coverage compares `aria-rowcount` with a total that counts
hidden rows (:243), two cells of one `aria-colindex` overwrite each other (:361), `rowspan=0` is taken
as 1 and hidden rows count in spans. A mock listener whose starter was dropped runs on unused
(fetch_mock.rs:76); a connection lost during the delay uses up the token, and a retry gets 404; tokens never
asked for stay.

*Redaction.* A quoted value is cut at a blank, `&`, `<`, `,` or `;` after `=` and at a line or `<` after `:`
(redact.rs:612-630), so that the rest of `key="two,words"` stays; a value without quotes ends at a quote,
a quoted one at an escaped quote, and a name in quotes before `=` or `:` is not looked up; an element that
is not closed, or holds another of its name, is not taken out whole (all these are `Beyond`);
"Bearer" before a line break swallows the next word; acronyms glued to a word are not split; a
second `#` or `?` starts no pairs.

*Diagnostics and CDP.* A failed `setAutoAttach` leaves a dead connection entered; an entry of
`loadingFailed` may absorb the body of a twin; a full pending table is not cleared (diagnostics.rs:35-36
against :477). Writing and waiting for the write lock are outside the 15 s of a command; a command entered
after the last drain waits them out. A CDP session issued while the token rotates survives the rotation, a
bridge outlives its session, and one end may be audited twice.

*Tunnel and kernel.* Two settings requests at once can leave the tunnel enabled without a target
(AGENT-API.md:546), and a stale view may be applied last, so that the tunnel follows other settings than
those saved until the next request (api/settings.rs:37-49; `alone`); a request that fails between two rows
leaves the first changed and tells the tunnel nothing. When pgrep, ps or kill fails, a stray ssh is left
to its shell (tunnel.rs:570-588; `missed`). Clearing the remote port runs an ssh that blocks the
supervisor without a limit (:630-634). A transfer of a kernel that stalls keeps the slot, and every launch
that needs one waits (manager.rs:237-240, :282-312; `NoneStalls`); the backoff is never reset; a spawn that fails
to start its stderr thread stays registered. `start_download` answers true before
its task has the flag, so two answers of true may come for one download (manager.rs:133); meta.json is
written in place, and an error leaves none that can be read.
`status()` reads the files before the flag (:105-117): a poll between the end of the one and the fall of the
other ends an installation that succeeded with exit 5, "aborted and not installed", against runtime.rs:120.
`StalledHasEnded` allows this, since the download has ended.

*Command line and surfaces.* Its client gives up after 30 s, so a slow stop or capture is reported as
exit 8 and done all the same. `install --timeout 0` may poll for ever after a fast failure, and exit 9
says the download goes on (runtime.rs:243). The 409 of an environment's deletion may come after
directories were removed. error.rs says exit 2 means no request was sent, but a second question comes after
a DELETE. A capture whose first look read version 0 asks nothing, and overwrites what somebody captured
meanwhile (login_profile.rs:206). `emulate --off` with `--user-agent`, `--mobile` or `--touch` drops them,
while HTTP passes them on and the service refuses (`Beside`); clap does not stop `emulate` without a form,
against page.rs:905. MCP's `register_extension` does not trim or refuse an empty path as HTTP does. An explicit
null for `off` or `browser` is refused. Paths and queries are not percent-encoded. A deletion that races a
stop of the same instance may end with exit 5 although it could go on.

## 8. What is not modelled

- Extensions: registration and configuration are single rows written by single statements; the generated
  directories are file I/O that is written anew on every launch.
- Settings other than the tunnel's and the token, health checks, activity log, tray, autostart, paths,
  the desktop UI: rows and read-only views, with no step between which another actor could come.
- The schema and its migrations run once, alone, before anything else.
- The event stream of the API, authentication, status codes nobody tells apart, printing.
- The console ring of the diagnostics (it carries no bodies and no ledger) and the HAR layout.
- The key table, paper sizes, hosts file and mirrors of the kernel: data without control.
- Evaluations, scripts and skills: tooling around the program.

`PROJECT.json` gives the status of each component and, under `map`, the lines each definition stands for.
