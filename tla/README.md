# Verification of CamSyringe

CamSyringe runs on a PC, decodes video files and streams them as RTP to an automotive
target whose camera server has been patched to take frames from the network. This
directory holds TLA+ models of the program's own logic, the TLC instances that check them,
and proofs checked by TLAPS. Paths are relative to the repository; `MW` stands for
`src/ui/MainWindow.cpp`.

    tlc -workers 2 -config ControlRaces.cfg MCControlSession.tla     # a run
    tlapm ControlSession_proofs.tla                                  # the proofs of a module

PROJECT.json lists components, runs, hazards, findings and theorems, gives for each
definition the source lines it models, and for each property a mutation of the modelled code
that violates it.

## 1. The system

One process. One Qt GUI thread runs the event loop and owns all of `MainWindow`, the pool of
cameras and the caches. Everything slow runs on a `std::thread` that posts its result back to
the GUI thread's queue (`QMetaObject::invokeMethod`); threads that might block are *handed
off* at the end of a session to a detached cleanup thread instead of being joined
(docs/adr/0004). Two other processes matter: `qcarcam_dispatcher` on the target, which
injects for as long as a declared TCP connection stays open, and the camera server, which
loads `libqcxclient.so` - or the shim linked in its place.

| Component | State it keeps | Operations | Model |
|---|---|---|---|
| Control session (`MW`, `DispatcherClient`, `TcpConnect`) | playback state, check and retry flags, `socketFd_`, `thread_`, `stopRequested_` | Play, Pause, Stop, Configure, close; declaration thread; start-dispatcher retry; kill; protocol probe | `ControlSession`, refining `OneConnection` |
| Shim toggle (`MW`, `RealRefSync`, `InjectorBundleInstaller`) | SHIM/REAL/BLIND box; files of the target | refresh, double-click, the shell command, install | `ShimToggle` |
| Streams (`StreamPool`, `CameraStream`, `Timeline`, `CameraWidget`) and BLF replay (`BlfReplayer`) | pool entries, stop flags, clock origins, decoder and frame counter, event queue, tiles | startAll, stopAll, clearCameras, run(), callbacks | `StreamLifecycle` (threads, tiles, many Plays); `Pacing` and `Canvas` (times, frames and sizes of one Play) |
| Camera geometry (`MW`, `CameraGeometryResolver`, `CameraConfigStore`) | `geometryCache_`, its file, pool sizes, relearn flags | Configure, declare errors, relearn, Read of Camera Configs | `GeometryCache` |
| Connectivity monitor (`TargetConnectivityMonitor`, `PingProbe`) | state, token, in-flight flag, one-shots | start, tick, probeNow, the ping threads; the check of Play | `TargetMonitor`, refining `SharedAnswer` |
| Configuration files (`ConfigFiles`, `SessionConfigStore`, `LaunchConfig`) | copies in several directories | save, load, merge with the command line | `ConfigStores`, refining `OneFile` |
| SSH (`TargetSsh`, credentials dialog, `PingProbe`) | cache of how each target is logged in to, suppression of failed probes, `known_hosts` | `ensureAuth`, `run`, `scp`, the confirmation of an install | `SshAuth` |
| Target statistics (`TargetStatsStream`, `TargetStatsParser`) | the ssh of a log stream, the remote pid, receiver and applications | start, read, stop and kill; feed, snapshot | `TargetStats` |
| BLF loader (`BlfLoader`) | none, or the frames | reading, units of time, sort | `Pacing`, as the replay's input |
| Target probes, bundle finder | none, or a parsed value | sequential functions | not modelled |
| Dialogs, release scripts | none that lasts | input, packaging | not modelled |

**Interaction.** Play asks the monitor; a Reachable answer lets the control session declare
the cameras on a new thread; what it reports goes to the tiles, to the pool (a rejected
camera stops streaming) and to the geometry cache (a failed camera is read again). Stop ends
the streams, drops the connection and kills the target's processes. Configure replaces
target, cameras and pool while answers for the old ones are still on their way. The shim box
and the install use the same ssh sessions as the geometry readings.

**What is hard.** Results that arrive after the user has moved on; threads of an ended
session that share one descriptor number with the next; a stop flag read between two
blocking calls; a shell command on the target that is cut short, or that outlives the ssh
session that started it; writes to the target that never return; several copies of a file,
of which any may be lost, stale or written by another release.

**What makes each part correct.**

- Control session: the client never closes a number that is not its own and never loses one
  it holds, unless threads overlapped; Idle is quiet; a Play has one retry; a mismatching
  dispatcher gets no session; a Play is answered; a Stop releases the target.
- Shim toggle: the vendor's library is never lost, the box tells the truth about its target,
  no toggle leads to a missing shim, the reference copy is the vendor's.
- Streams: no object dies under its thread, no sender is left behind, one clock per session,
  stopping is prompt, no `std::thread` is overwritten while joinable, Pause, Stop and close
  return.
- Geometry: pool, cache and file agree whatever order readings come back in; nothing is used
  on another target; a dropped camera is read again.
- Monitor: one probe of the right target; everybody gets the same answer, about the target
  they asked for.
- SSH: a login once found is the session's; an install runs as the login its user confirmed;
  a host key that a reflash changed is no failure; nobody pays twice for a failing login.
- Time: no sender is early, whatever pass it is in; all are in step once they have caught up;
  frames leave in the order of the capture; every picture fits what the target decodes.
- Statistics: Stop kills its own tail and nothing else; a row says APP STALLED only of
  applications that have stalled, and "no data" when nothing is known.
- Files: losing one copy loses nothing; a save reaches every place it can; another release's
  settings survive; a login stays with its target.

## 2. Modules and how they correspond to the code

An action is a whole handler: everything it calls that changes state is in the step. A
blocking thread is split where it blocks, or where another thread or the target can get in
between. The data are reduced to what the properties tell apart: a camera size is the id of
the camera it was read for, a file of the target is "genuine", "shimCopy" or a link.
Right before some definitions stand mistaken forms of them (`DisconnectLoads` before
`Disconnect`, `StartSameToken` before `Start`, mostly under a comment "Variant"). They are no part of the
behaviour: the mutations of PROJECT.json put them in place of the definition to show that a
property notices.

**ControlSession.** `Play`, `Pause`, `Stop`, `Configure`, `CloseWindow` are the GUI handlers;
`MonitorAnswers`, `CheckTimesOut`, `VersionAnswer`, `DeclareCompletes`, `Retry` are the queued
calls; `Connected`, `ConnectFails`, `Sends`, `ReadsVerdict`, `Releases` ... are the steps of
`DispatcherClient::threadFunc()`; `Disconnect` is the exchange of `socketFd_`, the shutdown
and the hand-off; `Accepts`, `Replies`, `TearsDown`, `Dies`, `KillLands` are the target, of
which only the one-connection-at-a-time loop is assumed. `window` goes through "joining" and
"gone" because `~DispatcherClient()` runs after the last event. Descriptor numbers are small
numbers the kernel reuses. `mixups` is a history variable that records the two ways threads
get in each other's way (a store after the hand-off; a close of a reused number). The window
between a thread's own `send()` and `recv()` and a reuse of its number is left out. So are
the refusals of Play that depend on the shim, the QCX driver or the QNX version. It is shown to
implement **OneConnection** - attempts numbered in their order, and `disconnect()` ends the latest
connection made - with the declaration threads as attempts, `thread` as the
current one, those in "connecting" as `dialling`, those not yet "done" as `running`, the live
connections as `held` and the one whose number is `socketFd` as `latest`. An attempt that was let go
and connects late becomes the latest; what it displaced is then beyond `disconnect()`. There is no
other way to a second connection. A thread that ends may close the latest connection instead of its
own, when that was given its number. Whether a Pause keeps the connection is left
open there, for the documents disagree (section 7).

**ShimToggle.** `Refresh`, `Toggle`, `Apply`, `Configure` are the GUI side under `shimBusy_`;
`Check` ... `Switch` are the commands of the shell script in the order it runs them, and
`SessionLost` cuts it short after any of them; `InstallStarts` ... `InstallCopies` are the
install. `OutlivesSession` says whether the remote shell may go on after the local `ssh` has
been killed by its time-out: FALSE for the passing run and the theorems, TRUE for
`orphan_toggle`.

**StreamLifecycle.** A `CameraStream` is a pair of camera and Play. `Works` is the loop of
`run()` up to the calls that block, `Sends` the calls into the network that need not return.
`handed` is what the cleanup threads own, `late` counts what
a stream posts after it was told to stop, previews and errors apart. `events` is the GUI's queue, one per camera, in which
consecutive previews join. `HandlerEnds` is the return of Pause, Stop or close from
`blfThread_.join()`.

**GeometryCache.** `job` are the threads of `resolveAsync()` with the target and cameras they
were asked for and the reason; `DeclareAnswered` is the part of the declare callback that
drops entries; `queued` is the call that `applyState(Idle)` puts in the event queue;
`Relaunch` goes back to the file. Which template of the target a size comes from is left out.

**TargetMonitor** has the timer, the ping threads with the token they were started under, and
the one-shots of each Play with their own token. It is shown to implement **SharedAnswer** -
one answer about the current target, told to all who asked for it - under the mapping of the
askers to the reachability tokens and of `waiting` to `pendingOneShots_`. What it shares with
TargetStats is the target alone; the proofs extend both, so the names of TargetStats carry its
name where they would meet (`StatsSpec`, `StopStream`).

**SshAuth** has a record per thread of MainWindow: its phase in `ensureAuth()` (`lookup`, `ping`,
the three attempts of a probe, `prompt`) and in the commands that follow, the target and user it
took along, and what the last ssh answered. `login` is `authByTarget_`, `suppressed` the targets
whose 15 s are not over (they end at any time), `known` what `known_hosts` says of the target. A
dialog is on a stack: the event loop inside one lets another open on top of it. Reflashes,
targets that go away and come back, and keys that are authorised or not are the environment.
Mistyped logins exist, and are stored as the code stores them.

**Canvas** has the arithmetic of `computeOutputSize()`, of the preview and of the letterbox, with
every truncation and rounding to even; a product of doubles is a set of results
(`Truncated`), for it may come out just under an integer. **Pacing** has one Play against the
clock: `Open` per camera in order, then `OpenReplay`, then the loops. A thread that is due runs
at any later time. `held` is what the decoder keeps: it is flushed at the end of a pass and
never drained. `start`, `pass` and `frames` are the pacing origin, the pass number and the
encoder's clock; `Loaded` is the loader's normalisation and sort; `wire` is what the replay has
sent, and when.

**TargetStats** has the stream of one camera. `Start`, `Connect`, `Finish`, `Stop` are the ssh and
its remote tail, `Kill` and `GiveUp` the fate of the kill command, `Read` takes a line into
`HandleLine` and `Feed`, `Row` is what is printed. The target writes publish, client and
detached lines; its applications attach, call and leave, its processes have numbers that are
used again, it reboots, and its server starts anew. Times are ages, capped just over the limits
they are compared with.

**ConfigStores** has the directories in the order of the code, the copies with their dates,
`save()` one directory at a time (`Write` or `Refused`) so that it can be cut short, the
newest-that-parses rule of `readAll()`, the merge at launch, and `Outside`: losses, hand edits
and other releases between saves. Target, user and cameras stand for all fields. It is shown to implement
**OneFile** - one file that a save replaces at one moment or not at all - where `found` is what a
load would find, the moment of the save is its first written copy, and `safe` says that a copy of
what was stored last is left (`took`): `Harm` may change `found` only when the last has gone.

Composition: `TargetMonitor` composes the monitor with the gate of Play, and every other
module composes the GUI handlers of its component with their threads and the target. Between
modules one's outcome is the other's input: the monitor's answer and the protocol probe's are
free in `ControlSession`, the end of a command is free in `SshAuth`, the declare answers are free in `StreamLifecycle` and `GeometryCache`.
Free inputs allow more than the program does, so safety carries over.

## 3. Runs

A run checks the properties its `.cfg` lists. The times are those of two workers.

| Run | Instance | Shows |
|---|---|---|
| `control_races` (2 min) | `MaxPlays` 2, `MaxDeclares` 3, three descriptors, only Reachable, no crash, no probe answers | `StoredFdIsLive`, `RetryBudget`, `IdleIsQuiet`, `OneConnectionHeld` |
| `control_live` (25 s) | `MaxPlays` 1, `MaxDeclares` 2, two descriptors, all answers, crashes, fairness | `StopReleasesTarget`, `PlayIsAnswered` |
| `shim_toggle` (1.5 min) | two targets, one of them with the older copied shim; one command | `GenuineKept`, `ShownIsTrue`, `RealRefIsGenuine`; no deadlock |
| `streams` (2 min) | one camera, two Plays, one event besides previews, one frame of capture, fairness | `StreamOutlivesThread`, `NoOrphanSender`, `FewCallsAfterStop`, `NoThreadOverwritten`, `OwnErrorStays`, `StoppedStreamsEnd`, `GuiReturns` |
| `pacing` (50 s) | one camera and the replay; recordings of one to four packets with and without delay, reordered, late, untimed, mixed; eight pairs of own and declared size; three passes, fairness | `NeverEarly`, `ClocksDriftByPass`, `InStep`, `WireFollowsCapture`, `FitsTarget`, `GoesOn`; by an assumption, the previews of every canvas up to 11x11 |
| `geometry` (2 min) | two targets, one camera, two readings at a time | `EncodedAsCached`, `SizeOfThisTarget`, `NoneForgotten` |
| `monitor` (40 s) | two targets, three ping threads, four starts, four checks, fairness | `OneProbeOfTarget`, `SharesOneAnswer`, `SearchEnds` |
| `ssh_auth` (80 s) | one target, two users of whom one has a key, one install and the shim thread, fairness | `HostKeyHarmless`, `PaysOnce`, `CommandsAsConfirmed`, `LoginSettles`, `LoginIsFound` |
| `target_stats` (40 s) | two process numbers, one application number, `Stall` 1 and `Stale` 2 ticks; one stream with two applications after one another, or two streams with processes of others and two faults; fairness | `KillsOldTails`, `RateOfOneApp`, `StalledIsTrue`, `TailsEnd`, `SilenceIsShown` |
| `config_stores` (1 min) | two directories and a read-only third, two targets, two users, three changes | `UserOfTarget`, `CopiesAreOneFile` |
| `orphan_toggle` | one target, two commands, `OutlivesSession` TRUE | `GenuineKept` is violated |
| `replay_silent` | as `streams` | `ReplayIsComplete` is violated |

**Why the bounds are enough to meet the interesting cases.** Two Plays and three declarations
let a handed-off thread, the thread of the session under way and a retry be alive together,
and three numbers give each its own while one is reused. One Play with its retry is enough for
liveness, where what matters is what a crash and a Stop do to one session. Two targets, one of
each kind, are what a Configure during a query or a toggle can mix up. With two Plays
the old stream, its writes and its events meet the new one; cameras do not interact except
through the origin, which is shared by the replay too. Two readings can come back in either
order, for the same or for two targets. Three pings let two stale ones be out beside the
current one. Two written directories and one read-only one give a partial save, a stale legacy copy and
a tie of dates. An install and the shim thread are the two kinds of thread that differ in what
they may ask; they meet in `ensureAuth()` in every order, and the proofs lift it to any threads.
With its one target `LoginIsFound` holds without the exception for a toggle's dialog: the box is not
toggleable before a login is found, unless a query of another target answers after Configure.
Three passes show what a loop adds, twice over; cameras do not wait for one another, so one
camera and the replay are all that meet at the origin. Two process numbers let one be given to
another process while it is remembered; the two budgets of `target_stats` keep apart what
does not interact, the applications and the processes. The theorems below lift most of the safety properties off these bounds.

**Deadlock** is checked where the system cannot stop (`shim_toggle`). The other instances
stop when a bound is reached or the window has closed, and their `.cfg` says
`CHECK_DEADLOCK FALSE`.

**Symmetry** is used for the descriptor numbers of `control_races` only, a run without
liveness properties.

**Fairness.** Weak fairness of threads and of the event loop, because the operating system
schedules the one and Qt runs the other as long as the process lives. A `connect()` has a
time-out of eight seconds, a ping ends by itself, an ssh command is bounded: their ends are
fair. A `write()` to the target is not: `StoppedStreamsEnd` makes the exception and
`GuiReturns` holds although a write may never return. The user is never obliged to act, the
dispatcher never has to crash; while it is alive it accepts, answers and notices a closed
connection. In `SshAuth` threads run and every ssh and ping has its time-out, a suppression
ends, and the timer queries a target that answers the monitor; dialogs stay open as long as
the user likes. In `Pacing` time passes and what is due runs at some time. In `TargetStats` time
passes and a kill command arrives or is given up. In `TargetMonitor` only the delivery of pings is fair: `SearchEnds` needs neither
the 2 s time-out of MainWindow.h:485 nor the next tick.

**What the violations say.**

- `orphan_toggle`: the test of the backup and the move are two steps and `shimBusy_` ends with
  the local ssh; two remote shells can both pass the test, and the second move puts a link over
  the vendor's library.
- `replay_silent`: `BlfReplayer::stopRequested_` is never cleared (BlfReplayer.cpp:30), so after a
  Pause or Stop every later replay ends before its first frame.

## 4. What is proved

For every value of the constants (with the assumptions named in each module), checked by
TLAPS. Each proof module states an inductive invariant, proves it preserved with one step per
action, and derives the theorems from it; where one invariant would be a large case
analysis, the parts are proved one after the other, each using the earlier ones.

| Module | Theorems | The inductive invariant, and why it is needed |
|---|---|---|
| `ControlSession_proofs` | `TypeCorrect`, `StoredFdLive`, `LeaksAreMixups`, `IdleQuiet`, `MismatchBlocks`, `BudgetKept`, `ClientKeepsOneConnection`, `IdleHoldsNothing`, `PlaysStayAnswerable`, `DispatcherLineMoves` | `ClientInv`: which threads have a number, that live numbers are distinct, that `thread_` is born - without it nothing says that a closed number was one's own. `SessionInv` for the flags. `BudgetInv` counts declarations made, starters, queued retries, failures not yet acted on and the budget left against the Plays: the bound alone is not inductive. `AttemptInv` is what the refinement needs: attempts are born in their order, one that is connecting has no connection yet, one that runs has a number, and Idle has no thread. `NoPlayForgotten` is inductive with the types alone; `Lined` says that a connection is in the dispatcher's line while this side has not closed it |
| `ShimToggle_proofs` | `ShimTypeCorrect`, `GenuineNeverLost`, `BackupNeverTouched`, `ShownTruthfully`, `TogglesDoNotDangle`, `RealRefCopiedFromBoard` | `OneGenuine` (the library is in exactly one place and the other name does not hide it), `OneCommand` (at most one script, and only under the job that started it), `Established` (what the script's earlier steps have made true), `Truthful`, `Grounded`, `Sourced`. All but the type theorem assume `~OutlivesSession`; the run `orphan_toggle` shows why |
| `StreamLifecycle_proofs` | `StreamTypeCorrect`, `StreamsOutliveThreads`, `NoSenderLeftBehind`, `StopIsPrompt`, `OriginShared`, `ThreadsHandedOff`, `ErrorsStayShown`, `ToldStreamsCleanedUp` | what an entry of the pool may be in each state, who owns a running stream, who has been told to stop (exactly the streams a cleanup thread owns), what each phase may still post after that, which Play stamped which clock, where the replay is; `Ordered` relates the events waiting to the tile and the thread that made them |
| `GeometryCache_proofs` | `GeometryTypeCorrect`, `NoForeignSize`, `PoolFollowsCache`, `NoCameraForgotten`, `CacheIsRemembered` | `AskedFor` and `RelearnWaits`: a configured camera without an entry has a reading under way or a pending or queued relearn, in every playback state and not only at Idle |
| `Target_proofs` | `MonitorTypeCorrect`, `OneProbeAtATime`, `GateIsJust`, `MonitorSharesOneAnswer`, `SearchesAwaitPing`; `StatsTypeCorrect`, `StopKillsOldTails`, `RatesCompareOneApp`, `StalledRowsTrue`, `TailsStayFollowed` | Of the monitor: no probe carries a token of the future, the probe that carries the present one is of the present target, what is known is about the target, and a check still waiting has been told nothing. With them every step of the monitor is a step of `SharedAnswer` or a stutter: a stale ping changes nothing, a delivered one is `Answer`, a start is `Watch`, a Play is `Ask`, and a `probeNow()` adds no probe (lemma `BeginCheckSplits`). Of the statistics: `KillsInv`, the pid held is that of a running tail or of one that ended, and a tail's announcement is its first line; `RateInv` and `OneAppPerNumber`, between the words of two applications with one number stands the line that detaches the first; `LagInv`, what was said of an application plus its age never exceeds the time it has been idle, the lines on the way included |
| `ConfigStores_proofs` | `StoresTypeCorrect`, `NothingIsLost`, `LoginsStayTogether`, `SavesEverywhere`, `NewerReleaseRespected`, `CopiesKeepOneFile` | no file is dated after the clock, the copies of what was stored last are intact and newest, a save under way has a later date than every copy it has not written, has gone through the directories before `next` and carries at least the keys it found, and every user a file names came with its target. For the refinement, copies of one date say the same (`SameDate`), and there is a newest copy: of the latest date, in the first directory |
| `SshAuth_proofs` | `AuthTypeCorrect`, `StaleKeysHarmless`, `FailurePaidOnce`, `InstallsAsConfirmed`, `LoginsSettle`, `DialogsHaveWaiters` | `ThreadOK`, of each thread by itself: in which phases it has missed a login or has one, that its commands run as the confirmed one unless the target is in `rewritten`, that a second attempt meets no stale key; and `PaidIsSuppressed`, without which a failure may be paid for twice. `Frame` says what a step of one thread cannot change for the others, so that each action is proved for its own thread only. `DialogsHaveWaiters` is a theorem of the stack alone: what opening and closing a dialog do to the set of threads on it (`DialogOpens`, `DialogCloses`) |
| `Pacing_proofs` | `LayoutsAreSound`, `PreviewsAreSound`, `PacingTypeCorrect`, `StreamsFitTarget`, `NoPassIsEarly`, `ReplayFollowsCapture`, `SendersInStep`, `DriftIsExact` | the sizes are proved from bounds of quotients and truncations, for all naturals. `ClockInv` says where the origin of a pass is - a sum over passes, written as a product - and which packet `deadline` is of; `Timing` says how wire, queue and capture lie to each other; `AllFrames` counts pictures against packets for `DriftIsExact` |

A theorem need not have a run: `LeaksAreMixups`, `MismatchBlocks`, `IdleHoldsNothing`,
`BackupNeverTouched`, `TogglesDoNotDangle`, `OriginShared`, `CacheIsRemembered`, `GateIsJust`,
`NothingIsLost`, `NewerReleaseRespected`, `SavesEverywhere` and the type theorems state properties
that no `.cfg` lists, most of them because a refinement says as much; the modules define
them (`NoSessionOnMismatch`, `BackupKept`, ...). The six theorems of the next paragraph have none either.

Assumptions that are about the world and not about numbers: a command does not outlive its
ssh session (`ShimToggle`); the clock never steps back and nobody else touches the files during
the milliseconds of a save (`ConfigStores`).

Only model-checked: the liveness properties (`StopReleasesTarget`, `PlayIsAnswered`,
`StoppedStreamsEnd`, `GuiReturns`, `SearchEnds`, `LoginIsFound`, `GoesOn`, `TailsEnd`,
`SilenceIsShown`), for liveness under fairness and ENABLED are out of the prover's reach. What
some of them rest on is safety, and proved: that what is waited for is never lost. Fairness then
adds only that it takes its steps.

| Liveness, checked by TLC | The safety under it, proved |
|---|---|
| `PlayIsAnswered` | `NoPlayForgotten`: a playing session shows an answer or has one under way |
| `StopReleasesTarget` | `OneInLine`: no connection this client has done with is before the dispatcher |
| `StoppedStreamsEnd` | `ToldIsHandedOff`: a stream told to stop has a cleanup thread that joins it |
| `SearchEnds` | `SearchAwaitsPing`: a searching session has a ping out whose result counts |
| `TailsEnd` | `TailsAreFollowed`: a tail left running has a kill on its way or is known |
| `LoginIsFound` | `DialogsAreAwaited`: who waits for a dialog has it on the stack, once |

Out of the prover's reach too: induction over data, and RECURSIVE operators, of which the
modules have none.

## 5. Plan

Done, in this order: the control session, the shim toggle, the sender side, the geometry
cache, the monitor with its abstract specification, the configuration files, the logins, the
sizes and the pacing, the statistics. Left:

1. `ControlSession` composed with `TargetMonitor`: the monitor's answers in place of free
   ones, with the 2 s time-out racing the ping.
2. `ConfigStores` for `camera_configs.json`, entries within entries.
3. `parseCamIds` and the port numbers, as operators.

## 6. Not modelled

ffmpeg, Qt and the network are inputs. The camera server is what the link points to. The wire
format of the declaration (`DispatcherProtocol.h`) and the probes of versions and IPv6 are
one-shot queries whose answers gate or warn; the search for an injector bundle and the comparison
of its manifest are sequential and keep no state; the dialogs are the nondeterminism of
Configure; release and setup scripts are no part of the running program. A crash of the
program is modelled where something outlives it (the files, the target's library).

## 7. Observations

Met while modelling, with no run of their own. Line numbers are the code's.

*Control session.* `threadFunc()` stores the descriptor of a connect that succeeds after Stop
(DispatcherClient.cpp:97), then declares and holds it, so the target injects for a session
that is over until the next Stop's kill; MW:1001-1004 says the call was torn down.
`OneConnectionHeld` states what it costs: one connection out of reach for each such attempt.
`StopReleasesTarget` is silent after it. A declaration handed off at Stop may still call back, and the next Play acts
on it (MW:1000; DispatcherClient.h:109-114 says it won't). A queued retry of an ended session
closes the connection of the next (MW:988; MainWindow.h:93-94) or declares while a check is
open (MainWindow.h:486-490) or after `closeEvent()` (MW:990-991). Pause drops a verdict that is
in flight (MW:1004-1007, 1165). README.md:76 and CONTEXT.md:66 say Pause closes the connection, ADR 0011:49 that a Paused session holds
it; the code keeps it (MW:1165), and no property takes a side. `DispatcherClient.h:90-95` describes an `isConnected()` of another time.
Closing the window can wait for a `recv()` that has no time-out (DispatcherClient.cpp:43;
ADR 0004:52): a retry between `closeEvent()` and the destructor declares on a thread whose late
connect is joined for ever. A refused declaration has one outcome, which is applied to the first
camera (MW:1046). Because `disconnect()` hands the thread off, the destructor has nothing left to
join (DispatcherClient.cpp:28-36).

*Threads and objects.* A detached camera thread or ping may call back into a pool or window that
is gone (StreamPool.cpp:48 and 102-105).

*Shim.* On a board that was never toggled, a failure between the move of the library and the
switch (MW:1911) leaves no live library; MW:1893-1895 and ADR 0006:53 say every step that can
fail comes before that. A refresh answered after Configure can be shown for the new target (MW:1712, 1247-1249).
With the live library missing and the backup there, the query says SHIM (MW:1680). An install
and a toggle race on the reference copy.

*Streams.* Stop does not leave every tile at its placeholder, as README.md:77 has it: previews and
errors queued before it, and one of each kind posted after it, are drawn on the tiles it has reset,
after a Configure too (MW:399-410). `FewCallsAfterStop` bounds the second part only, what is posted.
A preview takes away the banner of a rejection (MW:401; README.md:80).
Rejected cameras are enabled again on resume (MW:508; MainWindow.h:60-63). The old sender may
still be writing when the new one starts (CameraStream.h:38-45). Each `open()` of the replayer
leaks a socket (BlfReplayer.cpp:48). `blfThread_.join()` runs on the GUI thread in spite of
ADR 0004; it is bounded by the pacing of one frame.

*Geometry.* The constructor loads the cached sizes (MW:130) but only Configure gives them to the
pool (MW:1310-1314), so a launch from a saved configuration streams at size 0x0 until then
(ADR 0011:42). A relearn started at Stop overlaps the next session's use of the cameras, for
nothing keeps Play from starting (MW:421-425; ADR 0011:46-49). The reason of a known failure is
not saved, so it is tried again after a restart (CameraConfigStore.cpp:30; ADR 0011:30-33, 89).
A failed `uname` leads to the wrong template (CameraGeometryResolver.cpp:183), a failed Read
overwrites good entries, two readings slay each other's `qcarcam_test` (line 253), and a relearn
is skipped when an older answer in flight puts the entry back.

*Monitor.* The 2 s of MainWindow.h:485 are shorter than a ping's worst case of about 3.5 s.
While a shim query is busy a lost target shows BLIND only at a later tick (ADR 0005). `stop()`
is never called.

*Files.* Keys a newer release adds inside a camera or target entry are erased, for these lists
are rebuilt (SessionConfigStore.cpp:44-51, CameraConfigStore.cpp:25-57; ADR 0013). A write
failure is shown although SessionConfigStore.h:33-35 says it never is (MW:1283-1288). If the
clock steps back below the date of a legacy copy, every load returns that copy. Two running
programs overwrite each other's `camera_configs.json`.

*SSH.* `ensureAuth()` stores at its end over what another thread has cached meanwhile
(TargetSsh.cpp:239; TargetSsh.h says what is cached wins); what was typed is stored untried and
stays for the life of the process; a key configured within 15 s of a failed probe is not tried
(TargetSsh.cpp:168-173), whoever's it is, for the suppression knows the target only.
`quickPingUnreachable()` takes a target that answers no ping for unreachable, although
PingProbe.h:23-26 says it never refuses a working one. A toggle whose dialog stays open blocks the
query (`shimBusy_`).

*Time.* The decoder has a thread per core and is flushed, not drained, at the end of the file:
every pass loses its last pictures, and a clip that is shorter than the decoder's delay sends
nothing. The next pass starts at the deadline of the last frame, an interval early
(CameraStream.cpp:579): with both the clocks move by `depth - 1` intervals at every pass
(`DriftIsExact`). A recording of one frame, or without time stamps, loops unpaced. A declared
odd size below the cap is not rounded, and the encoder refuses it. The origin is captured
before the cameras open and before the capture is loaded on the GUI thread: late starters
send a burst. `std::sort` may swap frames of equal time (BlfReplayer.h:58: "in capture order"),
and a frame whose `send()` fails is lost.

*Statistics.* A tail stays on the target when Stop comes before its pid line is read, when ssh is
killed as its command is already on its way, or when the kill does not arrive (ADR 0017: "No remote
process is left behind"); it ends at its next write. From 3 s to 15 s after the reports stop coming
a row says APP STALLED of applications that may be calling. `feed()` compares no pids: after a new
start of the injector a rate may mix two applications. Started, paused or stopped
is the state of the application with the lowest number alone, while the last call of a row is
the latest of all of them, so one that stalls is hidden by one that does not.
