# A TLA+ model of XyDesk Remote

XyDesk Remote is an Android remote desktop client. Its own code is a Kotlin application
(`src/client/Android/Studio/app`, `core-rdp`, `features-*`) over a Java/C bridge
(`freeRDPCore`), a vendored FreeRDP (`libfreerdp`, `winpr`, `channels`), a Windows host agent
(`src/host-agent`) and a small Cloudflare worker. The project models the part where mistakes are
hard to see in a test: the life of a remote session across four kinds of threads, the screen and
the foreground service that drive it, the way of the picture to the screen, and the queue that
carries the user's input from the screen to the RDP thread.

In what follows `SessionManager.kt`, `XyDeskSession.kt`, ... stand for the files of those names
in the Android client.

## 1. Inventory

| Component | State it keeps | Operations | Meets | Modelled |
|---|---|---|---|---|
| `SessionManager.kt` | `_state`, `_stage`, `core`, `watchdogToken`, `userInitiatedDisconnect`, `released`, `connectedAtMs`, retry counters, the worker executor | `connect`, `cancelConnection`, `disconnect`, `release`, callbacks, watchdog, fallbacks, `OnAuthenticate`, worker task | the UI, GlobalApp, LibFreeRDP, the audio bridge | `SessionManager`, promised by `SessionContract` |
| `GlobalApp.java`, `LibFreeRDP.java`, `android_freerdp.c` | `sessionMap`, `sessionListeners`, `mInstanceState`, one native thread per instance, its abort event | create, start, abort, terminal callback, `freeInstance` with a limited wait, dispatch to main, screen-off disconnect | SessionManager, FreeRDP | `NativeCore` |
| `android_event.c` | ring `events/size/count/head`, `isSet` | push (merge, append, grow, roll back, refuse), pop, drain, init, uninit | UI threads, RDP thread | `AndroidEventQueue`, `InputEvents`, `InputFifo` |
| `XyDeskSession.kt` (session screen), `XyDeskSessionActivity.kt` | remembered state, keys of the effects, reconnect window, pending settings | reconnect with backoff, reconnect to apply settings, black-screen check, buttons, lifecycle | SessionManager | `SessionScreen` |
| `XySessionService.kt`, `SessionRegistry.kt` | live and active sessions, three start/stop flags, the foreground service | start, stop, `onStartCommand`, `onDestroy`, add, remove, kill | the activities, Android | `SessionService` |
| `SessionSurfaceController.kt` | `bitmap`, `inst`, dirty flags, the view | update, resize, bind, catch-up, flush, draw, release | the drawing callbacks of the bridge, main | `SessionSurface` |
| `QuicAudioBridge.kt` | sockets, running flag, receive/capture/watchdog threads | start, stop, restart | SessionManager, host agent | existence only |
| `XyDirectConsoleStreamClient.kt` | frame fragments, decoder | receive, reassemble | nobody: the application never constructs it | no |
| `XyHostInput.kt`, virtual pad | sequence numbers, held keys | send, release all | host agent | no |
| screen recorder | encoder and muxer | start, stop | the surface | no |
| file transfer, updater, cloud sync, clipboard history | plans and progress | mostly I/O | | no |
| resolution, RTT smoothing, endpoint and URI parsing | none or one number | pure, with unit tests | | no |
| host agent | client sessions, stream loop | | the client | no |
| Cloudflare worker, web pages, UI screens, packaging | none that two actors share | | | no |
| vendored FreeRDP / WinPR | | | | no, except `freerdp_connect_begin` and `freerdp_reconnect` |

`PROJECT.json` lists each with its sources and the reason.

### What is hard here, and what makes it correct

* **Sessions end on several threads at once.** A terminal callback (main), the unreachable and
  exception paths (worker) and `release()` (a daemon thread) all free the current native instance
  while its native thread may be anywhere between creation and its last callback. Correct means:
  never freed under a running thread, freed by exactly one of them, forgotten by none.
* **Everything is asynchronous and late.** Callbacks, watchdogs, fallbacks and retries are
  posted for one attempt and run during another, possibly for an instance at the same address.
  Correct means that they act on the session they were posted for or not at all.
* **The user stops what is in progress.** The abort event, `userInitiatedDisconnect` and
  `released` are three different ways to say stop, set on main and looked at elsewhere.
* **Waiting.** Servers hang, prompts block the native thread, terminal callbacks may not come:
  each wait needs somebody who ends it.
* **Two layers retry.** The manager reconnects by itself, and the screen reconnects what the
  manager has given up. The screen's loops are coroutines that a composition cancels and launches
  when a key has changed; a change between two compositions, or in the background, is not seen.
* **Android calls back in its own time.** Commands to the service and the activities'
  callbacks are messages that arrive after other sessions have been opened, lost or closed.
* **One bitmap, two threads.** The RDP thread and main write the fields `bitmap` and `inst`
  without a lock, and updates are coalesced into one flush under another.
* **The input queue** is drained by one thread while others push, merges pure moves in place,
  grows while wrapped around, and resets its wake-up event outside its lock.

The list `hazards` in `PROJECT.json` has each of these at the line where it bites.

## 2. Modules

```
NativeCore <- SessionManager  (implements SessionContract)
                  <- MCSessionManager                  (TLC)
                  <- SessionManagerProofs              (TLAPS)
                        <- SessionManagerContractProofs
SessionContract <- SessionScreen                       (TLC)
                      <- SessionScreenProofs           (TLAPS)
SessionService                                         (TLC)
      <- SessionServiceProofs                          (TLAPS)
SessionSurface                                         (TLC)
      <- SessionSurfaceProofs                          (TLAPS)
InputEvents <- InputFifo          (abstract queue)
            <- AndroidEventQueue  (implements InputFifo)
                  <- MCAndroidEventQueue               (TLC)
                  <- AndroidEventQueueProofs           (TLAPS)
                        <- InputEffectProofs
```

**NativeCore** is the session as Kotlin sees it through JNI. `alloc` is what `freerdp_new` returned
and `freerdp_free` has not taken back; `sessionMap` and `listeners` are GlobalApp's maps; `active`
is the set of instances whose `mInstanceState` entry is true; `thread[a]` says where
`android_thread_func` is; `abort` is the abort event; `mainQ` the callbacks posted to the looper.
Addresses are reused, as an allocator may. Three facts of the code carry most of the weight:
`LibFreeRDP.connect` marks the instance *before* the thread exists (`StartThread`);
the terminal callback dispatches first and clears the entry afterwards (`ThreadEnds`,
`ClearEntry`), so a free can fall in between; and `freerdp_connect_begin` resets the abort event
(`ConnectBegin`), so an abort that came earlier is forgotten; `freerdp_reconnect`, which libfreerdp
calls itself while it connects or runs, resets it again (`Reconnects`). The network and the server are
nondeterminism: an attempt may succeed, fail or hang, an established session may end at any time.
`freeInstance` is `FreeOutcome`: it frees once the entry is cleared, and gives up on the instance
(`orphans`) when its limited wait runs out.

**SessionManager** is the class of that name. Main runs one handler at a time. A handler that holds
`lifecycleLock`, or that is about a started instance, which only main drops, is one action.
`cancelConnection`, `disconnect`, the watchdog and the two fallbacks hold no lock: they read `core`
or ask `isCurrent`, and act on the answer later, when the worker may have freed the instance. They
are cut at each such point, and the variable `main` says which handler is under way and which
instance it has read: `cancelConnection` / `CancelTells`; `disconnect` / `DisconnectShows` /
`DisconnectTells`; the timers (`CancelFallback`, `DisconnectFallback`, `WatchdogFires`) /
`TimerTells` / `TimerShows`. So the model shows Disconnecting for an instance that no longer exists,
and calls `freerdp_disconnect` for it; what that call does to freed memory is undefined, and the model
takes the outcome in which the process survives. `release()` stays one action: its critical section
holds the lock, and behind it only its Idle could overwrite an Error that the worker posts in
between, when listeners and sink are already gone. `lifecycleLock` itself is `LockFree`: the worker
holds it from its look at `released` to the start of the thread (`WorkerTakesLock`, `WorkerStarts`),
and everything else that takes it waits.
The worker's task is cut where another thread can get in: after the probe
(`WorkerProbed`), between freeing an unreachable instance and deciding what to show
(`WorkerFreesUnreachable`, `WorkerUnreachable`), around the start under the lock
(`WorkerTakesLock`, `WorkerStarts`), and between showing an exception and freeing (`WorkerException`,
`WorkerFreesFailed`). `OnAuthenticate` is cut between its check and the change of state
(`AuthChecks`, `AuthPrompts`), because `release()` or a callback may run there, and while it
waits for the user (`PromptEnds`). The release thread is cut between
`sessionMap.remove`/`disconnect` and the end of `freeInstance`. Delays carry no time: a posted
runnable may fire at any later moment, which includes every order of the real delays.
The watchdog token is modelled by its effect: `watchdog` is the instance of the one posted
watchdog whose token is current.

**SessionContract** is the manager as its screen sees it: the status shown, how far the current
instance is, whether a retry is pending, what the user has asked for, what the worker still
owes, and the status a handler on main is about to show for an instance it has looked at before
(`call`). It has no threads, queues, tokens or addresses. `SessionManager` implements it
(`KeepsContract`, a refinement mapping over its fields), and `SessionScreen` is built on it, so
the screen is composed with everything the manager can do at the cost of seven small variables.

**SessionScreen** models the effects of `XyDeskSession.kt`. `composed` holds the keys of the last
composition. `Recompose` compares them with the current ones and relaunches the effects
whose keys have changed, all in one frame and in the order of the source. A coroutine is a
program counter: `rc` is the reconnect effect in its delay or in its wait for the native release,
`apply` the effect that polls for the end of the instance after a change of settings. In the
background (`~fore`) no composition runs, but delayed coroutines do. The user's buttons are
enabled by what the last composition shows.

**SessionService** models the companion object's flags, the service and the activities of
several sessions. Android's activity manager is external: a record of the started service, the
duty to call `startForeground()`, and one queue of messages to main. A start may be refused when
the app shows nothing and has no foreground service. A session's connection is nondeterminism.

**SessionSurface** models the picture as the set of regions in which a bitmap or the screen
differs from libfreerdp's buffer. A step of either thread ends where the next access to a shared
field begins. A posted `bind` finds its session by the address it was posted with, the runnable
of a resize by the session itself, as in the code. Two history variables say what has happened,
by where the threads are and not by what they write: `failed`, the last resize made no bitmap; and
`overlap`, main was in the middle of a catch-up or a bind, or wrote, while a resize was between its
change of `bitmap` and its change of the surface.

**InputEvents**, **InputFifo**, **AndroidEventQueue** are `android_event.c`. An event keeps what
`android_push_event` tells apart: a pure absolute move, a pure relative move (one axis: the code
treats the two alike and separately), or anything else. Deltas saturate at the INT16 limits
`Lo`, `Hi`. A push or a pop holds the critical section and is one action; the test of `isSet`,
its reset and each pop are separate. A push that fails after it has stored its event empties the slot
again (`RolledBack`), with or without growth; one that fails before changes nothing. `InputFifo` is
the promise: a queue that is first-in first-out and merges at its end, without capacity, array or
wake-up event.

Definitions ending in `_Something` next to a definition are variants with a plausible bug; they
are not part of any specification and serve to confirm that each property can fail.

Ghost variables: `gen` (attempts so far), `ops` (UI calls so far), `stopped` (the user's last word
was to stop), `orphans`, `accepted`, `saturated`, `pushes`, `late`, `failed`, `overlap`. No guard that models
code reads them; bounds do, and `gen`/`op` in a timer keep two runnables apart that are equal
otherwise.

### What the models take from the callers and from Android

* `setVoiceMicEnabled` is not called after `release()`: the screen with the button is gone.
* `android_event_queue_uninit` runs after the session's thread has ended and after the last push.
* `freerdp_disconnect` may be refused (its event cannot be queued). That is modelled in
  `disconnect()`, which acts on it; in the other callers the result is ignored.
* Delays of the screen's coroutines (2 s and more) are longer than a frame: in the foreground they
  resume after the pending composition.
* A reconnect inside libfreerdp asks for no credentials again.
* One of the two attempts of `promoteToForeground()` succeeds.
* A profile is opened again only after the `onDestroy` of its last activity.

## 3. Runs

| Run | Instance | States | Shows |
|---|---|---|---|
| `sm_safety` | 2 addresses, 3 UI calls, success for attempts 1 and 2 | 1.9 million | memory safety, ownership, tokens, stale callbacks, release, the contract |
| `sm_liveness` | 2 addresses, 2 UI calls, success for attempt 1 | 0.18 million | attempts, disconnects and releases come to an end |
| `sm_stop_final`, `sm_cancel_settles`, `sm_error_left`, `sm_orphan` | as above | | findings 1 to 4 |
| `screen` | unbounded behaviour over the contract | 0.69 million | the screen's loops exclude each other, lose no `connect()`, and retry a lost session |
| `screen_retry` | the same | | finding 5 |
| `service` | 2 sessions, 2 messages in flight | 0.75 million | the foreground contract, cover of active sessions, end of the service |
| `service_kill` | 2 sessions, 3 messages in flight | | finding 6 |
| `surface` | 2 connections at 2 addresses, 3 events, 1 region, 2 sizes | 1.8 million | flushing, one bitmap, a screen that catches up |
| `eq` | ring of 2 that may grow to 3, 4 pushes, 2 positions, 2 keys, deltas -1..1 | 0.18 million | slots, wake-ups, refinement, meaning of the input, delivery |

### Properties of the session

* `NoFreeUnderThread`: a native thread only ever uses an allocated instance.
* `OneOwner`: every allocated instance belongs to exactly one of the manager, the release thread
  and the list of instances that were given up; `sessionMap` agrees.
* `WatchdogIsCurrent`: a watchdog that can still act is the current instance's.
* `ConnectedIsBacked`: Connected is shown only while an instance exists whose start is behind it.
* `NoStrandedInstance`: while the manager holds an instance, something that will free it is on
  its way: the worker's task, the native thread or a queued terminal callback.
* `DisconnectedIsFree`: in Disconnected no old instance can defer the next `connect()`.
* `ReleasedIsQuiet`: what `release()` has cleared stays cleared.
* `NoStartAfterRelease`: no thread is started for a released manager, although the worker looks at
  `released` in one step and starts the thread in another; without the lock TLC finds the
  `release()` in between.
* `KeepsContract`: the manager implements `SessionContract`. The interleavings of the worker's
  late steps and of the unlocked handlers show up there as what a caller must expect: an error
  reported for an attempt that is already over, a failed start whose instance is freed later, and
  Disconnecting, or an error, shown for an instance that the worker has freed meanwhile.
* `ConnectingSettles`, `DisconnectSettles`, `ReleaseFinishes`: the waits end.

### Properties of the screen

* `OneDriver`: the reconnect effect and the apply effect are never both about to connect.
* `AutoConnectHonoured`: no `connect()` of an effect is ignored or deferred by the manager. Such
  a call would be lost, because the effect is over and its keys have not changed.
* `AuthStopsRetry`: while the screen is shown, no automatic attempt starts from an authentication
  or certificate error, also not from one that came up during the delay.
* `LossIsRetried`: a session lost while its screen is shown is tried again.

### Properties of the service

* `ForegroundContract`: the service is never stopped while it owes a `startForeground()`.
* `Covered`: once its commands are handled, an active session has the foreground service, unless
  Android refused the last start.
* `ServiceEnds`: the service does not outlive the last session, if Android refuses no start and
  no session connects after it was closed. The second condition is needed: a manager
  that retries while its activity is being destroyed makes the effect start the service again
  (`late`).

### Properties of the surface

* `DirtyHasFlush`: dirty pixels have a flush posted or about to be posted; `TypeOK` adds that there
  is never a second one.
* `OneSurface`: between the callbacks of the RDP thread there is a bitmap, it is the one of the
  session's surface and it has the remote size, also for a new session at an old address, and
  whatever main has built, bound or caught up with before and after a resize; unless the last
  resize made no bitmap (`failed`) or the two threads were at it at the same time (`overlap`).
* `ScreenCatchesUp`: when the remote side comes to rest with bitmap and surface in step, however
  that came about, the screen shows all of the picture.

The hypothesis `~overlap` is needed. Without it TLC finds, in a trace of 14 states, that main reads
the session's surface for a catch-up, a resize on the RDP thread replaces the field `bitmap` and the
surface, and main then writes the old bitmap into the field (`SessionSurfaceController.kt:863`;
`:382` for `bind`): later updates go to a bitmap nobody draws, until the next resize. `OneSurface`
says that nothing but such an overlap leads there. No statement of the repository excludes it, so
it is a hazard without a property.

### Properties of the queue

* `SlotsExact`: the array holds the queued events and nothing else; in particular no event of a push
  that was rolled back, which its caller frees.
* `NoLostWakeup`: an event that waits while nobody drains has its signal.
* `RefinesFifo`: the ring implements `InputFifo`.
* `InputPreserved`: what the remote sees of the merged events is what the user did: each click
  and key once, in order, at the position where it was made, with the same travel before it
  unless a sum left the INT16 range.
* `AllSent`: every accepted event is sent while the RDP thread runs.

### Bounds

* `Addr`: two addresses let an old instance live beside the current one, and let an address be
  handed out again. `MayGiveUp` keeps one address free, so that `connect()` always finds one; it
  only limits how many instances may be given up in a cleanup on main or on the worker.
* `MaxOps`: three UI calls reach connect/cancel/connect and connect/disconnect/connect with
  every late callback between; retries are not counted. `release` is not counted either.
* `MaxUp`: attempts that can succeed. It ends the loop "connect, lose the line, connect", whose
  later rounds start from the same values; two rounds show a retry that succeeds.
* One credential prompt per attempt.
* `StreakLimit = 2` stands for the 16 frameless samples of the black-screen check, of which not even
  the first is counted. Attempts, losses and taps of the screen are unbounded.
* `Sessions`: with two sessions one can be ended while the other is opened, lost or retried.
  `MaxInbox = 2` bounds what the user and the activities may have in flight; the service's own
  commands and its end come on top. The invariants were also checked with 3 (3.4 million states).
* `MaxConnects = 2`, `MaxEvents = 3`: a second session at the same or another address, with up to
  three paints and resizes shared between the two. The first resize of a session is not counted.
  One region is enough, since a copy of another region is independent of it; two sizes
  tell a bitmap that fits from one that does not.
* `InitialSize = 2`, `Growth = 1`, `MaxSize = 3`, `MaxPush = 4` reach a wrapped ring that grows, a
  push at the limit of the size, and refusals and rollbacks at every size.
* Deltas of -1..1 saturate on the second merge.

Deadlock is checked in `service`, where a user can always open or close something. Elsewhere a
released session, or one nobody calls, may stop.

### Fairness

*Manager.* Weak fairness of the worker (the executor runs its tasks; the probe has a timeout), of
the callbacks and timers (the looper runs what was posted), of the rest of a handler under way, of the release thread (its wait is
limited), and of a native thread's steps that do not depend on the server: entering the
handshake, marking the entry, the end of a credential prompt (which has a timeout), and the end
of a thread *whose abort event is set*. A thread that was not told to stop may hang for ever. The
UI owes nothing.

*Screen.* Frames come and delayed coroutines resume: strong fairness of `Recompose` and `Effects`,
because the app may go to the background and return any number of times between two frames. The
activity connects when it opens. Of the manager only what `sm_liveness` justifies: the worker goes
on, a handler on main finishes, retries fire, an attempt that was not stopped ends in the watchdog at the latest, a disconnect
in its fallback.

*Service.* The main thread handles its messages, and a finished activity is destroyed.

*Surface.* The RDP thread finishes its callbacks and main its runnables and effects. The remote
side and the user owe nothing.

*Queue.* The RDP thread goes on draining as long as its session lasts.

## 4. Findings

Each is a violation run; its trace is the argument.

1. **`StopIsFinal`** - a cancel or disconnect during the probe is lost. The worker starts the
   native thread without looking at `userInitiatedDisconnect` (`SessionManager.kt:482`),
   `freerdp_connect_begin` resets the abort event, `LibFreeRDP.disconnect` does nothing for an
   instance that is not active, and the session the user stopped becomes Connected.
   The comment at `SessionManager.kt:512` says the running connection is cancelled.
2. **`CancelSettles`** - a cancel while the manager waits for its next attempt finds no instance
   and returns before the fallback is posted (`SessionManager.kt:516`); the retry is then dropped
   and nothing leaves Connecting, which the comment at line 520 wants to exclude.
3. **`ErrorIsLeftByConnect`** - after a watchdog or fallback has shown Error, the success callback
   or the credential prompt of the same attempt moves the state to Connected or Authenticating.
   `SessionState.kt:12` lists the next `connect()` as the only way out.
4. **`OrphanWindsDown`** - `freeInstance` gives up on a thread that is "still winding down"
   (`LibFreeRDP.java:293`), but the thread may have reset its abort event after `release()` set
   it, and then goes on to connect with nobody left to stop it.
5. **`RetriesGoOn`** - the reconnect effect makes one attempt per launch (`XyDeskSession.kt:427`).
   An attempt that fails in the background is not composed, so no further one follows; when it
   fails into the state that was composed last, the return to the foreground launches none
   either, and the screen says Reconnecting with the manual button hidden. The comments at lines
   425 and 445 promise retries without limit, also in the background.
6. **`OnlyAskedEnd`** - `performDisconnect` stops the service when no session is *active*
   (`XyDeskSession.kt:1262`), while another may be registered and reconnecting or just opened; the
   service answers by `disconnectAll()`, which ends that one too. `XyDeskSessionActivity.kt:600`
   says that `count()` is used so that a reconnecting session is not affected.

Two further disagreements between the code and its own intentions have no run of their own; both can
be read off the model:

* **The budget of reconnects.** The limits 6 and `1..7` and the log line "auto-reconnect #N"
  (`SessionManager.kt:447-449`) mean several attempts after a lost line. Every `connect` calls
  `sessionUri`, which resets `connectedAtMs` (`SessionManager.kt:315`), so an attempt that fails is no
  longer a lost line: `WorkerUnreachable` never retries, and the end of an established session costs
  at most one automatic reconnect before the screen's loop takes over.
* **The black screen.** The comments at `XyDeskSession.kt:369-383` promise a reconnect when no frame
  has come for six seconds. The effect is launched by a change of the frame rate, and a rate that
  changes has been positive, which sets `everRenderedFrame`: the streak never counts a sample
  (`BlackInvariant`, section 5), and the reconnect behind it is dead code.

Noticed on the way, without a statement of the repository that a run could refute: the apply
effect does not look at `userDisconnect` and polls without limit (`XyDeskSession.kt:865`); the
reconnect button shown for an error does not start a new reconnect window, unlike the one shown
for Disconnected (`XyDeskSession.kt:2124`); `disconnect()` may show Disconnecting for an instance that
the worker has just freed (`SessionManager.kt:539-540`), and then neither a callback nor the fallback
ends it.

## 5. Proofs

Every safety property that a passing run checks is also a theorem, for all values of the constants
that satisfy the assumptions. The invariants named below were checked by TLC on the small
instances before they were proved. Each proof goes through Next group by group and under each
group action by action.

### The session

`SessionManagerProofs`, for every set of addresses and all bounds:

| Theorem | Statement |
|---|---|
| `TypeCorrect` | `Spec => []TypeOK` |
| `Inductive` | `Spec => []IInv` |
| `MemorySafety` | `Spec => []NoFreeUnderThread` |
| `SingleOwner` | `Spec => []OneOwner` |
| `WatchdogToken` | `Spec => []WatchdogIsCurrent` |
| `ReleaseIsFinal` | `Spec => []ReleasedIsQuiet` |
| `NoLateStart` | `Spec => NoStartAfterRelease` |
| `DisconnectedHoldsNothing` | `Spec => []DisconnectedIsFree` |

Assumptions: `AddrAssumption` (null is no address) and `BoundsAssumption` (the bounds are naturals).

`NoFreeUnderThread` is not inductive: `freeInstance` frees because the entry is clear, so one must
know that a running thread has a set entry unless it was given up (`ThreadIsMarked`), and that
needs two facts about ownership: a fresh address is nobody's (`OneOwner`, or else `CreateSession`
could hand out an address with a thread), and what the release thread holds is no longer the
manager's (`ReleaseTookOver`), or the worker could start a thread under it. `ReleasedIsQuiet` needs
that only the current instance has a listener (`ListensToCore`). `NoStartAfterRelease` needs that a
worker between its look and its start still has the current instance of a manager that is not
released (`StartIsLocked`), which every critical section preserves because it waits for the lock.
`IInv` is the conjunction of these with the types.

`SessionManagerContractProofs`, on top of `IInv`:

| Theorem | Statement |
|---|---|
| `AttemptCourse` | `Spec => []AttemptInv` |
| `EndIsComing` | `Spec => []NoStrandedInstance` |
| `ConnectedHasInstance` | `Spec => []ConnectedIsBacked` |
| `ContractKept` | `Spec => KeepsContract` |

The code tells attempts apart by address, and an address may be handed out again at once. What
makes that safe is the order of the queues, and `AttemptInv` says how far each is: a task of the
worker is the current instance's, with no thread and no callback yet, or a last step of a task
whose instance is gone (`TaskIsCurrent`); once the task is over, the callbacks in `mainQ` are
exactly those the thread has posted and main has not run (`CallbacksFollow`); no callback
outlives its instance (`NothingStale`). `NoStrandedInstance` follows at once. `ConnectedIsBacked`
needs `BackedInv` (Connected implies that the task is over).

`ContractKept` is the refinement. The initial state maps to the contract's, and each action of
the manager maps to the contract step named in the proof or to a stutter. `AttemptInv` supplies
what the mapping forgets: that a callback is about the instance whose progress is shown, that a
retry is pending only without an instance, that the worker's late steps find what the contract
says is owed. `WatchInv` (an established session has no watchdog) excludes a timeout after the
success. A handler that is cut into steps maps to a contract step that fixes `call` and one that shows
it (`Shows`, `Told`); `DueIs` says what is due at each place of the handler, and `HandlerKeeps` that no
other thread changes it. Since `SessionScreen` uses the contract's actions for the manager, its theorems hold of
the screen over any manager that keeps the contract.

### The screen

`SessionScreenProofs`, for every `StreakLimit` (`StreakAssumption`: positive):

| Theorem | Statement |
|---|---|
| `ScreenTypes` | `Spec => []TypeOK` |
| `SingleDriver` | `Spec => []OneDriver` |
| `FreeIsIdle` | `Spec => []FreeInv` |
| `NoLostConnect` | `Spec => AutoConnectHonoured` |
| `NoRetryAfterAuth` | `Spec => AuthStopsRetry` |
| `BlackInvariant` | `Spec => []BlackInv` |

`OneDriver` is not inductive: the flag that tells the two effects apart is changed by a tap while
both coroutines keep running. What excludes them is the *composed* value of it: each effect under
way was launched by the last composition, and its keys allow only one of the two (`DriverInv`).
`FreeInv` says when the manager is free for a `connect()`: an instance that is gone cannot come back
without one, and a session that is shown as up has an instance. `RetryInv` ties a pending attempt
to the composed state it was launched for, and `WindowInv`, which the types need, to a window that
was opened before the effect began to wait. `BlackInv` carries the argument that a positive frame
rate in a connected session has already set `everRenderedFrame`.

### The service

`SessionServiceProofs`, for every set of sessions and any number of messages in flight
(`InboxAssumption`: the bound is positive):

| Theorem | Statement |
|---|---|
| `ServiceInvariant` | `Spec => []ServiceInv` |
| `ServiceTypes` | `Spec => []TypeOK` |
| `ForegroundKept` | `Spec => []ForegroundContract` |
| `ActiveIsCovered` | `Spec => []Covered` |

`ServiceInv` describes the queue to main. The registry holds the sessions whose activity is
alive or being destroyed (`RegistryOK`), and at most the callbacks that an activity's phase
allows are queued (`CallbacksAt`). A `startForeground()` is owed only by a service that is not
running yet, or behind the `DESTROY` of an older one, and no activity's `onDestroy`, which could
stop the new service, lies in front of that (`OwedOK`, `Sealed`). While a session is active, the
service is in the foreground or a command no `DESTROY` follows is queued (`CoverOK`).

### The surface

`SessionSurfaceProofs`, for every set of addresses, regions and sizes and all bounds:

| Theorem | Statement |
|---|---|
| `FlushInvariant` | `Spec => []FlushInv` |
| `NoLostFlush` | `Spec => []DirtyHasFlush` |
| `SurfaceInvariant` | `Spec => []SurfaceInv` |
| `SurfaceTypes` | `Spec => []TypeOK` |
| `SurfaceIsShared` | `Spec => []OneSurface` |

from `SurfaceAssumption` (the bounds are naturals, `None` is no address and no bitmap, there is a
size). `FlushInv` says that `flushScheduled` stands for exactly one flush, which is posted or about
to be posted by the RDP thread; without the "exactly one", a second flush could clear the flag of a
first one that is still to come. `SurfaceInv` adds to the types that the field and the session's
surface follow the RDP thread through a resize (`Follows`): the new bitmap is in the field before
it is the surface. What main holds in the middle of a handler is the session's surface, or there is
none, as long as no resize has been under way at the same time (`MainHolds`); so what it writes
back is what is there.

### The queue

`AndroidEventQueueProofs` and `InputEffectProofs`, for every initial size, growth, limit, bound and
set of events:

| Theorem | Statement |
|---|---|
| `RingInvariant` | `Spec => []RInv` |
| `RingTypeCorrect` | `Spec => []TypeOK` |
| `SlotsKept` | `Spec => []SlotsExact` |
| `WakeupKept` | `Spec => []NoLostWakeup` |
| `Refinement` | `Spec => RefinesFifo` |
| `InputKept` | `Spec => []InputPreserved` |

from `RangeAssumption` (0 lies within INT16) and `SizeAssumption` (sizes are positive, the
first array is within the limit, null is no event). The index arithmetic is isolated in `WrapOnce` and `SlotRange`: inside the array
`(head + i) % size` is `head + i` or `head + i - size`. With these, `SlotsExact` is preserved by
append, pop and growth, a rollback finds the slot empty that it empties (`PushRollsBackStep`), and each action's effect on `Queued` is computed once as a
function and recognised as the abstract `Enqueue`, `Tail` or stutter.

`InputPreserved` compares what two sequences of any length do, which `Effect` defines by recursion.
`InputEffectProofs` first proves that the recursion has exactly one solution and what it says
of a sequence with one more event (`EffectEmpty`, `EffectAppend`), by induction in the form of the
least index at which a claim fails (`LeastElement`, `UpTo`, from the well-foundedness of the natural
numbers). The rest is algebra: an event keeps two effects alike (`AlikeStep`), and a merged event
does what the two it stands for do unless the sum saturates (`MergeAlike`).

### Only model-checked

Liveness: `ConnectingSettles`, `DisconnectSettles`, `ReleaseFinishes`, `AllSent`, `LossIsRetried`,
`ServiceEnds` and `ScreenCatchesUp`. Fairness and ENABLED are outside what the proof system
supports. The six findings are counterexamples and stay with TLC.

## 6. Not modelled

The contents of settings, certificates, clipboard and drawing; input and telemetry calls of
SessionManager; the inner threads of the audio bridge and of the recorder; cursors, zoom and
panels; the notification's contents; real time; process death (nothing of a session is
persisted). Memory inside libfreerdp is not modelled either: that main may read `primary_buffer`
while the RDP thread replaces it is a listed hazard without a property. Vendored FreeRDP, by far
the largest part of the repository, is represented by what the client relies on. The console
stream client is complete code that nothing in the application constructs. The other components
marked "no" in section 1 have their reasons in `PROJECT.json`.

## 7. Plan

1. `AudioBridge`: start, stop and restart of `QuicAudioBridge` against its threads.
2. Host input and its release of held keys, together with the host agent.
3. Pure policies (`RttSmoother`, `SmartResolution`, the IME composition buffer) as operators
   against reference definitions. The induction of `InputEffectProofs` is the tool for proving
   such definitions for every input.
