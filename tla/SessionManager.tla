--------------------------- MODULE SessionManager ---------------------------
(***************************************************************************)
(* The lifecycle of one remote session: SessionManager.kt on top of the    *)
(* native core.  Its threads are                                           *)
(*                                                                         *)
(*   main     the Android main looper: every call of the UI, every         *)
(*            connection callback (mainQ, in posting order) and every      *)
(*            postDelayed runnable (timers, watchdog);                     *)
(*   worker   the single "xydesk-rdp" executor thread: probe, then start;  *)
(*   native   one thread per instance (NativeCore), which also runs the    *)
(*            blocking credential prompt;                                  *)
(*   release  the daemon thread release() starts to free the instance.     *)
(*                                                                         *)
(* Main runs one handler at a time.  A handler that holds lifecycleLock,   *)
(* or that is about a started instance, which only main drops, is one      *)
(* action.  cancelConnection, disconnect, the watchdog and the fallbacks   *)
(* hold no lock: they read core, and act on what they read in later steps, *)
(* between which the worker may have freed it.  The worker's task and      *)
(* OnAuthenticate are split where another thread can act in between.       *)
(* Delays are abstracted: a pending timer may fire at any time.            *)
(***************************************************************************)
EXTENDS NativeCore

CONSTANTS MaxOps,    \* bound: UI calls and screen-off disconnects in a behaviour
          MaxUp      \* bound: connect() calls up to this one may get through

ASSUME BoundsAssumption == MaxOps \in Nat /\ MaxUp \in Nat

VARIABLES
    state,       \* _state: the class of the SessionState
    code,        \* the code of an Error state, "none" otherwise
    stage,       \* _stage
    core,        \* the address of core, NoInst for null
    watchdog,    \* instance of the posted watchdog whose token is still current
    timers,      \* pending delayed runnables other than the watchdog
    userInitiatedDisconnect,
    released,
    connectedAt, \* connectedAtMs > 0
    autoReconnectAttempts,
    compatHandshakeStage,
    lastTcpReachable,
    bridge,      \* quicAudioBridge: null, non-null and stopped, or running
    workerQ,     \* tasks of the worker, the running one at the head
    wpc,         \* where the running task is
    rel,         \* the release thread: [pc, inst]
    main,        \* what main has still to do in the running handler, and the
                 \* instance the handler has read
    gen,         \* history: createSession calls so far; core is generation gen
    ops,         \* UI calls so far, for the bound
    stopped      \* history: cancel or disconnect was called, no connect() since

mgrVars == <<state, code, stage, core, watchdog, timers, userInitiatedDisconnect,
             released, connectedAt, autoReconnectAttempts, compatHandshakeStage,
             lastTcpReachable, bridge, workerQ, wpc, rel, gen, ops, stopped>>
vars == <<nativeVars, mgrVars, main>>

SessionStates == {"Idle", "Connecting", "Authenticating", "Connected",
                  "Disconnecting", "Disconnected", "Error"}
ErrorCodes == {"none", "unreachable", "connect_exception", "cancelled",
               "disconnect_unconfirmed", "connect_timeout", "connect_failed"}
Stages == {"IDLE", "PROBE", "HANDSHAKE", "AUTH", "READY"}
BridgeState == {"none", "stopped", "running"}
Busy == {"Connecting", "Authenticating"}
HandlerCodes == {"connect_timeout", "cancelled", "disconnect_unconfirmed"}
\* cancel, disconnect: core has been read.  disconnecting: the state is shown, the
\* native call is next.  expire, insist: the watchdog, the fallback of disconnect
\* is about to call freerdp_disconnect.  A code: that Error is shown next.
MainAt == {"cancel", "disconnect", "disconnecting", "expire", "insist"} \cup HandlerCodes
MainIdle == [at |-> "idle", inst |-> NoInst]
Timer == [kind : {"retry", "cancelFallback", "disconnectFallback"},
          inst : Addr, gen : Nat, op : Nat]

\* The values the fields, queues and program counters can take.
TypeOK ==
    /\ NativeTypeOK
    /\ state \in SessionStates
    /\ code \in ErrorCodes
    /\ stage \in Stages
    /\ core \in Addr \cup {NoInst}
    /\ watchdog \in Addr \cup {NoInst}
    /\ timers \subseteq Timer
    /\ userInitiatedDisconnect \in BOOLEAN
    /\ released \in BOOLEAN
    /\ connectedAt \in BOOLEAN
    /\ autoReconnectAttempts \in Nat
    /\ compatHandshakeStage \in 0..2
    /\ lastTcpReachable \in BOOLEAN
    /\ bridge \in BridgeState
    /\ workerQ \in Seq(Addr)
    /\ wpc \in {"probe", "start", "starting", "cleanup", "decide", "exception", "freeFailed"}
    /\ rel \in [pc : {"none", "begin", "wait"}, inst : Addr \cup {NoInst}]
    /\ main \in {MainIdle} \cup [at : MainAt, inst : Addr]
    /\ gen \in Nat
    /\ ops \in Nat
    /\ stopped \in BOOLEAN

Init ==
    /\ NativeInit
    /\ state = "Idle"
    /\ code = "none"
    /\ stage = "IDLE"
    /\ core = NoInst
    /\ watchdog = NoInst
    /\ timers = {}
    /\ userInitiatedDisconnect = FALSE
    /\ released = FALSE
    /\ connectedAt = FALSE
    /\ autoReconnectAttempts = 0
    /\ compatHandshakeStage = 0
    /\ lastTcpReachable = FALSE
    /\ bridge = "none"
    /\ workerQ = <<>>
    /\ wpc = "probe"
    /\ rel = [pc |-> "none", inst |-> NoInst]
    /\ main = MainIdle
    /\ gen = 0
    /\ ops = 0
    /\ stopped = FALSE

-----------------------------------------------------------------------------
(* Helpers of the class.                                                   *)

\* A plausible bug: the check for the current instance is missing.
isCurrent_Always(a) == TRUE

isCurrent(a) == core = a

transition(s, c) == state' = s /\ code' = c

\* A plausible bug: the token is not bumped.
stopWatchdog_NoBump == UNCHANGED watchdog

\* stopWatchdog bumps the token, which makes every posted watchdog stale.
stopWatchdog == watchdog' = NoInst

\* A plausible bug: no watchdog is posted.
startWatchdog_Off(a) == UNCHANGED watchdog

\* startWatchdog takes a new token and posts a watchdog for instance a.
startWatchdog(a) == watchdog' = a

\* A plausible bug: the field keeps the instance that is about to be freed.
dropCore_Kept == UNCHANGED core

\* core = null, under lifecycleLock, before the instance is freed.
dropCore == core' = NoInst

\* freerdp_disconnect(a): pushes a DISCONNECT event and sets the abort event.
\* (It is refused when the event cannot be allocated or queued; the refusal
\* is modelled in disconnect(), the one caller that acts on it.)  For an instance
\* that was freed after the caller read it the call is undefined: it ends the
\* process, which ends the behaviour, or it changes nothing the manager sees.
freerdp_disconnect(a) == abort' = abort \cup ({a} \cap alloc)

\* LibFreeRDP.disconnect reaches the native side for an active instance only.
LibDisconnect(a) == abort' = AbortIfActive(a)

\* The delayed connect(p) that the end of the current generation posts.
Retry(a) == [kind |-> "retry", inst |-> a, gen |-> gen, op |-> 0]

\* A plausible bug: the fallback is not posted.
postFallback_Off(kind) == UNCHANGED timers

\* postDelayed of the fallback of cancelConnection and disconnect, for the
\* instance the running handler has read.
postFallback(kind) ==
    timers' = timers \cup {[kind |-> kind, inst |-> main.inst, gen |-> gen, op |-> ops]}

\* Bound: cleaning up may give up on all addresses but one, so that connect()
\* always finds an address.
MayGiveUp == Cardinality(orphans) + 1 < Cardinality(Addr)

\* A plausible bug: the start of the native thread is not under the lock.
LockFree_Always == TRUE

\* lifecycleLock is not held by the worker, which is about to start a thread.
\* (Every other critical section is one action.)
LockFree == ~(workerQ # <<>> /\ wpc = "starting")

\* What the running handler does next, with the instance it has read.
Goes(at, a) == main' = [at |-> at, inst |-> a]
HandlerEnds == main' = MainIdle

counters == <<gen, ops, stopped>>
flags == <<userInitiatedDisconnect, connectedAt, autoReconnectAttempts,
           compatHandshakeStage, lastTcpReachable>>

\* cleanupTerminalSession(a).  The caller decides about mainQ.
cleanupTerminalSession(a) ==
    /\ LockFree
    /\ bridge' = "none"
    /\ UNCHANGED thread
    /\ IF isCurrent(a)
       THEN /\ stopWatchdog
            /\ listeners' = listeners \ {a}
            /\ dropCore
            /\ sessionMap' = sessionMap \ {a}
            /\ a \in active => MayGiveUp
            /\ FreeOutcome(a, AbortIfActive(a))
       ELSE UNCHANGED <<watchdog, listeners, core, sessionMap, alloc, abort, active, orphans>>

-----------------------------------------------------------------------------
(* Calls of the UI, on main.                                               *)

\* A plausible bug: connect() does not look at released.
MayConnect_AfterRelease ==
    /\ state \notin {"Connected", "Authenticating"}
    /\ core = NoInst

\* The calls of connect() that are not ignored or deferred.
MayConnect ==
    /\ ~released
    /\ state \notin {"Connected", "Authenticating"}
    /\ core = NoInst

\* Building the URI of an attempt resets connectedAtMs.
sessionUri == connectedAt' = FALSE

\* connect() up to worker.execute; userInitiatedDisconnect is left as it is.
connect(a) ==
    /\ LockFree
    /\ MayConnect
    /\ CreateSession(a)
    /\ core' = a
    /\ gen' = gen + 1
    /\ sessionUri
    /\ transition("Connecting", "none")
    /\ stage' = "PROBE"
    /\ startWatchdog(a)
    /\ workerQ' = Append(workerQ, a)
    /\ UNCHANGED <<userInitiatedDisconnect, released, autoReconnectAttempts,
                   compatHandshakeStage, lastTcpReachable, bridge, wpc, rel>>

UserConnect(a) ==
    /\ ops < MaxOps
    /\ connect(a)
    /\ ops' = ops + 1
    /\ stopped' = FALSE
    /\ UNCHANGED timers

cancelConnection ==
    /\ ops < MaxOps
    /\ ops' = ops + 1
    /\ stopped' = TRUE
    /\ userInitiatedDisconnect' = TRUE
    /\ stopWatchdog
    /\ IF core = NoInst THEN UNCHANGED main ELSE Goes("cancel", core)
    /\ UNCHANGED <<nativeVars, state, code, stage, core, timers, released, connectedAt,
                   autoReconnectAttempts, compatHandshakeStage, lastTcpReachable, bridge,
                   workerQ, wpc, rel, gen>>

\* The instance is told without a look at whether it is still current.
CancelTells ==
    /\ main.at = "cancel"
    /\ freerdp_disconnect(main.inst)
    /\ postFallback("cancelFallback")
    /\ HandlerEnds
    /\ UNCHANGED <<alloc, sessionMap, listeners, active, thread, orphans, mainQ,
                   state, code, stage, core, watchdog, flags, released, bridge, workerQ,
                   wpc, rel, counters>>

disconnect ==
    /\ ops < MaxOps
    /\ ops' = ops + 1
    /\ stopped' = TRUE
    /\ userInitiatedDisconnect' = TRUE
    /\ stopWatchdog
    /\ IF core = NoInst THEN UNCHANGED main ELSE Goes("disconnect", core)
    /\ UNCHANGED <<nativeVars, state, code, stage, core, timers, released, connectedAt,
                   autoReconnectAttempts, compatHandshakeStage, lastTcpReachable, bridge,
                   workerQ, wpc, rel, gen>>

\* Disconnecting is shown whatever became of the instance since it was read.
DisconnectShows ==
    /\ main.at = "disconnect"
    /\ transition("Disconnecting", "none")
    /\ Goes("disconnecting", main.inst)
    /\ UNCHANGED <<nativeVars, stage, core, watchdog, timers, flags, released, bridge,
                   workerQ, wpc, rel, counters>>

\* refused: freerdp_disconnect, called for an active instance, returned false.
DisconnectTells(refused) ==
    /\ main.at = "disconnecting"
    /\ IF refused /\ main.inst \in active
       THEN /\ IF isCurrent(main.inst)
               THEN transition("Error", "disconnect_unconfirmed")
               ELSE UNCHANGED <<state, code>>
            /\ UNCHANGED <<abort, timers>>
       ELSE /\ LibDisconnect(main.inst)
            /\ postFallback("disconnectFallback")
            /\ UNCHANGED <<state, code>>
    /\ HandlerEnds
    /\ UNCHANGED <<alloc, sessionMap, listeners, active, thread, orphans, mainQ,
                   stage, core, watchdog, flags, released, bridge, workerQ, wpc, rel, counters>>

\* The critical section, and the state shown after it.
release ==
    /\ LockFree
    /\ ~released
    /\ released' = TRUE
    /\ stopWatchdog
    /\ bridge' = "none"
    /\ dropCore
    /\ IF core = NoInst
       THEN UNCHANGED <<listeners, abort, rel>>
       ELSE /\ listeners' = listeners \ {core}
            /\ LibDisconnect(core)
            /\ rel' = [pc |-> "begin", inst |-> core]
    /\ IF state \in {"Connected", "Connecting", "Authenticating", "Disconnecting"}
       THEN transition("Idle", "none")
       ELSE UNCHANGED <<state, code>>
    /\ UNCHANGED <<alloc, sessionMap, active, thread, orphans, mainQ, stage, timers,
                   flags, workerQ, wpc, counters>>

\* setVoiceMicEnabled(true) while no bridge exists; with a bridge, a stopped one
\* too, the call is passed on to it and starts nothing.  The guard ~released is
\* the caller's contract: the session screen, and its button, exist until the
\* activity calls release().
setVoiceMicEnabled ==
    /\ ops < MaxOps
    /\ ~released /\ bridge = "none" /\ gen > 0
    /\ ops' = ops + 1
    /\ bridge' = "running"
    /\ UNCHANGED <<nativeVars, state, code, stage, core, watchdog, timers, flags,
                   released, workerQ, wpc, rel, gen, stopped>>

\* GlobalApp.DisconnectTask: the screen-off timer thread disconnects every
\* session of sessionMap through LibFreeRDP.disconnect.
ScreenOffDisconnect ==
    /\ ops < MaxOps
    /\ (sessionMap \cap active) \ abort # {}
    /\ ops' = ops + 1
    /\ abort' = abort \cup (sessionMap \cap active)
    /\ UNCHANGED <<alloc, sessionMap, listeners, active, thread, orphans, mainQ,
                   state, code, stage, core, watchdog, timers, flags, released,
                   bridge, workerQ, wpc, rel, gen, stopped>>

-----------------------------------------------------------------------------
(* The worker's task for instance Head(workerQ).                           *)

WorkerAt(pc) == workerQ # <<>> /\ wpc = pc
TaskDone == workerQ' = Tail(workerQ) /\ wpc' = "probe"

\* A plausible bug: a retry is posted although the user has stopped the session.
WantsSession_IgnoresUser == ~released

\* What every automatic retry asks first.
WantsSession == ~userInitiatedDisconnect /\ ~released

\* The TCP probe returns.
WorkerProbed(reachable) ==
    /\ WorkerAt("probe")
    /\ lastTcpReachable' = reachable
    /\ IF isCurrent(Head(workerQ))
       THEN wpc' = (IF reachable THEN "start" ELSE "cleanup") /\ UNCHANGED workerQ
       ELSE TaskDone
    /\ UNCHANGED <<nativeVars, state, code, stage, core, watchdog, timers,
                   userInitiatedDisconnect, released, connectedAt, autoReconnectAttempts,
                   compatHandshakeStage, bridge, rel, counters>>

\* Unreachable: the instance, whose thread was never started, is freed ...
WorkerFreesUnreachable ==
    /\ WorkerAt("cleanup")
    /\ cleanupTerminalSession(Head(workerQ))
    /\ wpc' = "decide"
    /\ UNCHANGED <<mainQ, state, code, stage, timers, flags, released, workerQ, rel, counters>>

\* ... and only then, outside the lock, the outcome is decided.
WorkerUnreachable ==
    LET again == WantsSession /\ connectedAt /\ autoReconnectAttempts \in 1..7
    IN  /\ WorkerAt("decide")
        /\ autoReconnectAttempts' = autoReconnectAttempts + (IF again THEN 1 ELSE 0)
        /\ timers' = IF again THEN timers \cup {Retry(Head(workerQ))} ELSE timers
        /\ IF again THEN UNCHANGED <<state, code>> ELSE transition("Error", "unreachable")
        /\ TaskDone
        /\ UNCHANGED <<nativeVars, stage, core, watchdog, userInitiatedDisconnect, released,
                       connectedAt, compatHandshakeStage, lastTcpReachable, bridge, rel, counters>>

\* What the worker looks at under lifecycleLock before it starts the thread.
MayStart(a) == isCurrent(a) /\ ~released

\* Reachable: the worker takes lifecycleLock, and keeps it ...
WorkerTakesLock ==
    /\ WorkerAt("start")
    /\ IF MayStart(Head(workerQ))
       THEN stage' = "HANDSHAKE" /\ wpc' = "starting" /\ UNCHANGED workerQ
       ELSE TaskDone /\ UNCHANGED stage
    /\ UNCHANGED <<nativeVars, state, code, core, watchdog, timers, flags, released, bridge,
                   rel, counters>>

\* ... until the native thread is started, unless the arguments are rejected or
\* the thread cannot be created, which throws.
WorkerStarts(ok) ==
    /\ WorkerAt("starting")
    /\ IF ok
       THEN StartThread(Head(workerQ)) /\ TaskDone
       ELSE wpc' = "exception" /\ UNCHANGED <<nativeVars, workerQ>>
    /\ UNCHANGED <<state, code, stage, core, watchdog, timers, flags, released, bridge, rel,
                   counters>>

WorkerException ==
    /\ WorkerAt("exception")
    /\ IF isCurrent(Head(workerQ))
       THEN transition("Error", "connect_exception") /\ wpc' = "freeFailed" /\ UNCHANGED workerQ
       ELSE TaskDone /\ UNCHANGED <<state, code>>
    /\ UNCHANGED <<nativeVars, stage, core, watchdog, timers, flags, released, bridge, rel, counters>>

WorkerFreesFailed ==
    /\ WorkerAt("freeFailed")
    /\ cleanupTerminalSession(Head(workerQ))
    /\ TaskDone
    /\ UNCHANGED <<mainQ, state, code, stage, timers, flags, released, rel, counters>>

-----------------------------------------------------------------------------
(* Connection callbacks, on main in posting order (coreListenerFor).       *)

CallbackFor(kind) == mainQ # <<>> /\ Head(mainQ).kind = kind /\ mainQ' = Tail(mainQ)

\* Whatever its kind, a callback of an instance that is not current is dropped.
StaleCallback ==
    /\ mainQ # <<>>
    /\ ~isCurrent(Head(mainQ).inst)
    /\ mainQ' = Tail(mainQ)
    /\ UNCHANGED <<alloc, sessionMap, listeners, active, thread, abort, orphans, mgrVars>>

\* The audio bridge is stopped and, if the session options ask for audio, a new
\* one is started; otherwise the field keeps the stopped one.
onConnectionSuccess(audio) ==
    /\ CallbackFor("success")
    /\ isCurrent(Head(mainQ).inst)
    /\ stopWatchdog
    /\ userInitiatedDisconnect' = FALSE
    /\ autoReconnectAttempts' = 0
    /\ compatHandshakeStage' = 0
    /\ connectedAt' = TRUE
    /\ stage' = "READY"
    /\ bridge' = IF audio THEN "running" ELSE IF bridge = "none" THEN "none" ELSE "stopped"
    /\ transition("Connected", "none")
    /\ UNCHANGED <<alloc, sessionMap, listeners, active, thread, abort, orphans, core,
                   timers, released, lastTcpReachable, workerQ, wpc, rel, counters>>

\* A plausible bug: the compatibility stage is not limited.
MayLowerHandshake_NoLimit == ~connectedAt /\ lastTcpReachable

\* A first handshake that failed is tried again with lower security, twice.
MayLowerHandshake == ~connectedAt /\ lastTcpReachable /\ compatHandshakeStage < 2

\* auth: the native error string names a logon, password or denial problem.
onConnectionFailure(auth) ==
    LET a      == Head(mainQ).inst
        mayTry == WantsSession /\ ~auth
        compat == mayTry /\ MayLowerHandshake
        line   == mayTry /\ connectedAt /\ autoReconnectAttempts < 6
    IN  /\ CallbackFor("failure")
        /\ isCurrent(a)
        /\ cleanupTerminalSession(a)
        /\ compatHandshakeStage' = compatHandshakeStage + (IF compat THEN 1 ELSE 0)
        /\ autoReconnectAttempts' = autoReconnectAttempts + (IF line THEN 1 ELSE 0)
        /\ IF compat \/ line
           THEN transition("Connecting", "none") /\ timers' = timers \cup {Retry(a)}
           ELSE transition("Error", "connect_failed") /\ UNCHANGED timers
        /\ UNCHANGED <<stage, userInitiatedDisconnect, released, connectedAt,
                       lastTcpReachable, workerQ, wpc, rel, counters>>

\* told: the native error string is one of the four server-side reasons.
onDisconnected(told) ==
    LET a     == Head(mainQ).inst
        again == WantsSession /\ ~told /\ connectedAt /\ autoReconnectAttempts < 6
    IN  /\ CallbackFor("disconnected")
        /\ isCurrent(a)
        /\ stage' = "IDLE"
        /\ cleanupTerminalSession(a)
        /\ autoReconnectAttempts' = autoReconnectAttempts + (IF again THEN 1 ELSE 0)
        /\ IF again
           THEN transition("Connecting", "none") /\ timers' = timers \cup {Retry(a)}
           ELSE transition("Disconnected", "none") /\ UNCHANGED timers
        /\ UNCHANGED <<userInitiatedDisconnect, released, connectedAt, compatHandshakeStage,
                       lastTcpReachable, workerQ, wpc, rel, counters>>

-----------------------------------------------------------------------------
(* Delayed runnables, on main.                                             *)

\* A retry whose session was released or stopped by the user does nothing,
\* and neither does one whose connect() is ignored.
RetryConnects(t, a) ==
    /\ t.kind = "retry"
    /\ ~userInitiatedDisconnect
    /\ connect(a)
    /\ timers' = timers \ {t}
    /\ UNCHANGED <<ops, stopped>>

RetryDropped(t) ==
    /\ t.kind = "retry"
    /\ released \/ userInitiatedDisconnect \/ ~MayConnect
    /\ timers' = timers \ {t}
    /\ UNCHANGED <<nativeVars, state, code, stage, core, watchdog, flags, released,
                   bridge, workerQ, wpc, rel, counters>>

\* CANCEL_FALLBACK_MS after cancelConnection().
CancelFallback(t) ==
    /\ t.kind = "cancelFallback"
    /\ timers' = timers \ {t}
    /\ IF isCurrent(t.inst) /\ state \in Busy THEN Goes("cancelled", t.inst) ELSE UNCHANGED main
    /\ UNCHANGED <<nativeVars, state, code, stage, core, watchdog, flags, released, bridge,
                   workerQ, wpc, rel, counters>>

\* DISCONNECT_FALLBACK_MS after disconnect().
DisconnectFallback(t) ==
    /\ t.kind = "disconnectFallback"
    /\ timers' = timers \ {t}
    /\ IF isCurrent(t.inst) /\ state = "Disconnecting" THEN Goes("insist", t.inst)
       ELSE UNCHANGED main
    /\ UNCHANGED <<nativeVars, state, code, stage, core, watchdog, flags, released, bridge,
                   workerQ, wpc, rel, counters>>

\* CONNECT_WATCHDOG_MS after connect(): only the watchdog whose token is
\* current does anything.  The instance is kept until its terminal callback.
WatchdogFires ==
    /\ watchdog # NoInst
    /\ stopWatchdog
    /\ IF isCurrent(watchdog) /\ state \in Busy THEN Goes("expire", watchdog)
       ELSE UNCHANGED main
    /\ UNCHANGED <<nativeVars, state, code, stage, core, timers, flags, released, bridge,
                   workerQ, wpc, rel, counters>>

\* The watchdog, and the fallback of disconnect, cancel the connection ...
TimerTells ==
    /\ main.at \in {"expire", "insist"}
    /\ freerdp_disconnect(main.inst)
    /\ Goes(IF main.at = "expire" THEN "connect_timeout" ELSE "disconnect_unconfirmed",
            main.inst)
    /\ UNCHANGED <<alloc, sessionMap, listeners, active, thread, orphans, mainQ, mgrVars>>

\* ... and show the error, as the fallback of cancelConnection does at once.
TimerShows ==
    /\ main.at \in HandlerCodes
    /\ transition("Error", main.at)
    /\ HandlerEnds
    /\ UNCHANGED <<nativeVars, stage, core, watchdog, timers, flags, released, bridge,
                   workerQ, wpc, rel, counters>>

-----------------------------------------------------------------------------
(* OnAuthenticate, on the native thread of instance a.  A call without a   *)
(* listener (release() cleared it) or for another instance answers false.  *)

AuthChecks(a) ==
    /\ thread[a] = "connecting"
    /\ thread' = [thread EXCEPT ![a] =
                     IF a \in sessionMap /\ ~released /\ isCurrent(a) THEN "checked" ELSE "authed"]
    /\ UNCHANGED <<alloc, sessionMap, listeners, active, abort, orphans, mainQ, mgrVars>>

AuthPrompts(a) ==
    /\ thread[a] = "checked"
    /\ thread' = [thread EXCEPT ![a] = "prompt"]
    /\ stage' = "AUTH"
    /\ transition("Authenticating", "none")
    /\ UNCHANGED <<alloc, sessionMap, listeners, active, abort, orphans, mainQ, core, watchdog,
                   timers, flags, released, bridge, workerQ, wpc, rel, counters>>

\* The user answers, or PROMPT_TIMEOUT_SEC passes.
PromptEnds(a) ==
    /\ thread[a] = "prompt"
    /\ thread' = [thread EXCEPT ![a] = "authed"]
    /\ UNCHANGED <<alloc, sessionMap, listeners, active, abort, orphans, mainQ, mgrVars>>

-----------------------------------------------------------------------------
(* The release thread: GlobalApp.freeSession.                              *)

ReleaseThreadBegins ==
    /\ rel.pc = "begin"
    /\ rel' = [rel EXCEPT !.pc = "wait"]
    /\ sessionMap' = sessionMap \ {rel.inst}
    /\ LibDisconnect(rel.inst)
    /\ UNCHANGED <<alloc, listeners, active, thread, orphans, mainQ, state, code, stage, core,
                   watchdog, timers, flags, released, bridge, workerQ, wpc, counters>>

ReleaseThreadEnds ==
    /\ rel.pc = "wait"
    /\ rel' = [pc |-> "none", inst |-> NoInst]
    /\ FreeOutcome(rel.inst, abort)
    /\ UNCHANGED <<sessionMap, listeners, thread, mainQ, state, code, stage, core,
                   watchdog, timers, flags, released, bridge, workerQ, wpc, counters>>

-----------------------------------------------------------------------------

\* The handlers of main.  Those that are one action leave main idle.
UI ==
    \/ UNCHANGED main /\ (\/ \E a \in Addr : UserConnect(a)
                          \/ release
                          \/ setVoiceMicEnabled)
    \/ cancelConnection
    \/ disconnect

Callbacks ==
    /\ main = MainIdle
    /\ \/ StaleCallback
       \/ \E b \in BOOLEAN : onConnectionSuccess(b) \/ onConnectionFailure(b) \/ onDisconnected(b)
    /\ UNCHANGED main

Timers ==
    /\ main = MainIdle
    /\ \/ \E t \in timers :
             \/ UNCHANGED main /\ (RetryDropped(t) \/ \E a \in Addr : RetryConnects(t, a))
             \/ CancelFallback(t)
             \/ DisconnectFallback(t)
       \/ WatchdogFires

MainGoesOn ==
    \/ CancelTells
    \/ DisconnectShows
    \/ \E refused \in BOOLEAN : DisconnectTells(refused)
    \/ TimerTells
    \/ TimerShows

Main ==
    \/ main = MainIdle /\ UI
    \/ Callbacks
    \/ Timers
    \/ MainGoesOn

Worker ==
    /\ \/ \E r \in BOOLEAN : WorkerProbed(r) \/ WorkerStarts(r)
       \/ WorkerTakesLock
       \/ WorkerFreesUnreachable
       \/ WorkerUnreachable
       \/ WorkerException
       \/ WorkerFreesFailed
    /\ UNCHANGED main

Native(a) ==
    /\ \/ (\/ ConnectBegin(a)
           \/ Reconnects(a)
           \/ gen <= MaxUp /\ ConnectSucceeds(a)
           \/ MarkConnected(a)
           \/ \E kind \in Terminal : ThreadEnds(a, kind)
           \/ ClearEntry(a))
          /\ UNCHANGED mgrVars
       \/ AuthChecks(a)
       \/ AuthPrompts(a)
       \/ PromptEnds(a)
    /\ UNCHANGED main

ReleaseThread ==
    /\ ReleaseThreadBegins \/ ReleaseThreadEnds
    /\ UNCHANGED main

Next ==
    \/ Main
    \/ ScreenOffDisconnect /\ UNCHANGED main
    \/ Worker
    \/ \E a \in Addr : Native(a)
    \/ ReleaseThread

Spec == Init /\ [][Next]_vars

-----------------------------------------------------------------------------
(* Fairness.  The looper finishes a handler and runs every posted message, *)
(* the executor runs every task; the prompt has a timeout; a native thread *)
(* that was told to abort ends.  A thread that was not told may hang in    *)
(* the handshake for ever, and the UI owes nothing.                        *)

NativeProgress(a) ==
    /\ \/ (\/ ConnectBegin(a)
           \/ MarkConnected(a)
           \/ a \in abort /\ \E kind \in Terminal : ThreadEnds(a, kind)
           \/ ClearEntry(a))
          /\ UNCHANGED mgrVars
       \/ AuthPrompts(a)
       \/ PromptEnds(a)
    /\ UNCHANGED main

Fairness ==
    /\ WF_vars(Worker)
    /\ WF_vars(MainGoesOn)
    /\ WF_vars(Callbacks)
    /\ WF_vars(Timers)
    /\ WF_vars(ReleaseThread)
    /\ \A a \in Addr : WF_vars(NativeProgress(a))

FairSpec == Spec /\ Fairness

-----------------------------------------------------------------------------
(* Properties.                                                             *)

\* LibFreeRDP.connect marks the instance before the thread exists because
\* freeInstance "can free rdpContext while android_thread_func uses it"
\* otherwise: a thread that still uses an instance uses an allocated one.
NoFreeUnderThread == \A a \in Addr : thread[a] # "none" => a \in alloc

\* Every allocated instance has exactly one owner who will free it: the
\* manager (core), the release thread, or nobody when freeInstance gave up on
\* a thread that did not stop.  So nothing leaks silently, and no instance is
\* freed twice or left in sessionMap without an owner.
OneOwner ==
    /\ \A a \in Addr : a \in alloc <=> (core = a \/ rel.inst = a \/ a \in orphans)
    /\ core \notin orphans /\ rel.inst \notin orphans
    /\ core = rel.inst => core = NoInst
    /\ sessionMap = {a \in Addr : core = a \/ (rel.inst = a /\ rel.pc = "begin")}

\* A watchdog that can still act was posted for the instance that is current
\* now, so a late watchdog never times out a later connection.
WatchdogIsCurrent == watchdog # NoInst => watchdog = core

\* Connected is shown only while the manager holds an instance whose native
\* thread was really started: no late callback, fallback or worker step makes
\* a session without a live instance look connected.
ConnectedIsBacked ==
    state = "Connected" => core # NoInst /\ \A i \in 1..Len(workerQ) : workerQ[i] # core

\* The manager waits for a terminal callback before it frees an instance, so
\* one must be coming: the current instance is still with the worker, or its
\* thread is alive, or its terminal callback is queued on main.
NoStrandedInstance ==
    core # NoInst =>
        \/ \E i \in 1..Len(workerQ) : workerQ[i] = core
        \/ thread[core] # "none"
        \/ \E i \in 1..Len(mainQ) : mainQ[i].inst = core /\ mainQ[i].kind \in Terminal

\* connect() is deferred while an old instance exists; the screen that offers
\* to reconnect appears for Disconnected, where that never happens.
DisconnectedIsFree == state = "Disconnected" => core = NoInst

\* After release() nothing of the session is left on main, and nothing
\* brings it back: no instance, no listener, no armed watchdog, no bridge.
ReleasedIsQuiet ==
    released => core = NoInst /\ listeners = {} /\ watchdog = NoInst /\ bridge = "none"

\* lifecycleLock serialises the start of the native thread against release():
\* no native thread is started for a released manager.
NoStartAfterRelease ==
    [][\A a \in Addr : released => ~(thread[a] = "none" /\ thread'[a] = "spawned")]_vars

\* What the screen is promised, in terms of the fields of the class: the status,
\* how far the current instance is, and what the worker still owes.
ShownStatus ==
    CASE state # "Error" -> state
      [] state = "Error" /\ code \in {"unreachable", "connect_timeout"} -> "Unreachable"
      [] OTHER -> "Failed"

Progress ==
    IF core = NoInst THEN "none"
    ELSE IF \E i \in 1..Len(workerQ) : workerQ[i] = core THEN "probing"
    ELSE IF connectedAt THEN "up" ELSE "started"

RetryPending == \E t \in timers : t.kind = "retry"

WorkerOwes ==
    CASE WorkerAt("decide") -> "decide" [] WorkerAt("freeFailed") -> "free" [] OTHER -> "idle"

\* The status that main's running handler is about to show.
HandlerDue ==
    CASE main.at = "disconnect" -> "Disconnecting"
      [] main.at = "disconnecting" -> "Refused"
      [] main.at \in {"expire", "connect_timeout"} -> "Unreachable"
      [] main.at \in {"insist", "cancelled", "disconnect_unconfirmed"} -> "Failed"
      [] OTHER -> "none"

Contract == INSTANCE SessionContract WITH
    status <- ShownStatus, inst <- Progress, retry <- RetryPending,
    stop <- userInitiatedDisconnect, gone <- released, worker <- WorkerOwes,
    call <- HandlerDue

\* The manager keeps its contract with the screen: connect() is honoured whenever
\* no instance is held, a session the user stopped is never retried, an attempt
\* that failed the probe is always reported (it is never retried, since sessionUri
\* has reset connectedAtMs), and no thread shows a status out of turn but in the
\* ways the contract lists.
KeepsContract == Contract!ContractSpec

\* No attempt that the user does not stop stays in Connecting: a callback, the
\* unreachable path, a pending retry or the watchdog moves it on.
ConnectingSettles ==
    (state = "Connecting" /\ ~userInitiatedDisconnect)
        ~> (state # "Connecting" \/ userInitiatedDisconnect)

\* disconnect() of a session whose native thread was started does not leave it
\* in Disconnecting: the terminal callback or the fallback ends that.
DisconnectSettles ==
    (state = "Disconnecting" /\ core \in active) ~> (state # "Disconnecting")

\* The release thread frees the instance or gives up on it.
ReleaseFinishes == released ~> (rel.pc = "none")

\* cancelConnection posts its fallback so that a session is not "stuck di
\* Connecting": an attempt the user stopped leaves Connecting.
CancelSettles ==
    (stopped /\ state = "Connecting") ~> (state # "Connecting" \/ ~stopped)

\* cancelConnection "cancels the connection that is in progress": a session
\* the user stopped does not become Connected without a new connect().
StopIsFinal == [][stopped /\ state # "Connected" => state' # "Connected"]_vars

\* SessionState.kt lists the legal transitions; an Error is left only for
\* Connecting, by the next connect().  In particular a session that was reported
\* as failed does not come back by itself.
ErrorIsLeftByConnect == [][state = "Error" => state' \notin {"Authenticating", "Connected"}]_vars

\* freeInstance gives up on an instance because its thread "is still winding
\* down a blocking socket": the thread of an instance nobody owns any more has
\* been told to stop, or has stopped.
OrphanWindsDown == \A a \in orphans : a \in abort \/ thread[a] \in {"posted", "none"}
=============================================================================
