------------------------ MODULE SessionManagerProofs ------------------------
(***************************************************************************)
(* Safety of the session lifecycle for any number of instances, any bound  *)
(* on the calls of the UI and any interleaving of the four kinds of        *)
(* threads.                                                                *)
(***************************************************************************)
EXTENDS SessionManager, TLAPS

USE AddrAssumption, BoundsAssumption

\* The one-line updates the actions are written with.
USE DEF markActive, GiveUp, startWatchdog, dropCore, sessionUri, postFallback, MayStart,
        MayLowerHandshake, BridgeState, Goes, HandlerEnds

-----------------------------------------------------------------------------
(* Types.                                                                  *)

\* A timer posted now for an instance has its type.
LEMMA TimerType ==
    ASSUME TypeOK, NEW a \in Addr,
           NEW k \in {"retry", "cancelFallback", "disconnectFallback"}, NEW o \in Nat
    PROVE  [kind |-> k, inst |-> a, gen |-> gen, op |-> o] \in Timer
BY DEF TypeOK, Timer

\* The instance of the running task, and of the callback at the head of the
\* looper's queue, is an address.
LEMMA HeadType ==
    ASSUME TypeOK
    PROVE  /\ workerQ # <<>> => Head(workerQ) \in Addr /\ Tail(workerQ) \in Seq(Addr)
           /\ mainQ # <<>> => /\ Head(mainQ) \in Callback
                              /\ Head(mainQ).inst \in Addr
                              /\ Tail(mainQ) \in Seq(Callback)
<1>1. workerQ \in Seq(Addr) /\ mainQ \in Seq(Callback)
  BY DEF TypeOK, NativeTypeOK
<1>2. workerQ # <<>> => Head(workerQ) \in Addr /\ Tail(workerQ) \in Seq(Addr)
  BY <1>1
<1>3. mainQ # <<>> => Head(mainQ) \in Callback /\ Tail(mainQ) \in Seq(Callback)
  BY <1>1
<1>4. \A c \in Callback : c.inst \in Addr
  BY DEF Callback
<1> QED
  BY <1>2, <1>3, <1>4

\* What cleanupTerminalSession changes keeps its type.
LEMMA CleanupType ==
    ASSUME TypeOK, NEW a \in Addr, cleanupTerminalSession(a)
    PROVE  /\ alloc' \subseteq Addr /\ sessionMap' \subseteq Addr
           /\ listeners' \subseteq Addr /\ active' \subseteq Addr
           /\ thread' \in [Addr -> ThreadState]
           /\ abort' \subseteq Addr /\ orphans' \subseteq Addr
           /\ core' \in Addr \cup {NoInst}
           /\ watchdog' \in Addr \cup {NoInst}
           /\ bridge' \in BridgeState
BY DEF TypeOK, NativeTypeOK, cleanupTerminalSession, AbortIfActive, FreeOutcome, stopWatchdog

\* The calls of the UI keep the types.
LEMMA UIType == TypeOK /\ UI => TypeOK'
<1> SUFFICES ASSUME TypeOK, UI PROVE TypeOK'
  OBVIOUS
<1> USE DEF transition, stopWatchdog, SessionStates, ErrorCodes, Stages
<1>0. NativeTypeOK
  BY DEF TypeOK
<1>1. ASSUME NEW a \in Addr, UserConnect(a), UNCHANGED main PROVE TypeOK'
  <2>1. workerQ' \in Seq(Addr)
    BY <1>1 DEF UserConnect, connect, TypeOK
  <2>2. NativeTypeOK'
    BY <1>0, <1>1 DEF UserConnect, connect, CreateSession, NativeTypeOK
  <2>3. /\ state' \in SessionStates /\ code' \in ErrorCodes /\ stage' \in Stages
        /\ core' \in Addr \cup {NoInst} /\ watchdog' \in Addr \cup {NoInst}
    BY <1>1 DEF UserConnect, connect
  <2>4. gen' \in Nat /\ ops' \in Nat
    BY <1>1 DEF UserConnect, connect, TypeOK
  <2>5. connectedAt' \in BOOLEAN /\ stopped' \in BOOLEAN
    BY <1>1, Zenon DEF UserConnect, connect
  <2>6. main' \in {MainIdle} \cup [at : MainAt, inst : Addr]
    BY <1>1 DEF TypeOK
  <2> QED
    BY <1>1, <2>1, <2>2, <2>3, <2>4, <2>5, <2>6 DEF UserConnect, connect, TypeOK
<1>2. CASE cancelConnection
  <2>1. NativeTypeOK'
    BY <1>0, <1>2 DEF cancelConnection, nativeVars, NativeTypeOK
  <2>2. main' \in {MainIdle} \cup [at : MainAt, inst : Addr]
    BY <1>2 DEF cancelConnection, MainAt, TypeOK
  <2> QED
    BY <1>2, <2>1, <2>2 DEF cancelConnection, TypeOK
<1>3. CASE disconnect
  <2>1. NativeTypeOK'
    BY <1>0, <1>3 DEF disconnect, nativeVars, NativeTypeOK
  <2>2. main' \in {MainIdle} \cup [at : MainAt, inst : Addr]
    BY <1>3 DEF disconnect, MainAt, TypeOK
  <2> QED
    BY <1>3, <2>1, <2>2 DEF disconnect, TypeOK
<1>4. CASE release /\ UNCHANGED main
  <2>1. NativeTypeOK'
    BY <1>0, <1>4 DEF release, LibDisconnect, AbortIfActive, NativeTypeOK
  <2>2. rel' \in [pc : {"none", "begin", "wait"}, inst : Addr \cup {NoInst}]
    BY <1>4 DEF release, TypeOK
  <2>3. state' \in SessionStates /\ code' \in ErrorCodes
    BY <1>4 DEF release, TypeOK
  <2> QED
    BY <1>4, <2>1, <2>2, <2>3 DEF release, TypeOK, flags, counters
<1>5. CASE setVoiceMicEnabled /\ UNCHANGED main
  <2>1. NativeTypeOK'
    BY <1>0, <1>5 DEF setVoiceMicEnabled, nativeVars, NativeTypeOK
  <2> QED
    BY <1>5, <2>1 DEF setVoiceMicEnabled, flags, TypeOK
<1> QED
  BY <1>1, <1>2, <1>3, <1>4, <1>5 DEF UI

\* The steps that go on with a handler of main keep the types.
LEMMA MainGoesOnType == TypeOK /\ MainGoesOn => TypeOK'
<1> SUFFICES ASSUME TypeOK, MainGoesOn PROVE TypeOK'
  OBVIOUS
<1> USE DEF transition, SessionStates, ErrorCodes, MainAt, HandlerCodes
<1>0. NativeTypeOK
  BY DEF TypeOK
<1>1. main.inst \in Addr
  BY DEF TypeOK, MainIdle, MainGoesOn, CancelTells, DisconnectShows, DisconnectTells,
         TimerTells, TimerShows
<1>2. CASE CancelTells
  <2>1. timers' \subseteq Timer
    BY <1>1, <1>2, TimerType DEF CancelTells, TypeOK
  <2>2. NativeTypeOK'
    BY <1>0, <1>1, <1>2 DEF CancelTells, freerdp_disconnect, NativeTypeOK
  <2> QED
    BY <1>2, <2>1, <2>2 DEF CancelTells, flags, counters, TypeOK
<1>3. CASE DisconnectShows
  <2>1. NativeTypeOK'
    BY <1>0, <1>3 DEF DisconnectShows, nativeVars, NativeTypeOK
  <2> QED
    BY <1>1, <1>3, <2>1 DEF DisconnectShows, flags, counters, TypeOK
<1>4. ASSUME NEW refused \in BOOLEAN, DisconnectTells(refused) PROVE TypeOK'
  <2>1. timers' \subseteq Timer
    BY <1>1, <1>4, TimerType DEF DisconnectTells, TypeOK
  <2>2. NativeTypeOK'
    BY <1>0, <1>1, <1>4 DEF DisconnectTells, LibDisconnect, AbortIfActive, NativeTypeOK
  <2>3. state' \in SessionStates /\ code' \in ErrorCodes
    BY <1>4 DEF DisconnectTells, TypeOK
  <2> QED
    BY <1>4, <2>1, <2>2, <2>3 DEF DisconnectTells, flags, counters, TypeOK
<1>5. CASE TimerTells
  <2>1. NativeTypeOK'
    BY <1>0, <1>1, <1>5 DEF TimerTells, freerdp_disconnect, NativeTypeOK
  <2>2. main' \in {MainIdle} \cup [at : MainAt, inst : Addr]
    BY <1>1, <1>5 DEF TimerTells
  <2> QED
    BY <1>5, <2>1, <2>2 DEF TimerTells, mgrVars, TypeOK
<1>6. CASE TimerShows
  <2>1. NativeTypeOK'
    BY <1>0, <1>6 DEF TimerShows, nativeVars, NativeTypeOK
  <2> QED
    BY <1>6, <2>1 DEF TimerShows, flags, counters, TypeOK
<1> QED
  BY <1>2, <1>3, <1>4, <1>5, <1>6 DEF MainGoesOn

\* The timer of the screen keeps the types.
LEMMA ScreenOffType == TypeOK /\ ScreenOffDisconnect /\ UNCHANGED main => TypeOK'
<1> SUFFICES ASSUME TypeOK, ScreenOffDisconnect, UNCHANGED main PROVE TypeOK'
  OBVIOUS
<1>1. NativeTypeOK'
  BY DEF TypeOK, ScreenOffDisconnect, NativeTypeOK
<1> QED
  BY <1>1 DEF ScreenOffDisconnect, flags, TypeOK

\* The steps of the worker keep the types.
LEMMA WorkerType == TypeOK /\ Worker => TypeOK'
<1> SUFFICES ASSUME TypeOK, Worker PROVE TypeOK'
  OBVIOUS
<1>m. UNCHANGED main
  BY DEF Worker
<1> USE DEF transition, SessionStates, ErrorCodes, Stages, WorkerAt
<1>0. NativeTypeOK
  BY DEF TypeOK
<1>1. ASSUME workerQ # <<>>, TaskDone PROVE workerQ' \in Seq(Addr) /\ wpc' = "probe"
  BY <1>1, HeadType DEF TaskDone
<1>2. ASSUME NEW r \in BOOLEAN, WorkerProbed(r) PROVE TypeOK'
  <2>1. NativeTypeOK'
    BY <1>0, <1>2 DEF WorkerProbed, nativeVars, NativeTypeOK
  <2>2. /\ workerQ' \in Seq(Addr)
        /\ wpc' \in {"probe", "start", "starting", "cleanup", "decide", "exception", "freeFailed"}
    BY <1>1, <1>2 DEF WorkerProbed, TypeOK
  <2> QED
    BY <1>m, <1>2, <2>1, <2>2 DEF WorkerProbed, counters, TypeOK
<1>3. ASSUME NEW r \in BOOLEAN, WorkerStarts(r) PROVE TypeOK'
  <2>1. NativeTypeOK'
    BY <1>0, <1>3, HeadType DEF WorkerStarts, StartThread, nativeVars, NativeTypeOK, ThreadState
  <2>2. /\ workerQ' \in Seq(Addr)
        /\ wpc' \in {"probe", "start", "starting", "cleanup", "decide", "exception", "freeFailed"}
        /\ stage' \in Stages
    BY <1>1, <1>3 DEF WorkerStarts, TypeOK
  <2> QED
    BY <1>m, <1>3, <2>1, <2>2 DEF WorkerStarts, flags, counters, TypeOK
<1>8. CASE WorkerTakesLock
  <2>1. NativeTypeOK'
    BY <1>0, <1>8 DEF WorkerTakesLock, nativeVars, NativeTypeOK
  <2>2. /\ workerQ' \in Seq(Addr)
        /\ wpc' \in {"probe", "start", "starting", "cleanup", "decide", "exception", "freeFailed"}
        /\ stage' \in Stages
    BY <1>1, <1>8 DEF WorkerTakesLock, TypeOK
  <2> QED
    BY <1>m, <1>8, <2>1, <2>2 DEF WorkerTakesLock, flags, counters, TypeOK
<1>4. CASE WorkerFreesUnreachable
  <2>1. cleanupTerminalSession(Head(workerQ)) /\ Head(workerQ) \in Addr
    BY <1>4, HeadType DEF WorkerFreesUnreachable
  <2>2. NativeTypeOK'
    BY <1>0, <1>4, <2>1, CleanupType DEF WorkerFreesUnreachable, NativeTypeOK
  <2> QED
    BY <1>m, <1>4, <2>1, <2>2, CleanupType DEF WorkerFreesUnreachable, flags, counters, TypeOK
<1>5. CASE WorkerUnreachable
  <2>1. NativeTypeOK'
    BY <1>0, <1>5 DEF WorkerUnreachable, nativeVars, NativeTypeOK
  <2>2. workerQ' \in Seq(Addr) /\ wpc' = "probe"
    BY <1>1, <1>5 DEF WorkerUnreachable
  <2>3. timers' \subseteq Timer
    BY <1>5, HeadType, TimerType DEF WorkerUnreachable, Retry, TypeOK
  <2>4. /\ state' \in SessionStates /\ code' \in ErrorCodes
        /\ autoReconnectAttempts' \in Nat
    BY <1>5 DEF WorkerUnreachable, TypeOK
  <2> QED
    BY <1>m, <1>5, <2>1, <2>2, <2>3, <2>4 DEF WorkerUnreachable, counters, TypeOK
<1>6. CASE WorkerException
  <2>1. NativeTypeOK'
    BY <1>0, <1>6 DEF WorkerException, nativeVars, NativeTypeOK
  <2>2. /\ workerQ' \in Seq(Addr)
        /\ wpc' \in {"probe", "start", "starting", "cleanup", "decide", "exception", "freeFailed"}
        /\ state' \in SessionStates /\ code' \in ErrorCodes
    BY <1>1, <1>6 DEF WorkerException, TypeOK
  <2> QED
    BY <1>m, <1>6, <2>1, <2>2 DEF WorkerException, flags, counters, TypeOK
<1>7. CASE WorkerFreesFailed
  <2>1. cleanupTerminalSession(Head(workerQ)) /\ Head(workerQ) \in Addr
    BY <1>7, HeadType DEF WorkerFreesFailed
  <2>2. NativeTypeOK'
    BY <1>0, <1>7, <2>1, CleanupType DEF WorkerFreesFailed, NativeTypeOK
  <2>3. workerQ' \in Seq(Addr) /\ wpc' = "probe"
    BY <1>1, <1>7 DEF WorkerFreesFailed
  <2> QED
    BY <1>m, <1>7, <2>1, <2>2, <2>3, CleanupType DEF WorkerFreesFailed, flags, counters, TypeOK
<1> QED
  BY <1>2, <1>3, <1>4, <1>5, <1>6, <1>7, <1>8 DEF Worker

\* The connection callbacks keep the types.
LEMMA CallbacksType == TypeOK /\ Callbacks => TypeOK'
<1> SUFFICES ASSUME TypeOK, Callbacks PROVE TypeOK'
  OBVIOUS
<1>m. UNCHANGED main
  BY DEF Callbacks
<1> USE DEF transition, SessionStates, ErrorCodes, Stages
<1>0. NativeTypeOK
  BY DEF TypeOK
<1>1. CASE StaleCallback
  <2>1. NativeTypeOK'
    BY <1>0, <1>1, HeadType DEF StaleCallback, NativeTypeOK
  <2> QED
    BY <1>m, <1>1, <2>1 DEF StaleCallback, mgrVars, TypeOK
<1>2. ASSUME NEW b \in BOOLEAN, onConnectionSuccess(b) PROVE TypeOK'
  <2>1. NativeTypeOK'
    BY <1>0, <1>2, HeadType DEF onConnectionSuccess, CallbackFor, NativeTypeOK
  <2>2. /\ state' \in SessionStates /\ code' \in ErrorCodes /\ stage' \in Stages
        /\ autoReconnectAttempts' \in Nat /\ compatHandshakeStage' \in 0..2
        /\ watchdog' \in Addr \cup {NoInst}
    BY <1>2 DEF onConnectionSuccess, stopWatchdog
  <2>3. connectedAt' \in BOOLEAN /\ userInitiatedDisconnect' \in BOOLEAN
    BY <1>2, Zenon DEF onConnectionSuccess
  <2>4. main' \in {MainIdle} \cup [at : MainAt, inst : Addr] /\ bridge' \in BridgeState
    BY <1>m, <1>2 DEF TypeOK, onConnectionSuccess
  <2> QED
    BY <1>m, <1>2, <2>1, <2>2, <2>3, <2>4 DEF onConnectionSuccess, counters, TypeOK
<1>3. ASSUME NEW b \in BOOLEAN, onConnectionFailure(b) PROVE TypeOK'
  <2> DEFINE a == Head(mainQ).inst
  <2>1. /\ a \in Addr /\ cleanupTerminalSession(a)
        /\ mainQ' \in Seq(Callback)
    BY <1>3, HeadType DEF onConnectionFailure, CallbackFor
  <2>2. NativeTypeOK'
    BY <1>0, <2>1, CleanupType DEF NativeTypeOK
  <2>3. timers' \subseteq Timer
    BY <1>3, <2>1, TimerType DEF onConnectionFailure, Retry, TypeOK
  <2>4. compatHandshakeStage' \in 0..2 /\ autoReconnectAttempts' \in Nat
    BY <1>3 DEF onConnectionFailure, TypeOK
  <2>5. state' \in SessionStates /\ code' \in ErrorCodes
    BY <1>3 DEF onConnectionFailure
  <2> HIDE DEF a
  <2> QED
    BY <1>m, <1>3, <2>1, <2>2, <2>3, <2>4, <2>5, CleanupType
    DEF onConnectionFailure, counters, TypeOK
<1>4. ASSUME NEW b \in BOOLEAN, onDisconnected(b) PROVE TypeOK'
  <2> DEFINE a == Head(mainQ).inst
  <2>1. /\ a \in Addr /\ cleanupTerminalSession(a)
        /\ mainQ' \in Seq(Callback)
    BY <1>4, HeadType DEF onDisconnected, CallbackFor
  <2>2. NativeTypeOK'
    BY <1>0, <2>1, CleanupType DEF NativeTypeOK
  <2>3. timers' \subseteq Timer
    BY <1>4, <2>1, TimerType DEF onDisconnected, Retry, TypeOK
  <2>4. autoReconnectAttempts' \in Nat
    BY <1>4 DEF onDisconnected, TypeOK
  <2>5. state' \in SessionStates /\ code' \in ErrorCodes
    BY <1>4 DEF onDisconnected
  <2> HIDE DEF a
  <2> QED
    BY <1>m, <1>4, <2>1, <2>2, <2>3, <2>4, <2>5, CleanupType
    DEF onDisconnected, counters, TypeOK
<1> QED
  BY <1>1, <1>2, <1>3, <1>4 DEF Callbacks

\* The delayed runnables keep the types.
LEMMA TimersType == TypeOK /\ Timers => TypeOK'
<1> SUFFICES ASSUME TypeOK, Timers PROVE TypeOK'
  OBVIOUS
<1> USE DEF transition, stopWatchdog, SessionStates, ErrorCodes, Stages
<1>0. NativeTypeOK /\ timers \subseteq Timer
  BY DEF TypeOK
<1>1. ASSUME NEW t \in timers, NEW a \in Addr, RetryConnects(t, a), UNCHANGED main
      PROVE  TypeOK'
  <2>1. workerQ' \in Seq(Addr)
    BY <1>1 DEF RetryConnects, connect, TypeOK
  <2>2. NativeTypeOK'
    BY <1>0, <1>1 DEF RetryConnects, connect, CreateSession, NativeTypeOK
  <2>3. /\ state' \in SessionStates /\ code' \in ErrorCodes /\ stage' \in Stages
        /\ core' \in Addr \cup {NoInst} /\ watchdog' \in Addr \cup {NoInst}
    BY <1>1 DEF RetryConnects, connect
  <2>4. gen' \in Nat /\ timers' \subseteq Timer
    BY <1>1 DEF RetryConnects, connect, TypeOK
  <2>5. connectedAt' \in BOOLEAN
    BY <1>1, Zenon DEF RetryConnects, connect
  <2>6. main' \in {MainIdle} \cup [at : MainAt, inst : Addr]
    BY <1>1 DEF TypeOK
  <2> QED
    BY <1>1, <2>1, <2>2, <2>3, <2>4, <2>5, <2>6 DEF RetryConnects, connect, TypeOK
<1>2. ASSUME NEW t \in timers, RetryDropped(t), UNCHANGED main PROVE TypeOK'
  <2>1. NativeTypeOK'
    BY <1>0, <1>2 DEF RetryDropped, nativeVars, NativeTypeOK
  <2> QED
    BY <1>2, <2>1 DEF RetryDropped, flags, counters, TypeOK
<1>3. ASSUME NEW t \in timers, CancelFallback(t) \/ DisconnectFallback(t) PROVE TypeOK'
  <2>1. NativeTypeOK'
    BY <1>0, <1>3 DEF CancelFallback, DisconnectFallback, nativeVars, NativeTypeOK
  <2>2. t.inst \in Addr
    BY <1>0 DEF Timer
  <2>3. main' \in {MainIdle} \cup [at : MainAt, inst : Addr]
    BY <1>3, <2>2 DEF CancelFallback, DisconnectFallback, TypeOK, MainAt, HandlerCodes
  <2> QED
    BY <1>3, <2>1, <2>3 DEF CancelFallback, DisconnectFallback, flags, counters, TypeOK
<1>5. CASE WatchdogFires
  <2>1. NativeTypeOK'
    BY <1>0, <1>5 DEF WatchdogFires, nativeVars, NativeTypeOK
  <2>2. main' \in {MainIdle} \cup [at : MainAt, inst : Addr]
    BY <1>5 DEF WatchdogFires, TypeOK, MainAt
  <2> QED
    BY <1>5, <2>1, <2>2 DEF WatchdogFires, flags, counters, TypeOK
<1> QED
  BY <1>1, <1>2, <1>3, <1>5 DEF Timers

\* The steps of a native thread keep the types.
LEMMA NativeType == ASSUME TypeOK, NEW a \in Addr, Native(a) PROVE TypeOK'
<1> USE DEF ThreadState
<1>m. UNCHANGED main
  BY DEF Native
<1>0. NativeTypeOK
  BY DEF TypeOK
<1>1. ASSUME UNCHANGED mgrVars, NativeTypeOK' PROVE TypeOK'
  BY <1>m, <1>1 DEF mgrVars, TypeOK
<1>2. ASSUME NEW k \in Terminal \cup {"success"}, Dispatch(k, a)
      PROVE  mainQ' \in Seq(Callback)
  <2>1. [kind |-> k, inst |-> a] \in Callback
    BY DEF Callback
  <2> QED
    BY <1>0, <1>2, <2>1 DEF Dispatch, NativeTypeOK
<1>3. CASE ConnectBegin(a) /\ UNCHANGED mgrVars
  <2>1. NativeTypeOK'
    BY <1>0, <1>3 DEF ConnectBegin, NativeTypeOK
  <2> QED
    BY <1>1, <1>3, <2>1
<1>11. CASE Reconnects(a) /\ UNCHANGED mgrVars
  <2>1. NativeTypeOK'
    BY <1>0, <1>11 DEF Reconnects, NativeTypeOK
  <2> QED
    BY <1>1, <1>11, <2>1
<1>4. CASE ConnectSucceeds(a) /\ UNCHANGED mgrVars
  <2>1. NativeTypeOK'
    BY <1>0, <1>2, <1>4 DEF ConnectSucceeds, NativeTypeOK
  <2> QED
    BY <1>1, <1>4, <2>1
<1>5. CASE MarkConnected(a) /\ UNCHANGED mgrVars
  <2>1. NativeTypeOK'
    BY <1>0, <1>5 DEF MarkConnected, NativeTypeOK
  <2> QED
    BY <1>1, <1>5, <2>1
<1>6. ASSUME NEW kind \in Terminal, ThreadEnds(a, kind), UNCHANGED mgrVars PROVE TypeOK'
  <2>1. NativeTypeOK'
    BY <1>0, <1>2, <1>6 DEF ThreadEnds, NativeTypeOK
  <2> QED
    BY <1>1, <1>6, <2>1
<1>7. CASE ClearEntry(a) /\ UNCHANGED mgrVars
  <2>1. NativeTypeOK'
    BY <1>0, <1>7 DEF ClearEntry, NativeTypeOK
  <2> QED
    BY <1>1, <1>7, <2>1
<1>8. CASE AuthChecks(a)
  <2>1. NativeTypeOK'
    BY <1>0, <1>8 DEF AuthChecks, NativeTypeOK
  <2> QED
    BY <1>1, <1>8, <2>1 DEF AuthChecks
<1>9. CASE AuthPrompts(a)
  <2>1. NativeTypeOK'
    BY <1>0, <1>9 DEF AuthPrompts, NativeTypeOK
  <2> QED
    BY <1>m, <1>9, <2>1
    DEF AuthPrompts, transition, SessionStates, ErrorCodes, Stages, flags, counters, TypeOK
<1>10. CASE PromptEnds(a)
  <2>1. NativeTypeOK'
    BY <1>0, <1>10 DEF PromptEnds, NativeTypeOK
  <2> QED
    BY <1>1, <1>10, <2>1 DEF PromptEnds
<1> QED
  BY <1>3, <1>4, <1>5, <1>6, <1>7, <1>8, <1>9, <1>10, <1>11 DEF Native

\* The release thread keeps the types.
LEMMA ReleaseThreadType == TypeOK /\ ReleaseThread => TypeOK'
<1> SUFFICES ASSUME TypeOK, ReleaseThread PROVE TypeOK'
  OBVIOUS
<1>m. UNCHANGED main
  BY DEF ReleaseThread
<1>0. NativeTypeOK
  BY DEF TypeOK
<1>1. CASE ReleaseThreadBegins
  <2>1. NativeTypeOK'
    BY <1>0, <1>1 DEF ReleaseThreadBegins, LibDisconnect, AbortIfActive, NativeTypeOK
  <2>2. rel' \in [pc : {"none", "begin", "wait"}, inst : Addr \cup {NoInst}]
    BY <1>1 DEF ReleaseThreadBegins, TypeOK
  <2> QED
    BY <1>m, <1>1, <2>1, <2>2 DEF ReleaseThreadBegins, flags, counters, TypeOK
<1>2. CASE ReleaseThreadEnds
  <2>1. NativeTypeOK'
    BY <1>0, <1>2 DEF ReleaseThreadEnds, FreeOutcome, NativeTypeOK
  <2>2. rel' \in [pc : {"none", "begin", "wait"}, inst : Addr \cup {NoInst}]
    BY <1>2 DEF ReleaseThreadEnds
  <2> QED
    BY <1>m, <1>2, <2>1, <2>2 DEF ReleaseThreadEnds, flags, counters, TypeOK
<1> QED
  BY <1>1, <1>2 DEF ReleaseThread

\* Every variable keeps its type: the compatibility stage stays in 0..2, every
\* timer and every queued callback names an address, and no operation on a null
\* instance is ever made.
THEOREM TypeCorrect == Spec => []TypeOK
<1>1. Init => TypeOK
  <2> SUFFICES ASSUME Init PROVE TypeOK
    OBVIOUS
  <2>1. NativeTypeOK
    BY DEF Init, NativeInit, NativeTypeOK, ThreadState
  <2>2. workerQ \in Seq(Addr)
    BY DEF Init
  <2>3. rel \in [pc : {"none", "begin", "wait"}, inst : Addr \cup {NoInst}]
    BY DEF Init
  <2>4. state \in SessionStates /\ code \in ErrorCodes /\ stage \in Stages
    BY DEF Init, SessionStates, ErrorCodes, Stages
  <2>5. /\ autoReconnectAttempts \in Nat /\ compatHandshakeStage \in 0..2
        /\ gen \in Nat /\ ops \in Nat
        /\ wpc \in {"probe", "start", "starting", "cleanup", "decide", "exception", "freeFailed"}
    BY DEF Init
  <2> QED
    BY <2>1, <2>2, <2>3, <2>4, <2>5 DEF Init, TypeOK
<1>2. TypeOK /\ [Next]_vars => TypeOK'
  <2> SUFFICES ASSUME TypeOK, [Next]_vars PROVE TypeOK'
    OBVIOUS
  <2>1. CASE Next
    BY <2>1, UIType, CallbacksType, TimersType, MainGoesOnType, ScreenOffType, WorkerType,
       NativeType, ReleaseThreadType
    DEF Next, Main
  <2>2. CASE UNCHANGED vars
    BY <2>2 DEF vars, nativeVars, mgrVars, TypeOK, NativeTypeOK
  <2> QED
    BY <2>1, <2>2
<1> QED
  BY <1>1, <1>2, PTL DEF Spec

-----------------------------------------------------------------------------
(* The inductive invariant.  NoFreeUnderThread is not inductive: that the  *)
(* wait of freeInstance protects a thread depends on the entry it waits    *)
(* for (ThreadIsMarked), and that the instance is not freed from two       *)
(* places depends on who holds it (OneOwner), which depends on what        *)
(* release() has already taken over (ReleaseTookOver).  That the worker    *)
(* starts a thread on an instance that is still there depends on the lock  *)
(* it holds since it looked (StartIsLocked).                               *)

ThreadIsMarked ==
    /\ \A a \in Addr : thread[a] # "none" /\ a \notin orphans => a \in active
    /\ active \subseteq alloc

ReleaseTookOver ==
    /\ rel.pc # "none" => released /\ rel.inst # NoInst
    /\ rel.pc = "none" => rel.inst = NoInst
    /\ released => core = NoInst

ListensToCore == listeners = {a \in Addr : core = a}

Safe ==
    /\ NoFreeUnderThread
    /\ OneOwner
    /\ ThreadIsMarked
    /\ ReleaseTookOver
    /\ ListensToCore
    /\ WatchdogIsCurrent
    /\ ReleasedIsQuiet

StartIsLocked ==
    wpc = "starting" => workerQ # <<>> /\ core = Head(workerQ) /\ ~released

IInv == TypeOK /\ Safe /\ StartIsLocked

\* What Safe is about, but for the watchdog and the bridge.
ownership == <<alloc, sessionMap, listeners, active, thread, orphans, core, rel, released>>

\* The steps that only stop the watchdog or the bridge, or neither.
LEMMA QuietStep ==
    ASSUME Safe, UNCHANGED ownership, watchdog' \in {watchdog, NoInst},
           bridge' = bridge \/ bridge' = "none" \/ ~released
    PROVE  Safe'
<1>1. /\ NoFreeUnderThread' /\ OneOwner' /\ ThreadIsMarked' /\ ReleaseTookOver'
      /\ ListensToCore'
  BY DEF ownership, Safe, NoFreeUnderThread, OneOwner, ThreadIsMarked, ReleaseTookOver,
         ListensToCore
<1>2. WatchdogIsCurrent' /\ ReleasedIsQuiet'
  BY DEF ownership, Safe, WatchdogIsCurrent, ReleasedIsQuiet
<1> QED
  BY <1>1, <1>2 DEF Safe

\* cleanupTerminalSession: the current instance has one owner, the manager, so
\* its entry tells whether its thread is alive.
LEMMA CleanupStep ==
    ASSUME IInv, NEW a \in Addr, cleanupTerminalSession(a), UNCHANGED <<rel, released>>
    PROVE  Safe'
<1>1. CASE ~isCurrent(a)
  <2>1. UNCHANGED ownership /\ watchdog' = watchdog /\ bridge' = "none"
    BY <1>1 DEF cleanupTerminalSession, ownership
  <2> QED
    BY <2>1, QuietStep DEF IInv
<1>2. CASE isCurrent(a)
  <2>1. /\ core = a /\ core' = NoInst /\ ~released /\ rel.pc = "none" /\ rel.inst = NoInst
        /\ listeners' = listeners \ {a} /\ sessionMap' = sessionMap \ {a}
        /\ thread' = thread /\ watchdog' = NoInst /\ bridge' = "none" /\ FreeOutcome(a, AbortIfActive(a))
    BY <1>2 DEF cleanupTerminalSession, isCurrent, stopWatchdog, IInv, Safe, ReleaseTookOver
  <2>2. a \in alloc /\ a \notin orphans
    BY <2>1 DEF IInv, Safe, OneOwner
  <2>3. NoFreeUnderThread' /\ ThreadIsMarked'
    BY <2>1, <2>2 DEF FreeOutcome, IInv, Safe, NoFreeUnderThread, ThreadIsMarked
  <2>4. OneOwner'
    <3>1. \A b \in Addr : b \in alloc' <=> (core' = b \/ rel'.inst = b \/ b \in orphans')
      BY <2>1, <2>2 DEF FreeOutcome, IInv, Safe, OneOwner
    <3>2. core' \notin orphans' /\ rel'.inst \notin orphans'
      BY <2>1, <2>2 DEF FreeOutcome, IInv, TypeOK, NativeTypeOK
    <3>3. sessionMap' = {b \in Addr : core' = b \/ (rel'.inst = b /\ rel'.pc = "begin")}
      BY <2>1 DEF IInv, Safe, OneOwner
    <3> QED
      BY <2>1, <3>1, <3>2, <3>3 DEF OneOwner
  <2>5. ReleaseTookOver' /\ WatchdogIsCurrent'
    BY <2>1 DEF ReleaseTookOver, WatchdogIsCurrent
  <2>6. ListensToCore' /\ ReleasedIsQuiet'
    BY <2>1 DEF IInv, Safe, ListensToCore, ReleasedIsQuiet
  <2> QED
    BY <2>3, <2>4, <2>5, <2>6 DEF Safe
<1> QED
  BY <1>1, <1>2

\* connect(): the new instance is at an address nothing refers to.
LEMMA ConnectStep == ASSUME IInv, NEW a \in Addr, connect(a) PROVE Safe'
<1>1. /\ a \notin alloc /\ core = NoInst /\ core' = a /\ ~released /\ released' = released
      /\ rel' = rel /\ rel.pc = "none" /\ rel.inst = NoInst
      /\ alloc' = alloc \cup {a} /\ sessionMap' = sessionMap \cup {a}
      /\ listeners' = listeners \cup {a} /\ watchdog' = a
      /\ active' = active /\ thread' = thread /\ orphans' = orphans
  BY DEF connect, MayConnect, CreateSession, IInv, Safe, ReleaseTookOver
<1>2. NoFreeUnderThread' /\ ThreadIsMarked'
  BY <1>1 DEF IInv, Safe, NoFreeUnderThread, ThreadIsMarked
<1>3. OneOwner'
  <2>1. a \notin orphans
    BY <1>1 DEF IInv, Safe, OneOwner
  <2>2. \A b \in Addr : b \in alloc' <=> (core' = b \/ rel'.inst = b \/ b \in orphans')
    BY <1>1, <2>1 DEF IInv, Safe, OneOwner
  <2>3. sessionMap' = {b \in Addr : core' = b \/ (rel'.inst = b /\ rel'.pc = "begin")}
    BY <1>1 DEF IInv, Safe, OneOwner
  <2>4. rel'.inst \notin orphans'
    BY <1>1 DEF IInv, Safe, OneOwner
  <2> QED
    BY <1>1, <2>1, <2>2, <2>3, <2>4 DEF OneOwner
<1>4. ReleaseTookOver' /\ WatchdogIsCurrent' /\ ReleasedIsQuiet'
  BY <1>1 DEF ReleaseTookOver, WatchdogIsCurrent, ReleasedIsQuiet
<1>5. ListensToCore'
  BY <1>1 DEF IInv, Safe, ListensToCore
<1> QED
  BY <1>2, <1>3, <1>4, <1>5 DEF Safe

\* release(): the instance changes hands from the manager to the release thread.
LEMMA ReleaseStep == ASSUME IInv, release PROVE Safe'
<1>1. /\ ~released /\ released' /\ core' = NoInst /\ watchdog' = NoInst /\ bridge' = "none"
      /\ alloc' = alloc /\ sessionMap' = sessionMap /\ active' = active
      /\ thread' = thread /\ orphans' = orphans
      /\ rel.pc = "none" /\ rel.inst = NoInst
  BY DEF release, stopWatchdog, IInv, Safe, ReleaseTookOver
<1>2. NoFreeUnderThread' /\ ThreadIsMarked'
  BY <1>1 DEF IInv, Safe, NoFreeUnderThread, ThreadIsMarked
<1>3. NoInst \notin orphans
  BY DEF IInv, TypeOK, NativeTypeOK
<1>4. CASE core = NoInst
  <2>1. rel' = rel /\ listeners' = listeners
    BY <1>4 DEF release
  <2>2. OneOwner' /\ ReleaseTookOver'
    BY <1>1, <1>4, <2>1 DEF IInv, Safe, OneOwner, ReleaseTookOver
  <2>3. listeners = {}
    BY <1>4 DEF IInv, Safe, ListensToCore
  <2>4. ListensToCore' /\ WatchdogIsCurrent' /\ ReleasedIsQuiet'
    BY <1>1, <2>1, <2>3 DEF ListensToCore, WatchdogIsCurrent, ReleasedIsQuiet
  <2> QED
    BY <1>2, <2>2, <2>4 DEF Safe
<1>5. CASE core # NoInst
  <2>1. rel'.pc = "begin" /\ rel'.inst = core /\ listeners' = listeners \ {core}
    BY <1>5 DEF release
  <2>2. OneOwner'
    <3>1. \A b \in Addr : b \in alloc' <=> (core' = b \/ rel'.inst = b \/ b \in orphans')
      BY <1>1, <2>1 DEF IInv, Safe, OneOwner
    <3>2. sessionMap' = {b \in Addr : core' = b \/ (rel'.inst = b /\ rel'.pc = "begin")}
      BY <1>1, <2>1 DEF IInv, Safe, OneOwner
    <3>3. core' \notin orphans' /\ rel'.inst \notin orphans' /\ core' # rel'.inst
      BY <1>1, <1>3, <1>5, <2>1 DEF IInv, Safe, OneOwner
    <3> QED
      BY <3>1, <3>2, <3>3 DEF OneOwner
  <2>3. ReleaseTookOver'
    BY <1>1, <1>5, <2>1 DEF ReleaseTookOver
  <2>4. listeners' = {}
    BY <2>1 DEF IInv, Safe, ListensToCore
  <2>5. ListensToCore' /\ WatchdogIsCurrent' /\ ReleasedIsQuiet'
    BY <1>1, <2>4 DEF ListensToCore, WatchdogIsCurrent, ReleasedIsQuiet
  <2> QED
    BY <1>2, <2>2, <2>3, <2>5 DEF Safe
<1> QED
  BY <1>4, <1>5

\* The release thread: it is the only owner of its instance.
LEMMA ReleaseThreadStep == ASSUME IInv, ReleaseThread PROVE Safe'
<1>1. CASE ReleaseThreadBegins
  <2>1. /\ rel.pc = "begin" /\ rel'.pc = "wait" /\ rel'.inst = rel.inst
        /\ sessionMap' = sessionMap \ {rel.inst}
        /\ alloc' = alloc /\ listeners' = listeners /\ active' = active /\ thread' = thread
        /\ orphans' = orphans /\ core' = core /\ watchdog' = watchdog /\ bridge' = bridge
        /\ released' = released
    BY <1>1 DEF ReleaseThreadBegins, IInv, TypeOK
  <2>2. released /\ core = NoInst
    BY <2>1 DEF IInv, Safe, ReleaseTookOver
  <2>3. NoFreeUnderThread' /\ ThreadIsMarked'
    BY <2>1 DEF IInv, Safe, NoFreeUnderThread, ThreadIsMarked
  <2>4. OneOwner'
    <3>1. sessionMap' = {b \in Addr : core' = b \/ (rel'.inst = b /\ rel'.pc = "begin")}
      BY <2>1, <2>2 DEF IInv, Safe, OneOwner
    <3> QED
      BY <2>1, <3>1 DEF IInv, Safe, OneOwner
  <2>5. ReleaseTookOver' /\ ListensToCore' /\ WatchdogIsCurrent' /\ ReleasedIsQuiet'
    BY <2>1 DEF IInv, Safe, ReleaseTookOver, ListensToCore, WatchdogIsCurrent, ReleasedIsQuiet
  <2> QED
    BY <2>3, <2>4, <2>5 DEF Safe
<1>2. CASE ReleaseThreadEnds
  <2>1. /\ rel.pc = "wait" /\ rel'.pc = "none" /\ rel'.inst = NoInst /\ FreeOutcome(rel.inst, abort)
        /\ sessionMap' = sessionMap /\ listeners' = listeners /\ thread' = thread
        /\ core' = core /\ watchdog' = watchdog /\ bridge' = bridge /\ released' = released
    BY <1>2 DEF ReleaseThreadEnds
  <2>2. released /\ core = NoInst /\ rel.inst \in Addr
    BY <2>1 DEF IInv, Safe, ReleaseTookOver, TypeOK
  <2>3. rel.inst \in alloc /\ rel.inst \notin orphans
    BY <2>2 DEF IInv, Safe, OneOwner
  <2>4. NoFreeUnderThread' /\ ThreadIsMarked'
    BY <2>1, <2>2, <2>3 DEF FreeOutcome, IInv, Safe, NoFreeUnderThread, ThreadIsMarked
  <2>5. OneOwner'
    <3>1. \A b \in Addr : b \in alloc' <=> (core' = b \/ rel'.inst = b \/ b \in orphans')
      BY <2>1, <2>2, <2>3 DEF FreeOutcome, IInv, Safe, OneOwner
    <3>2. sessionMap' = {b \in Addr : core' = b \/ (rel'.inst = b /\ rel'.pc = "begin")}
      BY <2>1, <2>2 DEF IInv, Safe, OneOwner
    <3>3. core' \notin orphans' /\ rel'.inst \notin orphans'
      BY <2>1, <2>2 DEF FreeOutcome, IInv, TypeOK, NativeTypeOK
    <3> QED
      BY <2>1, <2>2, <3>1, <3>2, <3>3 DEF OneOwner
  <2>6. ReleaseTookOver'
    BY <2>1, <2>2 DEF ReleaseTookOver
  <2>7. ListensToCore' /\ WatchdogIsCurrent' /\ ReleasedIsQuiet'
    BY <2>1 DEF IInv, Safe, ListensToCore, WatchdogIsCurrent, ReleasedIsQuiet
  <2> QED
    BY <2>4, <2>5, <2>6, <2>7 DEF Safe
<1> QED
  BY <1>1, <1>2 DEF ReleaseThread

\* A step of a native thread.  Only the threads and the entries change.
LEMMA NativeStep ==
    ASSUME IInv, NEW a \in Addr, Native(a) PROVE Safe'
<1>1. /\ UNCHANGED <<alloc, sessionMap, listeners, orphans, core, rel, released, watchdog, bridge>>
      /\ thread[a] # "none"
      /\ \/ active' = active /\ \E s \in ThreadState : thread' = [thread EXCEPT ![a] = s]
         \/ active' = active \cup {a} /\ thread' = [thread EXCEPT ![a] = "running"]
         \/ active' = active \ {a} /\ thread' = [thread EXCEPT ![a] = "none"]
  <2>1. thread \in [Addr -> ThreadState]
    BY DEF IInv, TypeOK, NativeTypeOK
  <2>2. CASE Reconnects(a) /\ UNCHANGED mgrVars
    <3>1. thread' = [thread EXCEPT ![a] = thread[a]]
      BY <2>1, <2>2 DEF Reconnects
    <3> QED
      BY <2>1, <2>2, <3>1 DEF Reconnects, mgrVars
  <2>3. CASE ~Reconnects(a)
    BY <2>3 DEF Native, mgrVars, counters, flags, ThreadState, ConnectBegin, ConnectSucceeds,
                MarkConnected, ThreadEnds, ClearEntry, AuthChecks, AuthPrompts, PromptEnds
  <2>4. CASE Reconnects(a) /\ ~UNCHANGED mgrVars
    BY <2>4 DEF Native, Reconnects, AuthChecks, AuthPrompts, PromptEnds, mgrVars, counters,
                flags, ThreadState
  <2> QED
    BY <2>2, <2>3, <2>4
<1>2. thread \in [Addr -> ThreadState] /\ active \subseteq Addr
  BY DEF IInv, TypeOK, NativeTypeOK
<1>3. NoFreeUnderThread'
  BY <1>1, <1>2 DEF IInv, Safe, NoFreeUnderThread
<1>4. ThreadIsMarked'
  BY <1>1, <1>2 DEF IInv, Safe, ThreadIsMarked, NoFreeUnderThread
<1>5. OneOwner' /\ ReleaseTookOver'
  BY <1>1 DEF IInv, Safe, OneOwner, ReleaseTookOver
<1>6. ListensToCore' /\ WatchdogIsCurrent' /\ ReleasedIsQuiet'
  BY <1>1 DEF IInv, Safe, ListensToCore, WatchdogIsCurrent, ReleasedIsQuiet
<1> QED
  BY <1>3, <1>4, <1>5, <1>6 DEF Safe

\* The native thread is started under lifecycleLock, for the current instance
\* of a manager that is not released.
LEMMA StartStep ==
    ASSUME IInv, NEW a \in Addr, core = a, ~released, StartThread(a),
           UNCHANGED <<core, rel, released, watchdog, bridge>>
    PROVE  Safe'
<1>1. /\ active' = active \cup {a} /\ thread' = [thread EXCEPT ![a] = "spawned"]
      /\ UNCHANGED <<alloc, sessionMap, listeners, orphans>>
  BY DEF StartThread
<1>2. a \in alloc /\ thread \in [Addr -> ThreadState]
  BY DEF IInv, Safe, OneOwner, TypeOK, NativeTypeOK
<1>3. NoFreeUnderThread' /\ ThreadIsMarked'
  BY <1>1, <1>2 DEF IInv, Safe, NoFreeUnderThread, ThreadIsMarked
<1>4. OneOwner' /\ ReleaseTookOver'
  BY <1>1 DEF IInv, Safe, OneOwner, ReleaseTookOver
<1>5. ListensToCore' /\ WatchdogIsCurrent' /\ ReleasedIsQuiet'
  BY <1>1 DEF IInv, Safe, ListensToCore, WatchdogIsCurrent, ReleasedIsQuiet
<1> QED
  BY <1>3, <1>4, <1>5 DEF Safe

\* The worker frees only what it finds current, and starts a thread only there.
LEMMA WorkerStep == ASSUME IInv, Worker PROVE Safe'
<1>0. Safe /\ TypeOK
  BY DEF IInv
<1>1. ASSUME NEW r \in BOOLEAN, WorkerProbed(r) PROVE Safe'
  BY <1>0, <1>1, QuietStep DEF WorkerProbed, ownership, nativeVars
<1>2. ASSUME NEW r \in BOOLEAN, WorkerStarts(r) PROVE Safe'
  <2>1. UNCHANGED <<core, rel, released, watchdog, bridge>>
    BY <1>2 DEF WorkerStarts
  <2>2. CASE ~r
    BY <1>0, <1>2, <2>1, <2>2, QuietStep DEF WorkerStarts, ownership, nativeVars
  <2>3. CASE r
    <3>1. StartThread(Head(workerQ)) /\ workerQ # <<>> /\ wpc = "starting"
      BY <1>2, <2>3 DEF WorkerStarts, WorkerAt
    <3>2. core = Head(workerQ) /\ ~released
      BY <3>1 DEF IInv, StartIsLocked
    <3> QED
      BY <1>0, <2>1, <3>1, <3>2, StartStep, HeadType
  <2> QED
    BY <1>2, <2>2, <2>3
<1>7. CASE WorkerTakesLock
  BY <1>0, <1>7, QuietStep DEF WorkerTakesLock, ownership, nativeVars
<1>3. CASE WorkerFreesUnreachable
  BY <1>0, <1>3, HeadType, CleanupStep DEF WorkerFreesUnreachable, WorkerAt
<1>4. CASE WorkerUnreachable
  BY <1>0, <1>4, QuietStep DEF WorkerUnreachable, ownership, nativeVars
<1>5. CASE WorkerException
  BY <1>0, <1>5, QuietStep DEF WorkerException, ownership, nativeVars
<1>6. CASE WorkerFreesFailed
  BY <1>0, <1>6, HeadType, CleanupStep DEF WorkerFreesFailed, WorkerAt
<1> QED
  BY <1>1, <1>2, <1>3, <1>4, <1>5, <1>6, <1>7 DEF Worker

\* The callbacks: a terminal one frees the current instance, a late one nothing.
LEMMA CallbacksStep == ASSUME IInv, Callbacks PROVE Safe'
<1>0. Safe /\ TypeOK
  BY DEF IInv
<1>1. CASE StaleCallback
  BY <1>0, <1>1, QuietStep DEF StaleCallback, ownership, mgrVars
<1>2. ASSUME NEW b \in BOOLEAN, onConnectionSuccess(b) PROVE Safe'
  <2>1. core \in Addr
    BY <1>0, <1>2, HeadType DEF onConnectionSuccess, CallbackFor, isCurrent
  <2>2. ~released
    BY <1>0, <2>1 DEF Safe, ReleaseTookOver
  <2>3. UNCHANGED ownership /\ watchdog' = NoInst
    BY <1>2 DEF onConnectionSuccess, stopWatchdog, ownership
  <2> QED
    BY <1>0, <2>2, <2>3, QuietStep
<1>3. ASSUME NEW b \in BOOLEAN, onConnectionFailure(b) PROVE Safe'
  BY <1>0, <1>3, HeadType, CleanupStep DEF onConnectionFailure, CallbackFor
<1>4. ASSUME NEW b \in BOOLEAN, onDisconnected(b) PROVE Safe'
  BY <1>0, <1>4, HeadType, CleanupStep DEF onDisconnected, CallbackFor
<1> QED
  BY <1>1, <1>2, <1>3, <1>4 DEF Callbacks

\* The delayed runnables free nothing; a retry is a connect().
LEMMA TimersStep == ASSUME IInv, Timers PROVE Safe'
<1>0. Safe
  BY DEF IInv
<1>1. ASSUME NEW t \in timers, NEW a \in Addr, RetryConnects(t, a) PROVE Safe'
  BY <1>1, ConnectStep DEF RetryConnects
<1>2. ASSUME NEW t \in timers, RetryDropped(t) PROVE Safe'
  BY <1>0, <1>2, QuietStep DEF RetryDropped, ownership, nativeVars
<1>3. ASSUME NEW t \in timers, CancelFallback(t) PROVE Safe'
  BY <1>0, <1>3, QuietStep DEF CancelFallback, ownership, nativeVars
<1>4. ASSUME NEW t \in timers, DisconnectFallback(t) PROVE Safe'
  BY <1>0, <1>4, QuietStep DEF DisconnectFallback, ownership, nativeVars
<1>5. CASE WatchdogFires
  BY <1>0, <1>5, QuietStep DEF WatchdogFires, stopWatchdog, ownership, nativeVars
<1> QED
  BY <1>1, <1>2, <1>3, <1>4, <1>5 DEF Timers

\* The calls of the UI: only connect() and release() change who owns what.
LEMMA UIStep == ASSUME IInv, UI PROVE Safe'
<1>0. Safe
  BY DEF IInv
<1>1. ASSUME NEW a \in Addr, UserConnect(a) PROVE Safe'
  BY <1>1, ConnectStep DEF UserConnect
<1>2. CASE cancelConnection
  BY <1>0, <1>2, QuietStep DEF cancelConnection, stopWatchdog, ownership, nativeVars
<1>3. CASE disconnect
  BY <1>0, <1>3, QuietStep DEF disconnect, stopWatchdog, ownership, nativeVars
<1>4. CASE release
  BY <1>4, ReleaseStep
<1>5. CASE setVoiceMicEnabled
  BY <1>0, <1>5, QuietStep DEF setVoiceMicEnabled, ownership, nativeVars
<1> QED
  BY <1>1, <1>2, <1>3, <1>4, <1>5 DEF UI

\* Going on with a handler, and the timer of the screen, frees nothing.
LEMMA TellStep == ASSUME IInv, MainGoesOn \/ ScreenOffDisconnect PROVE Safe'
<1>0. Safe
  BY DEF IInv
<1>1. CASE CancelTells \/ DisconnectShows \/ TimerTells \/ TimerShows
  BY <1>0, <1>1, QuietStep DEF CancelTells, DisconnectShows, TimerTells, TimerShows, ownership,
                               nativeVars, mgrVars
<1>2. ASSUME NEW refused \in BOOLEAN, DisconnectTells(refused) PROVE Safe'
  BY <1>0, <1>2, QuietStep DEF DisconnectTells, ownership
<1>3. CASE ScreenOffDisconnect
  BY <1>0, <1>3, QuietStep DEF ScreenOffDisconnect, ownership
<1> QED
  BY <1>1, <1>2, <1>3 DEF MainGoesOn

\* The lock: while the worker is about to start a thread, nobody else drops the
\* instance or releases the manager.
LEMMA LockStep == ASSUME TypeOK, StartIsLocked, [Next]_vars PROVE StartIsLocked'
<1> USE DEF StartIsLocked
<1>1. CASE UNCHANGED <<core, released, workerQ, wpc>>
  BY <1>1
<1>2. ASSUME NEW a \in Addr, connect(a) PROVE StartIsLocked'
  BY <1>2 DEF connect, LockFree
<1>3. ASSUME NEW a \in Addr, cleanupTerminalSession(a), UNCHANGED <<released, workerQ, wpc>>
      PROVE  StartIsLocked'
  BY <1>3 DEF cleanupTerminalSession, LockFree
<1>4. CASE UI
  <2>1. CASE release
    BY <2>1 DEF release, LockFree
  <2>2. CASE cancelConnection \/ disconnect \/ setVoiceMicEnabled
    BY <1>1, <2>2 DEF cancelConnection, disconnect, setVoiceMicEnabled
  <2> QED
    BY <1>2, <1>4, <2>1, <2>2 DEF UI, UserConnect
<1>5. CASE Callbacks
  <2>1. CASE StaleCallback
    BY <1>1, <2>1 DEF StaleCallback, mgrVars
  <2>2. ASSUME NEW b \in BOOLEAN, onConnectionSuccess(b) PROVE StartIsLocked'
    BY <1>1, <2>2 DEF onConnectionSuccess
  <2>3. ASSUME NEW b \in BOOLEAN, onConnectionFailure(b) PROVE StartIsLocked'
    BY <1>3, <2>3, HeadType DEF onConnectionFailure, CallbackFor
  <2>4. ASSUME NEW b \in BOOLEAN, onDisconnected(b) PROVE StartIsLocked'
    BY <1>3, <2>4, HeadType DEF onDisconnected, CallbackFor
  <2> QED
    BY <1>5, <2>1, <2>2, <2>3, <2>4 DEF Callbacks
<1>6. CASE Timers
  BY <1>1, <1>2, <1>6 DEF Timers, RetryConnects, RetryDropped, CancelFallback,
                          DisconnectFallback, WatchdogFires
<1>7. CASE MainGoesOn
  BY <1>1, <1>7 DEF MainGoesOn, CancelTells, DisconnectShows, DisconnectTells, TimerTells,
                    TimerShows, mgrVars
<1>8. CASE Worker
  <2>1. ASSUME NEW r \in BOOLEAN, WorkerProbed(r) \/ WorkerStarts(r) PROVE StartIsLocked'
    BY <2>1 DEF WorkerProbed, WorkerStarts, TaskDone
  <2>2. CASE WorkerTakesLock
    BY <2>2 DEF WorkerTakesLock, WorkerAt, isCurrent, TaskDone
  <2>3. CASE WorkerFreesUnreachable \/ WorkerUnreachable \/ WorkerException \/ WorkerFreesFailed
    BY <2>3 DEF WorkerFreesUnreachable, WorkerUnreachable, WorkerException, WorkerFreesFailed,
                TaskDone
  <2> QED
    BY <1>8, <2>1, <2>2, <2>3 DEF Worker
<1>9. ASSUME NEW a \in Addr, Native(a) PROVE StartIsLocked'
  BY <1>1, <1>9 DEF Native, mgrVars, AuthChecks, AuthPrompts, PromptEnds
<1>10. CASE ReleaseThread \/ ScreenOffDisconnect
  BY <1>1, <1>10 DEF ReleaseThread, ReleaseThreadBegins, ReleaseThreadEnds, ScreenOffDisconnect
<1>11. CASE UNCHANGED vars
  BY <1>1, <1>11 DEF vars, mgrVars
<1> QED
  BY <1>4, <1>5, <1>6, <1>7, <1>8, <1>9, <1>10, <1>11 DEF Next, Main

\* The conjunction is an invariant of the lifecycle.
THEOREM Inductive == Spec => []IInv
<1>1. Init => Safe /\ StartIsLocked
  <2> SUFFICES ASSUME Init PROVE Safe /\ StartIsLocked
    OBVIOUS
  <2>1. NoFreeUnderThread /\ ThreadIsMarked
    BY DEF Init, NativeInit, NoFreeUnderThread, ThreadIsMarked
  <2>2. OneOwner /\ ReleaseTookOver
    BY DEF Init, NativeInit, OneOwner, ReleaseTookOver
  <2>3. ListensToCore /\ WatchdogIsCurrent /\ ReleasedIsQuiet
    BY DEF Init, NativeInit, ListensToCore, WatchdogIsCurrent, ReleasedIsQuiet
  <2> QED
    BY <2>1, <2>2, <2>3 DEF Safe, Init, StartIsLocked
<1>2. TypeOK /\ Safe /\ StartIsLocked /\ [Next]_vars => Safe' /\ StartIsLocked'
  <2> SUFFICES ASSUME IInv, [Next]_vars PROVE Safe'
    BY LockStep DEF IInv
  <2>1. CASE Next
    BY <2>1, UIStep, CallbacksStep, TimersStep, TellStep, WorkerStep, NativeStep,
       ReleaseThreadStep
    DEF Next, Main
  <2>2. CASE UNCHANGED vars
    BY <2>2, QuietStep DEF IInv, vars, nativeVars, mgrVars, ownership
  <2> QED
    BY <2>1, <2>2
<1> QED
  BY <1>1, <1>2, TypeCorrect, PTL DEF Spec, IInv

-----------------------------------------------------------------------------
(* What follows.                                                           *)

\* No native thread ever runs on a freed instance: the entry LibFreeRDP.connect
\* makes before the thread exists, the wait of freeInstance and the single owner
\* of each instance are together enough, whatever the network and the UI do.
THEOREM MemorySafety == Spec => []NoFreeUnderThread
<1>1. IInv => NoFreeUnderThread
  BY DEF IInv, Safe
<1> QED
  BY <1>1, Inductive, PTL

\* Every instance that freerdp_new returned is held by the manager, by the
\* release thread or, once given up, by nobody, and never by two of them: no leak
\* the code does not decide on, no double free.
THEOREM SingleOwner == Spec => []OneOwner
<1>1. IInv => OneOwner
  BY DEF IInv, Safe
<1> QED
  BY <1>1, Inductive, PTL

\* The watchdog that can fire belongs to the current instance.
THEOREM WatchdogToken == Spec => []WatchdogIsCurrent
<1>1. IInv => WatchdogIsCurrent
  BY DEF IInv, Safe
<1> QED
  BY <1>1, Inductive, PTL

\* release() is final: no callback, timer, worker step or native thread that was
\* under way brings back an instance, a listener, a watchdog or the audio bridge.
THEOREM ReleaseIsFinal == Spec => []ReleasedIsQuiet
<1>1. IInv => ReleasedIsQuiet
  BY DEF IInv, Safe
<1> QED
  BY <1>1, Inductive, PTL

\* lifecycleLock: once release() has run, no step starts a native thread, also
\* not the worker that had found the manager unreleased before: it holds the lock
\* from that look to the start, so release() comes before the one or after the other.
THEOREM NoLateStart == Spec => NoStartAfterRelease
<1> DEFINE A == \A a \in Addr : released => ~(thread[a] = "none" /\ thread'[a] = "spawned")
<1>1. IInv /\ [Next]_vars => [A]_vars
  <2> SUFFICES ASSUME IInv, Next, released,
                      NEW a \in Addr, thread[a] = "none", thread'[a] = "spawned"
               PROVE  FALSE
    OBVIOUS
  <2>0. thread \in [Addr -> ThreadState] /\ thread' # thread
    BY DEF IInv, TypeOK, NativeTypeOK
  <2>1. CASE UI
    BY <2>0, <2>1 DEF UI, UserConnect, connect, MayConnect, cancelConnection, disconnect, release,
              setVoiceMicEnabled, nativeVars
  <2>2. CASE Worker
    BY <2>0, <2>2 DEF Worker, WorkerProbed, WorkerTakesLock, WorkerStarts, WorkerAt,
              WorkerFreesUnreachable, WorkerUnreachable, WorkerException, WorkerFreesFailed,
              cleanupTerminalSession, nativeVars, IInv, StartIsLocked
  <2>3. CASE Callbacks
    BY <2>0, <2>3 DEF Callbacks, StaleCallback, onConnectionSuccess, onConnectionFailure,
              onDisconnected, cleanupTerminalSession
  <2>4. CASE Timers
    BY <2>0, <2>4 DEF Timers, RetryConnects, connect, MayConnect, RetryDropped, CancelFallback,
              DisconnectFallback, WatchdogFires, nativeVars
  <2>5. ASSUME NEW b \in Addr, Native(b) PROVE FALSE
    BY <2>0, <2>5 DEF Native, ConnectBegin, Reconnects, ConnectSucceeds, MarkConnected,
              ThreadEnds, ClearEntry, AuthChecks, AuthPrompts, PromptEnds
  <2>6. CASE ReleaseThread \/ ScreenOffDisconnect
    BY <2>0, <2>6 DEF ReleaseThread, ReleaseThreadBegins, ReleaseThreadEnds, ScreenOffDisconnect
  <2>7. CASE MainGoesOn
    BY <2>0, <2>7 DEF MainGoesOn, CancelTells, DisconnectShows, DisconnectTells, TimerTells,
              TimerShows, nativeVars
  <2> QED
    BY <2>1, <2>2, <2>3, <2>4, <2>5, <2>6, <2>7 DEF Next, Main
<1> QED
  BY <1>1, Inductive, PTL DEF Spec, NoStartAfterRelease

\* A session shown as Disconnected holds no instance, so connect() from that
\* screen is never deferred.
THEOREM DisconnectedHoldsNothing == Spec => []DisconnectedIsFree
<1>1. Init => DisconnectedIsFree
  BY DEF Init, DisconnectedIsFree
<1>2. DisconnectedIsFree /\ [Next]_vars => DisconnectedIsFree'
  <2> SUFFICES ASSUME DisconnectedIsFree, [Next]_vars PROVE DisconnectedIsFree'
    OBVIOUS
  <2> USE DEF DisconnectedIsFree, transition
  <2>1. CASE UI
    BY <2>1 DEF UI, UserConnect, connect, cancelConnection, disconnect, release,
              setVoiceMicEnabled
  <2>2. CASE Worker
    BY <2>2 DEF Worker, WorkerProbed, WorkerTakesLock, WorkerStarts, WorkerFreesUnreachable,
              WorkerUnreachable, WorkerException, WorkerFreesFailed, cleanupTerminalSession
  <2>3. CASE Callbacks
    BY <2>3 DEF Callbacks, StaleCallback, mgrVars, onConnectionSuccess, onConnectionFailure,
              onDisconnected, cleanupTerminalSession, isCurrent
  <2>4. CASE Timers
    BY <2>4 DEF Timers, RetryConnects, connect, RetryDropped, CancelFallback,
              DisconnectFallback, WatchdogFires
  <2>5. ASSUME NEW b \in Addr, Native(b) PROVE DisconnectedIsFree'
    BY <2>5 DEF Native, mgrVars, AuthChecks, AuthPrompts, PromptEnds
  <2>6. CASE ReleaseThread \/ ScreenOffDisconnect
    BY <2>6 DEF ReleaseThread, ReleaseThreadBegins, ReleaseThreadEnds, ScreenOffDisconnect
  <2>8. CASE MainGoesOn
    BY <2>8 DEF MainGoesOn, CancelTells, DisconnectShows, DisconnectTells, TimerTells,
              TimerShows, mgrVars
  <2>7. CASE UNCHANGED vars
    BY <2>7 DEF vars, mgrVars
  <2> QED
    BY <2>1, <2>2, <2>3, <2>4, <2>5, <2>6, <2>7, <2>8 DEF Next, Main
<1> QED
  BY <1>1, <1>2, PTL DEF Spec
=============================================================================
