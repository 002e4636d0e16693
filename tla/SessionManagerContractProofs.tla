--------------------- MODULE SessionManagerContractProofs ---------------------
(***************************************************************************)
(* The course of one attempt, from connect() over the worker and the       *)
(* native thread to the terminal callback, and what follows from it: a     *)
(* Connected session has a started instance, an instance that is kept is   *)
(* still going to end, and the manager keeps its contract with the screen. *)
(***************************************************************************)
EXTENDS SessionManagerProofs, SequenceTheorems

USE AddrAssumption, BoundsAssumption

\* The one-line updates the actions are written with.
USE DEF markActive, GiveUp, startWatchdog, dropCore, sessionUri, postFallback, MayStart,
        MayLowerHandshake, BridgeState

-----------------------------------------------------------------------------
(* Queues of one and two elements.                                         *)

LEMMA ShortQueue ==
    ASSUME NEW S, NEW q \in Seq(S), q # <<>>
    PROVE  /\ Head(q) = q[1] /\ q[1] \in S /\ q[Len(q)] \in S
           /\ Len(q) \in Nat \ {0} /\ Tail(q) \in Seq(S) /\ Len(Tail(q)) = Len(q) - 1
           /\ Len(q) = 1 <=> Tail(q) = <<>>
           /\ Len(q) = 2 => Tail(q)[1] = q[2] /\ q[2] \in S
<1>1. Len(q) \in Nat \ {0} /\ Head(q) = q[1] /\ q[1] \in S /\ q[Len(q)] \in S
  BY EmptySeq, ElementOfSeq
<1>2. /\ Tail(q) \in Seq(S) /\ Len(Tail(q)) = Len(q) - 1
      /\ \A i \in 1..Len(Tail(q)) : Tail(q)[i] = q[i + 1]
  BY HeadTailProperties
<1>3. Len(q) = 1 <=> Tail(q) = <<>>
  <2>1. Tail(q) # <<>> => Len(Tail(q)) \in Nat \ {0}
    BY <1>2, EmptySeq
  <2>2. Tail(q) = <<>> => Len(Tail(q)) = 0
    BY EmptySeq
  <2> QED
    BY <1>1, <1>2, <2>1, <2>2
<1>4. ASSUME Len(q) = 2 PROVE Tail(q)[1] = q[2] /\ q[2] \in S
  <2>1. Len(Tail(q)) = 1 /\ Tail(q) # <<>>
    BY <1>2, <1>3, <1>4
  <2>2. 1 \in 1..Len(Tail(q)) /\ 2 \in 1..Len(q)
    BY <1>4, <2>1
  <2>3. Tail(q)[1] = q[1 + 1]
    BY <1>2, <2>2
  <2>4. q[2] \in S
    BY <2>2, ElementOfSeq
  <2>5. 1 + 1 = 2
    OBVIOUS
  <2> QED
    BY <2>3, <2>4, <2>5, Zenon
<1> QED
  BY <1>1, <1>2, <1>3, <1>4

LEMMA SecondInQueue ==
    ASSUME NEW S, NEW q \in Seq(S), NEW e \in S
    PROVE  Len(q) = 1 => Len(Append(q, e)) = 2 /\ Append(q, e)[1] = q[1] /\ Append(q, e)[2] = e
<1>1. Len(Append(q, e)) = Len(q) + 1 /\ Append(q, e)[Len(q) + 1] = e
  BY AppendProperties
<1>2. \A i \in 1..Len(q) : Append(q, e)[i] = q[i]
  BY AppendProperties
<1>3. ASSUME Len(q) = 1
      PROVE  Len(Append(q, e)) = 2 /\ Append(q, e)[1] = q[1] /\ Append(q, e)[2] = e
  <2>1. Len(q) + 1 = 2 /\ 1 \in 1..Len(q)
    BY <1>3
  <2> QED
    BY <1>1, <1>2, <2>1, Zenon
<1> QED
  BY <1>3

-----------------------------------------------------------------------------
(* The invariant.  An address may be reused at once, and the worker may    *)
(* still be busy with the task of an instance it has freed, so nothing     *)
(* here is obvious from the addresses: that a queued callback or a task    *)
(* belongs to the current attempt and not to an earlier one at the same    *)
(* address follows from the order of the queues alone.                     *)

\* Before android_post_connect: nothing has been dispatched.
Handshake == {"spawned", "connecting", "checked", "prompt", "authed"}

\* One callback of the current instance is queued, or a success and its end.
Queued1(kinds) == Len(mainQ) = 1 /\ mainQ[1].inst = core /\ mainQ[1].kind \in kinds
Queued2 ==
    /\ Len(mainQ) = 2
    /\ mainQ[1].inst = core /\ mainQ[1].kind = "success"
    /\ mainQ[2].inst = core /\ mainQ[2].kind \in Terminal

\* The executor's thread rests at the beginning of a task.
WorkerRests == workerQ = <<>> => wpc = "probe"

\* A task of the worker is that of the current instance, which no thread uses
\* and which has not got through; only one that has freed its instance may
\* still be there without it, or in front of the next attempt's.
TaskIsCurrent ==
    workerQ # <<>> =>
        /\ ~connectedAt /\ mainQ = <<>>
        /\ \/ wpc = "decide" /\ Len(workerQ) = 1 /\ core = NoInst
           \/ /\ Len(workerQ) = IF wpc = "decide" THEN 2 ELSE 1
              /\ core = workerQ[Len(workerQ)] /\ thread[core] = "none"

\* The callbacks of a started instance are as far as its thread is.
CallbacksFollow ==
    core # NoInst /\ workerQ = <<>> =>
        \/ thread[core] \in Handshake /\ mainQ = <<>> /\ ~connectedAt
        \/ thread[core] \in {"succeeded", "running"} /\ mainQ = <<>> /\ connectedAt
        \/ thread[core] \in {"succeeded", "running"} /\ Queued1({"success"}) /\ ~connectedAt
        \/ thread[core] \in {"posted", "none"} /\ Queued1(Terminal)
        \/ thread[core] \in {"posted", "none"} /\ Queued2 /\ ~connectedAt

\* No callback is queued for an instance that is gone, and no other thread than
\* the current one is about to show its prompt.
NothingStale ==
    /\ core = NoInst => mainQ = <<>>
    /\ \A a \in Addr : thread[a] = "checked" => a = core

AttemptInv ==
    /\ WorkerRests
    /\ ~released => TaskIsCurrent /\ CallbacksFollow /\ NothingStale

attemptVars == <<released, core, connectedAt, workerQ, wpc, thread, mainQ>>

\* The steps that leave the attempt as it is.
LEMMA AttemptQuiet ==
    ASSUME AttemptInv, UNCHANGED attemptVars
    PROVE  AttemptInv'
BY DEF attemptVars, AttemptInv, WorkerRests, TaskIsCurrent, CallbacksFollow, NothingStale,
       Queued1, Queued2

\* Once released, only the worker's place matters.
LEMMA AttemptReleased ==
    ASSUME released', WorkerRests'
    PROVE  AttemptInv'
BY DEF AttemptInv

\* connect(): the worker has no task, or one that has freed its instance.
LEMMA AttemptConnect ==
    ASSUME IInv, AttemptInv, NEW a \in Addr, connect(a)
    PROVE  AttemptInv'
<1>1. /\ ~released /\ released' = released /\ core = NoInst /\ core' = a /\ a \notin alloc
      /\ ~connectedAt' /\ workerQ' = Append(workerQ, a) /\ wpc' = wpc /\ thread' = thread
      /\ mainQ' = mainQ
  BY DEF connect, MayConnect, CreateSession
<1>2. workerQ \in Seq(Addr) /\ a # NoInst
  BY DEF IInv, TypeOK
<1>3. thread[a] = "none" /\ mainQ = <<>>
  BY <1>1 DEF IInv, Safe, NoFreeUnderThread, AttemptInv, NothingStale
<1>4. \/ workerQ = <<>> /\ wpc = "probe"
      \/ wpc = "decide" /\ Len(workerQ) = 1
  <2>1. CASE workerQ # <<>>
    <3>1. Len(workerQ) \in Nat \ {0} /\ workerQ[Len(workerQ)] \in Addr
      BY <1>2, <2>1
    <3> QED
      BY <1>1, <2>1, <3>1 DEF AttemptInv, TaskIsCurrent
  <2> QED
    BY <2>1 DEF AttemptInv, WorkerRests
<1>5. /\ workerQ' # <<>> /\ Len(workerQ') = Len(workerQ) + 1 /\ workerQ'[Len(workerQ')] = a
  BY <1>1, <1>2
<1>6. TaskIsCurrent'
  <2>1. Len(workerQ') = IF wpc' = "decide" THEN 2 ELSE 1
    BY <1>1, <1>2, <1>4, <1>5
  <2> QED
    BY <1>1, <1>3, <1>5, <2>1 DEF TaskIsCurrent
<1>7. CallbacksFollow' /\ WorkerRests'
  BY <1>5 DEF CallbacksFollow, WorkerRests
<1>8. NothingStale'
  BY <1>1, <1>2 DEF AttemptInv, NothingStale
<1> QED
  BY <1>6, <1>7, <1>8 DEF AttemptInv

\* The calls of the UI.
LEMMA AttemptUI == ASSUME IInv, AttemptInv, UI PROVE AttemptInv'
<1>1. ASSUME NEW a \in Addr, UserConnect(a) PROVE AttemptInv'
  BY <1>1, AttemptConnect DEF UserConnect
<1>2. CASE cancelConnection
  BY <1>2, AttemptQuiet DEF cancelConnection, attemptVars, nativeVars
<1>3. CASE disconnect
  BY <1>3, AttemptQuiet DEF disconnect, attemptVars, nativeVars
<1>4. CASE release
  BY <1>4, AttemptReleased DEF release, AttemptInv, WorkerRests
<1>5. CASE setVoiceMicEnabled
  BY <1>5, AttemptQuiet DEF setVoiceMicEnabled, attemptVars, nativeVars, flags
<1> QED
  BY <1>1, <1>2, <1>3, <1>4, <1>5 DEF UI

\* The rest of a handler, and the screen-off timer, tell the instance to stop.
LEMMA AttemptTold == ASSUME AttemptInv, MainGoesOn \/ ScreenOffDisconnect PROVE AttemptInv'
<1>1. CASE CancelTells \/ DisconnectShows \/ TimerShows \/ ScreenOffDisconnect
  BY <1>1, AttemptQuiet
  DEF CancelTells, DisconnectShows, TimerShows, ScreenOffDisconnect, attemptVars, nativeVars, flags
<1>2. CASE TimerTells
  BY <1>2, AttemptQuiet DEF TimerTells, attemptVars, mgrVars
<1>3. ASSUME NEW refused \in BOOLEAN, DisconnectTells(refused) PROVE AttemptInv'
  BY <1>3, AttemptQuiet DEF DisconnectTells, attemptVars, flags
<1> QED
  BY <1>1, <1>2, <1>3 DEF MainGoesOn

\* The delayed runnables: a retry is a connect().
LEMMA AttemptTimers == ASSUME IInv, AttemptInv, Timers PROVE AttemptInv'
<1>1. ASSUME NEW t \in timers, NEW a \in Addr, RetryConnects(t, a) PROVE AttemptInv'
  BY <1>1, AttemptConnect DEF RetryConnects
<1>2. ASSUME NEW t \in timers, RetryDropped(t) PROVE AttemptInv'
  BY <1>2, AttemptQuiet DEF RetryDropped, attemptVars, nativeVars, flags
<1>3. ASSUME NEW t \in timers, CancelFallback(t) PROVE AttemptInv'
  BY <1>3, AttemptQuiet DEF CancelFallback, attemptVars, nativeVars, flags
<1>4. ASSUME NEW t \in timers, DisconnectFallback(t) PROVE AttemptInv'
  BY <1>4, AttemptQuiet DEF DisconnectFallback, attemptVars, nativeVars, flags
<1>5. CASE WatchdogFires
  BY <1>5, AttemptQuiet DEF WatchdogFires, attemptVars, nativeVars, flags
<1> QED
  BY <1>1, <1>2, <1>3, <1>4, <1>5 DEF Timers

\* What the running task finds: but for a task that only has to decide, the
\* current instance is its own.
LEMMA RunningTask ==
    ASSUME IInv, AttemptInv, workerQ # <<>>, ~released
    PROVE  /\ ~connectedAt /\ mainQ = <<>>
           /\ wpc # "decide" => /\ core = Head(workerQ) /\ core \in Addr /\ Tail(workerQ) = <<>>
                                /\ thread[core] = "none" /\ Len(workerQ) = 1
           /\ wpc = "decide" => \/ core = NoInst /\ Tail(workerQ) = <<>>
                                \/ /\ core \in Addr
                                   /\ Tail(workerQ) # <<>>
                                   /\ Len(Tail(workerQ)) = 1 /\ core = Tail(workerQ)[1]
                                   /\ thread[core] = "none"
<1>1. workerQ \in Seq(Addr) /\ TaskIsCurrent
  BY DEF IInv, TypeOK, AttemptInv
<1>2. ~connectedAt /\ mainQ = <<>>
  BY <1>1 DEF TaskIsCurrent
<1>3. ASSUME wpc # "decide"
      PROVE  /\ core = Head(workerQ) /\ core \in Addr /\ Tail(workerQ) = <<>>
             /\ thread[core] = "none" /\ Len(workerQ) = 1
  <2>1. Len(workerQ) = 1 /\ core = workerQ[1] /\ thread[core] = "none"
    BY <1>1, <1>3 DEF TaskIsCurrent
  <2>2. Head(workerQ) = workerQ[1] /\ workerQ[1] \in Addr /\ Tail(workerQ) = <<>>
    BY <1>1, <2>1, ShortQueue
  <2> QED
    BY <2>1, <2>2
<1>4. ASSUME wpc = "decide", Len(workerQ) = 1, core = NoInst
      PROVE  Tail(workerQ) = <<>>
  BY <1>1, <1>4, ShortQueue
<1>5. ASSUME wpc = "decide", Len(workerQ) = 2, core = workerQ[2]
      PROVE  /\ core \in Addr /\ Tail(workerQ) # <<>>
             /\ Len(Tail(workerQ)) = 1 /\ core = Tail(workerQ)[1]
  <2>1. /\ Len(Tail(workerQ)) = 1 /\ Tail(workerQ)[1] = workerQ[2] /\ workerQ[2] \in Addr
        /\ Tail(workerQ) # <<>>
    BY <1>1, <1>5, ShortQueue
  <2> QED
    BY <1>5, <2>1
<1> QED
  BY <1>1, <1>2, <1>3, <1>4, <1>5 DEF TaskIsCurrent

\* The steps of the worker.
LEMMA AttemptWorker == ASSUME IInv, AttemptInv, Worker PROVE AttemptInv'
<1>1. CASE released
  <2>1. released' = released
    BY DEF Worker, WorkerProbed, WorkerTakesLock, WorkerStarts, WorkerFreesUnreachable,
           WorkerUnreachable, WorkerException, WorkerFreesFailed
  <2>2. WorkerRests'
    BY DEF Worker, WorkerProbed, WorkerTakesLock, WorkerStarts, WorkerFreesUnreachable,
           WorkerUnreachable, WorkerException, WorkerFreesFailed, WorkerAt, TaskDone, WorkerRests
  <2> QED
    BY <1>1, <2>1, <2>2, AttemptReleased
<1>2. CASE ~released
  <2> USE <1>2 DEF WorkerAt, TaskDone
  <2>1. NothingStale
    BY DEF AttemptInv
  <2>2. ASSUME NEW r \in BOOLEAN, WorkerProbed(r) PROVE AttemptInv'
    <3>1. core = Head(workerQ) /\ workerQ # <<>> /\ wpc # "decide"
      BY <2>2, RunningTask DEF WorkerProbed
    <3>2. UNCHANGED <<released, core, connectedAt, workerQ, thread, mainQ>> /\ wpc' # "decide"
      BY <2>2, <3>1 DEF WorkerProbed, isCurrent, nativeVars
    <3> QED
      BY <3>1, <3>2 DEF AttemptInv, WorkerRests, TaskIsCurrent, CallbacksFollow, NothingStale,
                        Queued1, Queued2
  <2>3. ASSUME NEW r \in BOOLEAN, WorkerStarts(r) PROVE AttemptInv'
    <3>1. /\ core = Head(workerQ) /\ core \in Addr /\ workerQ # <<>> /\ wpc # "decide"
          /\ ~connectedAt /\ mainQ = <<>> /\ Tail(workerQ) = <<>>
      BY <2>3, RunningTask DEF WorkerStarts
    <3>2. UNCHANGED <<released, core, connectedAt, mainQ>>
      BY <2>3 DEF WorkerStarts, StartThread, nativeVars, flags
    <3>3. CASE thread' = thread /\ workerQ' = workerQ /\ wpc' # "decide"
      BY <3>1, <3>2, <3>3 DEF AttemptInv, WorkerRests, TaskIsCurrent, CallbacksFollow,
                              NothingStale, Queued1, Queued2
    <3>4. CASE StartThread(core) /\ TaskDone
      <4>1. /\ workerQ' = <<>> /\ wpc' = "probe" /\ thread'[core] = "spawned"
            /\ \A a \in Addr : a # core => thread'[a] = thread[a]
        BY <3>1, <3>4 DEF StartThread, IInv, TypeOK, NativeTypeOK
      <4>2. CallbacksFollow' /\ TaskIsCurrent' /\ WorkerRests'
        BY <3>1, <3>2, <4>1 DEF CallbacksFollow, TaskIsCurrent, WorkerRests, Handshake
      <4>3. NothingStale'
        BY <2>1, <3>1, <3>2, <4>1 DEF NothingStale
      <4> QED
        BY <4>2, <4>3 DEF AttemptInv
    <3> QED
      BY <2>3, <3>1, <3>3, <3>4 DEF WorkerStarts, nativeVars
  <2>8. CASE WorkerTakesLock
    <3>1. core = Head(workerQ) /\ workerQ # <<>> /\ wpc # "decide"
      BY <2>8, RunningTask DEF WorkerTakesLock
    <3>2. UNCHANGED <<released, core, connectedAt, workerQ, thread, mainQ>> /\ wpc' # "decide"
      BY <2>8, <3>1 DEF WorkerTakesLock, isCurrent, nativeVars, flags
    <3> QED
      BY <3>1, <3>2 DEF AttemptInv, WorkerRests, TaskIsCurrent, CallbacksFollow, NothingStale,
                        Queued1, Queued2
  <2>4. CASE WorkerFreesUnreachable
    <3>1. /\ core = Head(workerQ) /\ core \in Addr /\ workerQ # <<>>
          /\ ~connectedAt /\ mainQ = <<>> /\ Len(workerQ) = 1 /\ thread[core] = "none"
      BY <2>4, RunningTask DEF WorkerFreesUnreachable
    <3>2. /\ UNCHANGED <<released, connectedAt, mainQ, workerQ, thread>>
          /\ core' = NoInst /\ wpc' = "decide"
      BY <2>4, <3>1 DEF WorkerFreesUnreachable, cleanupTerminalSession, isCurrent, flags
    <3>3. NothingStale'
      BY <2>1, <3>1, <3>2 DEF NothingStale
    <3> QED
      BY <3>1, <3>2, <3>3 DEF AttemptInv, TaskIsCurrent, CallbacksFollow, WorkerRests
  <2>5. CASE WorkerUnreachable
    <3>1. /\ UNCHANGED <<released, core, connectedAt, mainQ, thread>>
          /\ workerQ' = Tail(workerQ) /\ wpc' = "probe" /\ workerQ # <<>> /\ wpc = "decide"
      BY <2>5 DEF WorkerUnreachable, nativeVars
    <3>2. /\ ~connectedAt /\ mainQ = <<>>
          /\ \/ core = NoInst /\ workerQ' = <<>>
             \/ /\ workerQ' # <<>> /\ Len(workerQ') = 1 /\ core = workerQ'[1]
                /\ thread[core] = "none"
      BY <3>1, RunningTask
    <3> QED
      BY <2>1, <3>1, <3>2
      DEF AttemptInv, TaskIsCurrent, CallbacksFollow, WorkerRests, NothingStale
  <2>6. CASE WorkerException
    <3>1. core = Head(workerQ) /\ workerQ # <<>> /\ wpc # "decide"
      BY <2>6, RunningTask DEF WorkerException
    <3>2. UNCHANGED <<released, core, connectedAt, workerQ, thread, mainQ>> /\ wpc' # "decide"
      BY <2>6, <3>1 DEF WorkerException, isCurrent, nativeVars, flags
    <3> QED
      BY <3>1, <3>2 DEF AttemptInv, WorkerRests, TaskIsCurrent, CallbacksFollow, NothingStale,
                        Queued1, Queued2
  <2>7. CASE WorkerFreesFailed
    <3>1. /\ core = Head(workerQ) /\ core \in Addr /\ mainQ = <<>> /\ Tail(workerQ) = <<>>
          /\ thread[core] = "none"
      BY <2>7, RunningTask DEF WorkerFreesFailed
    <3>2. /\ UNCHANGED <<released, connectedAt, mainQ, thread>>
          /\ core' = NoInst /\ workerQ' = <<>> /\ wpc' = "probe"
      BY <2>7, <3>1 DEF WorkerFreesFailed, cleanupTerminalSession, isCurrent, flags
    <3>3. NothingStale'
      BY <2>1, <3>1, <3>2 DEF NothingStale
    <3> QED
      BY <3>1, <3>2, <3>3 DEF AttemptInv, TaskIsCurrent, CallbacksFollow, WorkerRests
  <2> QED
    BY <2>2, <2>3, <2>4, <2>5, <2>6, <2>7, <2>8 DEF Worker
<1> QED
  BY <1>1, <1>2

\* The callback that runs now, if the instance is current, is the next one of
\* the attempt, and a terminal one is the last.
LEMMA RunningCallback ==
    ASSUME IInv, AttemptInv, mainQ # <<>>, isCurrent(Head(mainQ).inst)
    PROVE  /\ ~released /\ core \in Addr /\ workerQ = <<>> /\ wpc = "probe"
           /\ \/ /\ Head(mainQ).kind = "success" /\ ~connectedAt /\ Tail(mainQ) = <<>>
                 /\ thread[core] \in {"succeeded", "running"}
              \/ /\ Head(mainQ).kind = "success" /\ ~connectedAt
                 /\ Len(Tail(mainQ)) = 1 /\ Tail(mainQ)[1].inst = core
                 /\ Tail(mainQ)[1].kind \in Terminal
                 /\ thread[core] \in {"posted", "none"}
              \/ /\ Head(mainQ).kind \in Terminal /\ Tail(mainQ) = <<>>
                 /\ thread[core] \in {"posted", "none"}
<1>1. mainQ \in Seq(Callback)
  BY DEF IInv, TypeOK, NativeTypeOK
<1>2. core \in Addr
  BY HeadType DEF IInv, isCurrent
<1>3. ~released /\ core # NoInst
  BY <1>2 DEF IInv, Safe, ReleaseTookOver
<1>4. workerQ = <<>> /\ wpc = "probe"
  BY <1>3 DEF AttemptInv, TaskIsCurrent, WorkerRests
<1>5. \/ thread[core] \in {"succeeded", "running"} /\ Queued1({"success"}) /\ ~connectedAt
      \/ thread[core] \in {"posted", "none"} /\ Queued1(Terminal)
      \/ thread[core] \in {"posted", "none"} /\ Queued2 /\ ~connectedAt
  BY <1>3, <1>4 DEF AttemptInv, CallbacksFollow
<1>6. ASSUME NEW kinds, Queued1(kinds) PROVE Tail(mainQ) = <<>> /\ Head(mainQ).kind \in kinds
  BY <1>1, <1>6, ShortQueue DEF Queued1
<1>7. ASSUME Queued2
      PROVE  /\ Len(Tail(mainQ)) = 1 /\ Tail(mainQ)[1].inst = core
             /\ Tail(mainQ)[1].kind \in Terminal /\ Head(mainQ).kind = "success"
  <2>1. Len(Tail(mainQ)) = 1 /\ Tail(mainQ)[1] = mainQ[2] /\ Head(mainQ) = mainQ[1]
    BY <1>1, <1>7, ShortQueue DEF Queued2
  <2> QED
    BY <1>7, <2>1 DEF Queued2
<1>8. CASE thread[core] \in {"succeeded", "running"} /\ Queued1({"success"}) /\ ~connectedAt
  BY <1>2, <1>3, <1>4, <1>6, <1>8
<1>9. CASE thread[core] \in {"posted", "none"} /\ Queued1(Terminal)
  BY <1>2, <1>3, <1>4, <1>6, <1>9
<1>10. CASE thread[core] \in {"posted", "none"} /\ Queued2 /\ ~connectedAt
  BY <1>2, <1>3, <1>4, <1>7, <1>10
<1> QED
  BY <1>5, <1>8, <1>9, <1>10

\* A terminal callback drops the current instance, and with it the last of the
\* attempt.
LEMMA AttemptEnds ==
    ASSUME IInv, AttemptInv, mainQ # <<>>, isCurrent(Head(mainQ).inst),
           Head(mainQ).kind \in Terminal, mainQ' = Tail(mainQ),
           cleanupTerminalSession(Head(mainQ).inst),
           UNCHANGED <<released, connectedAt, workerQ, wpc>>
    PROVE  AttemptInv'
<1>1. /\ ~released /\ core \in Addr /\ workerQ = <<>> /\ wpc = "probe" /\ Tail(mainQ) = <<>>
      /\ thread[core] \in {"posted", "none"}
  BY RunningCallback DEF Terminal
<1>2. core' = NoInst /\ thread' = thread
  BY DEF cleanupTerminalSession
<1>3. NothingStale'
  BY <1>1, <1>2 DEF AttemptInv, NothingStale
<1> QED
  BY <1>1, <1>2, <1>3 DEF AttemptInv, WorkerRests, TaskIsCurrent, CallbacksFollow

\* The callbacks.  A late one exists only after release().
LEMMA AttemptCallbacks == ASSUME IInv, AttemptInv, Callbacks PROVE AttemptInv'
<1>1. CASE StaleCallback
  <2>1. released
    <3> SUFFICES ASSUME ~released PROVE FALSE
      OBVIOUS
    <3>1. mainQ # <<>> /\ core # Head(mainQ).inst
      BY <1>1 DEF StaleCallback, isCurrent
    <3>2. core # NoInst /\ workerQ = <<>>
      BY <3>1 DEF AttemptInv, NothingStale, TaskIsCurrent
    <3>3. mainQ[1].inst = core
      BY <3>1, <3>2 DEF AttemptInv, CallbacksFollow, Queued1, Queued2
    <3>4. Head(mainQ) = mainQ[1]
      BY <3>1, ShortQueue DEF IInv, TypeOK, NativeTypeOK
    <3> QED
      BY <3>1, <3>3, <3>4
  <2> QED
    BY <1>1, <2>1, AttemptReleased DEF StaleCallback, mgrVars, AttemptInv, WorkerRests
<1>2. ASSUME NEW b \in BOOLEAN, onConnectionSuccess(b) PROVE AttemptInv'
  <2>1. /\ mainQ # <<>> /\ Head(mainQ).kind = "success" /\ isCurrent(Head(mainQ).inst)
        /\ mainQ' = Tail(mainQ) /\ connectedAt'
        /\ UNCHANGED <<released, core, workerQ, wpc, thread>>
    BY <1>2 DEF onConnectionSuccess, CallbackFor
  <2>2. /\ core \in Addr /\ workerQ = <<>> /\ wpc = "probe"
        /\ \/ Tail(mainQ) = <<>> /\ thread[core] \in {"succeeded", "running"}
           \/ /\ Len(Tail(mainQ)) = 1 /\ Tail(mainQ)[1].inst = core
              /\ Tail(mainQ)[1].kind \in Terminal
              /\ thread[core] \in {"posted", "none"}
    BY <2>1, RunningCallback DEF Terminal
  <2>3. CallbacksFollow'
    BY <2>1, <2>2 DEF CallbacksFollow, Queued1
  <2>4. NothingStale'
    BY <2>1, <2>2, RunningCallback DEF AttemptInv, NothingStale
  <2> QED
    BY <2>1, <2>2, <2>3, <2>4 DEF AttemptInv, WorkerRests, TaskIsCurrent
<1>3. ASSUME NEW b \in BOOLEAN, onConnectionFailure(b) PROVE AttemptInv'
  BY <1>3, AttemptEnds DEF onConnectionFailure, CallbackFor, Terminal
<1>4. ASSUME NEW b \in BOOLEAN, onDisconnected(b) PROVE AttemptInv'
  BY <1>4, AttemptEnds DEF onDisconnected, CallbackFor, Terminal
<1> QED
  BY <1>1, <1>2, <1>3, <1>4 DEF Callbacks

\* A native thread of an instance that is not current: its callbacks find no
\* listener, and OnAuthenticate answers it at once.
LEMMA AttemptElsewhere ==
    ASSUME IInv, AttemptInv, ~released, NEW a \in Addr, a # core, Native(a), ~Reconnects(a)
    PROVE  AttemptInv'
<1>1. a \notin listeners /\ thread \in [Addr -> ThreadState] /\ core \in Addr \cup {NoInst}
  BY DEF IInv, Safe, ListensToCore, TypeOK, NativeTypeOK
<1>2. UNCHANGED <<released, core, connectedAt, workerQ, wpc>>
  BY DEF Native, mgrVars, AuthChecks, AuthPrompts, PromptEnds, flags
<1>3. mainQ' = mainQ
  BY <1>1 DEF Native, ConnectBegin, ConnectSucceeds, MarkConnected, ThreadEnds, ClearEntry,
              AuthChecks, AuthPrompts, PromptEnds, Dispatch
<1>4. \E s \in ThreadState \ {"checked"} : thread' = [thread EXCEPT ![a] = s]
  BY <1>1 DEF Native, ConnectBegin, ConnectSucceeds, MarkConnected, ThreadEnds, ClearEntry,
              AuthChecks, AuthPrompts, PromptEnds, isCurrent, ThreadState
<1>5. /\ thread'[a] # "checked" /\ \A b \in Addr : b # a => thread'[b] = thread[b]
      /\ core # NoInst => thread'[core] = thread[core]
  BY <1>1, <1>4
<1>6. NothingStale'
  BY <1>2, <1>3, <1>5 DEF AttemptInv, NothingStale
<1>7. TaskIsCurrent' /\ WorkerRests'
  <2>1. workerQ # <<>> => workerQ[Len(workerQ)] \in Addr
    BY ShortQueue DEF IInv, TypeOK
  <2> QED
    BY <1>2, <1>3, <1>5, <2>1 DEF AttemptInv, TaskIsCurrent, WorkerRests
<1>8. CallbacksFollow'
  BY <1>2, <1>3, <1>5 DEF AttemptInv, CallbacksFollow, Queued1, Queued2
<1> QED
  BY <1>6, <1>7, <1>8 DEF AttemptInv

\* The native thread of the current instance.
LEMMA AttemptNative ==
    ASSUME IInv, AttemptInv, ~released, core \in Addr, Native(core), ~Reconnects(core)
    PROVE  AttemptInv'
<1>1. /\ core \in listeners /\ thread \in [Addr -> ThreadState] /\ core # NoInst
      /\ mainQ \in Seq(Callback)
  BY DEF IInv, Safe, ListensToCore, TypeOK, NativeTypeOK
<1>2. UNCHANGED <<released, core, connectedAt, workerQ, wpc>>
  BY DEF Native, mgrVars, AuthChecks, AuthPrompts, PromptEnds, flags
<1>3. thread[core] # "none"
  BY DEF Native, ConnectBegin, ConnectSucceeds, MarkConnected, ThreadEnds, ClearEntry,
         AuthChecks, AuthPrompts, PromptEnds
<1>4. workerQ = <<>>
  BY <1>1, <1>3 DEF AttemptInv, TaskIsCurrent
<1>5. ASSUME NEW s \in ThreadState, thread' = [thread EXCEPT ![core] = s], CallbacksFollow'
      PROVE  AttemptInv'
  <2>1. \A b \in Addr : b # core => thread'[b] = thread[b]
    BY <1>1, <1>5
  <2>2. NothingStale'
    BY <1>1, <1>2, <2>1 DEF AttemptInv, NothingStale
  <2> QED
    BY <1>2, <1>4, <1>5, <2>2 DEF AttemptInv, TaskIsCurrent, WorkerRests
<1>6. ASSUME NEW s \in Handshake, thread[core] \in Handshake,
             thread' = [thread EXCEPT ![core] = s], mainQ' = mainQ
      PROVE  AttemptInv'
  <2>1. thread'[core] = s /\ mainQ = <<>> /\ ~connectedAt /\ s \in ThreadState
    BY <1>1, <1>4, <1>6 DEF AttemptInv, CallbacksFollow, Handshake, ThreadState
  <2>2. CallbacksFollow'
    BY <1>2, <1>6, <2>1 DEF CallbacksFollow
  <2> QED
    BY <1>5, <1>6, <2>1, <2>2
<1>7. CASE ConnectSucceeds(core)
  <2>1. mainQ = <<>> /\ ~connectedAt
    BY <1>1, <1>4, <1>7 DEF ConnectSucceeds, AttemptInv, CallbacksFollow, Handshake
  <2>2. thread' = [thread EXCEPT ![core] = "succeeded"] /\ thread'[core] = "succeeded"
    BY <1>1, <1>7 DEF ConnectSucceeds
  <2>3. mainQ' = Append(mainQ, [kind |-> "success", inst |-> core])
    BY <1>1, <1>7 DEF ConnectSucceeds, Dispatch
  <2>4. Len(mainQ') = 1 /\ mainQ'[1] = [kind |-> "success", inst |-> core]
    BY <1>1, <2>1, <2>3
  <2>5. CallbacksFollow'
    BY <1>2, <2>1, <2>2, <2>4 DEF CallbacksFollow, Queued1
  <2> QED
    BY <1>5, <2>2, <2>5 DEF ThreadState
<1>8. CASE MarkConnected(core)
  <2>1. /\ thread[core] = "succeeded" /\ thread'[core] = "running" /\ mainQ' = mainQ
        /\ thread' = [thread EXCEPT ![core] = "running"]
    BY <1>1, <1>8 DEF MarkConnected
  <2>2. CallbacksFollow'
    BY <1>1, <1>2, <1>4, <2>1 DEF AttemptInv, CallbacksFollow, Handshake, Queued1, Queued2
  <2> QED
    BY <1>5, <2>1, <2>2 DEF ThreadState
<1>9. ASSUME NEW k \in Terminal, ThreadEnds(core, k) PROVE AttemptInv'
  <2>1. thread' = [thread EXCEPT ![core] = "posted"] /\ thread'[core] = "posted"
    BY <1>1, <1>9 DEF ThreadEnds
  <2>2. mainQ' = Append(mainQ, [kind |-> k, inst |-> core])
    BY <1>1, <1>9 DEF ThreadEnds, Dispatch
  <2>3. \/ mainQ = <<>>
        \/ Queued1({"success"}) /\ ~connectedAt
    <3>1. thread[core] \in {"spawned", "connecting", "authed", "running"}
      BY <1>9 DEF ThreadEnds
    <3> QED
      BY <1>1, <1>4, <3>1 DEF AttemptInv, CallbacksFollow
  <2>4. CASE mainQ = <<>>
    <3>1. Len(mainQ') = 1 /\ mainQ'[1] = [kind |-> k, inst |-> core]
      BY <1>1, <2>2, <2>4
    <3>2. CallbacksFollow'
      BY <1>2, <2>1, <3>1 DEF CallbacksFollow, Queued1
    <3> QED
      BY <1>5, <2>1, <3>2 DEF ThreadState
  <2>5. CASE Queued1({"success"}) /\ ~connectedAt
    <3>1. Len(mainQ') = 2 /\ mainQ'[1] = mainQ[1] /\ mainQ'[2] = [kind |-> k, inst |-> core]
      <4>1. Len(mainQ) = 1 /\ [kind |-> k, inst |-> core] \in Callback
        BY <2>5 DEF Queued1, Callback
      <4> QED
        BY <1>1, <2>2, <4>1, SecondInQueue
    <3>2. CallbacksFollow'
      BY <1>2, <2>1, <2>5, <3>1 DEF CallbacksFollow, Queued1, Queued2
    <3> QED
      BY <1>5, <2>1, <3>2 DEF ThreadState
  <2> QED
    BY <2>3, <2>4, <2>5
<1>10. CASE ClearEntry(core)
  <2>1. /\ thread[core] = "posted" /\ thread'[core] = "none" /\ mainQ' = mainQ
        /\ thread' = [thread EXCEPT ![core] = "none"]
    BY <1>1, <1>10 DEF ClearEntry
  <2>2. CallbacksFollow'
    BY <1>1, <1>2, <1>4, <2>1 DEF AttemptInv, CallbacksFollow, Handshake, Queued1, Queued2
  <2> QED
    BY <1>5, <2>1, <2>2 DEF ThreadState
<1>11. CASE ConnectBegin(core)
  BY <1>6, <1>11 DEF ConnectBegin, Handshake
<1>12. CASE AuthChecks(core)
  BY <1>6, <1>12 DEF AuthChecks, Handshake
<1>13. CASE AuthPrompts(core)
  BY <1>6, <1>13 DEF AuthPrompts, Handshake
<1>14. CASE PromptEnds(core)
  BY <1>6, <1>14 DEF PromptEnds, Handshake
<1> QED
  BY <1>7, <1>8, <1>9, <1>10, <1>11, <1>12, <1>13, <1>14 DEF Native

\* The course of an attempt is an invariant: a queued callback or a task always
\* belongs to the current attempt, whatever addresses the allocator hands out.
THEOREM AttemptCourse == Spec => []AttemptInv
<1>1. Init => AttemptInv
  BY DEF Init, NativeInit, AttemptInv, WorkerRests, TaskIsCurrent, CallbacksFollow, NothingStale
<1>2. IInv /\ AttemptInv /\ [Next]_vars => AttemptInv'
  <2> SUFFICES ASSUME IInv, AttemptInv, [Next]_vars PROVE AttemptInv'
    OBVIOUS
  <2>1. ASSUME NEW a \in Addr, Native(a) PROVE AttemptInv'
    <3>1. CASE released
      <4>1. UNCHANGED <<released, workerQ, wpc>>
        BY <2>1 DEF Native, mgrVars, AuthChecks, AuthPrompts, PromptEnds
      <4> QED
        BY <3>1, <4>1, AttemptReleased DEF AttemptInv, WorkerRests
    <3>2. CASE Reconnects(a) /\ UNCHANGED mgrVars
      BY <3>2, AttemptQuiet DEF Reconnects, mgrVars, attemptVars
    <3>3. CASE ~Reconnects(a)
      BY <2>1, <3>1, <3>3, AttemptElsewhere, AttemptNative
    <3> QED
      BY <2>1, <3>2, <3>3 DEF Native, Reconnects, AuthChecks, AuthPrompts, PromptEnds
  <2>2. CASE ReleaseThread
    <3>1. released /\ UNCHANGED <<released, workerQ, wpc>>
      BY <2>2 DEF ReleaseThread, ReleaseThreadBegins, ReleaseThreadEnds, IInv, Safe, ReleaseTookOver
    <3> QED
      BY <3>1, AttemptReleased DEF AttemptInv, WorkerRests
  <2>3. CASE UNCHANGED vars
    BY <2>3, AttemptQuiet DEF vars, mgrVars, nativeVars, attemptVars
  <2> QED
    BY <2>1, <2>2, <2>3, AttemptUI, AttemptTold, AttemptTimers, AttemptWorker, AttemptCallbacks
    DEF Next, Main
<1> QED
  BY <1>1, <1>2, Inductive, PTL DEF Spec

-----------------------------------------------------------------------------
(* What follows from the course of an attempt.                             *)

\* The current instance is always going to end: it is still with the worker, its
\* thread is alive, or its terminal callback is queued.  The manager, which frees
\* an instance on that callback only, never waits for one that will not come.
THEOREM EndIsComing == Spec => []NoStrandedInstance
<1>1. IInv /\ AttemptInv => NoStrandedInstance
  <2> SUFFICES ASSUME IInv, AttemptInv, core # NoInst
               PROVE  \/ \E i \in 1..Len(workerQ) : workerQ[i] = core
                      \/ thread[core] # "none"
                      \/ \E i \in 1..Len(mainQ) : mainQ[i].inst = core /\ mainQ[i].kind \in Terminal
    BY DEF NoStrandedInstance
  <2>1. ~released
    BY DEF IInv, Safe, ReleaseTookOver
  <2>2. CASE workerQ # <<>>
    <3>1. core = workerQ[Len(workerQ)]
      BY <2>1, <2>2 DEF AttemptInv, TaskIsCurrent
    <3>2. Len(workerQ) \in 1..Len(workerQ)
      BY <2>2, ShortQueue DEF IInv, TypeOK
    <3> QED
      BY <3>1, <3>2
  <2>3. CASE workerQ = <<>>
    <3>1. thread[core] # "none" \/ Queued1(Terminal) \/ Queued2
      BY <2>1, <2>3 DEF AttemptInv, CallbacksFollow, Handshake
    <3>2. ASSUME Queued1(Terminal)
          PROVE  \E i \in 1..Len(mainQ) : mainQ[i].inst = core /\ mainQ[i].kind \in Terminal
      BY <3>2 DEF Queued1
    <3>3. ASSUME Queued2
          PROVE  \E i \in 1..Len(mainQ) : mainQ[i].inst = core /\ mainQ[i].kind \in Terminal
      BY <3>3 DEF Queued2
    <3> QED
      BY <3>1, <3>2, <3>3
  <2> QED
    BY <2>2, <2>3
<1> QED
  BY <1>1, Inductive, AttemptCourse, PTL

\* Connected holds from the success callback of a started instance to its
\* terminal callback, or release().
BackedInv == state = "Connected" => core # NoInst /\ workerQ = <<>>

\* A session shown as Connected has an instance whose native thread was really
\* started: no late callback, fallback or worker step makes a session look
\* connected, or takes the instance away under it.
THEOREM ConnectedHasInstance == Spec => []ConnectedIsBacked
<1>1. Init => BackedInv
  BY DEF Init, BackedInv
<1>2. IInv /\ AttemptInv /\ BackedInv /\ [Next]_vars => BackedInv'
  <2> SUFFICES ASSUME IInv, AttemptInv, BackedInv, [Next]_vars PROVE BackedInv'
    OBVIOUS
  <2> USE DEF BackedInv, transition
  <2>1. CASE UI
    BY <2>1 DEF UI, UserConnect, connect, cancelConnection, disconnect, release,
              setVoiceMicEnabled
  <2>10. CASE MainGoesOn \/ ScreenOffDisconnect
    BY <2>10 DEF MainGoesOn, CancelTells, DisconnectShows, DisconnectTells, TimerTells, TimerShows,
              ScreenOffDisconnect, mgrVars
  <2>2. CASE Worker
    BY <2>2 DEF Worker, WorkerAt, WorkerProbed, WorkerTakesLock, WorkerStarts, WorkerFreesUnreachable,
              WorkerUnreachable, WorkerException, WorkerFreesFailed
  <2>3. CASE StaleCallback
    BY <2>3 DEF StaleCallback, mgrVars
  <2>4. ASSUME NEW b \in BOOLEAN, onConnectionSuccess(b) PROVE BackedInv'
    <3>1. core \in Addr /\ workerQ = <<>>
      BY <2>4, RunningCallback DEF onConnectionSuccess, CallbackFor
    <3> QED
      BY <2>4, <3>1 DEF onConnectionSuccess
  <2>5. ASSUME NEW b \in BOOLEAN, onConnectionFailure(b) \/ onDisconnected(b) PROVE BackedInv'
    BY <2>5 DEF onConnectionFailure, onDisconnected
  <2>6. CASE Timers
    BY <2>6 DEF Timers, RetryConnects, connect, RetryDropped, CancelFallback,
              DisconnectFallback, WatchdogFires
  <2>7. ASSUME NEW a \in Addr, Native(a) PROVE BackedInv'
    BY <2>7 DEF Native, mgrVars, AuthChecks, AuthPrompts, PromptEnds
  <2>8. CASE ReleaseThread
    BY <2>8 DEF ReleaseThread, ReleaseThreadBegins, ReleaseThreadEnds
  <2>9. CASE UNCHANGED vars
    BY <2>9 DEF vars, mgrVars
  <2> QED
    BY <2>1, <2>2, <2>3, <2>4, <2>5, <2>6, <2>7, <2>8, <2>9, <2>10 DEF Next, Main, Callbacks
<1>3. BackedInv => ConnectedIsBacked
  BY DEF BackedInv, ConnectedIsBacked
<1> QED
  BY <1>1, <1>2, <1>3, Inductive, AttemptCourse, PTL DEF Spec

-----------------------------------------------------------------------------
(* The manager implements SessionContract.  Each action of the manager is  *)
(* an action of the contract or leaves what the screen sees as it is; what *)
(* that needs of the invariants is said where it is used.                  *)

\* A session that got through is not timed out any more.
WatchInv == connectedAt => watchdog = NoInst

LEMMA WatchdogStopped == Spec => []WatchInv
<1>1. Init => WatchInv
  BY DEF Init, WatchInv
<1>2. WatchInv /\ [Next]_vars => WatchInv'
  <2> SUFFICES ASSUME WatchInv, [Next]_vars PROVE WatchInv'
    OBVIOUS
  <2> USE DEF WatchInv, stopWatchdog, flags
  <2>1. CASE UI
    BY <2>1 DEF UI, UserConnect, connect, cancelConnection, disconnect, release,
              setVoiceMicEnabled
  <2>8. CASE MainGoesOn \/ ScreenOffDisconnect
    BY <2>8 DEF MainGoesOn, CancelTells, DisconnectShows, DisconnectTells, TimerTells, TimerShows,
              ScreenOffDisconnect, mgrVars
  <2>2. CASE Worker
    BY <2>2 DEF Worker, WorkerProbed, WorkerTakesLock, WorkerStarts, WorkerFreesUnreachable,
              WorkerUnreachable, WorkerException, WorkerFreesFailed, cleanupTerminalSession
  <2>3. CASE Callbacks
    BY <2>3 DEF Callbacks, StaleCallback, mgrVars, onConnectionSuccess, onConnectionFailure,
              onDisconnected, cleanupTerminalSession
  <2>4. CASE Timers
    BY <2>4 DEF Timers, RetryConnects, connect, RetryDropped, CancelFallback,
              DisconnectFallback, WatchdogFires
  <2>5. ASSUME NEW a \in Addr, Native(a) PROVE WatchInv'
    BY <2>5 DEF Native, mgrVars, AuthChecks, AuthPrompts, PromptEnds
  <2>6. CASE ReleaseThread
    BY <2>6 DEF ReleaseThread, ReleaseThreadBegins, ReleaseThreadEnds
  <2>7. CASE UNCHANGED vars
    BY <2>7 DEF vars, mgrVars
  <2> QED
    BY <2>1, <2>2, <2>3, <2>4, <2>5, <2>6, <2>7, <2>8 DEF Next, Main
<1> QED
  BY <1>1, <1>2, PTL DEF Spec

\* The status the screen shows, before and after a step.
LEMMA StatusIs ==
    /\ state # "Error" => ShownStatus = state
    /\ state = "Error" => ShownStatus \in {"Unreachable", "Failed"}
    /\ state' # "Error" => ShownStatus' = state'
    /\ state' = "Error" /\ code' \in {"unreachable", "connect_timeout"} =>
          ShownStatus' = "Unreachable"
    /\ state' = "Error" /\ code' \notin {"unreachable", "connect_timeout"} =>
          ShownStatus' = "Failed"
    /\ UNCHANGED <<state, code>> => ShownStatus' = ShownStatus
BY DEF ShownStatus

\* How far the instance is, before and after a step.
LEMMA ProgressIs ==
    /\ core = NoInst => Progress = "none"
    /\ core # NoInst => Progress \in {"probing", "started", "up"}
    /\ core # NoInst /\ workerQ = <<>> => Progress = IF connectedAt THEN "up" ELSE "started"
    /\ core' = NoInst => Progress' = "none"
    /\ core' # NoInst /\ workerQ' = <<>> => Progress' = IF connectedAt' THEN "up" ELSE "started"
    /\ UNCHANGED <<core, workerQ, connectedAt>> => Progress' = Progress
<1>1. workerQ = <<>> => ~\E i \in 1..Len(workerQ) : workerQ[i] = core
  OBVIOUS
<1>2. workerQ' = <<>> => ~\E i \in 1..Len(workerQ') : workerQ'[i] = core'
  OBVIOUS
<1>3. /\ core = NoInst => Progress = "none"
      /\ core # NoInst => Progress \in {"probing", "started", "up"}
      /\ core # NoInst /\ workerQ = <<>> => Progress = IF connectedAt THEN "up" ELSE "started"
  BY <1>1 DEF Progress
<1>4. /\ core' = NoInst => Progress' = "none"
      /\ core' # NoInst /\ workerQ' = <<>> => Progress' = IF connectedAt' THEN "up" ELSE "started"
  BY <1>2 DEF Progress
<1>5. UNCHANGED <<core, workerQ, connectedAt>> => Progress' = Progress
  BY DEF Progress
<1> QED
  BY <1>3, <1>4, <1>5

\* What the worker owes, before and after a step.
LEMMA OwesIs ==
    /\ workerQ = <<>> \/ wpc \notin {"decide", "freeFailed"} => WorkerOwes = "idle"
    /\ workerQ # <<>> /\ wpc = "decide" => WorkerOwes = "decide"
    /\ workerQ # <<>> /\ wpc = "freeFailed" => WorkerOwes = "free"
    /\ workerQ' = <<>> \/ wpc' \notin {"decide", "freeFailed"} => WorkerOwes' = "idle"
    /\ workerQ' # <<>> /\ wpc' = "decide" => WorkerOwes' = "decide"
    /\ workerQ' # <<>> /\ wpc' = "freeFailed" => WorkerOwes' = "free"
    /\ UNCHANGED <<workerQ, wpc>> => WorkerOwes' = WorkerOwes
BY DEF WorkerOwes, WorkerAt

\* Whether a retry is pending, before and after a step.
LEMMA RetryIs ==
    /\ RetryPending \in BOOLEAN /\ RetryPending' \in BOOLEAN
    /\ UNCHANGED timers => RetryPending' = RetryPending
    /\ \A t \in timers : t.kind = "retry" => RetryPending
    /\ \A t : timers' = timers \cup {t} /\ t.kind = "retry" => RetryPending'
    /\ \A t : timers' = timers \cup {t} /\ t.kind # "retry" => RetryPending' = RetryPending
    /\ \A t : timers' = timers \ {t} /\ t.kind # "retry" => RetryPending' = RetryPending
    /\ \A t : timers' = timers \ {t} /\ RetryPending' => RetryPending
BY DEF RetryPending

\* What the running handler is about to show, before and after a step.
LEMMA DueIs ==
    /\ main = MainIdle => HandlerDue = "none"
    /\ main' = MainIdle => HandlerDue' = "none"
    /\ main.at = "disconnect" => HandlerDue = "Disconnecting"
    /\ main'.at = "disconnect" => HandlerDue' = "Disconnecting"
    /\ main.at = "disconnecting" => HandlerDue = "Refused"
    /\ main'.at = "disconnecting" => HandlerDue' = "Refused"
    /\ main.at = "cancel" => HandlerDue = "none"
    /\ main'.at = "cancel" => HandlerDue' = "none"
    /\ main.at \in {"expire", "connect_timeout"} => HandlerDue = "Unreachable"
    /\ main'.at \in {"expire", "connect_timeout"} => HandlerDue' = "Unreachable"
    /\ main.at \in {"insist", "cancelled", "disconnect_unconfirmed"} => HandlerDue = "Failed"
    /\ main'.at \in {"insist", "cancelled", "disconnect_unconfirmed"} => HandlerDue' = "Failed"
    /\ UNCHANGED main => HandlerDue' = HandlerDue
BY DEF HandlerDue, MainIdle

\* Everything the contract speaks of.
shown == <<ShownStatus, Progress, RetryPending, userInitiatedDisconnect, released, WorkerOwes,
           HandlerDue>>

ContractStep == [Contract!ContractNext]_shown

\* The steps that leave the manager's part in it as it is.
LEMMA Unseen ==
    ASSUME UNCHANGED <<state, code, core, workerQ, wpc, connectedAt, timers,
                       userInitiatedDisconnect, released, main>>
    PROVE  UNCHANGED shown
BY StatusIs, ProgressIs, OwesIs, RetryIs, DueIs DEF shown

\* An instance that is with the worker is probing.
LEMMA ProbingIs ==
    ASSUME IInv, AttemptInv, workerQ # <<>>, core # NoInst
    PROVE  Progress = "probing"
<1>1. ~released
  BY DEF IInv, Safe, ReleaseTookOver
<1>2. core = workerQ[Len(workerQ)]
  BY <1>1 DEF AttemptInv, TaskIsCurrent
<1>3. Len(workerQ) \in 1..Len(workerQ)
  BY ShortQueue DEF IInv, TypeOK
<1> QED
  BY <1>2, <1>3 DEF Progress

\* connect(), by the screen or by a retry.
LEMMA ConnectKeeps ==
    ASSUME IInv, AttemptInv, NEW a \in Addr, connect(a), main = MainIdle, UNCHANGED main
    PROVE  Contract!Connect
<1>1. /\ ~released /\ core = NoInst /\ state \notin {"Connected", "Authenticating"}
      /\ core' = a /\ state' = "Connecting" /\ workerQ' = Append(workerQ, a) /\ wpc' = wpc
      /\ UNCHANGED <<released, userInitiatedDisconnect>>
  BY DEF connect, MayConnect, transition
<1>2. a # NoInst /\ workerQ \in Seq(Addr)
  BY DEF IInv, TypeOK
<1>3. workerQ' # <<>> /\ Len(workerQ') \in 1..Len(workerQ') /\ workerQ'[Len(workerQ')] = a
  BY <1>1, <1>2
<1>4. Progress' = "probing"
  BY <1>1, <1>2, <1>3 DEF Progress
<1>5. WorkerOwes' = WorkerOwes
  <2>1. workerQ = <<>> => wpc = "probe"
    BY DEF AttemptInv, WorkerRests
  <2> QED
    BY <1>1, <1>3, <2>1 DEF WorkerOwes, WorkerAt
<1>6. ShownStatus \notin {"Connected", "Authenticating"} /\ ShownStatus' = "Connecting"
  BY <1>1, StatusIs
<1>7. Progress = "none"
  BY <1>1, ProgressIs
<1> QED
  BY <1>1, <1>4, <1>5, <1>6, <1>7, DueIs DEF Contract!Connect, Contract!MayConnect

\* The calls of the UI.
LEMMA UIKeeps == ASSUME IInv, AttemptInv, UI, main = MainIdle PROVE ContractStep
<1>0. HandlerDue = "none"
  BY DueIs
<1>1. ASSUME NEW a \in Addr, UserConnect(a), UNCHANGED main PROVE Contract!UserConnect
  <2>1. connect(a) /\ UNCHANGED timers
    BY <1>1 DEF UserConnect
  <2> QED
    BY <1>1, <2>1, ConnectKeeps, RetryIs DEF Contract!UserConnect
<1>2. CASE cancelConnection
  <2>1. UNCHANGED <<state, code, core, workerQ, connectedAt, wpc, released>>
    BY <1>2 DEF cancelConnection
  <2>2. RetryPending' = RetryPending
    BY <1>2, RetryIs DEF cancelConnection
  <2>3. userInitiatedDisconnect' = TRUE
    BY <1>2 DEF cancelConnection
  <2>4. HandlerDue' = "none"
    BY <1>2, DueIs DEF cancelConnection, Goes
  <2>5. ShownStatus' = ShownStatus /\ Progress' = Progress /\ WorkerOwes' = WorkerOwes
    BY <2>1, StatusIs, ProgressIs, OwesIs
  <2> QED
    BY <1>0, <2>1, <2>2, <2>3, <2>4, <2>5 DEF ContractStep, Contract!ContractNext, Contract!Cancel
<1>3. CASE disconnect
  <2>1. UNCHANGED <<state, code, core, workerQ, connectedAt, wpc, released>>
    BY <1>3 DEF disconnect
  <2>2. RetryPending' = RetryPending
    BY <1>3, RetryIs DEF disconnect
  <2>3. userInitiatedDisconnect' = TRUE
    BY <1>3 DEF disconnect
  <2>4. ShownStatus' = ShownStatus /\ Progress' = Progress /\ WorkerOwes' = WorkerOwes
    BY <2>1, StatusIs, ProgressIs, OwesIs
  <2>5. HandlerDue' = IF Progress # "none" THEN "Disconnecting" ELSE "none"
    <3>1. Progress # "none" <=> core # NoInst
      BY ProgressIs
    <3>2. CASE core = NoInst
      BY <1>3, <3>1, <3>2, DueIs DEF disconnect
    <3>3. CASE core # NoInst
      BY <1>3, <3>1, <3>3, DueIs DEF disconnect, Goes
    <3> QED
      BY <3>2, <3>3
  <2>6. Contract!Disconnect
    BY <1>0, <2>1, <2>2, <2>3, <2>4, <2>5 DEF Contract!Disconnect
  <2> QED
    BY <2>6 DEF ContractStep, Contract!ContractNext
<1>4. CASE release /\ UNCHANGED main
  <2>1. ~released /\ released' = TRUE /\ core' = NoInst
    BY <1>4 DEF release
  <2>2. UNCHANGED <<userInitiatedDisconnect, workerQ, wpc, timers>>
    BY <1>4 DEF release, flags
  <2>3. ShownStatus' = IF ShownStatus \in Contract!Busy \cup {"Connected", "Disconnecting"}
                       THEN "Idle" ELSE ShownStatus
    <3>1. CASE state \in {"Connected", "Connecting", "Authenticating", "Disconnecting"}
      BY <1>4, <3>1, StatusIs DEF release, transition, Contract!Busy
    <3>2. CASE state \notin {"Connected", "Connecting", "Authenticating", "Disconnecting"}
      <4>1. ShownStatus' = ShownStatus
        BY <1>4, <3>2, StatusIs DEF release
      <4>2. ShownStatus = state \/ ShownStatus \in {"Unreachable", "Failed"}
        BY StatusIs
      <4> QED
        BY <3>2, <4>1, <4>2 DEF Contract!Busy
    <3> QED
      BY <3>1, <3>2
  <2>4. Progress' = "none" /\ WorkerOwes' = WorkerOwes /\ RetryPending' = RetryPending
    BY <2>1, <2>2, ProgressIs, OwesIs, RetryIs
  <2>5. Contract!Release
    BY <1>0, <1>4, <2>1, <2>2, <2>3, <2>4, DueIs DEF Contract!Release
  <2> QED
    BY <2>5 DEF ContractStep, Contract!ContractNext
<1>5. CASE setVoiceMicEnabled /\ UNCHANGED main
  BY <1>5, Unseen DEF setVoiceMicEnabled, flags, ContractStep
<1> QED
  BY <1>1, <1>2, <1>3, <1>4, <1>5 DEF UI, ContractStep, Contract!ContractNext

\* The rest of a handler shows what it has decided to show, whatever has become of
\* the instance since.
LEMMA HandlerKeeps == ASSUME IInv, MainGoesOn PROVE ContractStep
<1>0. main = MainIdle \/ (main.inst \in Addr /\ main.inst # NoInst)
  BY DEF IInv, TypeOK
<1>1. CASE CancelTells
  <2>1. UNCHANGED <<state, code, core, workerQ, wpc, connectedAt, userInitiatedDisconnect, released>>
    BY <1>1 DEF CancelTells, flags
  <2>2. /\ ShownStatus' = ShownStatus /\ Progress' = Progress /\ WorkerOwes' = WorkerOwes
    BY <2>1, StatusIs, ProgressIs, OwesIs
  <2>3. RetryPending' = RetryPending
    BY <1>1 DEF CancelTells, RetryPending
  <2>4. HandlerDue' = HandlerDue
    BY <1>1, DueIs DEF CancelTells, HandlerEnds
  <2> QED
    BY <2>1, <2>2, <2>3, <2>4 DEF ContractStep, shown
<1>2. CASE DisconnectShows
  <2>1. /\ UNCHANGED <<core, workerQ, wpc, connectedAt, timers, userInitiatedDisconnect, released>>
        /\ state' = "Disconnecting"
    BY <1>2 DEF DisconnectShows, flags, transition
  <2>2. /\ ShownStatus' = "Disconnecting" /\ Progress' = Progress /\ WorkerOwes' = WorkerOwes
        /\ RetryPending' = RetryPending
    BY <2>1, StatusIs, ProgressIs, OwesIs, RetryIs
  <2>3. HandlerDue = "Disconnecting" /\ HandlerDue' = "Refused"
    BY <1>2, DueIs DEF DisconnectShows, Goes
  <2>4. Contract!Shows
    BY <2>1, <2>2, <2>3 DEF Contract!Shows
  <2> QED
    BY <2>4 DEF ContractStep, Contract!ContractNext, Contract!Manager, Contract!Handler
<1>3. ASSUME NEW refused \in BOOLEAN, DisconnectTells(refused) PROVE ContractStep
  <2>1. UNCHANGED <<core, workerQ, wpc, connectedAt, userInitiatedDisconnect, released>>
    BY <1>3 DEF DisconnectTells, flags
  <2>2. Progress' = Progress /\ WorkerOwes' = WorkerOwes
    BY <2>1, ProgressIs, OwesIs
  <2>3. RetryPending' = RetryPending
    BY <1>3 DEF DisconnectTells, RetryPending
  <2>4. HandlerDue = "Refused" /\ HandlerDue' = "none"
    BY <1>3, DueIs DEF DisconnectTells, HandlerEnds
  <2>5. \/ ShownStatus' = ShownStatus
        \/ Progress # "none" /\ ShownStatus' = "Failed"
    <3>1. \/ UNCHANGED <<state, code>>
          \/ core = main.inst /\ state' = "Error" /\ code' = "disconnect_unconfirmed"
      BY <1>3 DEF DisconnectTells, isCurrent, transition
    <3>2. main.inst # NoInst
      BY <1>0, <1>3 DEF DisconnectTells, MainIdle
    <3> QED
      BY <3>1, <3>2, StatusIs, ProgressIs
  <2>6. Contract!Told
    BY <2>1, <2>2, <2>3, <2>4, <2>5 DEF Contract!Told
  <2> QED
    BY <2>6 DEF ContractStep, Contract!ContractNext, Contract!Manager, Contract!Handler
<1>4. CASE TimerTells
  <2>1. /\ ShownStatus' = ShownStatus /\ Progress' = Progress /\ WorkerOwes' = WorkerOwes
        /\ RetryPending' = RetryPending /\ UNCHANGED <<userInitiatedDisconnect, released>>
    BY <1>4, StatusIs, ProgressIs, OwesIs, RetryIs DEF TimerTells, mgrVars
  <2>2. HandlerDue' = HandlerDue
    <3>1. CASE main.at = "expire"
      BY <1>4, <3>1, DueIs DEF TimerTells, Goes
    <3>2. CASE main.at = "insist"
      BY <1>4, <3>2, DueIs DEF TimerTells, Goes
    <3> QED
      BY <1>4, <3>1, <3>2 DEF TimerTells
  <2> QED
    BY <2>1, <2>2 DEF ContractStep, shown
<1>5. CASE TimerShows
  <2>1. /\ UNCHANGED <<core, workerQ, wpc, connectedAt, timers, userInitiatedDisconnect, released>>
        /\ state' = "Error" /\ code' = main.at /\ main.at \in HandlerCodes
    BY <1>5 DEF TimerShows, flags, transition
  <2>2. /\ Progress' = Progress /\ WorkerOwes' = WorkerOwes /\ RetryPending' = RetryPending
    BY <2>1, ProgressIs, OwesIs, RetryIs
  <2>3. HandlerDue' = "none"
    BY <1>5, DueIs DEF TimerShows, HandlerEnds
  <2>4. HandlerDue \in {"Unreachable", "Failed"} /\ ShownStatus' = HandlerDue
    <3>1. CASE main.at = "connect_timeout"
      BY <2>1, <3>1, DueIs, StatusIs
    <3>2. CASE main.at \in {"cancelled", "disconnect_unconfirmed"}
      BY <2>1, <3>2, DueIs, StatusIs
    <3> QED
      BY <2>1, <3>1, <3>2 DEF HandlerCodes
  <2>5. Contract!Shows
    BY <2>1, <2>2, <2>3, <2>4 DEF Contract!Shows
  <2> QED
    BY <2>5 DEF ContractStep, Contract!ContractNext, Contract!Manager, Contract!Handler
<1> QED
  BY <1>1, <1>2, <1>3, <1>4, <1>5 DEF MainGoesOn

\* The delayed runnables.  The watchdog that fires is that of an instance that
\* has not got through (WatchInv), the current one (WatchdogIsCurrent).
LEMMA TimersKeep == ASSUME IInv, AttemptInv, WatchInv, Timers PROVE ContractStep
<1>0. /\ \A t \in timers : t.inst # NoInst
      /\ core # NoInst => Progress \in {"probing", "started", "up"}
  BY ProgressIs DEF IInv, TypeOK, Timer
<1>m. main = MainIdle /\ HandlerDue = "none"
  BY DueIs DEF Timers
<1>1. ASSUME NEW t \in timers, NEW a \in Addr, RetryConnects(t, a), UNCHANGED main PROVE Contract!RetryFires
  <2>1. Contract!Connect
    BY <1>1, <1>m, ConnectKeeps DEF RetryConnects
  <2>2. ~userInitiatedDisconnect
    BY <1>1 DEF RetryConnects
  <2>3. RetryPending /\ RetryPending' \in BOOLEAN
    BY <1>1, RetryIs DEF RetryConnects
  <2> QED
    BY <2>1, <2>2, <2>3 DEF Contract!RetryFires
<1>2. ASSUME NEW t \in timers, RetryDropped(t), UNCHANGED main PROVE ContractStep
  <2>1. UNCHANGED <<state, code, core, workerQ, wpc, connectedAt, userInitiatedDisconnect, released>>
    BY <1>2 DEF RetryDropped, flags
  <2>2. /\ ShownStatus' = ShownStatus /\ Progress' = Progress /\ WorkerOwes' = WorkerOwes
    BY <2>1, StatusIs, ProgressIs, OwesIs
  <2>7. HandlerDue' = HandlerDue
    BY <1>2, DueIs
  <2>3. RetryPending /\ RetryPending' \in BOOLEAN
    BY <1>2, RetryIs DEF RetryDropped
  <2>4. userInitiatedDisconnect \/ ~Contract!MayConnect
    <3>1. \/ released \/ userInitiatedDisconnect \/ core # NoInst
          \/ state \in {"Connected", "Authenticating"}
      BY <1>2 DEF RetryDropped, MayConnect
    <3>2. state \in {"Connected", "Authenticating"} =>
             ShownStatus \in {"Connected", "Authenticating"}
      BY StatusIs
    <3> QED
      BY <1>0, <3>1, <3>2 DEF Contract!MayConnect
  <2>5. CASE RetryPending' = FALSE
    <3>1. Contract!RetryDropped
      BY <1>m, <2>1, <2>2, <2>3, <2>4, <2>5, <2>7 DEF Contract!RetryDropped
    <3> QED
      BY <3>1 DEF ContractStep, Contract!ContractNext, Contract!Manager, Contract!Retries
  <2>6. CASE RetryPending' = TRUE
    <3>1. RetryPending' = RetryPending
      BY <2>3, <2>6, RetryIs
    <3> QED
      BY <2>1, <2>2, <2>7, <3>1 DEF ContractStep, shown
  <2> QED
    BY <2>3, <2>5, <2>6
<1>3. ASSUME NEW t \in timers, CancelFallback(t) PROVE ContractStep
  <2>1. UNCHANGED <<state, code, core, workerQ, wpc, connectedAt, userInitiatedDisconnect, released>>
    BY <1>3 DEF CancelFallback, flags
  <2>2. /\ ShownStatus' = ShownStatus /\ Progress' = Progress /\ WorkerOwes' = WorkerOwes
        /\ RetryPending' = RetryPending
    <3>1. timers' = timers \ {t} /\ t.kind # "retry"
      BY <1>3 DEF CancelFallback
    <3> QED
      BY <2>1, <3>1, StatusIs, ProgressIs, OwesIs, RetryIs
  <2>3. CASE isCurrent(t.inst) /\ state \in Busy
    <3>1. ShownStatus \in Contract!Busy /\ Progress # "none"
      BY <1>0, <2>3, StatusIs DEF Busy, Contract!Busy, isCurrent
    <3>3. HandlerDue' = "Failed"
      BY <1>3, <2>3, DueIs DEF CancelFallback, Goes
    <3>2. Contract!Unconfirmed
      BY <1>m, <2>1, <2>2, <3>1, <3>3 DEF Contract!Unconfirmed
    <3> QED
      BY <3>2 DEF ContractStep, Contract!ContractNext, Contract!Manager
  <2>4. CASE ~(isCurrent(t.inst) /\ state \in Busy)
    <3>1. HandlerDue' = HandlerDue
      BY <1>3, <2>4, DueIs DEF CancelFallback
    <3> QED
      BY <2>1, <2>2, <3>1 DEF ContractStep, shown
  <2> QED
    BY <2>3, <2>4
<1>4. ASSUME NEW t \in timers, DisconnectFallback(t) PROVE ContractStep
  <2>1. UNCHANGED <<state, code, core, workerQ, wpc, connectedAt, userInitiatedDisconnect, released>>
    BY <1>4 DEF DisconnectFallback, flags
  <2>2. /\ ShownStatus' = ShownStatus /\ Progress' = Progress /\ WorkerOwes' = WorkerOwes
        /\ RetryPending' = RetryPending
    <3>1. timers' = timers \ {t} /\ t.kind # "retry"
      BY <1>4 DEF DisconnectFallback
    <3> QED
      BY <2>1, <3>1, StatusIs, ProgressIs, OwesIs, RetryIs
  <2>3. CASE isCurrent(t.inst) /\ state = "Disconnecting"
    <3>1. ShownStatus = "Disconnecting" /\ Progress # "none"
      BY <1>0, <2>3, StatusIs DEF isCurrent
    <3>3. HandlerDue' = "Failed"
      BY <1>4, <2>3, DueIs DEF DisconnectFallback, Goes
    <3>2. Contract!Unconfirmed
      BY <1>m, <2>1, <2>2, <3>1, <3>3 DEF Contract!Unconfirmed
    <3> QED
      BY <3>2 DEF ContractStep, Contract!ContractNext, Contract!Manager
  <2>4. CASE ~(isCurrent(t.inst) /\ state = "Disconnecting")
    <3>1. HandlerDue' = HandlerDue
      BY <1>4, <2>4, DueIs DEF DisconnectFallback
    <3> QED
      BY <2>1, <2>2, <3>1 DEF ContractStep, shown
  <2> QED
    BY <2>3, <2>4
<1>5. CASE WatchdogFires
  <2>1. UNCHANGED <<state, code, core, workerQ, wpc, connectedAt, timers,
                    userInitiatedDisconnect, released>>
    BY <1>5 DEF WatchdogFires, flags
  <2>2. /\ ShownStatus' = ShownStatus /\ Progress' = Progress /\ WorkerOwes' = WorkerOwes
        /\ RetryPending' = RetryPending
    BY <2>1, StatusIs, ProgressIs, OwesIs, RetryIs
  <2>3. CASE isCurrent(watchdog) /\ state \in Busy
    <3>1. ShownStatus \in Contract!Busy
      BY <2>3, StatusIs DEF Busy, Contract!Busy
    <3>5. HandlerDue' = "Unreachable"
      BY <1>5, <2>3, DueIs DEF WatchdogFires, Goes
    <3>2. core # NoInst /\ ~connectedAt
      BY <1>5, <2>3 DEF WatchdogFires, isCurrent, WatchInv
    <3>3. Progress \in {"probing", "started"}
      BY <3>2, ProgressIs, ProbingIs
    <3>4. Contract!TimesOut
      BY <1>m, <2>1, <2>2, <3>1, <3>3, <3>5 DEF Contract!TimesOut
    <3> QED
      BY <3>4 DEF ContractStep, Contract!ContractNext, Contract!Manager
  <2>4. CASE ~(isCurrent(watchdog) /\ state \in Busy)
    <3>1. HandlerDue' = HandlerDue
      BY <1>5, <2>4, DueIs DEF WatchdogFires
    <3> QED
      BY <2>1, <2>2, <3>1 DEF ContractStep, shown
  <2> QED
    BY <2>3, <2>4
<1> QED
  BY <1>1, <1>2, <1>3, <1>4, <1>5
  DEF Timers, ContractStep, Contract!ContractNext, Contract!Manager, Contract!Retries

\* The worker.  Its task is that of the current instance, unless the session was
\* released (RunningTask); and an attempt whose probe failed is never retried,
\* since it has not got through.
LEMMA WorkerKeeps == ASSUME IInv, AttemptInv, Worker PROVE ContractStep
<1> USE DEF WorkerAt, TaskDone
<1>0. released => core = NoInst
  BY DEF IInv, Safe, ReleaseTookOver
<1>m. HandlerDue' = HandlerDue
  BY DueIs DEF Worker
<1>1. ASSUME NEW r \in BOOLEAN, WorkerProbed(r) PROVE ContractStep
  <2>1. UNCHANGED <<state, code, core, connectedAt, timers, userInitiatedDisconnect, released>>
    BY <1>1 DEF WorkerProbed
  <2>2. workerQ # <<>> /\ wpc = "probe" /\ wpc' \in {"probe", "start", "cleanup"}
    BY <1>1 DEF WorkerProbed
  <2>3. core = NoInst \/ workerQ' = workerQ
    BY <1>0, <1>1, <2>2, RunningTask DEF WorkerProbed, isCurrent
  <2>4. Progress' = Progress /\ WorkerOwes = "idle" /\ WorkerOwes' = "idle"
    BY <2>1, <2>2, <2>3, ProgressIs, OwesIs
  <2>5. ShownStatus' = ShownStatus /\ RetryPending' = RetryPending
    BY <2>1, StatusIs, RetryIs
  <2> QED
    BY <1>m, <2>1, <2>4, <2>5 DEF ContractStep, shown
<1>2. ASSUME NEW r \in BOOLEAN, WorkerStarts(r) PROVE ContractStep
  <2>1. UNCHANGED <<state, code, core, connectedAt, timers, userInitiatedDisconnect, released>>
    BY <1>2 DEF WorkerStarts, flags
  <2>2. workerQ # <<>> /\ wpc = "starting" /\ wpc' \in {"probe", "exception"}
    BY <1>2 DEF WorkerStarts
  <2>3. ShownStatus' = ShownStatus /\ RetryPending' = RetryPending
    BY <2>1, StatusIs, RetryIs
  <2>4. WorkerOwes = "idle" /\ WorkerOwes' = "idle"
    BY <2>2, OwesIs
  <2>5. CASE core = NoInst \/ workerQ' = workerQ
    <3>1. Progress' = Progress
      BY <2>1, <2>5, ProgressIs
    <3> QED
      BY <1>m, <2>1, <2>3, <2>4, <3>1 DEF ContractStep, shown
  <2>6. CASE core # NoInst /\ workerQ' # workerQ
    <3>1. ~connectedAt /\ workerQ' = <<>>
      BY <1>0, <1>2, <2>2, <2>6, RunningTask DEF WorkerStarts
    <3>2. Progress = "probing" /\ Progress' = "started"
      BY <2>1, <2>2, <2>6, <3>1, ProgressIs, ProbingIs
    <3>3. Contract!Starts
      BY <1>m, <2>1, <2>3, <2>4, <3>2 DEF Contract!Starts
    <3> QED
      BY <3>3 DEF ContractStep, Contract!ContractNext, Contract!Manager, Contract!Attempt
  <2> QED
    BY <2>5, <2>6
<1>3. CASE WorkerFreesUnreachable
  <2>1. UNCHANGED <<state, code, workerQ, timers, userInitiatedDisconnect, released>>
    BY <1>3 DEF WorkerFreesUnreachable, flags
  <2>2. workerQ # <<>> /\ wpc = "cleanup" /\ wpc' = "decide"
    BY <1>3 DEF WorkerFreesUnreachable
  <2>3. core' = NoInst
    <3>1. core = NoInst \/ core = Head(workerQ)
      BY <1>0, <2>2, RunningTask
    <3> QED
      BY <1>3, <3>1 DEF WorkerFreesUnreachable, cleanupTerminalSession, isCurrent
  <2>4. Progress = "probing" \/ released
    BY <2>2, RunningTask, ProbingIs
  <2>5. /\ ShownStatus' = ShownStatus /\ RetryPending' = RetryPending
        /\ WorkerOwes = "idle" /\ WorkerOwes' = "decide" /\ Progress' = "none"
    BY <2>1, <2>2, <2>3, StatusIs, RetryIs, OwesIs, ProgressIs
  <2>6. Contract!ProbeFails
    BY <1>m, <2>1, <2>4, <2>5 DEF Contract!ProbeFails
  <2> QED
    BY <2>6 DEF ContractStep, Contract!ContractNext, Contract!Manager, Contract!Attempt
<1>4. CASE WorkerUnreachable
  <2>1. /\ UNCHANGED <<core, connectedAt, userInitiatedDisconnect, released>>
        /\ workerQ # <<>> /\ wpc = "decide" /\ wpc' = "probe" /\ workerQ' = Tail(workerQ)
    BY <1>4 DEF WorkerUnreachable
  <2>2. released \/ ~connectedAt
    BY <2>1, RunningTask
  <2>3. state' = "Error" /\ code' = "unreachable" /\ timers' = timers
    BY <1>4, <2>2 DEF WorkerUnreachable, WantsSession, transition
  <2>4. Progress' = Progress
    <3>1. CASE core = NoInst
      BY <2>1, <3>1, ProgressIs
    <3>2. CASE core # NoInst
      <4>1. Len(workerQ') = 1 /\ core' = workerQ'[1]
        BY <1>0, <2>1, <3>2, RunningTask
      <4>3. \E i \in 1..Len(workerQ') : workerQ'[i] = core'
        BY <4>1
      <4>2. Progress' = "probing"
        BY <2>1, <3>2, <4>3 DEF Progress
      <4> QED
        BY <2>1, <3>2, <4>2, ProbingIs
    <3> QED
      BY <3>1, <3>2
  <2>5. /\ ShownStatus' = "Unreachable" /\ RetryPending' = RetryPending
        /\ WorkerOwes = "decide" /\ WorkerOwes' = "idle"
    BY <2>1, <2>3, StatusIs, RetryIs, OwesIs
  <2>6. Contract!Decide
    BY <1>m, <2>1, <2>4, <2>5 DEF Contract!Decide
  <2> QED
    BY <2>6 DEF ContractStep, Contract!ContractNext, Contract!Manager, Contract!Attempt
<1>5. CASE WorkerException
  <2>1. UNCHANGED <<core, connectedAt, timers, userInitiatedDisconnect, released>>
    BY <1>5 DEF WorkerException, flags
  <2>2. workerQ # <<>> /\ wpc = "exception" /\ WorkerOwes = "idle" /\ RetryPending' = RetryPending
    BY <1>5, <2>1, OwesIs, RetryIs DEF WorkerException
  <2>3. CASE core = NoInst
    <3>1. UNCHANGED <<state, code>> /\ wpc' = "probe"
      BY <1>5, <2>2, <2>3, HeadType DEF WorkerException, isCurrent, IInv
    <3>2. ShownStatus' = ShownStatus /\ Progress' = Progress /\ WorkerOwes' = "idle"
      BY <2>1, <2>3, <3>1, StatusIs, ProgressIs, OwesIs
    <3> QED
      BY <1>m, <2>1, <2>2, <3>2 DEF ContractStep, shown
  <2>4. CASE core # NoInst
    <3>1. core = Head(workerQ)
      BY <1>0, <2>2, <2>4, RunningTask
    <3>2. state' = "Error" /\ code' = "connect_exception" /\ wpc' = "freeFailed" /\ workerQ' = workerQ
      BY <1>5, <3>1 DEF WorkerException, isCurrent, transition
    <3>3. /\ ShownStatus' = "Failed" /\ Progress' = Progress /\ Progress = "probing"
          /\ WorkerOwes' = "free"
      BY <2>1, <2>2, <2>4, <3>2, StatusIs, ProgressIs, ProbingIs, OwesIs
    <3>4. Contract!StartFails
      BY <1>m, <2>1, <2>2, <3>3 DEF Contract!StartFails
    <3> QED
      BY <3>4 DEF ContractStep, Contract!ContractNext, Contract!Manager, Contract!Attempt
  <2> QED
    BY <2>3, <2>4
<1>6. CASE WorkerFreesFailed
  <2>1. UNCHANGED <<state, code, timers, userInitiatedDisconnect, released>>
    BY <1>6 DEF WorkerFreesFailed, flags
  <2>2. workerQ # <<>> /\ wpc = "freeFailed" /\ wpc' = "probe"
    BY <1>6 DEF WorkerFreesFailed
  <2>3. core' = NoInst
    <3>1. core = NoInst \/ core = Head(workerQ)
      BY <1>0, <2>2, RunningTask
    <3> QED
      BY <1>6, <3>1 DEF WorkerFreesFailed, cleanupTerminalSession, isCurrent
  <2>4. /\ ShownStatus' = ShownStatus /\ RetryPending' = RetryPending
        /\ WorkerOwes = "free" /\ WorkerOwes' = "idle" /\ Progress' = "none"
    BY <2>1, <2>2, <2>3, StatusIs, RetryIs, OwesIs, ProgressIs
  <2>5. Contract!FreeFailed
    BY <1>m, <2>1, <2>4 DEF Contract!FreeFailed
  <2> QED
    BY <2>5 DEF ContractStep, Contract!ContractNext, Contract!Manager, Contract!Attempt
<1>7. CASE WorkerTakesLock
  <2>1. UNCHANGED <<state, code, core, connectedAt, timers, userInitiatedDisconnect, released>>
    BY <1>7 DEF WorkerTakesLock, flags
  <2>2. workerQ # <<>> /\ wpc = "start" /\ wpc' \in {"probe", "starting"}
    BY <1>7 DEF WorkerTakesLock
  <2>3. core = NoInst \/ workerQ' = workerQ
    BY <1>0, <1>7, <2>2, RunningTask DEF WorkerTakesLock, isCurrent
  <2>4. Progress' = Progress /\ WorkerOwes = "idle" /\ WorkerOwes' = "idle"
    BY <2>1, <2>2, <2>3, ProgressIs, OwesIs
  <2>5. ShownStatus' = ShownStatus /\ RetryPending' = RetryPending
    BY <2>1, StatusIs, RetryIs
  <2> QED
    BY <1>m, <2>1, <2>4, <2>5 DEF ContractStep, shown
<1> QED
  BY <1>1, <1>2, <1>3, <1>4, <1>5, <1>6, <1>7 DEF Worker

\* A terminal callback ends the instance; only a session the user did not stop is
\* tried again.
LEMMA EndKeeps ==
    ASSUME IInv, AttemptInv, mainQ # <<>>, isCurrent(Head(mainQ).inst), core' = NoInst,
           main = MainIdle, UNCHANGED <<userInitiatedDisconnect, released, workerQ, wpc, main>>,
           \/ UNCHANGED timers /\ ShownStatus' \in {"Disconnected", "Failed"}
           \/ /\ timers' = timers \cup {Retry(Head(mainQ).inst)} /\ ShownStatus' = "Connecting"
              /\ ~userInitiatedDisconnect
    PROVE  ContractStep
<1>1. core # NoInst /\ workerQ = <<>>
  BY RunningCallback
<1>2. Progress \in {"started", "up"} /\ Progress' = "none" /\ WorkerOwes' = WorkerOwes
  BY <1>1, ProgressIs, OwesIs
<1>3. \/ RetryPending' = RetryPending /\ ShownStatus' \in {"Disconnected", "Failed"}
      \/ RetryPending' = TRUE /\ ShownStatus' = "Connecting" /\ ~userInitiatedDisconnect
  <2>1. CASE UNCHANGED timers /\ ShownStatus' \in {"Disconnected", "Failed"}
    BY <2>1, RetryIs
  <2>2. CASE /\ timers' = timers \cup {Retry(Head(mainQ).inst)} /\ ShownStatus' = "Connecting"
             /\ ~userInitiatedDisconnect
    <3>1. Retry(Head(mainQ).inst).kind = "retry"
      BY DEF Retry
    <3>2. RetryPending' = TRUE
      BY <2>2, <3>1, RetryIs
    <3> QED
      BY <2>2, <3>2
  <2> QED
    BY <2>1, <2>2
<1>4. Contract!End
  BY <1>2, <1>3, DueIs DEF Contract!End
<1> QED
  BY <1>4 DEF ContractStep, Contract!ContractNext, Contract!Manager

\* The callbacks.  A success is the first of its instance.
LEMMA CallbacksKeep == ASSUME IInv, AttemptInv, Callbacks PROVE ContractStep
<1>m. main = MainIdle /\ UNCHANGED main /\ HandlerDue = "none" /\ HandlerDue' = "none"
  BY DueIs DEF Callbacks
<1>1. CASE StaleCallback
  BY <1>1, <1>m, Unseen DEF StaleCallback, mgrVars, ContractStep
<1>2. ASSUME NEW b \in BOOLEAN, onConnectionSuccess(b) PROVE ContractStep
  <2>1. /\ mainQ # <<>> /\ Head(mainQ).kind = "success" /\ isCurrent(Head(mainQ).inst)
        /\ UNCHANGED <<core, timers, released, workerQ, wpc>>
        /\ state' = "Connected"
    BY <1>2 DEF onConnectionSuccess, CallbackFor, transition
  <2>2. connectedAt' /\ userInitiatedDisconnect' = FALSE
    BY <1>2 DEF onConnectionSuccess
  <2>3. core # NoInst /\ workerQ = <<>> /\ ~connectedAt
    BY <2>1, RunningCallback DEF Terminal
  <2>4. /\ Progress = "started" /\ Progress' = "up" /\ ShownStatus' = "Connected"
        /\ RetryPending' = RetryPending /\ WorkerOwes' = WorkerOwes
    BY <2>1, <2>2, <2>3, ProgressIs, StatusIs, RetryIs, OwesIs
  <2>5. Contract!Up
    BY <1>m, <2>1, <2>2, <2>4 DEF Contract!Up
  <2> QED
    BY <2>5 DEF ContractStep, Contract!ContractNext, Contract!Manager
<1>3. ASSUME NEW b \in BOOLEAN, onConnectionFailure(b) PROVE ContractStep
  <2>1. /\ mainQ # <<>> /\ isCurrent(Head(mainQ).inst) /\ core' = NoInst
        /\ UNCHANGED <<userInitiatedDisconnect, released, workerQ, wpc>>
    BY <1>3 DEF onConnectionFailure, CallbackFor, cleanupTerminalSession
  <2>2. \/ UNCHANGED timers /\ state' = "Error" /\ code' = "connect_failed"
        \/ /\ timers' = timers \cup {Retry(Head(mainQ).inst)} /\ state' = "Connecting"
           /\ ~userInitiatedDisconnect
    BY <1>3 DEF onConnectionFailure, transition, WantsSession
  <2> QED
    BY <1>m, <2>1, <2>2, StatusIs, EndKeeps
<1>4. ASSUME NEW b \in BOOLEAN, onDisconnected(b) PROVE ContractStep
  <2>1. /\ mainQ # <<>> /\ isCurrent(Head(mainQ).inst) /\ core' = NoInst
        /\ UNCHANGED <<userInitiatedDisconnect, released, workerQ, wpc>>
    BY <1>4 DEF onDisconnected, CallbackFor, cleanupTerminalSession
  <2>2. \/ UNCHANGED timers /\ state' = "Disconnected"
        \/ /\ timers' = timers \cup {Retry(Head(mainQ).inst)} /\ state' = "Connecting"
           /\ ~userInitiatedDisconnect
    BY <1>4 DEF onDisconnected, transition, WantsSession
  <2> QED
    BY <1>m, <2>1, <2>2, StatusIs, EndKeeps
<1> QED
  BY <1>1, <1>2, <1>3, <1>4 DEF Callbacks

\* The native threads show nothing but the prompt, and only the current one does,
\* before its session has got through.
LEMMA NativeKeeps == ASSUME IInv, AttemptInv, NEW a \in Addr, Native(a) PROVE ContractStep
<1>m. UNCHANGED main /\ HandlerDue' = HandlerDue
  BY DueIs DEF Native
<1>1. CASE UNCHANGED mgrVars
  BY <1>1, <1>m, Unseen DEF mgrVars, ContractStep
<1>2. CASE AuthPrompts(a)
  <2>1. /\ thread[a] = "checked" /\ state' = "Authenticating"
        /\ UNCHANGED <<core, workerQ, wpc, connectedAt, timers, userInitiatedDisconnect, released>>
    BY <1>2 DEF AuthPrompts, transition, flags
  <2>2. Progress = "started" \/ released
    <3> SUFFICES ASSUME ~released PROVE Progress = "started"
      OBVIOUS
    <3>1. core = a /\ core # NoInst
      BY <2>1 DEF AttemptInv, NothingStale
    <3>2. workerQ = <<>>
      BY <2>1, <3>1 DEF AttemptInv, TaskIsCurrent
    <3>3. ~connectedAt
      BY <2>1, <3>1, <3>2 DEF AttemptInv, CallbacksFollow
    <3> QED
      BY <3>1, <3>2, <3>3, ProgressIs
  <2>3. /\ ShownStatus' = "Authenticating" /\ Progress' = Progress
        /\ RetryPending' = RetryPending /\ WorkerOwes' = WorkerOwes
    BY <2>1, StatusIs, ProgressIs, RetryIs, OwesIs
  <2>4. Contract!Ask
    BY <1>m, <2>1, <2>2, <2>3 DEF Contract!Ask
  <2> QED
    BY <2>4 DEF ContractStep, Contract!ContractNext, Contract!Manager
<1> QED
  BY <1>1, <1>2 DEF Native, AuthChecks, PromptEnds

\* The manager keeps its contract with the screen: connect() is honoured whenever
\* no instance is held, a session the user stopped is never retried, an attempt
\* that failed the probe is always reported, and no thread shows a status out of
\* turn but in the ways SessionContract lists.
THEOREM ContractKept == Spec => KeepsContract
<1>1. Init => Contract!ContractInit
  <2> SUFFICES ASSUME Init PROVE Contract!ContractInit
    OBVIOUS
  <2>1. state = "Idle" /\ core = NoInst /\ workerQ = <<>> /\ timers = {}
    BY DEF Init
  <2>2. ShownStatus = "Idle" /\ Progress = "none" /\ WorkerOwes = "idle"
    BY <2>1, StatusIs, ProgressIs, OwesIs
  <2>3. RetryPending = FALSE
    BY <2>1 DEF RetryPending
  <2>4. userInitiatedDisconnect = FALSE /\ released = FALSE
    BY DEF Init
  <2>5. HandlerDue = "none"
    BY DueIs DEF Init
  <2> QED
    BY <2>2, <2>3, <2>4, <2>5 DEF Contract!ContractInit
<1>2. IInv /\ AttemptInv /\ WatchInv /\ [Next]_vars => [Contract!ContractNext]_(Contract!contractVars)
  <2> SUFFICES ASSUME IInv, AttemptInv, WatchInv, [Next]_vars PROVE ContractStep
    BY DEF ContractStep, shown, Contract!contractVars
  <2>1. CASE ReleaseThread
    BY <2>1, Unseen DEF ReleaseThread, ReleaseThreadBegins, ReleaseThreadEnds, flags, ContractStep
  <2>2. CASE UNCHANGED vars
    BY <2>2, Unseen DEF vars, mgrVars, ContractStep
  <2>3. CASE ScreenOffDisconnect /\ UNCHANGED main
    BY <2>3, Unseen DEF ScreenOffDisconnect, flags, ContractStep
  <2> QED
    BY <2>1, <2>2, <2>3, UIKeeps, HandlerKeeps, WorkerKeeps, CallbacksKeep, TimersKeep, NativeKeeps
    DEF Next, Main
<1> QED
  BY <1>1, <1>2, Inductive, AttemptCourse, WatchdogStopped, PTL
  DEF Spec, KeepsContract, Contract!ContractSpec
=============================================================================
