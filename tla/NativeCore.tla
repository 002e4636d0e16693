----------------------------- MODULE NativeCore -----------------------------
(***************************************************************************)
(* The native side of a session as the Kotlin and Java code sees it: the   *)
(* registries of GlobalApp (sessionMap, sessionListeners), the             *)
(* mInstanceState table of LibFreeRDP, and, per native instance, the       *)
(* thread that android_freerdp.c runs for it.                              *)
(*                                                                         *)
(* An instance is named by the address freerdp_new returned.  An address   *)
(* that was freed may be returned again for a later session, exactly as an *)
(* allocator may do, so nothing here may rely on addresses being fresh.    *)
(*                                                                         *)
(* Network, server and codec work of the vendored libfreerdp is            *)
(* nondeterminism: a connection attempt may succeed, fail or hang, and an  *)
(* established session may end at any time.                                *)
(***************************************************************************)
EXTENDS Naturals, Sequences, FiniteSets

CONSTANTS Addr,      \* addresses the allocator can hand out for an instance
          NoInst     \* "no instance": the 0L / null of the source

ASSUME AddrAssumption == NoInst \notin Addr

VARIABLES
    alloc,       \* addresses that are allocated (freerdp_new, not yet freerdp_free)
    sessionMap,  \* GlobalApp.sessionMap: instances a SessionState is stored for
    listeners,   \* GlobalApp.sessionListeners: instances with a registered listener
    active,      \* LibFreeRDP.mInstanceState: instances whose entry is true
    thread,      \* where the native thread of each instance is
    abort,       \* instances whose abort event is set (freerdp_abort_connect_context)
    orphans,     \* history: instances freeInstance gave up waiting for
    mainQ        \* connection callbacks posted to the main looper, in order

nativeVars == <<alloc, sessionMap, listeners, active, thread, abort, orphans, mainQ>>

\* none: no thread uses the instance.  spawned: CreateThread returned.
\* connecting/authed: inside freerdp_connect, before/after a credential prompt.
\* checked/prompt: inside OnAuthenticate.  succeeded: OnConnectionSuccess has
\* been dispatched.  running: android_freerdp_run.  posted: the terminal
\* callback has been dispatched, mInstanceState is not updated yet.
ThreadState == {"none", "spawned", "connecting", "checked", "prompt", "authed",
                "succeeded", "running", "posted"}

Terminal == {"failure", "disconnected"}
Callback == [kind : Terminal \cup {"success"}, inst : Addr]

NativeTypeOK ==
    /\ alloc \subseteq Addr
    /\ sessionMap \subseteq Addr
    /\ listeners \subseteq Addr
    /\ active \subseteq Addr
    /\ thread \in [Addr -> ThreadState]
    /\ abort \subseteq Addr
    /\ orphans \subseteq Addr
    /\ mainQ \in Seq(Callback)

NativeInit ==
    /\ alloc = {}
    /\ sessionMap = {}
    /\ listeners = {}
    /\ active = {}
    /\ thread = [a \in Addr |-> "none"]
    /\ abort = {}
    /\ orphans = {}
    /\ mainQ = <<>>

-----------------------------------------------------------------------------
(* GlobalApp and LibFreeRDP calls, as updates a caller's action makes.     *)

\* A plausible bug: the listener map is asked too late, or under another key.
Dispatch_Lost(kind, a) == UNCHANGED mainQ

\* GlobalApp.dispatch: the listener is looked up now, its method runs later.
Dispatch(kind, a) ==
    mainQ' = IF a \in listeners
             THEN Append(mainQ, [kind |-> kind, inst |-> a])
             ELSE mainQ

\* createSession + registerSessionListener for a fresh instance at address a.
CreateSession(a) ==
    /\ a \notin alloc
    /\ alloc' = alloc \cup {a}
    /\ sessionMap' = sessionMap \cup {a}
    /\ listeners' = listeners \cup {a}
    /\ abort' = abort \ {a}
    /\ UNCHANGED <<active, thread, orphans, mainQ>>

\* A plausible bug: nothing is put into the table.
markActive_Off(a) == UNCHANGED active

\* mInstanceState.put(inst, true).
markActive(a) == active' = active \cup {a}

\* SessionState.connect -> LibFreeRDP.connect: the mInstanceState entry is made
\* before the native thread is created.
StartThread(a) ==
    /\ markActive(a)
    /\ thread' = [thread EXCEPT ![a] = "spawned"]
    /\ UNCHANGED <<alloc, sessionMap, listeners, abort, orphans, mainQ>>

\* freerdp_disconnect as LibFreeRDP calls it, for an active instance only.
AbortIfActive(a) == IF a \in active THEN abort \cup {a} ELSE abort

\* A plausible bug: freeInstance waits for the terminal callback without a limit.
GiveUp_Never(a, told) == FALSE

\* An entry that is still true after 12 waits is deleted; the instance is kept.
GiveUp(a, told) ==
    /\ a \in active
    /\ active' = active \ {a}
    /\ orphans' = orphans \cup {a}
    /\ abort' = told
    /\ UNCHANGED alloc

\* How freeInstance ends; told is the set of aborted instances its own
\* freerdp_disconnect left.  An entry that is cleared, at once or during the
\* wait (the first disjunct becomes enabled when the native thread clears it),
\* lets the instance be freed.
FreeOutcome(a, told) ==
    \/ /\ a \notin active
       /\ alloc' = alloc \ {a}
       /\ abort' = told \ {a}
       /\ UNCHANGED <<active, orphans>>
    \/ GiveUp(a, told)

-----------------------------------------------------------------------------
(* The native thread of instance a: android_thread_func.                   *)

\* freerdp_connect_begin clears the abort event: a disconnect or cancel that
\* reached the instance before this point is forgotten.
ConnectBegin(a) ==
    /\ thread[a] = "spawned"
    /\ thread' = [thread EXCEPT ![a] = "connecting"]
    /\ abort' = abort \ {a}
    /\ UNCHANGED <<alloc, sessionMap, listeners, active, orphans, mainQ>>

\* freerdp_reconnect clears it too: freerdp_connect tries a second time when the
\* transport failed, and the loop of a running session reconnects by itself.
Reconnects(a) ==
    /\ thread[a] \in {"connecting", "authed", "running"}
    /\ abort' = abort \ {a}
    /\ UNCHANGED <<alloc, sessionMap, listeners, active, thread, orphans, mainQ>>

\* android_post_connect: OnConnectionSuccess dispatches, then marks the entry.
ConnectSucceeds(a) ==
    /\ thread[a] \in {"connecting", "authed"}
    /\ thread' = [thread EXCEPT ![a] = "succeeded"]
    /\ Dispatch("success", a)
    /\ UNCHANGED <<alloc, sessionMap, listeners, active, abort, orphans>>

MarkConnected(a) ==
    /\ thread[a] = "succeeded"
    /\ thread' = [thread EXCEPT ![a] = "running"]
    /\ markActive(a)
    /\ UNCHANGED <<alloc, sessionMap, listeners, abort, orphans, mainQ>>

\* The thread function reaches its end and makes its one terminal callback.
\* Which one depends on the exit status: the last wait index of
\* android_freerdp_run or GetLastError, so after the handshake began either
\* kind may come.  A freerdp_client_start that fails is always a failure.
ThreadEnds(a, kind) ==
    /\ \/ thread[a] \in {"connecting", "authed", "running"}
       \/ thread[a] = "spawned" /\ kind = "failure"
    /\ thread' = [thread EXCEPT ![a] = "posted"]
    /\ Dispatch(kind, a)
    /\ UNCHANGED <<alloc, sessionMap, listeners, active, abort, orphans>>

\* The second half of LibFreeRDP.OnConnectionFailure / OnDisconnected: the
\* entry is removed and waiters are woken.  The thread uses the instance no more.
ClearEntry(a) ==
    /\ thread[a] = "posted"
    /\ thread' = [thread EXCEPT ![a] = "none"]
    /\ active' = active \ {a}
    /\ UNCHANGED <<alloc, sessionMap, listeners, abort, orphans, mainQ>>

=============================================================================
