--------------------------- MODULE SessionContract ---------------------------
(***************************************************************************)
(* What SessionManager promises the session screen: the status the screen  *)
(* shows, how far the current instance is (connect() is ignored or         *)
(* deferred while there is one), whether a delayed retry is pending, and   *)
(* what the user has asked for.  How threads, callbacks, tokens and the    *)
(* worker bring that about is the business of SessionManager, which        *)
(* implements this module; SessionScreen is built on top of it.            *)
(***************************************************************************)

VARIABLES
    status,   \* the SessionState the screen shows; Error in the two classes
              \* the screen tells apart: Unreachable (no answer) and Failed
    inst,     \* the current instance: none, with the worker, its thread started,
              \* or it got through
    retry,    \* a delayed connect() of the manager is pending
    stop,     \* userInitiatedDisconnect
    gone,     \* released
    worker,   \* what the worker still owes after a failed attempt
    call      \* the status a handler on main is about to show, for an instance it
              \* has looked at before; Refused while disconnect() may still fail

contractVars == <<status, inst, retry, stop, gone, worker, call>>

Busy == {"Connecting", "Authenticating"}
Status == Busy \cup {"Idle", "Connected", "Disconnecting", "Disconnected",
                     "Unreachable", "Failed"}

ContractTypeOK ==
    /\ status \in Status
    /\ inst \in {"none", "probing", "started", "up"}
    /\ retry \in BOOLEAN
    /\ stop \in BOOLEAN
    /\ gone \in BOOLEAN
    /\ worker \in {"idle", "decide", "free"}
    /\ call \in {"none", "Disconnecting", "Refused", "Unreachable", "Failed"}

ContractInit ==
    /\ status = "Idle"
    /\ inst = "none"
    /\ retry = FALSE /\ stop = FALSE /\ gone = FALSE
    /\ worker = "idle"
    /\ call = "none"

-----------------------------------------------------------------------------
(* Calls of the screen.  Main runs one handler at a time.                  *)

\* The calls of connect() that are not ignored or deferred.
MayConnect == ~gone /\ inst = "none" /\ status \notin {"Connected", "Authenticating"}

Connect ==
    /\ call = "none"
    /\ MayConnect
    /\ status' = "Connecting"
    /\ inst' = "probing"
    /\ UNCHANGED <<stop, gone, worker, call>>

UserConnect == Connect /\ UNCHANGED retry

Cancel ==
    /\ call = "none"
    /\ stop' = TRUE
    /\ UNCHANGED <<status, inst, retry, gone, worker, call>>

\* Disconnecting is shown later, even if the worker has freed the instance and
\* reported an error by then.
Disconnect ==
    /\ call = "none"
    /\ stop' = TRUE
    /\ call' = IF inst # "none" THEN "Disconnecting" ELSE "none"
    /\ UNCHANGED <<status, inst, retry, gone, worker>>

Release ==
    /\ call = "none"
    /\ ~gone
    /\ gone' = TRUE
    /\ inst' = "none"
    /\ status' = IF status \in Busy \cup {"Connected", "Disconnecting"} THEN "Idle" ELSE status
    /\ UNCHANGED <<retry, stop, worker, call>>

\* The handler shows what it has decided to show.
Shows ==
    /\ call \in {"Disconnecting", "Unreachable", "Failed"}
    /\ status' = call
    /\ call' = IF call = "Disconnecting" THEN "Refused" ELSE "none"
    /\ UNCHANGED <<inst, retry, stop, gone, worker>>

\* A disconnect that the native side refuses is reported as an error.
Told ==
    /\ call = "Refused"
    /\ call' = "none"
    /\ \/ UNCHANGED status
       \/ inst # "none" /\ status' = "Failed"
    /\ UNCHANGED <<inst, retry, stop, gone, worker>>

-----------------------------------------------------------------------------
(* Steps of the manager.                                                   *)

\* The worker frees an instance whose host does not answer, and says so later:
\* by then another attempt may be under way.
ProbeFails ==
    /\ worker = "idle"
    /\ inst = "probing" \/ gone
    /\ worker' = "decide"
    /\ inst' = "none"
    /\ UNCHANGED <<status, retry, stop, gone, call>>

Decide ==
    /\ worker = "decide"
    /\ worker' = "idle"
    /\ status' = "Unreachable"
    /\ UNCHANGED <<inst, retry, stop, gone, call>>

Starts ==
    /\ worker = "idle"
    /\ inst = "probing"
    /\ inst' = "started"
    /\ UNCHANGED <<status, retry, stop, gone, worker, call>>

\* A start that throws is reported first, its instance freed later.
StartFails ==
    /\ worker = "idle"
    /\ inst = "probing"
    /\ worker' = "free"
    /\ status' = "Failed"
    /\ UNCHANGED <<inst, retry, stop, gone, call>>

FreeFailed ==
    /\ worker = "free"
    /\ worker' = "idle"
    /\ inst' = "none"
    /\ UNCHANGED <<status, retry, stop, gone, call>>

\* A session gets through, also one that was reported as failed before.
Up ==
    /\ call = "none"
    /\ inst = "started"
    /\ inst' = "up"
    /\ status' = "Connected"
    /\ stop' = FALSE
    /\ UNCHANGED <<retry, gone, worker, call>>

\* The terminal callback frees the instance.  A session nobody asked to stop
\* may be tried again; one the user stopped never is.
End ==
    /\ call = "none"
    /\ inst \in {"started", "up"}
    /\ inst' = "none"
    /\ \/ status' \in {"Disconnected", "Failed"} /\ UNCHANGED retry
       \/ status' = "Connecting" /\ retry' = TRUE /\ ~stop
    /\ UNCHANGED <<stop, gone, worker, call>>

\* The prompt of a session under way, or of one that was just released.
Ask ==
    /\ inst = "started" \/ gone
    /\ status' = "Authenticating"
    /\ UNCHANGED <<inst, retry, stop, gone, worker, call>>

\* The watchdog goes off; the instance is kept until its terminal callback.
TimesOut ==
    /\ call = "none"
    /\ inst \in {"probing", "started"} /\ status \in Busy
    /\ call' = "Unreachable"
    /\ UNCHANGED <<status, inst, retry, stop, gone, worker>>

\* The fallbacks of cancelConnection and disconnect.
Unconfirmed ==
    /\ call = "none"
    /\ inst # "none" /\ status \in Busy \cup {"Disconnecting"}
    /\ call' = "Failed"
    /\ UNCHANGED <<status, inst, retry, stop, gone, worker>>

\* Several retries may be pending.
RetryFires == retry /\ ~stop /\ Connect /\ retry' \in BOOLEAN

RetryDropped ==
    /\ call = "none"
    /\ retry
    /\ stop \/ ~MayConnect
    /\ retry' = FALSE
    /\ UNCHANGED <<status, inst, stop, gone, worker, call>>

Attempt == ProbeFails \/ Decide \/ Starts \/ StartFails \/ FreeFailed
Retries == RetryFires \/ RetryDropped
Handler == Shows \/ Told
Manager == Attempt \/ Up \/ End \/ Ask \/ TimesOut \/ Unconfirmed \/ Handler \/ Retries

ContractNext == UserConnect \/ Cancel \/ Disconnect \/ Release \/ Manager

ContractSpec == ContractInit /\ [][ContractNext]_contractVars
=============================================================================
