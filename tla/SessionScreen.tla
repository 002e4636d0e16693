---------------------------- MODULE SessionScreen ----------------------------
(***************************************************************************)
(* The session screen (XyDeskSession.kt) as a client of SessionManager:    *)
(* the effects that reconnect a lost session, apply changed settings by    *)
(* reconnecting, and look for a black screen, together with the buttons    *)
(* and the activity's lifecycle.                                           *)
(*                                                                         *)
(* A LaunchedEffect is a coroutine that is cancelled and launched again    *)
(* when a composition finds one of its keys changed.  A composition        *)
(* compares with the keys of the previous composition, so values between   *)
(* two compositions are never seen; in the background there is none.       *)
(* Everything here runs on main, never in the middle of a handler of the   *)
(* manager.  The delays of the coroutines are far longer than a frame, so  *)
(* in the foreground they resume with the current keys composed.           *)
(***************************************************************************)
EXTENDS SessionContract, Naturals

CONSTANT StreakLimit    \* frameless samples until the screen counts as black

ASSUME StreakAssumption == StreakLimit \in Nat \ {0}

VARIABLES
    auto,            \* prefs.autoReconnect
    fore,            \* compositions run (between ON_START and ON_STOP)
    composed,        \* the keys of the last composition
    leaving,         \* finish() was called
    everConnected,
    reconnecting,
    deadline,        \* reconnectDeadlineAt: 0, in the future or passed
    userDisconnect,
    applyingResolution,
    rc,              \* the reconnect effect: in its delay, waiting, or not running
    apply,           \* the apply effect polls for the end of the instance
    resize,          \* a resize request waits for the server's confirmation
    fps,             \* telemetry.fps of the last composition is positive
    since,           \* connectedSinceMs: 0, at most 6 s or more than 6 s ago
    everRenderedFrame,
    zeroFrameStreak,
    blackScreenReconnects

blackVars == <<fps, since, everRenderedFrame, zeroFrameStreak, blackScreenReconnects>>
screenVars == <<auto, fore, composed, leaving, everConnected, reconnecting, deadline,
                userDisconnect, applyingResolution, rc, apply, resize, blackVars>>
vars == <<contractVars, screenVars>>

Errors == {"Unreachable", "Failed"}

\* What the effects take as keys.
Keys == [state |-> status, ever |-> everConnected, user |-> userDisconnect,
         applying |-> applyingResolution]

\* The values of the remembered state and of the effects.  An attempt of the
\* reconnect effect is made within a window that has been opened.
TypeOK ==
    /\ ContractTypeOK
    /\ composed \in [state : Status, ever : BOOLEAN, user : BOOLEAN, applying : BOOLEAN]
    /\ {auto, fore, leaving, everConnected, reconnecting, userDisconnect, applyingResolution,
        apply, resize, fps, everRenderedFrame} \subseteq BOOLEAN
    /\ deadline \in {"unset", "open", "over"}
    /\ rc \in {"none", "delay", "wait"}
    /\ rc # "none" => deadline # "unset"
    /\ since \in {"zero", "recent", "long"}
    /\ zeroFrameStreak \in Nat
    /\ blackScreenReconnects \in 0..1

Init ==
    /\ ContractInit
    /\ auto \in BOOLEAN
    /\ fore = TRUE
    /\ everConnected = FALSE /\ userDisconnect = FALSE /\ applyingResolution = FALSE
    /\ composed = Keys
    /\ leaving = FALSE /\ reconnecting = FALSE /\ apply = FALSE /\ resize = FALSE
    /\ deadline = "unset"
    /\ rc = "none"
    /\ fps = FALSE /\ everRenderedFrame = FALSE
    /\ since = "zero"
    /\ zeroFrameStreak = 0 /\ blackScreenReconnects = 0

-----------------------------------------------------------------------------
(* The effects.                                                            *)

\* The screen exists, and main is not in a handler of the manager.
OnMain == ~gone /\ call = "none"

\* A plausible bug: only errors are retried.
Retryable_Errors(s) == s = "Unreachable"

\* A plausible bug: every error is retried.
Retryable_AnyError(s) == s \in {"Disconnected", "Unreachable", "Failed"}

\* Error codes of authentication and certificates are not retried.
Retryable(s) == s \in {"Disconnected", "Unreachable"}

\* A plausible bug: a change of settings does not end the reconnect effect.
MayReconnect_Applying == everConnected /\ ~userDisconnect /\ auto

MayReconnect == everConnected /\ ~userDisconnect /\ ~applyingResolution /\ auto

\* A plausible bug: the window is opened by the attempt that follows the first.
Window_Late(tries) == IF tries /\ reconnecting /\ deadline = "unset" THEN "open" ELSE deadline

\* The first attempt after a loss opens the window.
Window(tries) == IF tries /\ deadline = "unset" THEN "open" ELSE deadline

\* The reconnect effect from its launch to its delay.
ReconnectEffect ==
    LET tries == MayReconnect /\ Retryable(status)
    IN  /\ deadline' = Window(tries)
        /\ rc' = IF tries /\ deadline # "over" THEN "delay" ELSE "none"
        /\ reconnecting' = IF tries THEN deadline # "over"
                           ELSE /\ reconnecting
                                /\ ~userDisconnect /\ ~applyingResolution /\ auto
                                /\ everConnected => status # "Failed"

\* The effect of a composition that finds Connected, and the reconnect effect,
\* which does nothing then.
ConnectedEffect ==
    /\ everConnected' = TRUE
    /\ reconnecting' = FALSE
    /\ deadline' = "unset"
    /\ rc' = "none"

\* The black screen effect, launched with a frame (fps > 0 or a bitmap) or
\* without one.  Its disconnect() is followed, if nothing cancels the effect
\* meanwhile, by a delayed connect(), and a second one by a last-resort screen;
\* both are left out, because the effect never gets that far (BlackInvariant).
BlackScreenEffect(frame) ==
    LET counts == ~everRenderedFrame /\ ~frame /\ since = "long"
        black  == counts /\ zeroFrameStreak + 1 >= StreakLimit /\ ~userDisconnect
    IN  IF status = "Connected"
        THEN /\ since' = IF since = "zero" THEN "recent" ELSE since
             /\ everRenderedFrame' = (everRenderedFrame \/ frame)
             /\ zeroFrameStreak' = CASE frame -> 0
                                     [] counts -> zeroFrameStreak + 1
                                     [] OTHER -> zeroFrameStreak
             /\ IF black /\ blackScreenReconnects < 1
                THEN blackScreenReconnects' = 1 /\ Disconnect
                ELSE UNCHANGED <<blackScreenReconnects, contractVars>>
        ELSE /\ since' = "zero"
             /\ everRenderedFrame' = FALSE
             /\ zeroFrameStreak' = 0
             /\ UNCHANGED <<blackScreenReconnects, contractVars>>

\* A composition that finds other keys: every effect with a changed key is
\* cancelled and launched again.
Recompose ==
    /\ fore /\ OnMain
    /\ composed # Keys
    /\ composed' = Keys
    /\ IF status = "Connected" /\ composed.state # status
       THEN ConnectedEffect
       ELSE ReconnectEffect /\ UNCHANGED everConnected
    /\ apply' = IF composed.state # status \/ composed.applying # applyingResolution
                THEN applyingResolution /\ status \in Errors \cup {"Disconnected"}
                ELSE apply
    /\ IF composed.state # status
       THEN \E bitmap \in BOOLEAN : BlackScreenEffect(fps \/ bitmap)
       ELSE UNCHANGED <<since, everRenderedFrame, zeroFrameStreak, blackScreenReconnects,
                        contractVars>>
    /\ UNCHANGED <<auto, fore, leaving, userDisconnect, applyingResolution, resize, fps>>

\* A telemetry sample, composed: the black screen effect, whose key is
\* telemetry.fps, is launched again by another frame rate only.
Sample(f) ==
    /\ fore /\ OnMain /\ composed = Keys
    /\ fps # f
    /\ fps' = f
    /\ \E bitmap \in BOOLEAN : BlackScreenEffect(f \/ bitmap)
    /\ UNCHANGED <<auto, fore, composed, leaving, everConnected, reconnecting, deadline,
                   userDisconnect, applyingResolution, rc, apply, resize>>

\* In the foreground a delayed coroutine resumes after the pending composition.
Settled == ~fore \/ composed = Keys

\* What the reconnect effect asks again after each of its delays.
StillWanted == ~userDisconnect /\ ~applyingResolution /\ reconnecting

ReconnectWakes ==
    /\ Settled /\ OnMain
    /\ rc = "delay"
    /\ rc' = IF StillWanted THEN "wait" ELSE "none"
    /\ UNCHANGED <<contractVars, auto, fore, composed, leaving, everConnected, reconnecting,
                   deadline, userDisconnect, applyingResolution, apply, resize, blackVars>>

\* A plausible bug: the effect does not wait for the end of the old instance.
NativeReleased_Unasked == TRUE

NativeReleased == inst = "none"

\* manager.connect() of an effect, which the manager may ignore.
CallConnect == IF MayConnect THEN UserConnect ELSE UNCHANGED contractVars

ReconnectConnects ==
    /\ Settled /\ OnMain
    /\ rc = "wait"
    /\ NativeReleased
    /\ rc' = "none"
    /\ IF StillWanted THEN CallConnect ELSE UNCHANGED contractVars
    /\ UNCHANGED <<auto, fore, composed, leaving, everConnected, reconnecting, deadline,
                   userDisconnect, applyingResolution, apply, resize, blackVars>>

\* Twenty ticks, or a reason to stop waiting: the button is left to the user.
ReconnectGivesUp ==
    /\ Settled /\ OnMain
    /\ rc = "wait"
    /\ ~NativeReleased
    /\ rc' = "none"
    /\ reconnecting' = FALSE
    /\ UNCHANGED <<contractVars, auto, fore, composed, leaving, everConnected, deadline,
                   userDisconnect, applyingResolution, apply, resize, blackVars>>

\* The apply effect asks nothing but the end of the instance.
ApplyConnects ==
    /\ Settled /\ OnMain
    /\ apply
    /\ NativeReleased
    /\ apply' = FALSE
    /\ applyingResolution' = FALSE
    /\ CallConnect
    /\ UNCHANGED <<auto, fore, composed, leaving, everConnected, reconnecting, deadline,
                   userDisconnect, rc, resize, blackVars>>

Effects == ReconnectWakes \/ ReconnectConnects \/ ReconnectGivesUp \/ ApplyConnects

-----------------------------------------------------------------------------
(* The user, and the activity.                                             *)

Touchable == fore /\ OnMain /\ ~leaving

\* The activity connects when it opens.
Open ==
    /\ Touchable /\ status = "Idle"
    /\ UserConnect
    /\ UNCHANGED screenVars

\* The buttons of the disconnected screen and of the error dialog; only the one
\* shown for Disconnected starts a new window.
Offered ==
    /\ composed.state \in Errors \cup {"Disconnected"}
    /\ ~applyingResolution /\ ~reconnecting
    /\ composed.state = "Disconnected" => ~userDisconnect

TapReconnect ==
    /\ Touchable /\ Offered
    /\ deadline' = IF composed.state = "Disconnected" THEN "unset" ELSE deadline
    /\ CallConnect
    /\ UNCHANGED <<auto, fore, composed, leaving, everConnected, reconnecting, userDisconnect,
                   applyingResolution, rc, apply, resize, blackVars>>

\* Another user, console mode or the microphone channel: reconnect to apply it.
TapApply ==
    /\ Touchable /\ composed.state = "Connected"
    /\ applyingResolution' = TRUE
    /\ Disconnect
    /\ UNCHANGED <<auto, fore, composed, leaving, everConnected, reconnecting, deadline,
                   userDisconnect, rc, apply, resize, blackVars>>

TapResize ==
    /\ Touchable /\ composed.state = "Connected"
    /\ ~resize
    /\ resize' = TRUE
    /\ UNCHANGED <<contractVars, auto, fore, composed, leaving, everConnected, reconnecting,
                   deadline, userDisconnect, applyingResolution, rc, apply, blackVars>>

\* The server confirms the size in time, or the session is reconnected for it,
\* whatever state it is in by then.
ResizeEnds(confirmed) ==
    /\ resize /\ OnMain
    /\ resize' = FALSE
    /\ IF confirmed THEN UNCHANGED <<applyingResolution, contractVars>>
       ELSE applyingResolution' = TRUE /\ Disconnect
    /\ UNCHANGED <<auto, fore, composed, leaving, everConnected, reconnecting, deadline,
                   userDisconnect, rc, apply, blackVars>>

Leave ==
    /\ Touchable
    /\ leaving' = TRUE
    /\ UNCHANGED <<auto, fore, composed, everConnected, deadline, applyingResolution, rc, apply,
                   resize, blackVars>>

\* The dialog may have been opened in an earlier state.
performDisconnect ==
    /\ Leave
    /\ everConnected
    /\ userDisconnect' = TRUE /\ reconnecting' = FALSE
    /\ Disconnect

CancelConnect ==
    /\ Leave
    /\ status # "Idle"
    /\ userDisconnect' = TRUE /\ reconnecting' = FALSE
    /\ Cancel

TapExit ==
    /\ Leave
    /\ Offered
    /\ UNCHANGED <<userDisconnect, reconnecting, contractVars>>

Background ==
    /\ fore /\ OnMain
    /\ fore' = FALSE
    /\ UNCHANGED <<contractVars, auto, composed, leaving, everConnected, reconnecting, deadline,
                   userDisconnect, applyingResolution, rc, apply, resize, blackVars>>

Foreground ==
    /\ ~fore /\ OnMain
    /\ fore' = TRUE
    /\ UNCHANGED <<contractVars, auto, composed, leaving, everConnected, reconnecting, deadline,
                   userDisconnect, applyingResolution, rc, apply, resize, blackVars>>

\* The policy that disconnects a session some time after it left the screen.
bgDisconnect ==
    /\ ~fore /\ OnMain
    /\ status = "Connected"
    /\ Disconnect
    /\ UNCHANGED screenVars

\* The composition is disposed, which cancels its coroutines.
onDestroy ==
    /\ leaving \/ ~fore
    /\ Release
    /\ rc' = "none" /\ apply' = FALSE /\ resize' = FALSE
    /\ UNCHANGED <<auto, fore, composed, leaving, everConnected, reconnecting, deadline,
                   userDisconnect, applyingResolution, blackVars>>

\* Hours pass, or seconds.
DeadlinePasses ==
    /\ deadline = "open" /\ ~gone
    /\ deadline' = "over"
    /\ UNCHANGED <<contractVars, auto, fore, composed, leaving, everConnected, reconnecting,
                   userDisconnect, applyingResolution, rc, apply, resize, blackVars>>

SixSecondsPass ==
    /\ since = "recent" /\ ~gone
    /\ since' = "long"
    /\ UNCHANGED <<contractVars, auto, fore, composed, leaving, everConnected, reconnecting,
                   deadline, userDisconnect, applyingResolution, rc, apply, resize, fps,
                   everRenderedFrame, zeroFrameStreak, blackScreenReconnects>>

User ==
    \/ TapReconnect \/ TapApply \/ TapResize
    \/ performDisconnect \/ CancelConnect \/ TapExit
    \/ Background \/ Foreground

Next ==
    \/ Manager /\ UNCHANGED screenVars
    \/ Recompose
    \/ \E f \in BOOLEAN : Sample(f)
    \/ Effects
    \/ Open
    \/ User
    \/ \E confirmed \in BOOLEAN : ResizeEnds(confirmed)
    \/ bgDisconnect
    \/ onDestroy
    \/ DeadlinePasses
    \/ SixSecondsPass

Spec == Init /\ [][Next]_vars

-----------------------------------------------------------------------------
(* Fairness.  Frames and resumed coroutines run.  Of the manager: a handler *)
(* finishes, the worker goes on, a retry fires, an attempt nobody stopped ends in the    *)
(* watchdog at the latest, and a disconnect in its fallback.  The user     *)
(* owes nothing but to open the session, and a session that is up may      *)
(* stay up.                                                                *)

\* The manager's steps without the screen's.
Alone(A) == A /\ UNCHANGED screenVars

FairSpec ==
    /\ Spec
    /\ SF_vars(Recompose)
    /\ SF_vars(Effects)
    /\ WF_vars(Open)
    /\ WF_vars(Alone(Handler))
    /\ WF_vars(Alone(Attempt))
    /\ WF_vars(Alone(Retries))
    /\ WF_vars(Alone(status = "Connecting" /\ ~stop /\ TimesOut))
    /\ WF_vars(Alone(status = "Disconnecting" /\ (End \/ Unconfirmed)))

-----------------------------------------------------------------------------
(* Properties.                                                             *)

\* "never race a retry against native cleanup": no connect() of an effect is
\* ignored or deferred by the manager, for it would be lost, the effect being
\* over and its keys unchanged.
AutoConnectHonoured ==
    [][(ReconnectConnects /\ StillWanted) \/ ApplyConnects => inst' = "probing"]_vars

\* An authentication or certificate error ends the retries: while the screen is
\* shown, the reconnect effect never starts an attempt from such an error, also
\* not one that came up during its delay or its wait.
AuthStopsRetry == [][fore /\ ReconnectConnects /\ status = "Failed" => inst' = inst]_vars

\* The reconnect effect and the apply effect are never both about to connect.
OneDriver == ~(rc # "none" /\ apply)

\* A session that is lost while its screen is shown is tried again: the loss is
\* composed, and neither an older attempt's deadline nor a second effect keeps
\* the delayed connect() from being made.
LossIsRetried ==
    (auto /\ composed.state = "Connected" /\ status = "Disconnected")
        ~> (\/ inst # "none" \/ status # "Disconnected"
            \/ ~fore \/ leaving \/ applyingResolution)

\* "retry tanpa batas", "termasuk saat app ditinggal di latar": a screen that
\* says it is reconnecting makes a next attempt, or stops saying so.
RetriesGoOn ==
    (reconnecting /\ Retryable(status) /\ inst = "none" /\ deadline = "open" /\ ~stop)
        ~> (inst # "none" \/ ~reconnecting \/ deadline # "open" \/ stop \/ gone)
=============================================================================
