---------------------------- MODULE SessionService ----------------------------
(***************************************************************************)
(* The foreground service that keeps the process alive while sessions run  *)
(* (XySessionService.kt), the registry of the sessions (SessionRegistry.kt)*)
(* and the callers in the session screens and their activities.            *)
(*                                                                         *)
(* All of it runs on the main thread.  What Android's activity manager     *)
(* (external) sends to main, the service's commands as well as the         *)
(* activities' callbacks, arrives in one queue, in the order of the calls  *)
(* that caused it.  A session is an activity and its manager; a profile is *)
(* opened again only after the onDestroy of its last activity.             *)
(***************************************************************************)
EXTENDS Naturals, Sequences, FiniteSets

CONSTANTS
    Sessions,
    MaxInbox        \* bound on the messages in flight to main

ASSUME InboxAssumption == MaxInbox \in Nat \ {0}

VARIABLES
    keepAlive,                  \* prefs.keepAlive
    inbox,                      \* messages of the activity manager to main
    \* XySessionService's companion object
    isServiceRunning,
    pendingForegroundStart,
    stopRequestedWhileStarting,
    \* the activity manager's record of the service
    record,                     \* started, not stopped
    fgRequired,                 \* startForeground() is owed
    foreground,
    denied,                     \* the last start() was refused
    \* XySessionRegistry
    items,
    activeIds,
    \* the sessions
    act,                        \* the activity
    shown,                      \* between onStart and onStop
    link,                       \* the manager's state
    user,                       \* userDisconnect
    composed,                   \* the keys of the last composition
    late                        \* a session went on to connect after it was closed

flags == <<isServiceRunning, pendingForegroundStart, stopRequestedWhileStarting>>
system == <<record, fgRequired, foreground, denied>>
registry == <<items, activeIds>>
session == <<act, shown, link, user, composed>>
vars == <<keepAlive, inbox, flags, system, registry, session, late>>

Commands == {"START", "PING", "STOP", "STOP_ALL", "HOME"}
Callbacks == {"onCreate", "onStart", "onStop", "onDestroy"}
Keys(s) == <<link[s], user[s]>>

\* The values of the flags, of the registry and of the sessions; an active
\* session is a registered one.
TypeOK ==
    /\ {keepAlive, isServiceRunning, pendingForegroundStart, stopRequestedWhileStarting,
        record, fgRequired, foreground, denied, late} \subseteq BOOLEAN
    /\ \A i \in DOMAIN inbox : inbox[i] \in (Commands \cup {"DESTROY"}) \X {"service"}
                                            \cup Callbacks \X Sessions
    /\ activeIds \subseteq items /\ items \subseteq Sessions
    /\ act \in [Sessions -> {"none", "opening", "live", "finishing", "destroying"}]
    /\ link \in [Sessions -> {"down", "connecting", "connected"}]
    /\ {user[s] : s \in Sessions} \cup {shown[s] : s \in Sessions} \subseteq BOOLEAN

Init ==
    /\ keepAlive \in BOOLEAN
    /\ inbox = <<>>
    /\ isServiceRunning = FALSE
    /\ pendingForegroundStart = FALSE /\ stopRequestedWhileStarting = FALSE
    /\ record = FALSE /\ fgRequired = FALSE /\ foreground = FALSE /\ denied = FALSE
    /\ items = {} /\ activeIds = {}
    /\ act = [s \in Sessions |-> "none"]
    /\ shown = [s \in Sessions |-> FALSE]
    /\ link = [s \in Sessions |-> "down"]
    /\ user = [s \in Sessions |-> FALSE]
    /\ composed = [s \in Sessions |-> <<"down", FALSE>>]
    /\ late = FALSE

-----------------------------------------------------------------------------
(* The companion object, called with the messages q that are left.         *)

Room == Len(inbox) < MaxInbox

\* An app that shows nothing and has no foreground service may be refused a
\* start of a service.
Refusals == IF foreground \/ \E s \in Sessions : shown'[s] THEN {FALSE} ELSE BOOLEAN

start(q, command) ==
    \E refused \in Refusals :
        /\ stopRequestedWhileStarting' = FALSE
        /\ pendingForegroundStart' = (~refused /\ (pendingForegroundStart \/ ~isServiceRunning))
        /\ record' = (record \/ ~refused)
        /\ fgRequired' = (fgRequired \/ (~refused /\ ~isServiceRunning))
        /\ denied' = refused
        /\ inbox' = IF refused THEN q ELSE Append(q, <<command, "service">>)
        /\ UNCHANGED <<isServiceRunning, foreground>>

\* The activity manager gives the service up.
stopService(q) ==
    /\ inbox' = IF record THEN Append(q, <<"DESTROY", "service">>) ELSE q
    /\ record' = FALSE /\ foreground' = FALSE

\* A plausible bug: the service is stopped in any case.
stop_Always(q) == stopService(q) /\ UNCHANGED <<flags, denied, fgRequired>>

stop(q) ==
    IF pendingForegroundStart
    THEN /\ stopRequestedWhileStarting' = TRUE
         /\ inbox' = q
         /\ UNCHANGED <<isServiceRunning, pendingForegroundStart, system>>
    ELSE /\ UNCHANGED <<flags, denied, fgRequired>>
         /\ IF ~isServiceRunning
            THEN inbox' = q /\ UNCHANGED <<record, foreground>>
            ELSE \E refused \in Refusals :
                    IF refused THEN stopService(q)
                    ELSE /\ inbox' = Append(q, <<"STOP", "service">>)
                         /\ record' = TRUE
                         /\ UNCHANGED foreground

ServiceKept == UNCHANGED <<flags, system>>

-----------------------------------------------------------------------------
(* The service.                                                            *)

\* A plausible bug: the start stays pending.
Started_Pending == isServiceRunning' = TRUE /\ UNCHANGED pendingForegroundStart

Started == isServiceRunning' = TRUE /\ pendingForegroundStart' = FALSE

\* A plausible bug: off by one.
PingStops_LastOne == Cardinality(items) <= 1

PingStops == items = {}

\* Does the command end in stopForeground() and stopSelf()?
Stops(command) ==
    CASE command \in {"STOP", "STOP_ALL"} -> items = {} \/ activeIds = {}
      [] command = "PING"  -> PingStops
      [] command = "HOME"  -> FALSE
      [] command = "START" -> activeIds = {} /\ stopRequestedWhileStarting

\* Live.kill of the sessions S: disconnect and finish.
kill(S) ==
    /\ link' = [s \in Sessions |-> IF s \in S THEN "down" ELSE link[s]]
    /\ act' = [s \in Sessions |-> IF s \in S /\ act[s] = "live" THEN "finishing" ELSE act[s]]

\* A command behind which a DESTROY waits belongs to a service the activity
\* manager has given up: its startForeground() and stopSelf() are ignored.
onStartCommand ==
    LET command == Head(inbox)[1]
        q == Tail(inbox)
        current == \A i \in DOMAIN q : q[i][1] # "DESTROY"
        stops == current /\ Stops(command)
        killed == IF command \in {"STOP", "STOP_ALL"} THEN items ELSE {}
    IN  /\ inbox # <<>> /\ command \in Commands
        /\ Started
        /\ stopRequestedWhileStarting' =
               (stopRequestedWhileStarting /\ ~(command = "START" /\ Stops(command)))
        /\ fgRequired' = (fgRequired /\ ~current)        \* promoteToForeground()
        /\ foreground' = IF current THEN ~stops ELSE foreground
        /\ record' = (record /\ ~stops)
        /\ inbox' = IF stops THEN Append(q, <<"DESTROY", "service">>) ELSE q
        /\ kill(killed)
        /\ UNCHANGED <<keepAlive, denied, registry, shown, user, composed, late>>

serviceOnDestroy ==
    /\ inbox # <<>> /\ Head(inbox)[1] = "DESTROY"
    /\ inbox' = Tail(inbox)
    /\ isServiceRunning' = FALSE
    /\ pendingForegroundStart' = FALSE /\ stopRequestedWhileStarting' = FALSE
    /\ UNCHANGED <<keepAlive, system, registry, session, late>>

\* The buttons of the notification, which is there while the service is in the
\* foreground; no second tap while a first is on its way.
TapNotification(command) ==
    /\ foreground /\ Room
    /\ \A i \in DOMAIN inbox : inbox[i][1] \notin {"STOP_ALL", "HOME"}
    /\ inbox' = Append(inbox, <<command, "service">>)
    /\ UNCHANGED <<keepAlive, flags, system, registry, session, late>>

-----------------------------------------------------------------------------
(* The activities.                                                         *)

add(s) == items' = items \cup {s} /\ activeIds' = activeIds \ {s}

\* A plausible bug: an ended session stays active.
remove_KeepsActive(s) == items' = items \ {s} /\ UNCHANGED activeIds

remove(s) == items' = items \ {s} /\ activeIds' = activeIds \ {s}

\* A message of the activity manager about s, and where it takes the activity.
Schedule(s, callback, from, to) ==
    /\ Room
    /\ act[s] = from
    /\ \A i \in DOMAIN inbox : inbox[i][2] # s
    /\ act' = [act EXCEPT ![s] = to]
    /\ inbox' = Append(inbox, <<callback, s>>)
    /\ UNCHANGED <<keepAlive, flags, system, registry, shown, link, user, composed, late>>

Open(s) == Schedule(s, "onCreate", "none", "opening")
Leave(s) == shown[s] /\ Schedule(s, "onStop", "live", "live")
Return(s) == ~shown[s] /\ Schedule(s, "onStart", "live", "live")
Destroy(s) == Schedule(s, "onDestroy", "finishing", "destroying")

Received(s, callback) == inbox # <<>> /\ Head(inbox) = <<callback, s>>

\* start(ping = TRUE), where the sessions are to go on in the background.
Ping(may) ==
    IF keepAlive /\ may THEN start(Tail(inbox), "PING")
    ELSE inbox' = Tail(inbox) /\ ServiceKept

\* onCreate registers the session and connects, unless a permission is missing,
\* and onStart follows.
onCreate(s) ==
    /\ Received(s, "onCreate")
    /\ add(s)
    /\ act' = [act EXCEPT ![s] = "live"]
    /\ shown' = [shown EXCEPT ![s] = TRUE]
    /\ \E l \in {"down", "connecting"} : link' = [link EXCEPT ![s] = l]
    /\ Ping(TRUE)
    /\ UNCHANGED <<keepAlive, user, composed, late>>

onStart(s) ==
    /\ Received(s, "onStart")
    /\ shown' = [shown EXCEPT ![s] = TRUE]
    /\ Ping(TRUE)
    /\ UNCHANGED <<keepAlive, registry, act, link, user, composed, late>>

onStop(s) ==
    /\ Received(s, "onStop")
    /\ shown' = [shown EXCEPT ![s] = FALSE]
    /\ Ping(act[s] = "live" /\ link[s] = "connected")
    /\ UNCHANGED <<keepAlive, registry, act, link, user, composed, late>>

onDestroy(s) ==
    /\ Received(s, "onDestroy")
    /\ remove(s)
    /\ act' = [act EXCEPT ![s] = "none"]
    /\ shown' = [shown EXCEPT ![s] = FALSE]
    /\ link' = [link EXCEPT ![s] = "down"]
    /\ user' = [user EXCEPT ![s] = FALSE]
    /\ composed' = [composed EXCEPT ![s] = <<"down", FALSE>>]
    /\ IF items' = {} THEN stop(Tail(inbox)) ELSE inbox' = Tail(inbox) /\ ServiceKept
    /\ UNCHANGED <<keepAlive, late>>

-----------------------------------------------------------------------------
(* The session screens.                                                    *)

\* The effect keyed by the manager's state and userDisconnect.
ServiceEffect(s) ==
    /\ Room
    /\ act[s] \in {"live", "finishing", "destroying"} /\ shown[s]
    /\ composed[s] # Keys(s)
    /\ composed' = [composed EXCEPT ![s] = Keys(s)]
    /\ UNCHANGED <<keepAlive, items, act, shown, link, user, late>>
    /\ IF ~user[s] /\ link[s] # "down"
       THEN activeIds' = activeIds \cup {s} /\ start(inbox, "START")
       ELSE /\ activeIds' = activeIds \ {s}
            /\ IF items = {} THEN stop(inbox) ELSE UNCHANGED inbox /\ ServiceKept

\* The user ends the session s from its screen.
performDisconnect(s) ==
    /\ Room
    /\ act[s] = "live" /\ shown[s]
    /\ user' = [user EXCEPT ![s] = TRUE]
    /\ activeIds' = activeIds \ {s}
    /\ UNCHANGED <<keepAlive, items, shown, composed, late>>
    /\ IF activeIds' = {} THEN stop(inbox) ELSE UNCHANGED inbox /\ ServiceKept
    /\ kill({s})

\* The user cancels the connection or leaves a screen that has none, or ends
\* the session from the home screen, which does not set userDisconnect.
Exit(s) ==
    /\ act[s] = "live"
    /\ \E u \in {user[s], shown[s]} : user' = [user EXCEPT ![s] = u]
    /\ kill({s})
    /\ UNCHANGED <<keepAlive, inbox, flags, system, registry, shown, composed, late>>

\* The manager connects, retries and loses the connection, whatever is shown.
LinkChanges(s) ==
    /\ act[s] \in {"live", "finishing", "destroying"}
    /\ \E l \in {"down", "connecting", "connected"} \ {link[s]} :
           /\ l = "connected" => link[s] = "connecting"
           /\ link[s] = "connected" => l = "down"
           /\ link' = [link EXCEPT ![s] = l]
           /\ late' = (late \/ (act[s] # "live" /\ l = "connecting"))
    /\ UNCHANGED <<keepAlive, inbox, flags, system, registry, act, shown, user, composed>>

-----------------------------------------------------------------------------

Main ==
    \/ onStartCommand \/ serviceOnDestroy
    \/ \E s \in Sessions : onCreate(s) \/ onStart(s) \/ onStop(s) \/ onDestroy(s)

Next ==
    \/ Main
    \/ \E command \in {"STOP_ALL", "HOME"} : TapNotification(command)
    \/ \E s \in Sessions :
           \/ Open(s) \/ Leave(s) \/ Return(s) \/ Destroy(s)
           \/ ServiceEffect(s) \/ performDisconnect(s) \/ Exit(s) \/ LinkChanges(s)

Spec == Init /\ [][Next]_vars

\* The main thread handles its messages, and a finished activity is destroyed.
FairSpec ==
    /\ Spec
    /\ WF_vars(Main)
    /\ \A s \in Sessions : WF_vars(Destroy(s))

-----------------------------------------------------------------------------
(* Properties.                                                             *)

\* "setiap pemanggilan startForegroundService() WAJIB diikuti startForeground()
\* ... sebelum stopSelf()": the service is never stopped, by itself or by
\* stopService(), while it owes a startForeground(), which Android punishes by
\* killing the process.
ForegroundContract == fgRequired => record

\* A session that is active and not being closed has the foreground service once
\* its commands are handled, whatever the other sessions do, unless Android
\* refused the last start.
Covered ==
    inbox = <<>> /\ ~denied =>
        \A s \in activeIds : act[s] = "live" => record /\ foreground

\* The service and its notification do not outlive the last session, when
\* Android refuses no start and no session connects after it was closed.
ServiceEnds == [](~denied /\ ~late) => []((items = {}) => <>(~record \/ items # {}))

\* "supaya sesi lain yang sedang reconnect tidak kehilangan foreground
\* service-nya": a session is ended by its user, from its screen, from the home
\* screen or for all sessions from the notification, never by what another
\* session's screen does.
OnlyAskedEnd ==
    [][\A s \in Sessions : act[s] = "live" /\ act'[s] = "finishing"
           => \/ performDisconnect(s) \/ Exit(s)
              \/ Head(inbox)[1] = "STOP_ALL"]_vars
=============================================================================
