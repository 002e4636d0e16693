------------------------ MODULE SessionServiceProofs ------------------------
(***************************************************************************)
(* The foreground service keeps its promise to Android and covers the      *)
(* active sessions, for any set of sessions and any number of messages on  *)
(* their way to main.                                                      *)
(***************************************************************************)
EXTENDS SessionService, TLAPS

Msg == (Commands \cup {"DESTROY"}) \X {"service"} \cup Callbacks \X Sessions

Registered == {"live", "finishing", "destroying"}

\* The flags of the service and of the activity manager.
SystemOK ==
    /\ isServiceRunning \in BOOLEAN
    /\ pendingForegroundStart \in BOOLEAN /\ stopRequestedWhileStarting \in BOOLEAN
    /\ record \in BOOLEAN /\ fgRequired \in BOOLEAN /\ foreground \in BOOLEAN
    /\ denied \in BOOLEAN

\* TypeOK, one variable a conjunct.
FlagsOK == keepAlive \in BOOLEAN /\ late \in BOOLEAN /\ SystemOK

SessionsOK ==
    /\ activeIds \subseteq items /\ items \subseteq Sessions
    /\ act \in [Sessions -> {"none", "opening", "live", "finishing", "destroying"}]
    /\ link \in [Sessions -> {"down", "connecting", "connected"}]
    /\ user \in [Sessions -> BOOLEAN] /\ shown \in [Sessions -> BOOLEAN]

\* A session is registered from its onCreate to its onDestroy.
RegistryOK == \A s \in Sessions : s \in items <=> act[s] \in Registered

\* What is on its way to the sessions: one callback for each at most, the one
\* its activity waits for.
CallbacksAt(q, a) ==
    /\ \A i \in 1..Len(q) :
           /\ q[i][1] = "onCreate" => a[q[i][2]] = "opening"
           /\ q[i][1] = "onDestroy" => a[q[i][2]] = "destroying"
           /\ q[i][1] \in {"onStart", "onStop"} => a[q[i][2]] \in {"live", "finishing"}
    /\ \A i, j \in 1..Len(q) :
           i # j /\ q[i][1] \in Callbacks /\ q[j][1] \in Callbacks => q[i][2] # q[j][2]

HasDestroy(q) == \E i \in 1..Len(q) : q[i][1] = "DESTROY"

\* No onDestroy of a session lies before a DESTROY that follows another one, or
\* before any at all where given.
Sealed(q, any) ==
    \A j \in 1..Len(q) :
        q[j][1] = "DESTROY" /\ (any \/ \E i \in 1..(j - 1) : q[i][1] = "DESTROY")
            => \A k \in 1..(j - 1) : q[k][1] # "onDestroy"

\* The service owes its startForeground() only while it is not running, or while
\* an older one is still to be destroyed.
OwedOK(q) ==
    /\ fgRequired => record
    /\ fgRequired => ~isServiceRunning \/ HasDestroy(q)
    /\ Sealed(q, ~isServiceRunning \/ fgRequired)

\* A command that no DESTROY follows: it will be handled by the current service.
Pending(q) ==
    \E i \in 1..Len(q) : /\ q[i][1] \in Commands
                         /\ \A j \in 1..Len(q) : j > i => q[j][1] # "DESTROY"

\* While a session is active the service is in the foreground or will be.
CoverOK(q) == activeIds # {} /\ ~denied => record /\ (foreground \/ Pending(q))

ServiceInv ==
    /\ FlagsOK /\ SessionsOK /\ RegistryOK
    /\ inbox \in Seq(Msg)
    /\ CallbacksAt(inbox, act)
    /\ OwedOK(inbox)
    /\ CoverOK(inbox)

-----------------------------------------------------------------------------
(* The queue.                                                              *)

\* The rest of a queue.
LEMMA TailQueue ==
    ASSUME NEW q \in Seq(Msg), q # <<>>
    PROVE  /\ Tail(q) \in Seq(Msg) /\ Len(Tail(q)) = Len(q) - 1 /\ Len(q) \in Nat /\ Len(q) > 0
           /\ Head(q) = q[1] /\ Head(q) \in Msg
           /\ \A i \in 1..Len(Tail(q)) : Tail(q)[i] = q[i + 1] /\ i + 1 \in 1..Len(q)
           /\ \A i \in 1..Len(q) : i # 1 => i - 1 \in 1..Len(Tail(q)) /\ q[i] = Tail(q)[i - 1]
OBVIOUS

\* A message at the end of a queue.
LEMMA AppendQueue ==
    ASSUME NEW q \in Seq(Msg), NEW m \in Msg
    PROVE  /\ Append(q, m) \in Seq(Msg) /\ Len(Append(q, m)) = Len(q) + 1 /\ Len(q) \in Nat
           /\ \A i \in 1..Len(q) : Append(q, m)[i] = q[i]
           /\ Append(q, m)[Len(q) + 1] = m
OBVIOUS

\* Commands and DESTROY are messages.
LEMMA CommandIsMsg ==
    /\ \A c \in Commands : /\ <<c, "service">> \in Msg /\ <<c, "service">>[1] = c
                           /\ c \notin Callbacks /\ c # "DESTROY"
    /\ <<"DESTROY", "service">> \in Msg /\ <<"DESTROY", "service">>[1] = "DESTROY"
    /\ "DESTROY" \notin Callbacks
BY DEF Msg, Commands, Callbacks

\* Sealed is kept by the rest of a queue, also when the head was the first
\* DESTROY of several.
LEMMA SealedTail ==
    ASSUME NEW q \in Seq(Msg), q # <<>>, NEW any \in BOOLEAN, NEW more \in BOOLEAN,
           Sealed(q, any), more => any \/ Head(q)[1] = "DESTROY"
    PROVE  Sealed(Tail(q), more)
<1> SUFFICES ASSUME NEW j \in 1..Len(Tail(q)), Tail(q)[j][1] = "DESTROY",
                    more \/ \E i \in 1..(j - 1) : Tail(q)[i][1] = "DESTROY",
                    NEW k \in 1..(j - 1)
             PROVE  Tail(q)[k][1] # "onDestroy"
  BY DEF Sealed
<1>1. /\ j + 1 \in 1..Len(q) /\ q[j + 1] = Tail(q)[j]
      /\ k + 1 \in 1..j /\ q[k + 1] = Tail(q)[k] /\ 1 \in 1..j /\ q[1] = Head(q)
  BY TailQueue
<1>2. any \/ \E i \in 1..j : q[i][1] = "DESTROY"
  <2>1. CASE more
    BY <1>1, <2>1
  <2>2. CASE \E i \in 1..(j - 1) : Tail(q)[i][1] = "DESTROY"
    <3>1. PICK i \in 1..(j - 1) : Tail(q)[i][1] = "DESTROY"
      BY <2>2
    <3>2. q[i + 1] = Tail(q)[i] /\ i + 1 \in 1..j
      BY TailQueue
    <3> QED
      BY <3>1, <3>2
  <2> QED
    BY <2>1, <2>2
<1> QED
  BY <1>1, <1>2 DEF Sealed

\* Sealed is kept by a message other than DESTROY, and by a DESTROY behind a
\* queue without an onDestroy or without a DESTROY.
LEMMA SealedAppend ==
    ASSUME NEW q \in Seq(Msg), NEW m \in Msg, NEW any \in BOOLEAN, Sealed(q, any),
           \/ m[1] # "DESTROY"
           \/ \A k \in 1..Len(q) : q[k][1] # "onDestroy"
           \/ ~any /\ ~HasDestroy(q)
    PROVE  Sealed(Append(q, m), any)
<1> DEFINE p == Append(q, m)
<1> SUFFICES ASSUME NEW j \in 1..Len(p), p[j][1] = "DESTROY",
                    any \/ \E i \in 1..(j - 1) : p[i][1] = "DESTROY",
                    NEW k \in 1..(j - 1)
             PROVE  p[k][1] # "onDestroy"
  BY DEF Sealed
<1>1. Len(p) = Len(q) + 1 /\ Len(q) \in Nat /\ (\A i \in 1..Len(q) : p[i] = q[i]) /\ p[Len(q) + 1] = m
  BY AppendQueue
<1> HIDE DEF p
<1>2. CASE j \in 1..Len(q)
  <2>1. \A i \in 1..j : p[i] = q[i]
    BY <1>1, <1>2
  <2> QED
    BY <1>2, <2>1 DEF Sealed
<1>3. CASE j = Len(q) + 1
  <2>1. k \in 1..Len(q) /\ p[k] = q[k] /\ \A i \in 1..(j - 1) : p[i] = q[i] /\ i \in 1..Len(q)
    BY <1>1, <1>3
  <2> QED
    BY <1>1, <1>3, <2>1 DEF HasDestroy
<1> QED
  BY <1>1, <1>2, <1>3
-----------------------------------------------------------------------------
(* The debt, OwedOK.                                                       *)

\* A message other than DESTROY leaves main's queue.
LEMMA OwedTail ==
    ASSUME FlagsOK, inbox \in Seq(Msg), inbox # <<>>, Head(inbox)[1] # "DESTROY", OwedOK(inbox)
    PROVE  OwedOK(Tail(inbox))
<1>1. Sealed(Tail(inbox), ~isServiceRunning \/ fgRequired)
  BY SealedTail DEF OwedOK
<1>2. HasDestroy(inbox) => HasDestroy(Tail(inbox))
  <2> SUFFICES ASSUME NEW i \in 1..Len(inbox), inbox[i][1] = "DESTROY"
               PROVE  HasDestroy(Tail(inbox))
    BY DEF HasDestroy
  <2>1. i # 1 /\ i - 1 \in 1..Len(Tail(inbox)) /\ inbox[i] = Tail(inbox)[i - 1]
    BY TailQueue
  <2> QED
    BY <2>1 DEF HasDestroy
<1> QED
  BY <1>1, <1>2 DEF OwedOK

\* A message other than DESTROY is sent.
LEMMA OwedAppend ==
    ASSUME FlagsOK, NEW q \in Seq(Msg), NEW m \in Msg, m[1] # "DESTROY", OwedOK(q)
    PROVE  OwedOK(Append(q, m))
<1>1. Sealed(Append(q, m), ~isServiceRunning \/ fgRequired)
  BY SealedAppend DEF OwedOK
<1>2. HasDestroy(q) => HasDestroy(Append(q, m))
  BY AppendQueue DEF HasDestroy
<1> QED
  BY <1>1, <1>2 DEF OwedOK

\* Sealed asks less where less is given.
LEMMA SealedLess ==
    ASSUME NEW q \in Seq(Msg), NEW any \in BOOLEAN, NEW less \in BOOLEAN, less => any,
           Sealed(q, any)
    PROVE  Sealed(q, less)
BY DEF Sealed

\* start(): a new debt is owed by a service that is not running.
LEMMA StartOwes ==
    ASSUME FlagsOK, NEW q \in Seq(Msg), NEW c \in Commands, OwedOK(q), start(q, c)
    PROVE  /\ inbox' \in Seq(Msg) /\ OwedOK(inbox)'
           /\ ~denied' => record' /\ Pending(inbox)'
           /\ \/ inbox' = q \/ inbox' = Append(q, <<c, "service">>)
<1>1. PICK refused \in BOOLEAN :
          /\ record' = (record \/ ~refused)
          /\ fgRequired' = (fgRequired \/ (~refused /\ ~isServiceRunning))
          /\ denied' = refused
          /\ inbox' = IF refused THEN q ELSE Append(q, <<c, "service">>)
          /\ isServiceRunning' = isServiceRunning
  BY DEF start, Refusals
<1>2. <<c, "service">> \in Msg /\ <<c, "service">>[1] \in Commands /\ <<c, "service">>[1] # "DESTROY"
  BY CommandIsMsg
<1>3. CASE refused
  <2>1. inbox' = q /\ (fgRequired' <=> fgRequired) /\ (record' <=> record)
    BY <1>1, <1>3
  <2>2. Sealed(q, ~isServiceRunning \/ fgRequired)
    BY DEF OwedOK
  <2>3. Sealed(q, ~isServiceRunning' \/ fgRequired')
    BY <1>1, <2>1, <2>2, SealedLess
  <2> QED
    BY <1>1, <1>3, <2>1, <2>3 DEF OwedOK
<1>4. CASE ~refused
  <2> DEFINE p == Append(q, <<c, "service">>)
  <2>1. inbox' = p /\ record' /\ ~denied' /\ (fgRequired' <=> fgRequired \/ ~isServiceRunning)
    BY <1>1, <1>4
  <2>2. OwedOK(p)
    BY <1>2, OwedAppend
  <2>3. Sealed(p, ~isServiceRunning' \/ fgRequired')
    BY <1>1, <1>2, <2>1, <2>2, AppendQueue, SealedLess DEF OwedOK
  <2>4. Pending(p)
    BY <1>2, AppendQueue DEF Pending
  <2>5. p \in Seq(Msg)
    BY <1>2, AppendQueue
  <2> HIDE DEF p
  <2>6. OwedOK(inbox)' /\ Pending(inbox)'
    BY <1>1, <2>1, <2>2, <2>3, <2>4 DEF OwedOK
  <2> QED
    BY <2>1, <2>5, <2>6 DEF p
<1> QED
  BY <1>1, <1>3, <1>4

\* stop(): the service is given up at once only where no callback onDestroy is
\* behind and nothing is owed.
LEMMA StopOwes ==
    ASSUME FlagsOK, NEW q \in Seq(Msg), OwedOK(q), stop(q),
           TRUE \in Refusals =>
               /\ \A k \in 1..Len(q) : q[k][1] # "onDestroy"
               /\ isServiceRunning => ~fgRequired
    PROVE  /\ inbox' \in Seq(Msg) /\ OwedOK(inbox)'
           /\ \/ inbox' = q
              \/ inbox' = Append(q, <<"STOP", "service">>)
              \/ inbox' = Append(q, <<"DESTROY", "service">>)
<1>0. UNCHANGED <<isServiceRunning, fgRequired>>
  BY DEF stop, flags, system
<1>1. CASE inbox' = q /\ (record' <=> record)
  BY <1>0, <1>1 DEF OwedOK
<1>2. CASE inbox' = Append(q, <<"STOP", "service">>) /\ record'
  <2> DEFINE p == Append(q, <<"STOP", "service">>)
  <2>1. OwedOK(p) /\ p \in Seq(Msg)
    BY OwedAppend, AppendQueue, CommandIsMsg DEF Commands
  <2> HIDE DEF p
  <2>2. inbox' = p /\ record'
    BY <1>2 DEF p
  <2>3. OwedOK(inbox)'
    BY <1>0, <2>1, <2>2 DEF OwedOK
  <2> QED
    BY <1>2, <2>1, <2>2, <2>3
<1>3. CASE TRUE \in Refusals /\ isServiceRunning /\ stopService(q)
  <2>1. ~fgRequired /\ \A k \in 1..Len(q) : q[k][1] # "onDestroy"
    BY <1>3
  <2>2. Sealed(q, FALSE)
    BY SealedLess DEF OwedOK
  <2> DEFINE p == Append(q, <<"DESTROY", "service">>)
  <2>3. Sealed(p, FALSE) /\ p \in Seq(Msg)
    BY <2>1, <2>2, SealedAppend, AppendQueue, CommandIsMsg
  <2> HIDE DEF p
  <2>4. inbox' = p \/ inbox' = q
    BY <1>3 DEF stopService, p
  <2>5. Sealed(inbox', FALSE) /\ inbox' \in Seq(Msg)
    BY <2>2, <2>3, <2>4
  <2>6. ~(~isServiceRunning' \/ fgRequired')
    BY <1>0, <1>3, <2>1
  <2>7. OwedOK(inbox)'
    BY <2>5, <2>6, SealedLess DEF OwedOK
  <2> QED
    BY <2>4, <2>5, <2>7 DEF p
<1> QED
  <2>1. CASE pendingForegroundStart
    BY <1>1, <2>1 DEF stop, system
  <2>2. CASE ~pendingForegroundStart /\ ~isServiceRunning
    BY <1>1, <2>2 DEF stop
  <2>3. CASE ~pendingForegroundStart /\ isServiceRunning
    <3>1. PICK refused \in Refusals :
              IF refused THEN stopService(q)
              ELSE /\ inbox' = Append(q, <<"STOP", "service">>)
                   /\ record' = TRUE
                   /\ UNCHANGED foreground
      BY <2>3 DEF stop
    <3>2. refused \in BOOLEAN
      BY DEF Refusals
    <3>3. CASE refused = TRUE
      BY <1>3, <2>3, <3>1, <3>3
    <3>4. CASE refused = FALSE
      BY <1>2, <3>1, <3>4
    <3> QED
      BY <3>2, <3>3, <3>4
  <2> QED
    BY <2>1, <2>2, <2>3
-----------------------------------------------------------------------------
(* The callbacks on their way.                                             *)

\* Killing a session does not take its activity past what it waits for.
LEMMA CallbacksKept ==
    ASSUME NEW q \in Seq(Msg), NEW a, NEW b, CallbacksAt(q, a),
           \A s \in Sessions : b[s] = a[s] \/ (a[s] = "live" /\ b[s] = "finishing")
    PROVE  CallbacksAt(q, b)
<1>1. \A i \in 1..Len(q) : q[i][1] \in Callbacks => q[i][2] \in Sessions
  BY DEF Msg, Commands, Callbacks
<1> QED
  BY <1>1 DEF CallbacksAt, Callbacks

\* A callback is handled, which may change its session's activity.
LEMMA CallbacksTail ==
    ASSUME NEW q \in Seq(Msg), q # <<>>, NEW a, NEW b, CallbacksAt(q, a),
           \A s \in Sessions : \/ b[s] = a[s] \/ (a[s] = "live" /\ b[s] = "finishing")
                               \/ Head(q)[1] \in Callbacks /\ Head(q)[2] = s
    PROVE  CallbacksAt(Tail(q), b)
<1> DEFINE p == Tail(q)
<1>0. /\ p \in Seq(Msg) /\ Len(p) \in Nat /\ Head(q) = q[1] /\ 1 \in 1..Len(q)
      /\ \A i \in 1..Len(p) : p[i] = q[i + 1] /\ i + 1 \in 1..Len(q) /\ i + 1 # 1
  BY TailQueue
<1> HIDE DEF p
<1>1. \A i \in 1..Len(p) : p[i][1] \in Callbacks =>
          /\ p[i][2] \in Sessions
          /\ ~(Head(q)[1] \in Callbacks /\ Head(q)[2] = p[i][2])
  <2> SUFFICES ASSUME NEW i \in 1..Len(p), p[i][1] \in Callbacks
               PROVE  /\ p[i][2] \in Sessions
                      /\ ~(Head(q)[1] \in Callbacks /\ Head(q)[2] = p[i][2])
    OBVIOUS
  <2>1. p[i][2] \in Sessions
    BY <1>0 DEF Msg, Commands, Callbacks
  <2>2. ~(Head(q)[1] \in Callbacks /\ Head(q)[2] = p[i][2])
    BY <1>0 DEF CallbacksAt
  <2> QED
    BY <2>1, <2>2
<1>2. \A i \in 1..Len(p) : p[i][1] \in Callbacks =>
          \/ b[p[i][2]] = a[p[i][2]]
          \/ a[p[i][2]] = "live" /\ b[p[i][2]] = "finishing"
  BY <1>1
<1>3. \A i \in 1..Len(p) :
          /\ p[i][1] = "onCreate" => a[p[i][2]] = "opening"
          /\ p[i][1] = "onDestroy" => a[p[i][2]] = "destroying"
          /\ p[i][1] \in {"onStart", "onStop"} => a[p[i][2]] \in {"live", "finishing"}
  BY <1>0 DEF CallbacksAt
<1>4. \A i, j \in 1..Len(p) :
          i # j /\ p[i][1] \in Callbacks /\ p[j][1] \in Callbacks => p[i][2] # p[j][2]
  <2> SUFFICES ASSUME NEW i \in 1..Len(p), NEW j \in 1..Len(p), i # j,
                      p[i][1] \in Callbacks, p[j][1] \in Callbacks
               PROVE  p[i][2] # p[j][2]
    OBVIOUS
  <2>1. i + 1 # j + 1 /\ p[i] = q[i + 1] /\ p[j] = q[j + 1]
    BY <1>0
  <2> QED
    BY <1>0, <2>1 DEF CallbacksAt
<1> QED
  BY <1>2, <1>3, <1>4 DEF CallbacksAt, Callbacks, p

\* Something else is sent.
LEMMA CallbacksAppend ==
    ASSUME NEW q \in Seq(Msg), NEW m \in Msg, NEW a, CallbacksAt(q, a), m[1] \notin Callbacks
    PROVE  CallbacksAt(Append(q, m), a)
<1> DEFINE p == Append(q, m)
<1>1. Len(p) = Len(q) + 1 /\ Len(q) \in Nat /\ (\A i \in 1..Len(q) : p[i] = q[i]) /\ p[Len(q) + 1] = m
  BY AppendQueue
<1> HIDE DEF p
<1>2. \A i \in 1..Len(p) : p[i][1] \in Callbacks => i \in 1..Len(q) /\ p[i] = q[i]
  BY <1>1
<1> QED
  BY <1>2 DEF CallbacksAt, Callbacks, p

\* The next callback of a session is sent.
LEMMA CallbacksSchedule ==
    ASSUME NEW q \in Seq(Msg), NEW s \in Sessions, NEW c \in Callbacks, NEW a, NEW b,
           CallbacksAt(q, a),
           \A t \in Sessions : t # s => b[t] = a[t],
           \A i \in 1..Len(q) : q[i][2] # s,
           /\ c = "onCreate" => b[s] = "opening"
           /\ c = "onDestroy" => b[s] = "destroying"
           /\ c \in {"onStart", "onStop"} => b[s] \in {"live", "finishing"}
    PROVE  CallbacksAt(Append(q, <<c, s>>), b)
<1> DEFINE m == <<c, s>>
           p == Append(q, m)
<1>0. m \in Msg /\ m[1] = c /\ m[2] = s
  BY DEF Msg
<1>1. Len(p) = Len(q) + 1 /\ Len(q) \in Nat /\ (\A i \in 1..Len(q) : p[i] = q[i]) /\ p[Len(q) + 1] = m
  BY <1>0, AppendQueue
<1>2. \A i \in 1..Len(q) : q[i][1] \in Callbacks => q[i][2] \in Sessions /\ b[q[i][2]] = a[q[i][2]]
  BY DEF Msg, Commands, Callbacks
<1> HIDE DEF p, m
<1>3. \A i \in 1..Len(p) : i \in 1..Len(q) \/ i = Len(q) + 1
  BY <1>1
<1>4. \A i \in 1..Len(p) :
          /\ p[i][1] = "onCreate" => b[p[i][2]] = "opening"
          /\ p[i][1] = "onDestroy" => b[p[i][2]] = "destroying"
          /\ p[i][1] \in {"onStart", "onStop"} => b[p[i][2]] \in {"live", "finishing"}
  BY <1>0, <1>1, <1>2, <1>3 DEF CallbacksAt, Callbacks
<1>5. \A i, j \in 1..Len(p) :
          i # j /\ p[i][1] \in Callbacks /\ p[j][1] \in Callbacks => p[i][2] # p[j][2]
  BY <1>0, <1>1, <1>3 DEF CallbacksAt
<1> QED
  BY <1>4, <1>5 DEF CallbacksAt, p, m
-----------------------------------------------------------------------------
(* The steps.                                                              *)

LEMMA SystemStart == ASSUME SystemOK, NEW q, NEW c, start(q, c) PROVE SystemOK'
<1>1. PICK refused \in BOOLEAN :
          /\ stopRequestedWhileStarting' = FALSE
          /\ pendingForegroundStart' = (~refused /\ (pendingForegroundStart \/ ~isServiceRunning))
          /\ record' = (record \/ ~refused)
          /\ fgRequired' = (fgRequired \/ (~refused /\ ~isServiceRunning))
          /\ denied' = refused
          /\ UNCHANGED <<isServiceRunning, foreground>>
  BY DEF start, Refusals
<1>2. stopRequestedWhileStarting' \in BOOLEAN /\ pendingForegroundStart' \in BOOLEAN
  BY <1>1, Zenon
<1>3. record' \in BOOLEAN /\ fgRequired' \in BOOLEAN
  BY <1>1, Zenon
<1> QED
  BY <1>1, <1>2, <1>3 DEF SystemOK

LEMMA SystemStop == ASSUME SystemOK, NEW q, stop(q) PROVE SystemOK'
<1>1. UNCHANGED <<isServiceRunning, pendingForegroundStart, fgRequired, denied>>
  BY DEF stop, flags, system
<1>2. stopRequestedWhileStarting' = stopRequestedWhileStarting \/ stopRequestedWhileStarting' = TRUE
  BY DEF stop, flags, system
<1>3. record' = record \/ record' = TRUE \/ record' = FALSE
  BY DEF stop, flags, system, stopService
<1>4. foreground' = foreground \/ foreground' = FALSE
  BY DEF stop, flags, system, stopService
<1>5. /\ stopRequestedWhileStarting' \in BOOLEAN /\ record' \in BOOLEAN /\ foreground' \in BOOLEAN
  BY <1>2, <1>3, <1>4, Zenon DEF SystemOK
<1> QED
  BY <1>1, <1>5 DEF SystemOK

LEMMA SystemKept == ASSUME SystemOK, ServiceKept PROVE SystemOK'
BY DEF SystemOK, ServiceKept, flags, system

\* A callback's start(ping = TRUE).
LEMMA SystemPing == ASSUME SystemOK, NEW may, Ping(may) PROVE SystemOK'
BY SystemStart, SystemKept DEF Ping

LEMMA SystemStep ==
    ASSUME SystemOK, Next PROVE SystemOK'
<1>1. CASE onStartCommand
  <2>1. isServiceRunning' = TRUE /\ pendingForegroundStart' = FALSE /\ denied' = denied
    BY <1>1 DEF onStartCommand, Started
  <2>2. isServiceRunning' \in BOOLEAN /\ pendingForegroundStart' \in BOOLEAN
    BY <2>1, Zenon
  <2>3. stopRequestedWhileStarting' \in BOOLEAN /\ fgRequired' \in BOOLEAN /\ record' \in BOOLEAN
    BY <1>1, Zenon DEF onStartCommand
  <2>4. foreground' \in BOOLEAN
    BY <1>1 DEF onStartCommand, SystemOK
  <2> QED
    BY <2>1, <2>2, <2>3, <2>4 DEF SystemOK
<1>2. CASE serviceOnDestroy
  <2>1. /\ isServiceRunning' = FALSE /\ pendingForegroundStart' = FALSE
        /\ stopRequestedWhileStarting' = FALSE /\ UNCHANGED system
    BY <1>2 DEF serviceOnDestroy
  <2>2. /\ isServiceRunning' \in BOOLEAN /\ pendingForegroundStart' \in BOOLEAN
        /\ stopRequestedWhileStarting' \in BOOLEAN
    BY <2>1, Zenon
  <2> QED
    BY <2>1, <2>2 DEF SystemOK, system
<1>3. ASSUME NEW s \in Sessions, onCreate(s) \/ onStart(s) \/ onStop(s) PROVE SystemOK'
  BY <1>3, SystemPing DEF onCreate, onStart, onStop
<1>4. ASSUME NEW s \in Sessions, onDestroy(s) \/ ServiceEffect(s) \/ performDisconnect(s)
      PROVE  SystemOK'
  BY <1>4, SystemStart, SystemStop, SystemKept DEF onDestroy, ServiceEffect, performDisconnect
<1>5. CASE UNCHANGED <<flags, system>>
  BY <1>5 DEF SystemOK, flags, system
<1>6. ASSUME NEW s \in Sessions,
             Open(s) \/ Leave(s) \/ Return(s) \/ Destroy(s) \/ Exit(s) \/ LinkChanges(s)
      PROVE  SystemOK'
  BY <1>5, <1>6 DEF Open, Leave, Return, Destroy, Schedule, Exit, LinkChanges
<1>7. ASSUME NEW c, TapNotification(c) PROVE SystemOK'
  BY <1>5, <1>7 DEF TapNotification
<1> QED
  BY <1>1, <1>2, <1>3, <1>4, <1>6, <1>7 DEF Next, Main

\* The sessions' activities and links.
LEMMA SessionsStep ==
    ASSUME SessionsOK, RegistryOK, inbox \in Seq(Msg), CallbacksAt(inbox, act), Next
    PROVE  SessionsOK' /\ RegistryOK'
<1> USE DEF SessionsOK, RegistryOK, Registered
<1>1. CASE onStartCommand
  BY <1>1 DEF onStartCommand, kill, registry
<1>2. CASE serviceOnDestroy
  BY <1>2 DEF serviceOnDestroy, registry, session
<1>3. ASSUME NEW s \in Sessions, onCreate(s) PROVE SessionsOK' /\ RegistryOK'
  BY <1>3 DEF onCreate, add
<1>4. ASSUME NEW s \in Sessions, onStart(s) \/ onStop(s) PROVE SessionsOK' /\ RegistryOK'
  BY <1>4 DEF onStart, onStop, registry
<1>5. ASSUME NEW s \in Sessions, onDestroy(s) PROVE SessionsOK' /\ RegistryOK'
  BY <1>5 DEF onDestroy, remove
<1>6. ASSUME NEW s \in Sessions, ServiceEffect(s) PROVE SessionsOK' /\ RegistryOK'
  BY <1>6 DEF ServiceEffect
<1>7. ASSUME NEW s \in Sessions, performDisconnect(s) PROVE SessionsOK' /\ RegistryOK'
  BY <1>7 DEF performDisconnect, kill
<1>8. ASSUME NEW s \in Sessions, Exit(s) PROVE SessionsOK' /\ RegistryOK'
  BY <1>8 DEF Exit, kill, registry
<1>9. ASSUME NEW s \in Sessions, LinkChanges(s) PROVE SessionsOK' /\ RegistryOK'
  BY <1>9 DEF LinkChanges, registry
<1>10. ASSUME NEW s \in Sessions, Open(s) \/ Leave(s) \/ Return(s) \/ Destroy(s)
       PROVE  SessionsOK' /\ RegistryOK'
  BY <1>10 DEF Open, Leave, Return, Destroy, Schedule, registry
<1>11. ASSUME NEW c, TapNotification(c) PROVE SessionsOK' /\ RegistryOK'
  BY <1>11 DEF TapNotification, registry, session
<1> QED
  BY <1>1, <1>2, <1>3, <1>4, <1>5, <1>6, <1>7, <1>8, <1>9, <1>10, <1>11 DEF Next, Main
\* The preference never changes, and the history flag only rises.
LEMMA FlagsStep == ASSUME FlagsOK, Next PROVE FlagsOK'
<1>1. SystemOK'
  BY SystemStep DEF FlagsOK
<1>2. keepAlive' = keepAlive
  BY DEF Next, Main, onStartCommand, serviceOnDestroy, onCreate, onStart, onStop, onDestroy,
         TapNotification, Open, Leave, Return, Destroy, Schedule, ServiceEffect,
         performDisconnect, Exit, LinkChanges
<1>3. late' \in BOOLEAN
  <2>1. ASSUME NEW s \in Sessions, LinkChanges(s) PROVE late' \in BOOLEAN
    BY <2>1, Zenon DEF LinkChanges
  <2>2. CASE late' = late
    BY <2>2 DEF FlagsOK
  <2> QED
    BY <2>1, <2>2 DEF Next, Main, onStartCommand, serviceOnDestroy, onCreate, onStart, onStop,
         onDestroy, TapNotification, Open, Leave, Return, Destroy, Schedule, ServiceEffect,
         performDisconnect, Exit
<1> QED
  BY <1>1, <1>2, <1>3 DEF FlagsOK

\* What ServiceInv says of the messages.
InboxOK ==
    /\ inbox \in Seq(Msg)
    /\ CallbacksAt(inbox, act)
    /\ OwedOK(inbox)
    /\ CoverOK(inbox)

\* A command, which either belongs to the current service and pays the debt, or
\* has a DESTROY behind it.
LEMMA CommandStep == ASSUME ServiceInv, onStartCommand PROVE InboxOK'
<1> DEFINE command == Head(inbox)[1]
           q == Tail(inbox)
           current == \A i \in DOMAIN q : q[i][1] # "DESTROY"
           stops == current /\ Stops(command)
           d == <<"DESTROY", "service">>
<1>1. /\ inbox \in Seq(Msg) /\ inbox # <<>> /\ command \in Commands
      /\ isServiceRunning' = TRUE
      /\ fgRequired' = (fgRequired /\ ~current)
      /\ foreground' = IF current THEN ~stops ELSE foreground
      /\ record' = (record /\ ~stops)
      /\ inbox' = IF stops THEN Append(q, d) ELSE q
      /\ UNCHANGED <<denied, activeIds, items>>
  BY DEF onStartCommand, Started, ServiceInv, registry
<1>2. \A s \in Sessions : act'[s] = act[s] \/ (act[s] = "live" /\ act'[s] = "finishing")
  BY DEF onStartCommand, kill, ServiceInv, SessionsOK
<1>3. /\ q \in Seq(Msg) /\ DOMAIN q = 1..Len(q) /\ d \in Msg /\ d[1] = "DESTROY"
      /\ d[1] \notin Callbacks /\ command \notin Callbacks /\ command # "DESTROY"
      /\ Append(q, d) \in Seq(Msg)
  <2>1. q \in Seq(Msg) /\ DOMAIN q = 1..Len(q)
    BY <1>1, TailQueue
  <2>2. d \in Msg /\ d[1] = "DESTROY" /\ d[1] \notin Callbacks
    BY CommandIsMsg
  <2>3. command \notin Callbacks /\ command # "DESTROY"
    BY <1>1, CommandIsMsg
  <2>4. Append(q, d) \in Seq(Msg)
    BY <2>1, <2>2, AppendQueue
  <2> QED
    BY <2>1, <2>2, <2>3, <2>4
<1>4. CallbacksAt(q, act')
  BY <1>1, <1>2, CallbacksTail DEF ServiceInv
<1>5. current <=> ~HasDestroy(q)
  BY <1>3 DEF HasDestroy
<1>6. FlagsOK /\ OwedOK(q)
  BY <1>1, <1>3, OwedTail DEF ServiceInv
<1>7. stops => activeIds = {}
  <2> SUFFICES ASSUME Stops(command) PROVE activeIds = {}
    OBVIOUS
  <2>1. activeIds \subseteq items
    BY DEF ServiceInv, SessionsOK
  <2>2. CASE command \in {"STOP", "STOP_ALL"}
    BY <2>1, <2>2 DEF Stops
  <2>3. CASE command = "PING"
    BY <2>1, <2>3 DEF Stops, PingStops
  <2>4. CASE command = "START"
    BY <2>4 DEF Stops
  <2>5. CASE command = "HOME"
    BY <2>5 DEF Stops
  <2> QED
    BY <1>1, <2>2, <2>3, <2>4, <2>5 DEF Commands
<1>8. CASE stops
  <2>1. inbox' = Append(q, d) /\ ~fgRequired' /\ ~HasDestroy(q)
    BY <1>1, <1>5, <1>8
  <2>2. CallbacksAt(Append(q, d), act')
    BY <1>3, <1>4, CallbacksAppend
  <2>3. Sealed(q, FALSE)
    BY <1>3, <1>6, SealedLess DEF OwedOK, FlagsOK, SystemOK
  <2>4. Sealed(Append(q, d), FALSE)
    BY <1>3, <2>1, <2>3, SealedAppend
  <2>5. ~(~isServiceRunning' \/ fgRequired')
    BY <1>1, <2>1
  <2>6. OwedOK(inbox)'
    BY <1>3, <2>1, <2>4, <2>5, SealedLess DEF OwedOK
  <2>7. CoverOK(inbox)'
    BY <1>1, <1>7, <1>8 DEF CoverOK
  <2> QED
    BY <1>3, <2>1, <2>2, <2>6, <2>7 DEF InboxOK
<1>9. CASE ~stops
  <2>1. inbox' = q /\ (record' <=> record)
    BY <1>1, <1>9
  <2>2. OwedOK(inbox)'
    <3>1. fgRequired' => fgRequired /\ HasDestroy(q)
      BY <1>1, <1>5
    <3>2. fgRequired' \in BOOLEAN /\ isServiceRunning' \in BOOLEAN
      BY <1>1, Zenon
    <3>3. Sealed(q, ~isServiceRunning' \/ fgRequired')
      BY <1>1, <1>3, <1>6, <3>1, <3>2, SealedLess DEF OwedOK, FlagsOK, SystemOK
    <3> QED
      BY <1>6, <2>1, <3>1, <3>3 DEF OwedOK
  <2>3. CoverOK(inbox)'
    <3> SUFFICES ASSUME activeIds # {}, ~denied PROVE record' /\ (foreground' \/ Pending(inbox)')
      BY <1>1 DEF CoverOK
    <3>1. record /\ (foreground \/ Pending(inbox))
      BY DEF ServiceInv, CoverOK
    <3>2. CASE current
      BY <1>1, <1>9, <2>1, <3>1, <3>2
    <3>3. CASE ~current
      <4>1. foreground' = foreground
        BY <1>1, <3>3
      <4>2. ASSUME Pending(inbox) PROVE Pending(q)
        <5>1. PICK i \in 1..Len(inbox) :
                  /\ inbox[i][1] \in Commands
                  /\ \A j \in 1..Len(inbox) : j > i => inbox[j][1] # "DESTROY"
          BY <4>2 DEF Pending
        <5>2. PICK k \in 1..Len(q) : q[k][1] = "DESTROY"
          BY <1>3, <3>3
        <5>3. k + 1 \in 1..Len(inbox) /\ inbox[k + 1] = q[k]
          BY <1>1, TailQueue
        <5>4. i # 1
          BY <5>1, <5>2, <5>3
        <5>5. i - 1 \in 1..Len(q) /\ q[i - 1] = inbox[i]
          BY <1>1, <5>4, TailQueue
        <5>6. \A j \in 1..Len(q) : j > i - 1 => q[j][1] # "DESTROY"
          BY <1>1, <5>1, TailQueue
        <5> QED
          BY <5>1, <5>5, <5>6 DEF Pending
      <4>3. Pending(q) => Pending(inbox)'
        BY <2>1 DEF Pending
      <4> QED
        BY <2>1, <3>1, <4>1, <4>2, <4>3
    <3> QED
      BY <3>2, <3>3
  <2> QED
    BY <1>3, <1>4, <2>1, <2>2, <2>3 DEF InboxOK
<1> QED
  BY <1>8, <1>9
\* The service's onDestroy.
LEMMA DestroyStep == ASSUME ServiceInv, serviceOnDestroy PROVE InboxOK'
<1> DEFINE q == Tail(inbox)
<1>1. /\ inbox \in Seq(Msg) /\ inbox # <<>> /\ Head(inbox)[1] = "DESTROY"
      /\ inbox' = q
      /\ isServiceRunning' = FALSE
      /\ UNCHANGED <<record, fgRequired, foreground, denied, activeIds, act>>
  BY DEF serviceOnDestroy, ServiceInv, system, registry, session
<1>2. q \in Seq(Msg)
  BY <1>1, TailQueue
<1>3. CallbacksAt(q, act)
  BY <1>1, CallbacksTail DEF ServiceInv
<1>4. Sealed(q, TRUE)
  BY <1>1, SealedTail DEF ServiceInv, OwedOK, FlagsOK, SystemOK
<1>5. OwedOK(inbox)'
  <2>1. Sealed(q, ~isServiceRunning' \/ fgRequired')
    BY <1>1, <1>4 DEF Sealed
  <2>2. fgRequired => record
    BY DEF ServiceInv, OwedOK
  <2> QED
    BY <1>1, <2>1, <2>2 DEF OwedOK
<1>6. Pending(inbox) => Pending(inbox)'
  <2> SUFFICES ASSUME NEW i \in 1..Len(inbox), inbox[i][1] \in Commands,
                      \A j \in 1..Len(inbox) : j > i => inbox[j][1] # "DESTROY"
               PROVE  Pending(q)
    BY <1>1 DEF Pending
  <2>1. i # 1
    BY <1>1, TailQueue DEF Commands
  <2>2. i - 1 \in 1..Len(q) /\ q[i - 1] = inbox[i]
    BY <1>1, <2>1, TailQueue
  <2>3. \A j \in 1..Len(q) : j > i - 1 => q[j][1] # "DESTROY"
    BY <1>1, TailQueue
  <2> QED
    BY <2>2, <2>3 DEF Pending
<1>7. CoverOK(inbox)'
  BY <1>1, <1>6 DEF ServiceInv, CoverOK
<1> QED
  BY <1>1, <1>2, <1>3, <1>5, <1>7 DEF InboxOK

\* A command that is not yet handled stays so when something else is handled.
LEMMA PendingTail ==
    ASSUME NEW q \in Seq(Msg), q # <<>>, Head(q)[1] \notin Commands, Pending(q)
    PROVE  Pending(Tail(q))
<1>1. PICK i \in 1..Len(q) : /\ q[i][1] \in Commands
                             /\ \A j \in 1..Len(q) : j > i => q[j][1] # "DESTROY"
  BY DEF Pending
<1>2. i # 1
  BY <1>1, TailQueue
<1>3. i - 1 \in 1..Len(Tail(q)) /\ Tail(q)[i - 1] = q[i]
  BY <1>2, TailQueue
<1>4. \A j \in 1..Len(Tail(q)) : j > i - 1 => Tail(q)[j][1] # "DESTROY"
  BY <1>1, TailQueue
<1> QED
  BY <1>1, <1>3, <1>4 DEF Pending

LEMMA PendingAppend ==
    ASSUME NEW q \in Seq(Msg), NEW m \in Msg, m[1] # "DESTROY", Pending(q)
    PROVE  Pending(Append(q, m))
<1> DEFINE p == Append(q, m)
<1>1. Len(p) = Len(q) + 1 /\ Len(q) \in Nat /\ (\A i \in 1..Len(q) : p[i] = q[i]) /\ p[Len(q) + 1] = m
  BY AppendQueue
<1> HIDE DEF p
<1>2. \A j \in 1..Len(p) : j \in 1..Len(q) \/ j = Len(q) + 1
  BY <1>1
<1> QED
  BY <1>1, <1>2 DEF Pending, p

\* The callbacks that start the service or leave it alone.
LEMMA CallbackStep ==
    ASSUME ServiceInv, NEW s \in Sessions, onCreate(s) \/ onStart(s) \/ onStop(s)
    PROVE  InboxOK'
<1> DEFINE q == Tail(inbox)
<1>1. /\ inbox \in Seq(Msg) /\ inbox # <<>> /\ FlagsOK
      /\ Head(inbox)[1] \in Callbacks /\ Head(inbox)[2] = s
  <2>1. PICK c \in Callbacks : Received(s, c)
    BY DEF onCreate, onStart, onStop, Callbacks
  <2> QED
    BY <2>1 DEF ServiceInv, Received
<1>2. Head(inbox)[1] # "DESTROY" /\ Head(inbox)[1] \notin Commands
  BY <1>1 DEF Callbacks, Commands
<1>3. \A t \in Sessions : act'[t] = act[t] \/ t = s
  BY DEF onCreate, onStart, onStop, ServiceInv, SessionsOK
<1>4. CallbacksAt(q, act')
  BY <1>1, <1>3, CallbacksTail DEF ServiceInv
<1>5. q \in Seq(Msg) /\ OwedOK(q) /\ (Pending(inbox) => Pending(q))
  BY <1>1, <1>2, TailQueue, OwedTail, PendingTail DEF ServiceInv
<1>6. activeIds' \subseteq activeIds
  BY DEF onCreate, add, onStart, onStop, registry
<1>7. CASE start(q, "PING")
  <2>1. "PING" \in Commands
    BY DEF Commands
  <2>2. /\ inbox' \in Seq(Msg) /\ OwedOK(inbox)'
        /\ ~denied' => record' /\ Pending(inbox)'
        /\ inbox' = q \/ inbox' = Append(q, <<"PING", "service">>)
    BY <1>1, <1>5, <1>7, <2>1, StartOwes
  <2>3. CoverOK(inbox)'
    BY <2>2 DEF CoverOK
  <2>4. CallbacksAt(Append(q, <<"PING", "service">>), act')
    BY <1>4, <1>5, <2>1, CommandIsMsg, CallbacksAppend
  <2>5. CallbacksAt(inbox, act)'
    BY <1>4, <2>2, <2>4
  <2> QED
    BY <2>2, <2>3, <2>5 DEF InboxOK
<1>8. CASE inbox' = q /\ ServiceKept
  <2>1. UNCHANGED <<isServiceRunning, record, fgRequired, foreground, denied>>
    BY <1>8 DEF ServiceKept, flags, system
  <2>2. OwedOK(inbox)'
    BY <1>5, <1>8, <2>1 DEF OwedOK
  <2>3. CoverOK(inbox)'
    BY <1>5, <1>6, <1>8, <2>1 DEF ServiceInv, CoverOK, Pending
  <2> QED
    BY <1>4, <1>5, <1>8, <2>2, <2>3 DEF InboxOK
<1> QED
  BY <1>7, <1>8 DEF onCreate, onStart, onStop, Ping

\* The end of a session, and with the last one of the service: where the service
\* is given up at once, no other session is registered, so no onDestroy is on its
\* way, and none lies before the DESTROY of a debt.
LEMMA EndStep ==
    ASSUME ServiceInv, NEW s \in Sessions, onDestroy(s)
    PROVE  InboxOK'
<1> DEFINE q == Tail(inbox)
<1>1. /\ inbox \in Seq(Msg) /\ inbox # <<>> /\ FlagsOK
      /\ Head(inbox)[1] = "onDestroy" /\ Head(inbox)[2] = s
      /\ items' = items \ {s} /\ activeIds' = activeIds \ {s}
  BY DEF ServiceInv, onDestroy, Received, remove
<1>2. Head(inbox)[1] \in Callbacks /\ Head(inbox)[1] # "DESTROY" /\ Head(inbox)[1] \notin Commands
  BY <1>1 DEF Callbacks, Commands
<1>3. \A t \in Sessions : act'[t] = act[t] \/ t = s
  BY DEF onDestroy, ServiceInv, SessionsOK
<1>4. CallbacksAt(q, act')
  BY <1>1, <1>2, <1>3, CallbacksTail DEF ServiceInv
<1>5. q \in Seq(Msg) /\ OwedOK(q) /\ (Pending(inbox) => Pending(q))
  BY <1>1, <1>2, TailQueue, OwedTail, PendingTail DEF ServiceInv
<1>6. CASE items' = {} /\ stop(q)
  <2>1. \A k \in 1..Len(q) : q[k][1] # "onDestroy"
    <3> SUFFICES ASSUME NEW k \in 1..Len(q), q[k][1] = "onDestroy" PROVE FALSE
      OBVIOUS
    <3>1. /\ k + 1 \in 1..Len(inbox) /\ q[k] = inbox[k + 1] /\ 1 \in 1..Len(inbox)
          /\ Head(inbox) = inbox[1] /\ k + 1 # 1
      BY <1>1, TailQueue
    <3>2. q[k][2] \in Sessions
      BY <1>5 DEF Msg, Commands, Callbacks
    <3>3. q[k][2] # s
      BY <1>1, <1>2, <3>1 DEF ServiceInv, CallbacksAt
    <3>4. act[q[k][2]] = "destroying"
      BY <3>1 DEF ServiceInv, CallbacksAt
    <3>5. q[k][2] \in items
      BY <3>2, <3>4 DEF ServiceInv, RegistryOK, Registered
    <3> QED
      BY <1>1, <1>6, <3>3, <3>5
  <2>2. isServiceRunning => ~fgRequired
    <3> SUFFICES ASSUME isServiceRunning, fgRequired PROVE FALSE
      OBVIOUS
    <3>1. HasDestroy(inbox) /\ Sealed(inbox, ~isServiceRunning \/ fgRequired)
      BY DEF ServiceInv, OwedOK
    <3>2. PICK j \in 1..Len(inbox) : inbox[j][1] = "DESTROY"
      BY <3>1 DEF HasDestroy
    <3>3. Head(inbox) = inbox[1] /\ 1 \in 1..(j - 1)
      BY <1>1, <3>2, TailQueue
    <3> QED
      BY <1>1, <3>1, <3>2, <3>3 DEF Sealed
  <2>3. /\ inbox' \in Seq(Msg) /\ OwedOK(inbox)'
        /\ \/ inbox' = q
           \/ inbox' = Append(q, <<"STOP", "service">>)
           \/ inbox' = Append(q, <<"DESTROY", "service">>)
    BY <1>1, <1>5, <1>6, <2>1, <2>2, StopOwes
  <2>4. /\ CallbacksAt(Append(q, <<"STOP", "service">>), act')
        /\ CallbacksAt(Append(q, <<"DESTROY", "service">>), act')
    BY <1>4, <1>5, CommandIsMsg, CallbacksAppend DEF Commands
  <2>5. CallbacksAt(inbox, act)'
    BY <1>4, <2>3, <2>4
  <2>6. activeIds' = {}
    BY <1>1, <1>6 DEF ServiceInv, SessionsOK
  <2>7. CoverOK(inbox)'
    BY <2>6 DEF CoverOK
  <2> QED
    BY <2>3, <2>5, <2>7 DEF InboxOK
<1>7. CASE inbox' = q /\ ServiceKept
  <2>1. UNCHANGED <<isServiceRunning, record, fgRequired, foreground, denied>>
    BY <1>7 DEF ServiceKept, flags, system
  <2>2. OwedOK(inbox)'
    BY <1>5, <1>7, <2>1 DEF OwedOK
  <2>3. CoverOK(inbox)'
    BY <1>1, <1>5, <1>7, <2>1 DEF ServiceInv, CoverOK, Pending
  <2> QED
    BY <1>4, <1>5, <1>7, <2>2, <2>3 DEF InboxOK
<1> QED
  BY <1>6, <1>7 DEF onDestroy
\* The effect of a session's screen, and performDisconnect: the screen is shown,
\* so no start is refused and the service is never given up at once.
LEMMA ScreenStep ==
    ASSUME ServiceInv, NEW s \in Sessions, ServiceEffect(s) \/ performDisconnect(s)
    PROVE  InboxOK'
<1>1. /\ inbox \in Seq(Msg) /\ FlagsOK /\ OwedOK(inbox) /\ CallbacksAt(inbox, act)
      /\ activeIds \subseteq items
  BY DEF ServiceInv, SessionsOK
<1>2. \A t \in Sessions : act'[t] = act[t] \/ (act[t] = "live" /\ act'[t] = "finishing")
  BY DEF ServiceInv, SessionsOK, ServiceEffect, performDisconnect, kill
<1>3. CallbacksAt(inbox, act')
  BY <1>1, <1>2, CallbacksKept
<1>4. TRUE \notin Refusals
  <2>1. shown[s] /\ shown' = shown
    BY DEF ServiceEffect, performDisconnect
  <2> QED
    BY <2>1 DEF Refusals
<1>5. CASE start(inbox, "START")
  <2>1. "START" \in Commands
    BY DEF Commands
  <2>2. /\ inbox' \in Seq(Msg) /\ OwedOK(inbox)'
        /\ ~denied' => record' /\ Pending(inbox)'
        /\ inbox' = inbox \/ inbox' = Append(inbox, <<"START", "service">>)
    BY <1>1, <1>5, <2>1, StartOwes
  <2>3. CoverOK(inbox)'
    BY <2>2 DEF CoverOK
  <2>4. CallbacksAt(Append(inbox, <<"START", "service">>), act')
    BY <1>1, <1>3, <2>1, CommandIsMsg, CallbacksAppend
  <2>5. CallbacksAt(inbox, act)'
    BY <1>3, <2>2, <2>4
  <2> QED
    BY <2>2, <2>3, <2>5 DEF InboxOK
<1>6. CASE activeIds' = {} /\ stop(inbox)
  <2>1. /\ inbox' \in Seq(Msg) /\ OwedOK(inbox)'
        /\ \/ inbox' = inbox
           \/ inbox' = Append(inbox, <<"STOP", "service">>)
           \/ inbox' = Append(inbox, <<"DESTROY", "service">>)
    BY <1>1, <1>4, <1>6, StopOwes
  <2>2. /\ CallbacksAt(Append(inbox, <<"STOP", "service">>), act')
        /\ CallbacksAt(Append(inbox, <<"DESTROY", "service">>), act')
    BY <1>1, <1>3, CommandIsMsg, CallbacksAppend DEF Commands
  <2>3. CallbacksAt(inbox, act)'
    BY <1>3, <2>1, <2>2
  <2>4. CoverOK(inbox)'
    BY <1>6 DEF CoverOK
  <2> QED
    BY <2>1, <2>3, <2>4 DEF InboxOK
<1>7. CASE activeIds' \subseteq activeIds /\ UNCHANGED inbox /\ ServiceKept
  <2>1. UNCHANGED <<isServiceRunning, record, fgRequired, foreground, denied>>
    BY <1>7 DEF ServiceKept, flags, system
  <2>2. OwedOK(inbox)'
    BY <1>1, <1>7, <2>1 DEF OwedOK
  <2>3. CoverOK(inbox)'
    BY <1>7, <2>1 DEF ServiceInv, CoverOK, Pending
  <2> QED
    BY <1>1, <1>3, <1>7, <2>2, <2>3 DEF InboxOK
<1> QED
  BY <1>1, <1>5, <1>6, <1>7 DEF ServiceEffect, performDisconnect

\* What happens to a session, and what the activity manager sends.
LEMMA OutsideStep ==
    ASSUME ServiceInv, UNCHANGED <<flags, system, registry>>,
           \/ /\ inbox' = inbox
              /\ \A t \in Sessions : act'[t] = act[t] \/ (act[t] = "live" /\ act'[t] = "finishing")
           \/ \E c \in Commands : inbox' = Append(inbox, <<c, "service">>) /\ act' = act
           \/ \E s \in Sessions, c \in Callbacks :
                  /\ inbox' = Append(inbox, <<c, s>>)
                  /\ \A t \in Sessions : t # s => act'[t] = act[t]
                  /\ \A i \in DOMAIN inbox : inbox[i][2] # s
                  /\ c = "onCreate" => act'[s] = "opening"
                  /\ c = "onDestroy" => act'[s] = "destroying"
                  /\ c \in {"onStart", "onStop"} => act'[s] \in {"live", "finishing"}
    PROVE  InboxOK'
<1>1. /\ inbox \in Seq(Msg) /\ DOMAIN inbox = 1..Len(inbox) /\ FlagsOK /\ OwedOK(inbox)
      /\ CallbacksAt(inbox, act)
  BY DEF ServiceInv
<1>2. UNCHANGED <<isServiceRunning, record, fgRequired, foreground, denied, activeIds>>
  BY DEF flags, system, registry
<1>3. ASSUME NEW q \in Seq(Msg), inbox' = q, OwedOK(q), Pending(inbox) => Pending(q),
             CallbacksAt(q, act')
      PROVE  InboxOK'
  <2>1. OwedOK(inbox)'
    BY <1>2, <1>3 DEF OwedOK
  <2>2. CoverOK(inbox)'
    BY <1>2, <1>3 DEF ServiceInv, CoverOK, Pending
  <2> QED
    BY <1>3, <2>1, <2>2 DEF InboxOK
<1>4. CASE /\ inbox' = inbox
           /\ \A t \in Sessions : act'[t] = act[t] \/ (act[t] = "live" /\ act'[t] = "finishing")
  <2>1. CallbacksAt(inbox, act')
    BY <1>1, <1>4, CallbacksKept
  <2> QED
    BY <1>1, <1>3, <1>4, <2>1
<1>5. ASSUME NEW m \in Msg, m[1] # "DESTROY", inbox' = Append(inbox, m),
             CallbacksAt(Append(inbox, m), act')
      PROVE  InboxOK'
  <2>1. /\ Append(inbox, m) \in Seq(Msg) /\ OwedOK(Append(inbox, m))
        /\ Pending(inbox) => Pending(Append(inbox, m))
    BY <1>1, <1>5, AppendQueue, OwedAppend, PendingAppend
  <2> QED
    BY <1>3, <1>5, <2>1
<1>6. ASSUME NEW c \in Commands, inbox' = Append(inbox, <<c, "service">>), act' = act
      PROVE  InboxOK'
  <2>1. /\ <<c, "service">> \in Msg /\ <<c, "service">>[1] # "DESTROY"
        /\ <<c, "service">>[1] \notin Callbacks
    BY CommandIsMsg
  <2>2. CallbacksAt(Append(inbox, <<c, "service">>), act')
    BY <1>1, <1>6, <2>1, CallbacksAppend
  <2> QED
    BY <1>5, <1>6, <2>1, <2>2
<1>7. ASSUME NEW s \in Sessions, NEW c \in Callbacks,
             /\ inbox' = Append(inbox, <<c, s>>)
             /\ \A t \in Sessions : t # s => act'[t] = act[t]
             /\ \A i \in DOMAIN inbox : inbox[i][2] # s
             /\ c = "onCreate" => act'[s] = "opening"
             /\ c = "onDestroy" => act'[s] = "destroying"
             /\ c \in {"onStart", "onStop"} => act'[s] \in {"live", "finishing"}
      PROVE  InboxOK'
  <2>1. <<c, s>> \in Msg /\ <<c, s>>[1] # "DESTROY"
    BY DEF Msg, Callbacks
  <2>2. CallbacksAt(Append(inbox, <<c, s>>), act')
    <3>1. \A i \in 1..Len(inbox) : inbox[i][2] # s
      BY <1>1, <1>7
    <3>2. \A t \in Sessions : t # s => act'[t] = act[t]
      BY <1>7
    <3>3. /\ c = "onCreate" => act'[s] = "opening"
          /\ c = "onDestroy" => act'[s] = "destroying"
          /\ c \in {"onStart", "onStop"} => act'[s] \in {"live", "finishing"}
      BY <1>7
    <3> QED
      BY <1>1, <3>1, <3>2, <3>3, CallbacksSchedule
  <2> QED
    BY <1>5, <1>7, <2>1, <2>2
<1> QED
  BY <1>4, <1>6, <1>7

\* The sessions' own steps and the notification, as OutsideStep has them.
LEMMA OthersStep ==
    ASSUME ServiceInv, NEW s \in Sessions,
           \/ Open(s) \/ Leave(s) \/ Return(s) \/ Destroy(s) \/ Exit(s) \/ LinkChanges(s)
           \/ \E c \in {"STOP_ALL", "HOME"} : TapNotification(c)
    PROVE  InboxOK'
<1> USE DEF ServiceInv, SessionsOK
<1>1. CASE Open(s)
  <2>1. "onCreate" \in Callbacks
    BY DEF Callbacks
  <2> QED
    BY <1>1, <2>1, OutsideStep DEF Open, Schedule
<1>2. CASE Leave(s)
  <2>1. "onStop" \in Callbacks
    BY DEF Callbacks
  <2> QED
    BY <1>2, <2>1, OutsideStep DEF Leave, Schedule
<1>3. CASE Return(s)
  <2>1. "onStart" \in Callbacks
    BY DEF Callbacks
  <2> QED
    BY <1>3, <2>1, OutsideStep DEF Return, Schedule
<1>4. CASE Destroy(s)
  <2>1. "onDestroy" \in Callbacks
    BY DEF Callbacks
  <2> QED
    BY <1>4, <2>1, OutsideStep DEF Destroy, Schedule
<1>5. CASE Exit(s)
  BY <1>5, OutsideStep DEF Exit, kill
<1>6. CASE LinkChanges(s)
  BY <1>6, OutsideStep DEF LinkChanges
<1>7. ASSUME NEW c \in {"STOP_ALL", "HOME"}, TapNotification(c) PROVE InboxOK'
  <2>1. c \in Commands
    BY DEF Commands
  <2> QED
    BY <1>7, <2>1, OutsideStep DEF TapNotification, session
<1> QED
  BY <1>1, <1>2, <1>3, <1>4, <1>5, <1>6, <1>7

-----------------------------------------------------------------------------

\* ServiceInv holds throughout.
THEOREM ServiceInvariant == Spec => []ServiceInv
<1>1. Init => ServiceInv
  <2> SUFFICES ASSUME Init PROVE ServiceInv
    OBVIOUS
  <2>1. FlagsOK
    BY Zenon DEF Init, FlagsOK, SystemOK
  <2>2. SessionsOK /\ RegistryOK
    BY DEF Init, SessionsOK, RegistryOK, Registered
  <2>3. inbox \in Seq(Msg) /\ Len(inbox) = 0
    BY DEF Init
  <2>4. CallbacksAt(inbox, act) /\ Sealed(inbox, ~isServiceRunning \/ fgRequired)
    BY <2>3 DEF CallbacksAt, Sealed
  <2>5. OwedOK(inbox) /\ CoverOK(inbox)
    BY <2>4 DEF Init, OwedOK, CoverOK
  <2> QED
    BY <2>1, <2>2, <2>3, <2>4, <2>5 DEF ServiceInv
<1>2. ServiceInv /\ [Next]_vars => ServiceInv'
  <2> SUFFICES ASSUME ServiceInv, [Next]_vars PROVE ServiceInv'
    OBVIOUS
  <2>1. CASE Next
    <3>1. FlagsOK' /\ SessionsOK' /\ RegistryOK'
      BY <2>1, FlagsStep, SessionsStep DEF ServiceInv
    <3>2. InboxOK'
      <4>1. CASE \E c \in {"STOP_ALL", "HOME"} : TapNotification(c)
        <5>1. PICK c \in {"STOP_ALL", "HOME"} : TapNotification(c)
          BY <4>1
        <5>2. c \in Commands
          BY DEF Commands
        <5> QED
          BY <5>1, <5>2, OutsideStep DEF TapNotification, session
      <4> QED
        BY <2>1, <4>1, CommandStep, DestroyStep, CallbackStep, EndStep, ScreenStep, OthersStep
        DEF Next, Main
    <3> QED
      BY <3>1, <3>2 DEF ServiceInv, InboxOK
  <2>2. CASE UNCHANGED vars
    BY <2>2 DEF vars, flags, system, registry, session, ServiceInv, FlagsOK, SystemOK, SessionsOK,
                RegistryOK, OwedOK, CoverOK, Pending
  <2> QED
    BY <2>1, <2>2
<1> QED
  BY <1>1, <1>2, PTL DEF Spec

\* The flags, the registry, the sessions and the messages keep their types, and
\* an active session is a registered one.
THEOREM ServiceTypes == Spec => []TypeOK
<1>1. ServiceInv => TypeOK
  <2> SUFFICES ASSUME ServiceInv PROVE TypeOK
    OBVIOUS
  <2>1. {keepAlive, isServiceRunning, pendingForegroundStart, stopRequestedWhileStarting,
         record, fgRequired, foreground, denied, late} \subseteq BOOLEAN
    BY Zenon DEF ServiceInv, FlagsOK, SystemOK
  <2>2. {user[s] : s \in Sessions} \cup {shown[s] : s \in Sessions} \subseteq BOOLEAN
    BY DEF ServiceInv, SessionsOK
  <2>3. \A i \in DOMAIN inbox : inbox[i] \in Msg
    BY DEF ServiceInv
  <2> QED
    BY <2>1, <2>2, <2>3 DEF ServiceInv, SessionsOK, TypeOK, Msg
<1> QED
  BY <1>1, ServiceInvariant, PTL

\* The service is never stopped while it owes Android a startForeground(): what
\* stopSelf() ends has been promoted, and what stopService() gives up is running
\* and owes nothing, however many older services are still to be destroyed.
THEOREM ForegroundKept == Spec => []ForegroundContract
<1>1. ServiceInv => ForegroundContract
  BY DEF ServiceInv, OwedOK, ForegroundContract
<1> QED
  BY <1>1, ServiceInvariant, PTL

\* Once the commands are handled, an active session has the foreground service,
\* unless Android refused the last start.
THEOREM ActiveIsCovered == Spec => []Covered
<1>1. ServiceInv => Covered
  <2> SUFFICES ASSUME ServiceInv, inbox = <<>>, ~denied, NEW s \in activeIds
               PROVE  record /\ foreground
    BY DEF Covered
  <2>1. record /\ (foreground \/ Pending(inbox))
    BY DEF ServiceInv, CoverOK
  <2>2. ~Pending(inbox)
    BY DEF Pending
  <2> QED
    BY <2>1, <2>2
<1> QED
  BY <1>1, ServiceInvariant, PTL
=============================================================================
