-------------------------- MODULE AndroidEventQueue --------------------------
(***************************************************************************)
(* android_event.c: the growing ring buffer between the threads that make  *)
(* input (UI, clipboard) and the RDP thread that drains it, and the        *)
(* manual-reset event isSet that wakes the RDP thread.                     *)
(*                                                                         *)
(* A push or a pop holds the queue's critical section and is one action.   *)
(* The RDP thread's test of isSet, its ResetEvent and each of its pops are *)
(* separate steps: isSet is reset outside the lock.                        *)
(***************************************************************************)
EXTENDS InputEvents

CONSTANTS InitialSize,  \* 16 in the source
          Growth,       \* 128 in the source
          MaxSize,      \* INT_MAX
          Null,         \* an empty slot
          MaxPush       \* bound: pushes in a behaviour

ASSUME SizeAssumption ==
    /\ InitialSize \in Nat \ {0}
    /\ Growth \in Nat \ {0}
    /\ MaxSize \in Nat /\ InitialSize <= MaxSize
    /\ MaxPush \in Nat
    /\ Null \notin Event

VARIABLES
    size, count, head,  \* the fields of ANDROID_EVENT_QUEUE
    events,             \* the backing array
    isSet,              \* the wake-up event is signalled
    live,               \* the queue exists: queue_init done, queue_uninit not
    cpc,                \* where the RDP thread is
    sent,               \* events handed to libfreerdp, oldest first
    accepted,           \* history: pushes that returned TRUE, oldest first
    saturated,          \* history: a merge hit the INT16 range
    pushes              \* pushes so far, for the bound

ring == <<size, count, head, events>>
vars == <<ring, isSet, live, cpc, sent, accepted, saturated, pushes>>

\* run: at the top or in the waits of android_freerdp_run.  signalled: the
\* wait in android_check_handle returned WAIT_OBJECT_0.  drain: in the loop of
\* android_process_event.  ended: android_freerdp_run has returned.
ConsumerState == {"run", "signalled", "drain", "ended"}

\* The values the fields can take; head and count stay inside the array, and
\* its size inside an int.
TypeOK ==
    /\ size \in Nat /\ size <= MaxSize
    /\ count \in 0..size
    /\ IF live THEN head \in 0..(size - 1) ELSE head = 0 /\ count = 0
    /\ events \in [0..(size - 1) -> Event \cup {Null}]
    /\ isSet \in BOOLEAN
    /\ live \in BOOLEAN
    /\ cpc \in ConsumerState
    /\ sent \in Seq(Event)
    /\ accepted \in Seq(Event)
    /\ saturated \in BOOLEAN
    /\ pushes \in Nat

\* android_event_queue_init, which freerdp_new runs before a thread exists.
Init ==
    /\ size = InitialSize
    /\ count = 0
    /\ head = 0
    /\ events = [i \in 0..(InitialSize - 1) |-> Null]
    /\ isSet = FALSE
    /\ live = TRUE
    /\ cpc = "run"
    /\ sent = <<>>
    /\ accepted = <<>>
    /\ saturated = FALSE
    /\ pushes = 0

-----------------------------------------------------------------------------
(* The ring.                                                               *)

Slot(i) == (head + i) % size

\* The queued events, oldest first.
Queued == [i \in 1..count |-> events[Slot(i - 1)]]

MergesWithTail(e) == count > 0 /\ Mergeable(events[Slot(count - 1)], e)

\* A plausible bug: the slots are copied as they lie, and head is set to 0.
Grown_NotLinear(i) == IF i < count THEN events[i] ELSE Null

\* Slot i of the array after it grew: the queue starts at slot 0 again.
Grown(i) == IF i < count THEN events[Slot(i)] ELSE Null

-----------------------------------------------------------------------------
(* android_push_event.  A push that returns FALSE leaves the event with    *)
(* its caller, which frees it: the event is not queued.                    *)

CountPush == pushes < MaxPush /\ pushes' = pushes + 1

Accepted(e) == accepted' = Append(accepted, e)

PushMerges(e) ==
    LET last == events[Slot(count - 1)]
    IN  /\ live
        /\ CountPush
        /\ MergesWithTail(e)
        /\ isSet' = TRUE
        /\ events' = [events EXCEPT ![Slot(count - 1)] = Merge(last, e)]
        /\ saturated' = (saturated \/ (e.type = "rel" /\ last.val + e.val \notin Lo..Hi))
        /\ Accepted(e)
        /\ UNCHANGED <<size, count, head, live, cpc, sent>>

\* There is room.
PushAppends(e) ==
    /\ live
    /\ CountPush
    /\ ~MergesWithTail(e)
    /\ count < size
    /\ isSet' = TRUE
    /\ events' = [events EXCEPT ![Slot(count)] = e]
    /\ count' = count + 1
    /\ Accepted(e)
    /\ UNCHANGED <<size, head, live, cpc, sent, saturated>>

\* A plausible bug: the slot keeps the pointer its caller frees.
RolledBack_Not(array, i) == array

\* The array after SetEvent has failed with the event stored in slot i.
RolledBack(array, i) == [array EXCEPT ![i] = Null]

\* There is room, the event is stored, and SetEvent fails.
PushRollsBack(e) ==
    /\ live
    /\ CountPush
    /\ ~MergesWithTail(e)
    /\ count < size
    /\ events' = RolledBack([events EXCEPT ![Slot(count)] = e], Slot(count))
    /\ UNCHANGED <<size, count, head, isSet, live, cpc, sent, accepted, saturated>>

\* The array is full and can grow: ok says whether the SetEvent after the
\* growth succeeds.  When it does not, the larger array stays.
PushGrows(e, ok) ==
    LET stored == [i \in 0..(size + Growth - 1) |-> IF i = count THEN e ELSE Grown(i)]
    IN  /\ live
        /\ CountPush
        /\ ~MergesWithTail(e)
        /\ count = size
        /\ size + Growth <= MaxSize
        /\ size' = size + Growth
        /\ head' = 0
        /\ events' = IF ok THEN stored ELSE RolledBack(stored, count)
        /\ IF ok
           THEN isSet' = TRUE /\ count' = count + 1 /\ Accepted(e)
           ELSE UNCHANGED <<isSet, count, accepted>>
        /\ UNCHANGED <<live, cpc, sent, saturated>>

\* The pushes that give up before they store anything: SetEvent, which comes
\* before a merge, fails; or the array is full and it may not grow any further
\* or calloc fails.
PushRefused(e) ==
    /\ live
    /\ CountPush
    /\ MergesWithTail(e) \/ count = size
    /\ UNCHANGED <<ring, isSet, live, cpc, sent, accepted, saturated>>

-----------------------------------------------------------------------------
(* The RDP thread: android_check_handle and android_process_event.         *)

CheckSignalled ==
    /\ cpc = "run"
    /\ isSet
    /\ cpc' = "signalled"
    /\ UNCHANGED <<ring, isSet, live, sent, accepted, saturated, pushes>>

Reset ==
    /\ cpc = "signalled"
    /\ isSet' = FALSE
    /\ cpc' = "drain"
    /\ UNCHANGED <<ring, live, sent, accepted, saturated, pushes>>

\* A plausible bug: the head is not wrapped at the end of the array.
NextHead_NoWrap == head + 1

NextHead == (head + 1) % size

\* A plausible bug: one event is processed per signal.
AfterPop_Returns == "run"

\* The loop of android_process_event goes on.
AfterPop == "drain"

\* android_pop_event, and the event is handed to libfreerdp.
Pop ==
    /\ cpc = "drain"
    /\ count > 0
    /\ sent' = Append(sent, events[head])
    /\ events' = [events EXCEPT ![head] = Null]
    /\ head' = NextHead
    /\ count' = count - 1
    /\ cpc' = AfterPop
    /\ UNCHANGED <<size, isSet, live, accepted, saturated, pushes>>

\* The pop that finds the queue empty ends the drain.
Drained ==
    /\ cpc = "drain"
    /\ count = 0
    /\ cpc' = "run"
    /\ UNCHANGED <<ring, isSet, live, sent, accepted, saturated, pushes>>

\* android_freerdp_run returns: the context shall disconnect, a wait failed,
\* or ResetEvent failed in android_check_handle.
ConsumerEnds ==
    /\ cpc \in {"run", "signalled"}
    /\ cpc' = "ended"
    /\ UNCHANGED <<ring, isSet, live, sent, accepted, saturated, pushes>>

\* android_event_queue_uninit.  The instance is freed only after its thread
\* has ended (NoFreeUnderThread of SessionManager).
Uninit ==
    /\ live
    /\ cpc = "ended"
    /\ live' = FALSE
    /\ size' = 0
    /\ count' = 0
    /\ head' = 0
    /\ events' = [i \in 0..(0 - 1) |-> Null]
    /\ isSet' = FALSE
    /\ UNCHANGED <<cpc, sent, accepted, saturated, pushes>>

-----------------------------------------------------------------------------

Push ==
    \E e \in Event :
        \/ PushMerges(e)
        \/ PushAppends(e)
        \/ PushRollsBack(e)
        \/ \E ok \in BOOLEAN : PushGrows(e, ok)
        \/ PushRefused(e)

Drain == CheckSignalled \/ Reset \/ Pop \/ Drained

Next == Push \/ Drain \/ ConsumerEnds \/ Uninit

Spec == Init /\ [][Next]_vars

\* The RDP thread runs its loop; WaitForMultipleObjects returns once isSet is
\* signalled.  Nothing obliges anyone to push or the session to end.
FairSpec == Spec /\ WF_vars(Drain)

-----------------------------------------------------------------------------
(* Properties.                                                             *)

\* The slots of the queued events hold events and all others are empty, also
\* after wrap-around, growth and a rolled-back push: android_event_free releases
\* what was not sent and nothing that a failed push left with its caller.
SlotsExact ==
    \A i \in 0..(size - 1) :
        (events[Slot(i)] # Null) <=> (i < count)

\* isSet is reset outside the lock, before the drain: while the RDP thread is
\* not draining, a waiting event always has its wake-up signal.
NoLostWakeup == count > 0 /\ cpc # "drain" => isSet

\* The abstract queue holds what the slots from head on hold.
Fifo == INSTANCE InputFifo WITH q <- Queued

\* The ring buffer implements the first-in first-out queue that merges at its
\* end: no order of pushes, pops, growth and failures loses, repeats or
\* reorders an event.
RefinesFifo == Fifo!FifoSpec

\* What a sequence of events does: the position it leaves the pointer at, the
\* total relative travel, and both again at the moment of each discrete event.
NoPos == <<>>
Nothing == [pos |-> NoPos, travel |-> 0, seen |-> <<>>, marks |-> <<>>]
Apply(eff, e) ==
    CASE e.type = "move" -> [eff EXCEPT !.pos = e.val]
      [] e.type = "rel" -> [eff EXCEPT !.travel = @ + e.val]
      [] e.type = "discrete" -> [eff EXCEPT !.seen = Append(@, <<e.val, eff.pos>>),
                                            !.marks = Append(@, eff.travel)]
Effect(s) ==
    LET eff[i \in 0..Len(s)] == IF i = 0 THEN Nothing ELSE Apply(eff[i - 1], s[i])
    IN  eff[Len(s)]

\* Merging drops stale positions only: every key, click or disconnect that was
\* accepted arrives once, in order, with the pointer where it was when the event
\* was made, and the travel in between is kept in total unless a sum left the
\* INT16 range.
InputPreserved ==
    live => LET got  == Effect(sent \o Queued)
                want == Effect(accepted)
            IN  /\ got.pos = want.pos
                /\ got.seen = want.seen
                /\ ~saturated => got = want

\* Every queued event is sent unless the session ends, however fast others are
\* pushed behind it.
AllSent ==
    \A n \in 1..MaxPush :
        (Len(sent) + count >= n) ~> (Len(sent) >= n \/ cpc = "ended")
=============================================================================
