----------------------------- MODULE InputFifo -----------------------------
(***************************************************************************)
(* What the input queue promises: a first-in first-out queue of events     *)
(* whose last element absorbs a new event that merges with it.  It has no  *)
(* capacity, no array and no wake-up event.                                *)
(***************************************************************************)
EXTENDS InputEvents

VARIABLES q,      \* events waiting, oldest first
          sent,   \* events handed to the RDP connection, oldest first
          live    \* the queue exists

Enqueue(s, e) ==
    IF s # <<>> /\ Mergeable(s[Len(s)], e)
    THEN [s EXCEPT ![Len(s)] = Merge(s[Len(s)], e)]
    ELSE Append(s, e)

FifoInit == q = <<>> /\ sent = <<>> /\ live = TRUE

Accept(e) ==
    /\ live
    /\ q' = Enqueue(q, e)
    /\ UNCHANGED <<sent, live>>

Deliver ==
    /\ live
    /\ q # <<>>
    /\ sent' = Append(sent, Head(q))
    /\ q' = Tail(q)
    /\ UNCHANGED live

\* The session is over: what was not sent is dropped, and nothing follows.
Drop ==
    /\ live
    /\ live' = FALSE
    /\ q' = <<>>
    /\ UNCHANGED sent

FifoNext == (\E e \in Event : Accept(e)) \/ Deliver \/ Drop

FifoSpec == FifoInit /\ [][FifoNext]_<<q, sent, live>>
=============================================================================
