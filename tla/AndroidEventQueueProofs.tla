----------------------- MODULE AndroidEventQueueProofs -----------------------
(***************************************************************************)
(* The ring buffer of android_event.c implements a first-in first-out      *)
(* queue, for every initial size, growth, limit and kind of events.        *)
(***************************************************************************)
EXTENDS AndroidEventQueue, TLAPS

\* The index arithmetic of the ring, without the modulus.
LEMMA WrapOnce ==
    ASSUME NEW n \in Nat \ {0}, NEW x \in Nat, x < 2 * n
    PROVE  x % n = IF x < n THEN x ELSE x - n
<1>1. CASE x < n
  BY <1>1
<1>2. CASE x >= n
  <2>1. x - n \in 0..(n - 1) /\ x = 1 * n + (x - n)
    BY <1>2
  <2> QED
    BY <1>2, <2>1
<1> QED
  BY <1>1, <1>2

\* Two sequences that agree everywhere are equal.
LEMMA SameSeq ==
    ASSUME NEW S, NEW s \in Seq(S), NEW t \in Seq(S), Len(s) = Len(t),
           \A i \in 1..Len(s) : s[i] = t[i]
    PROVE  s = t
OBVIOUS

\* Append as a function.
LEMMA AppendIs ==
    ASSUME NEW S, NEW s \in Seq(S), NEW e \in S
    PROVE  Append(s, e) = [i \in 1..(Len(s) + 1) |-> IF i = Len(s) + 1 THEN e ELSE s[i]]
<1> DEFINE t == [i \in 1..(Len(s) + 1) |-> IF i = Len(s) + 1 THEN e ELSE s[i]]
<1>1. t \in Seq(S) /\ Len(t) = Len(s) + 1
  OBVIOUS
<1>2. Append(s, e) \in Seq(S) /\ Len(Append(s, e)) = Len(s) + 1
  OBVIOUS
<1>3. \A i \in 1..(Len(s) + 1) : Append(s, e)[i] = t[i]
  OBVIOUS
<1> HIDE DEF t
<1>4. Append(s, e) = t
  BY <1>1, <1>2, <1>3, SameSeq
<1> QED
  BY <1>4 DEF t

\* Tail as a function.
LEMMA TailIs ==
    ASSUME NEW S, NEW s \in Seq(S), s # <<>>
    PROVE  Tail(s) = [i \in 1..(Len(s) - 1) |-> s[i + 1]]
<1> DEFINE t == [i \in 1..(Len(s) - 1) |-> s[i + 1]]
<1>1. t \in Seq(S) /\ Len(t) = Len(s) - 1
  OBVIOUS
<1>2. Tail(s) \in Seq(S) /\ Len(Tail(s)) = Len(s) - 1
  OBVIOUS
<1>3. \A i \in 1..(Len(s) - 1) : Tail(s)[i] = t[i]
  OBVIOUS
<1> HIDE DEF t
<1>4. Tail(s) = t
  BY <1>1, <1>2, <1>3, SameSeq
<1> QED
  BY <1>4 DEF t

\* The slot of a position, without the modulus, is in the array.
LEMMA SlotRange ==
    ASSUME TypeOK, live, NEW i \in 0..size
    PROVE  /\ Slot(i) = IF head + i < size THEN head + i ELSE head + i - size
           /\ Slot(i) \in 0..(size - 1)
<1>1. size \in Nat \ {0} /\ head + i \in Nat /\ head + i < 2 * size /\ head \in 0..(size - 1)
  BY DEF TypeOK
<1>2. (head + i) % size = IF head + i < size THEN head + i ELSE head + i - size
  <2> DEFINE x == head + i
  <2>1. x \in Nat /\ x < 2 * size
    BY <1>1
  <2> HIDE DEF x
  <2>2. x % size = IF x < size THEN x ELSE x - size
    BY <1>1, <2>1, WrapOnce
  <2> QED
    BY <1>1, <2>1, <2>2 DEF x
<1>3. Slot(i) = IF head + i < size THEN head + i ELSE head + i - size
  BY <1>2 DEF Slot
<1> QED
  BY <1>1, <1>3

\* Different positions of the queue are different slots.
LEMMA SlotInjective ==
    ASSUME TypeOK, live, NEW i \in 0..(size - 1), NEW j \in 0..(size - 1), i # j
    PROVE  Slot(i) # Slot(j)
<1>1. size \in Nat /\ head \in 0..(size - 1)
  BY DEF TypeOK
<1>2. /\ Slot(i) = IF head + i < size THEN head + i ELSE head + i - size
      /\ Slot(j) = IF head + j < size THEN head + j ELSE head + j - size
  BY <1>1, SlotRange
<1> QED
  BY <1>1, <1>2

\* Every slot is the slot of a position.
LEMMA SlotOnto ==
    ASSUME TypeOK, live, NEW k \in 0..(size - 1)
    PROVE  \E i \in 0..(size - 1) : Slot(i) = k
<1>0. size \in Nat /\ head \in 0..(size - 1)
  BY DEF TypeOK
<1>1. CASE k >= head
  <2>1. k - head \in 0..(size - 1) /\ Slot(k - head) = k
    BY <1>0, <1>1, SlotRange
  <2> QED
    BY <2>1
<1>2. CASE k < head
  <2>1. k - head + size \in 0..(size - 1) /\ Slot(k - head + size) = k
    BY <1>0, <1>2, SlotRange
  <2> QED
    BY <2>1
<1> QED
  BY <1>0, <1>1, <1>2

\* Merging two events of the same kind of motion gives an event.
LEMMA MergeType ==
    ASSUME NEW l \in Event, NEW e \in Event, Mergeable(l, e)
    PROVE  Merge(l, e) \in Event
<1>1. CASE e.type = "move"
  BY <1>1 DEF Merge
<1>2. CASE e.type = "rel"
  <2>1. /\ e \in [type : {"rel"}, val : Lo..Hi]
        /\ l.val \in Lo..Hi
    BY <1>2 DEF Event, Mergeable
  <2>2. Saturate(l.val + e.val) \in Lo..Hi
    BY <2>1, RangeAssumption DEF Saturate
  <2>3. Merge(l, e) = [e EXCEPT !.val = Saturate(l.val + e.val)]
    BY <1>2 DEF Merge
  <2>4. Merge(l, e) \in [type : {"rel"}, val : Lo..Hi]
    BY <2>1, <2>2, <2>3
  <2> QED
    BY <2>4 DEF Event
<1> QED
  BY <1>1, <1>2 DEF Mergeable

\* The queued events are events.
LEMMA QueuedType ==
    ASSUME TypeOK, SlotsExact
    PROVE  /\ Queued \in Seq(Event)
           /\ Len(Queued) = count
           /\ \A i \in 1..count : /\ Queued[i] = events[Slot(i - 1)]
                                  /\ live /\ i - 1 \in 0..(size - 1)
<1>0. count \in Nat
  BY DEF TypeOK
<1>1. ASSUME NEW i \in 1..count
      PROVE  live /\ i - 1 \in 0..(size - 1) /\ events[Slot(i - 1)] \in Event
  <2>1. live /\ i - 1 \in 0..(size - 1)
    BY <1>1 DEF TypeOK
  <2>2. events[Slot(i - 1)] # Null
    <3>1. \A j \in 0..(size - 1) : j < count => events[Slot(j)] # Null
      BY DEF SlotsExact
    <3> QED
      BY <1>0, <1>1, <2>1, <3>1
  <2>3. Slot(i - 1) \in 0..(size - 1)
    <3>1. i - 1 \in 0..size
      BY <2>1 DEF TypeOK
    <3> QED
      BY <2>1, <3>1, SlotRange
  <2>4. events \in [0..(size - 1) -> Event \cup {Null}]
    BY DEF TypeOK
  <2> QED
    BY <2>1, <2>2, <2>3, <2>4
<1> QED
  BY <1>0, <1>1 DEF Queued

-----------------------------------------------------------------------------
(* The inductive invariant, and one lemma per action that changes the      *)
(* ring: it keeps the slots exact and does to Queued what the abstract     *)
(* queue does.                                                             *)

RInv == TypeOK /\ SlotsExact /\ NoLostWakeup

\* The abstract queue merges as the ring does.
LEMMA SameMerge ==
    /\ \A l, e : Fifo!Mergeable(l, e) <=> Mergeable(l, e)
    /\ \A l, e : Fifo!Merge(l, e) = Merge(l, e)
    /\ Fifo!Event = Event
BY DEF Fifo!Mergeable, Mergeable, Fifo!Merge, Merge, Fifo!Saturate, Saturate, Fifo!Event, Event

\* A push that merges changes the last queued event only.
LEMMA PushMergesStep ==
    ASSUME RInv, NEW e \in Event, PushMerges(e)
    PROVE  TypeOK' /\ SlotsExact' /\ Queued' = Fifo!Enqueue(Queued, e)
<1> DEFINE k == Slot(count - 1)
<1>1. /\ TypeOK /\ SlotsExact /\ live /\ count > 0 /\ count - 1 \in 0..(size - 1)
      /\ Mergeable(events[k], e) /\ size \in Nat /\ count \in Nat
  BY DEF RInv, PushMerges, MergesWithTail, TypeOK
<1>2. k \in 0..(size - 1)
  BY <1>1, SlotRange
<1>3. events[k] \in Event /\ events[k] = Queued[count]
  <2>1. Queued \in Seq(Event) /\ Len(Queued) = count /\ Queued[count] = events[k]
    BY <1>1, QueuedType
  <2> QED
    BY <1>1, <2>1
<1>4. Merge(events[k], e) \in Event
  BY <1>1, <1>3, MergeType
<1> DEFINE m == Merge(events[k], e)
<1>5. /\ events' = [events EXCEPT ![k] = m]
      /\ size' = size /\ count' = count /\ head' = head /\ live' = live /\ cpc' = cpc
      /\ sent' = sent /\ accepted' = Append(accepted, e) /\ pushes' = pushes + 1
      /\ isSet' = TRUE
  BY DEF PushMerges, CountPush, Accepted
<1>6. \A i : Slot(i)' = Slot(i)
  BY <1>5 DEF Slot
<1> HIDE DEF k, m
<1>7. TypeOK'
  <2>1. events' \in [0..(size' - 1) -> Event \cup {Null}]
    BY <1>1, <1>2, <1>4, <1>5 DEF TypeOK, m
  <2>2. accepted' \in Seq(Event) /\ pushes' \in Nat
    BY <1>1, <1>5 DEF TypeOK
  <2>3. saturated' \in BOOLEAN
    BY DEF PushMerges
  <2> QED
    BY <1>1, <1>5, <2>1, <2>2, <2>3 DEF TypeOK
<1>8. m # Null /\ events[k] # Null
  BY <1>3, <1>4, SizeAssumption DEF m
<1>9. \A j \in 0..(size - 1) : events'[j] = IF j = k THEN m ELSE events[j]
  BY <1>1, <1>5 DEF TypeOK
<1>10. SlotsExact'
  <2> SUFFICES ASSUME NEW i \in 0..(size - 1)
               PROVE  (events'[Slot(i)] # Null) <=> (i < count)
    BY <1>5, <1>6 DEF SlotsExact
  <2>1. Slot(i) \in 0..(size - 1)
    BY <1>1, SlotRange
  <2>2. (events[Slot(i)] # Null) <=> (i < count)
    BY <1>1 DEF SlotsExact
  <2> QED
    BY <1>8, <1>9, <2>1, <2>2
<1>11. Queued' = Fifo!Enqueue(Queued, e)
  <2>1. /\ Queued \in Seq(Event) /\ Len(Queued) = count
        /\ \A i \in 1..count : Queued[i] = events[Slot(i - 1)] /\ i - 1 \in 0..(size - 1)
    BY <1>1, QueuedType
  <2>2. Queued # <<>> /\ Fifo!Enqueue(Queued, e) = [Queued EXCEPT ![count] = m]
    <3>1. Queued # <<>>
      BY <1>1, <2>1
    <3>2. Fifo!Mergeable(Queued[Len(Queued)], e) /\ Fifo!Merge(Queued[Len(Queued)], e) = m
      BY <1>1, <1>3, <2>1, SameMerge DEF m
    <3> QED
      BY <2>1, <3>1, <3>2 DEF Fifo!Enqueue
  <2>3. Queued' = [i \in 1..count |-> events'[Slot(i - 1)]]
    BY <1>5, <1>6 DEF Queued
  <2>4. ASSUME NEW i \in 1..count
        PROVE  events'[Slot(i - 1)] = IF i = count THEN m ELSE Queued[i]
    <3>1. i - 1 \in 0..(size - 1) /\ Slot(i - 1) \in 0..(size - 1)
      <4>1. i - 1 \in 0..(size - 1)
        BY <2>1
      <4> QED
        BY <1>1, <4>1, SlotRange
    <3>2. CASE i = count
      BY <1>9, <3>1, <3>2 DEF k
    <3>3. CASE i # count
      <4>1. Slot(i - 1) # k
        BY <1>1, <3>1, <3>3, SlotInjective DEF k
      <4> QED
        BY <1>9, <2>1, <3>1, <3>3, <4>1
    <3> QED
      BY <3>2, <3>3
  <2>5. [Queued EXCEPT ![count] = m] = [i \in 1..count |-> IF i = count THEN m ELSE Queued[i]]
    BY DEF Queued
  <2> QED
    BY <2>2, <2>3, <2>4, <2>5
<1> QED
  BY <1>7, <1>10, <1>11

\* An event that does not merge with the last one is appended by the abstract
\* queue.
LEMMA EnqueueAppends ==
    ASSUME TypeOK, SlotsExact, NEW e \in Event, ~MergesWithTail(e)
    PROVE  Fifo!Enqueue(Queued, e) = Append(Queued, e)
<1>1. Queued \in Seq(Event) /\ Len(Queued) = count /\ count \in Nat
  BY QueuedType DEF TypeOK
<1>2. CASE count = 0
  <2>1. Queued = <<>>
    BY <1>1, <1>2
  <2> QED
    BY <2>1 DEF Fifo!Enqueue
<1>3. CASE count > 0
  <2>1. Queued[Len(Queued)] = events[Slot(count - 1)]
    BY <1>1, <1>3, QueuedType
  <2>2. ~Fifo!Mergeable(Queued[Len(Queued)], e)
    BY <1>3, <2>1, SameMerge DEF MergesWithTail
  <2> QED
    BY <2>2 DEF Fifo!Enqueue
<1> QED
  BY <1>1, <1>2, <1>3

\* A push with room fills the one slot behind the last queued event.
LEMMA PushAppendsStep ==
    ASSUME RInv, NEW e \in Event, PushAppends(e)
    PROVE  TypeOK' /\ SlotsExact' /\ Queued' = Fifo!Enqueue(Queued, e)
<1> DEFINE k == Slot(count)
<1>1. /\ TypeOK /\ SlotsExact /\ live /\ count \in 0..(size - 1) /\ ~MergesWithTail(e)
      /\ size \in Nat /\ count \in Nat
  BY DEF RInv, PushAppends, TypeOK
<1>2. k \in 0..(size - 1)
  BY <1>1, SlotRange
<1>3. /\ events' = [events EXCEPT ![k] = e]
      /\ size' = size /\ count' = count + 1 /\ head' = head /\ live' = live /\ cpc' = cpc
      /\ sent' = sent /\ accepted' = Append(accepted, e) /\ pushes' = pushes + 1
      /\ isSet' = TRUE /\ saturated' = saturated
  BY DEF PushAppends, CountPush, Accepted
<1>4. \A i : Slot(i)' = Slot(i)
  BY <1>3 DEF Slot
<1> HIDE DEF k
<1>5. TypeOK'
  <2>1. events' \in [0..(size' - 1) -> Event \cup {Null}]
    BY <1>1, <1>2, <1>3 DEF TypeOK
  <2>2. accepted' \in Seq(Event) /\ pushes' \in Nat
    BY <1>1, <1>3 DEF TypeOK
  <2> QED
    BY <1>1, <1>3, <2>1, <2>2 DEF TypeOK
<1>6. \A j \in 0..(size - 1) : events'[j] = IF j = k THEN e ELSE events[j]
  BY <1>1, <1>3 DEF TypeOK
<1>7. ASSUME NEW i \in 0..(size - 1)
      PROVE  events'[Slot(i)] = IF i = count THEN e ELSE events[Slot(i)]
  <2>1. Slot(i) \in 0..(size - 1)
    BY <1>1, SlotRange
  <2>2. i # count => Slot(i) # k
    BY <1>1, SlotInjective DEF k
  <2> QED
    BY <1>6, <2>1, <2>2 DEF k
<1>8. SlotsExact'
  <2> SUFFICES ASSUME NEW i \in 0..(size - 1)
               PROVE  (events'[Slot(i)] # Null) <=> (i < count + 1)
    BY <1>3, <1>4 DEF SlotsExact
  <2>1. (events[Slot(i)] # Null) <=> (i < count)
    BY <1>1 DEF SlotsExact
  <2>2. e # Null
    BY SizeAssumption
  <2> QED
    BY <1>1, <1>7, <2>1, <2>2
<1>9. Queued' = Fifo!Enqueue(Queued, e)
  <2>1. /\ Queued \in Seq(Event) /\ Len(Queued) = count
        /\ \A i \in 1..count : Queued[i] = events[Slot(i - 1)] /\ i - 1 \in 0..(size - 1)
    BY <1>1, QueuedType
  <2>2. Queued' = [i \in 1..(count + 1) |-> events'[Slot(i - 1)]]
    BY <1>3, <1>4 DEF Queued
  <2>3. ASSUME NEW i \in 1..(count + 1)
        PROVE  events'[Slot(i - 1)] = IF i = count + 1 THEN e ELSE Queued[i]
    <3>1. i - 1 \in 0..(size - 1)
      BY <1>1, <2>3
    <3>2. events'[Slot(i - 1)] = IF i - 1 = count THEN e ELSE events[Slot(i - 1)]
      BY <1>7, <3>1
    <3>3. i # count + 1 => i \in 1..count
      BY <1>1, <2>3
    <3> QED
      BY <1>1, <2>1, <3>2, <3>3
  <2>4. Append(Queued, e) = [i \in 1..(count + 1) |-> IF i = count + 1 THEN e ELSE Queued[i]]
    BY <2>1, AppendIs
  <2>5. Queued' = Append(Queued, e)
    BY <2>2, <2>3, <2>4
  <2> QED
    BY <1>1, <2>5, EnqueueAppends
<1> QED
  BY <1>5, <1>8, <1>9

\* A pop takes the oldest event, empties its slot and moves the head, also
\* across the end of the array.
LEMMA PopStep ==
    ASSUME RInv, Pop
    PROVE  /\ TypeOK' /\ SlotsExact'
           /\ Queued # <<>> /\ sent' = Append(sent, Head(Queued)) /\ Queued' = Tail(Queued)
<1>1. /\ TypeOK /\ SlotsExact /\ live /\ count \in 1..size /\ head \in 0..(size - 1)
      /\ size \in Nat \ {0} /\ count \in Nat
  BY DEF RInv, Pop, AfterPop, TypeOK
<1>2. /\ events' = [events EXCEPT ![head] = Null]
      /\ head' = (head + 1) % size /\ count' = count - 1 /\ size' = size /\ live' = live
      /\ sent' = Append(sent, events[head]) /\ accepted' = accepted /\ pushes' = pushes
      /\ isSet' = isSet /\ cpc' = cpc /\ saturated' = saturated
  BY DEF Pop, NextHead, AfterPop
<1>3. /\ Queued \in Seq(Event) /\ Len(Queued) = count
      /\ \A i \in 1..count : Queued[i] = events[Slot(i - 1)] /\ i - 1 \in 0..(size - 1)
  BY <1>1, QueuedType
<1>4. Slot(0) = head
  BY <1>1, SlotRange
<1>5. Head(Queued) = events[head] /\ events[head] \in Event /\ Queued # <<>>
  BY <1>1, <1>3, <1>4
<1>6. head' = IF head + 1 < size THEN head + 1 ELSE 0
  <2>1. Slot(1) = IF head + 1 < size THEN head + 1 ELSE head + 1 - size
    BY <1>1, SlotRange
  <2> QED
    BY <1>1, <1>2, <2>1 DEF Slot
<1>7. TypeOK'
  <2>1. events' \in [0..(size' - 1) -> Event \cup {Null}]
    BY <1>1, <1>2 DEF TypeOK
  <2>2. sent' \in Seq(Event)
    BY <1>1, <1>2, <1>5 DEF TypeOK
  <2>3. head' \in 0..(size' - 1) /\ count' \in 0..size'
    BY <1>1, <1>2, <1>6
  <2> QED
    BY <1>1, <1>2, <2>1, <2>2, <2>3 DEF TypeOK
<1>8. ASSUME NEW i \in 0..(size - 2) PROVE Slot(i)' = Slot(i + 1)
  <2>1. Slot(i + 1) = IF head + (i + 1) < size THEN head + (i + 1) ELSE head + (i + 1) - size
    BY <1>1, <1>8, SlotRange
  <2>2. Slot(i)' = (head' + i) % size
    BY <1>2 DEF Slot
  <2> DEFINE x == head' + i
  <2>3. x \in Nat /\ x < 2 * size /\ x = (IF head + 1 < size THEN head + 1 + i ELSE i)
    BY <1>1, <1>6, <1>8
  <2> HIDE DEF x
  <2>4. x % size = IF x < size THEN x ELSE x - size
    BY <1>1, <2>3, WrapOnce
  <2>5. Slot(i)' = x % size
    BY <2>2 DEF x
  <2> QED
    BY <1>1, <1>8, <2>1, <2>3, <2>4, <2>5
<1>9. Slot(size - 1)' = head
  <2> DEFINE x == head' + (size - 1)
  <2>1. x \in Nat /\ x < 2 * size /\ x = (IF head + 1 < size THEN head + size ELSE size - 1)
    BY <1>1, <1>6
  <2>2. Slot(size - 1)' = x % size
    BY <1>2 DEF Slot
  <2> HIDE DEF x
  <2>3. x % size = IF x < size THEN x ELSE x - size
    BY <1>1, <2>1, WrapOnce
  <2> QED
    BY <1>1, <2>1, <2>2, <2>3
<1>10. ASSUME NEW i \in 0..(size - 2) PROVE events'[Slot(i)'] = events[Slot(i + 1)]
  <2>1. Slot(i + 1) \in 0..(size - 1) /\ Slot(i + 1) # head
    BY <1>1, <1>4, <1>10, SlotRange, SlotInjective
  <2> QED
    BY <1>1, <1>2, <1>8, <2>1 DEF TypeOK
<1>11. SlotsExact'
  <2> SUFFICES ASSUME NEW i \in 0..(size - 1)
               PROVE  (events'[Slot(i)'] # Null) <=> (i < count - 1)
    BY <1>2 DEF SlotsExact
  <2>1. CASE i = size - 1
    BY <1>1, <1>2, <1>9, <2>1 DEF TypeOK
  <2>2. CASE i # size - 1
    <3>1. i \in 0..(size - 2) /\ i + 1 \in 0..(size - 1)
      BY <1>1, <2>2
    <3>2. (events[Slot(i + 1)] # Null) <=> (i + 1 < count)
      BY <1>1, <3>1 DEF SlotsExact
    <3> QED
      BY <1>1, <1>10, <3>1, <3>2
  <2> QED
    BY <2>1, <2>2
<1>12. Queued' = Tail(Queued)
  <2>1. Queued' = [i \in 1..(count - 1) |-> events'[Slot(i - 1)']]
    BY <1>2 DEF Queued
  <2>2. ASSUME NEW i \in 1..(count - 1) PROVE events'[Slot(i - 1)'] = Queued[i + 1]
    <3>1. i - 1 \in 0..(size - 2) /\ i + 1 \in 1..count /\ (i - 1) + 1 = i /\ (i + 1) - 1 = i
      BY <1>1, <2>2
    <3>2. events'[Slot(i - 1)'] = events[Slot((i - 1) + 1)]
      BY <1>10, <3>1
    <3>3. Queued[i + 1] = events[Slot((i + 1) - 1)]
      BY <1>3, <3>1
    <3> QED
      BY <3>1, <3>2, <3>3
  <2>3. Tail(Queued) = [i \in 1..(count - 1) |-> Queued[i + 1]]
    BY <1>3, <1>5, TailIs
  <2> QED
    BY <2>1, <2>2, <2>3
<1> QED
  BY <1>2, <1>5, <1>7, <1>11, <1>12

\* A full array that grows: the copy starts at slot 0, so the positions of the
\* queue are the slots of the new array.
LEMMA PushGrowsStep ==
    ASSUME RInv, NEW e \in Event, NEW ok \in BOOLEAN, PushGrows(e, ok)
    PROVE  /\ TypeOK' /\ SlotsExact'
           /\ Queued' = IF ok THEN Fifo!Enqueue(Queued, e) ELSE Queued
<1>1. /\ TypeOK /\ SlotsExact /\ live /\ count = size /\ ~MergesWithTail(e)
      /\ size \in Nat \ {0} /\ count \in Nat
  BY DEF RInv, PushGrows, TypeOK
<1> DEFINE n == size + Growth
<1>2. n \in Nat \ {0} /\ n > count
  BY <1>1, SizeAssumption
<1>3. /\ size' = n /\ head' = 0 /\ live' = live /\ cpc' = cpc /\ sent' = sent
      /\ saturated' = saturated /\ pushes' = pushes + 1
  BY DEF PushGrows, CountPush
<1>4. /\ ok => isSet' = TRUE /\ count' = count + 1 /\ accepted' = Append(accepted, e)
      /\ ~ok => isSet' = isSet /\ count' = count /\ accepted' = accepted
  BY DEF PushGrows, Accepted
<1> DEFINE f(i) == IF ok /\ i = count THEN e ELSE Grown(i)
           g(i) == IF i = count THEN e ELSE Grown(i)
           stored == [i \in 0..(size + Growth - 1) |-> g(i)]
<1>5. events' = [i \in 0..(size + Growth - 1) |-> f(i)]
  <2>1. events' = IF ok THEN stored ELSE [stored EXCEPT ![count] = Null]
    BY Zenon DEF PushGrows, RolledBack
  <2>2. \A i : i = count => Grown(i) = Null
    BY <1>1 DEF Grown
  <2>3. \A i : f(i) = IF ok THEN g(i) ELSE IF i = count THEN Null ELSE g(i)
    BY <2>2
  <2> HIDE DEF f, g
  <2> QED
    BY <2>1, <2>3
<1> HIDE DEF f
<1>6. DOMAIN events' = 0..(n - 1) /\ \A i \in 0..(n - 1) : events'[i] = f(i)
  BY <1>1, <1>5, SizeAssumption
<1>7. events' = [i \in DOMAIN events' |-> events'[i]]
  BY <1>5
<1> HIDE DEF n
<1>8. /\ Queued \in Seq(Event) /\ Len(Queued) = count
      /\ \A i \in 1..count : Queued[i] = events[Slot(i - 1)] /\ i - 1 \in 0..(size - 1)
  BY <1>1, QueuedType
<1>9. ASSUME NEW i \in 0..(n - 1)
      PROVE  events'[i] = IF i < count THEN Queued[i + 1] ELSE IF ok /\ i = count THEN e ELSE Null
  <2>1. events'[i] = IF ok /\ i = count THEN e ELSE Grown(i)
    BY <1>6 DEF f
  <2>2. CASE i < count
    <3>1. i + 1 \in 1..count /\ (i + 1) - 1 = i /\ i # count
      BY <1>1, <1>2, <1>9, <2>2
    <3>2. Queued[i + 1] = events[Slot((i + 1) - 1)]
      BY <1>8, <3>1
    <3>3. Grown(i) = events[Slot(i)]
      BY <2>2 DEF Grown
    <3> QED
      BY <2>1, <2>2, <3>1, <3>2, <3>3
  <2>3. CASE ~(i < count)
    BY <2>1, <2>3 DEF Grown
  <2> QED
    BY <2>2, <2>3
<1>10. ASSUME NEW i \in 0..(n - 1), i < count PROVE Queued[i + 1] \in Event
  BY <1>1, <1>2, <1>8, <1>10
<1>11. TypeOK'
  <2>1. events' \in [0..(size' - 1) -> Event \cup {Null}]
    <3>1. ASSUME NEW i \in 0..(n - 1) PROVE events'[i] \in Event \cup {Null}
      BY <1>9, <1>10
    <3> QED
      BY <1>3, <1>6, <1>7, <3>1
  <2>2. accepted' \in Seq(Event) /\ pushes' \in Nat
    <3>1. accepted \in Seq(Event) /\ Append(accepted, e) \in Seq(Event) /\ pushes \in Nat
      BY <1>1 DEF TypeOK
    <3>2. accepted' = Append(accepted, e) \/ accepted' = accepted
      BY <1>4
    <3> QED
      BY <1>3, <3>1, <3>2
  <2>3. size' \in Nat /\ size' <= MaxSize /\ count' \in 0..size' /\ head' \in 0..(size' - 1)
    <3>1. n <= MaxSize
      BY DEF PushGrows, n
    <3> QED
      BY <1>1, <1>2, <1>3, <1>4, <3>1
  <2>4. isSet' \in BOOLEAN
    BY <1>1, <1>4 DEF TypeOK
  <2> QED
    BY <1>1, <1>3, <2>1, <2>2, <2>3, <2>4 DEF TypeOK
<1>12. ASSUME NEW i \in 0..(n - 1) PROVE Slot(i)' = i
  <2>1. Slot(i)' = (0 + i) % n
    BY <1>3 DEF Slot
  <2>2. i % n = i
    BY <1>2, <1>12
  <2>3. 0 + i = i
    BY <1>2, <1>12
  <2> QED
    BY <2>1, <2>2, <2>3
<1>13. SlotsExact'
  <2> SUFFICES ASSUME NEW i \in 0..(n - 1)
               PROVE  (events'[i] # Null) <=> (i < count')
    BY <1>3, <1>12 DEF SlotsExact
  <2>1. e # Null /\ (i < count => Queued[i + 1] # Null)
    BY <1>10, SizeAssumption
  <2> QED
    BY <1>1, <1>2, <1>4, <1>9, <2>1
<1>14. Queued' = IF ok THEN Fifo!Enqueue(Queued, e) ELSE Queued
  <2>1. Queued' = [i \in 1..count' |-> events'[Slot(i - 1)']]
    BY DEF Queued
  <2>2. ASSUME NEW i \in 1..count'
        PROVE  events'[Slot(i - 1)'] = IF i = count + 1 THEN e ELSE Queued[i]
    <3>1. i - 1 \in 0..(n - 1) /\ (i - 1) + 1 = i /\ (~ok => i - 1 < count)
          /\ (i - 1 < count \/ i = count + 1)
      BY <1>1, <1>2, <1>4, <2>2
    <3>2. events'[Slot(i - 1)'] = events'[i - 1]
      BY <1>12, <3>1
    <3>3. events'[i - 1] = IF i - 1 < count THEN Queued[(i - 1) + 1]
                           ELSE IF ok /\ i - 1 = count THEN e ELSE Null
      BY <1>9, <3>1
    <3> QED
      BY <1>1, <1>2, <3>1, <3>2, <3>3
  <2>3. CASE ok
    <3>1. Queued' = [i \in 1..(count + 1) |-> IF i = count + 1 THEN e ELSE Queued[i]]
      BY <1>4, <2>1, <2>2, <2>3
    <3>2. Queued' = Append(Queued, e)
      BY <1>8, <3>1, AppendIs
    <3> QED
      BY <1>1, <2>3, <3>2, EnqueueAppends
  <2>4. CASE ~ok
    <3>1. Queued' = [i \in 1..count |-> Queued[i]]
      <4>1. \A i \in 1..count : i # count + 1
        BY <1>1
      <4> QED
        BY <1>4, <2>1, <2>2, <2>4, <4>1
    <3>2. Queued = [i \in 1..count |-> Queued[i]]
      BY DEF Queued
    <3> QED
      BY <2>4, <3>1, <3>2
  <2> QED
    BY <2>3, <2>4
<1> QED
  BY <1>11, <1>13, <1>14

\* android_event_queue_uninit drops what is queued.
LEMMA UninitStep ==
    ASSUME RInv, Uninit PROVE TypeOK' /\ SlotsExact' /\ Queued' = <<>> /\ sent' = sent /\ live /\ live' = FALSE
<1>1. /\ size' = 0 /\ count' = 0 /\ head' = 0 /\ live' = FALSE /\ isSet' = FALSE
      /\ events' = [i \in 0..(0 - 1) |-> Null]
      /\ live /\ UNCHANGED <<cpc, sent, accepted, saturated, pushes>>
  BY DEF Uninit
<1>2. 0..(0 - 1) = {} /\ 1..0 = {}
  OBVIOUS
<1>3. TypeOK'
  <2>1. events' \in [0..(size' - 1) -> Event \cup {Null}]
    BY <1>1
  <2>2. size' \in Nat /\ count' \in 0..size'
    BY <1>1
  <2> QED
    BY <1>1, <2>1, <2>2 DEF RInv, TypeOK
<1>4. SlotsExact'
  BY <1>1, <1>2 DEF SlotsExact
<1>5. Queued' = <<>>
  BY <1>1, <1>2 DEF Queued
<1> QED
  BY <1>1, <1>3, <1>4, <1>5

\* The steps that leave the ring alone.
LEMMA RingUnchanged ==
    ASSUME RInv, UNCHANGED <<ring, live>> PROVE SlotsExact' /\ Queued' = Queued
BY DEF RInv, ring, SlotsExact, Slot, Queued

\* A push whose SetEvent fails with room in the array stores its event in a
\* slot that was empty, and empties it again.
LEMMA PushRollsBackStep ==
    ASSUME RInv, NEW e \in Event, PushRollsBack(e)
    PROVE  UNCHANGED <<ring, isSet, live, cpc, sent, accepted, saturated>>
<1> DEFINE k == Slot(count)
<1>1. /\ TypeOK /\ SlotsExact /\ live /\ count \in 0..(size - 1)
      /\ size \in Nat /\ count \in Nat
  BY DEF RInv, PushRollsBack, TypeOK
<1>2. k \in 0..(size - 1)
  BY <1>1, SlotRange
<1>3. events[k] = Null
  BY <1>1 DEF SlotsExact
<1>4. events' = [[events EXCEPT ![k] = e] EXCEPT ![k] = Null]
  BY DEF PushRollsBack, RolledBack
<1> HIDE DEF k
<1>5. events' = events
  BY <1>1, <1>2, <1>3, <1>4 DEF TypeOK
<1> QED
  BY <1>5 DEF PushRollsBack, ring

\* The pushes that leave the queue as it was.
LEMMA PushFailed ==
    ASSUME RInv, NEW e \in Event, PushRollsBack(e) \/ PushRefused(e)
    PROVE  /\ UNCHANGED <<ring, isSet, live, cpc, sent, accepted, saturated>>
           /\ pushes' = pushes + 1
<1>1. pushes' = pushes + 1
  BY DEF PushRollsBack, PushRefused, CountPush
<1> QED
  BY <1>1, PushRollsBackStep DEF PushRefused

\* One step keeps the invariant, and is a step of the abstract queue or changes
\* nothing of it.
LEMMA NextStep ==
    ASSUME RInv, [Next]_vars
    PROVE  /\ TypeOK' /\ SlotsExact'
           /\ [Fifo!FifoNext]_<<Queued, sent, live>>
<1>1. ASSUME NEW e \in Event, PushMerges(e) PROVE TypeOK' /\ SlotsExact' /\ Fifo!FifoNext
  <2>1. sent' = sent /\ live /\ live' = live
    BY <1>1 DEF PushMerges
  <2> QED
    BY <1>1, <2>1, PushMergesStep, SameMerge DEF Fifo!FifoNext, Fifo!Accept
<1>2. ASSUME NEW e \in Event, PushAppends(e) PROVE TypeOK' /\ SlotsExact' /\ Fifo!FifoNext
  <2>1. sent' = sent /\ live /\ live' = live
    BY <1>2 DEF PushAppends
  <2> QED
    BY <1>2, <2>1, PushAppendsStep, SameMerge DEF Fifo!FifoNext, Fifo!Accept
<1>3. ASSUME NEW e \in Event, NEW ok \in BOOLEAN, PushGrows(e, ok)
      PROVE  TypeOK' /\ SlotsExact' /\ [Fifo!FifoNext]_<<Queued, sent, live>>
  <2>1. sent' = sent /\ live /\ live' = live
    BY <1>3 DEF PushGrows
  <2> QED
    BY <1>3, <2>1, PushGrowsStep, SameMerge DEF Fifo!FifoNext, Fifo!Accept
<1>4. CASE Pop
  <2>1. live /\ live' = live
    BY <1>4 DEF Pop, AfterPop, RInv, TypeOK
  <2> QED
    BY <1>4, <2>1, PopStep DEF Fifo!FifoNext, Fifo!Deliver
<1>5. CASE Uninit
  BY <1>5, UninitStep DEF Fifo!FifoNext, Fifo!Drop
<1>6. CASE (\E e \in Event : PushRollsBack(e) \/ PushRefused(e)) \/ CheckSignalled \/ Reset \/ Drained \/ ConsumerEnds \/ UNCHANGED vars
  <2>1. UNCHANGED <<ring, live>> /\ sent' = sent
    BY <1>6, PushFailed DEF CheckSignalled, Reset, Drained, ConsumerEnds, vars
  <2>2. /\ isSet' \in BOOLEAN /\ cpc' \in ConsumerState /\ pushes' \in Nat
        /\ accepted' = accepted /\ saturated' = saturated
    <3>1. isSet \in BOOLEAN /\ cpc \in ConsumerState /\ pushes \in Nat
      BY DEF RInv, TypeOK
    <3>2. CASE \E e \in Event : PushRollsBack(e) \/ PushRefused(e)
      BY <3>1, <3>2, PushFailed
    <3>3. CASE CheckSignalled \/ Reset
      BY <3>1, <3>3 DEF CheckSignalled, Reset, ConsumerState
    <3>4. CASE Drained \/ ConsumerEnds
      BY <3>1, <3>4 DEF Drained, ConsumerEnds, ConsumerState
    <3>5. CASE UNCHANGED vars
      BY <3>1, <3>5 DEF vars
    <3> QED
      BY <1>6, <3>2, <3>3, <3>4, <3>5
  <2>3. TypeOK'
    BY <2>1, <2>2 DEF RInv, TypeOK, ring
  <2> QED
    BY <2>1, <2>3, RingUnchanged
<1> QED
  BY <1>1, <1>2, <1>3, <1>4, <1>5, <1>6 DEF Next, Push, Drain

\* Every push signals, and the reset is followed by a full drain.
LEMMA WakeupStep == ASSUME RInv, [Next]_vars PROVE NoLostWakeup'
<1>1. ASSUME NEW e \in Event, PushMerges(e) \/ PushAppends(e) PROVE NoLostWakeup'
  BY <1>1 DEF NoLostWakeup, PushMerges, PushAppends
<1>2. ASSUME NEW e \in Event, NEW ok \in BOOLEAN, PushGrows(e, ok) PROVE NoLostWakeup'
  BY <1>2 DEF RInv, NoLostWakeup, PushGrows
<1>3. ASSUME NEW e \in Event, PushRollsBack(e) \/ PushRefused(e) PROVE NoLostWakeup'
  <2>1. UNCHANGED <<ring, isSet, cpc>>
    BY <1>3, PushFailed
  <2> QED
    BY <2>1 DEF RInv, NoLostWakeup, ring
<1>4. CASE Drain \/ ConsumerEnds \/ Uninit \/ UNCHANGED vars
  BY <1>4 DEF RInv, NoLostWakeup, Drain, AfterPop, CheckSignalled, Reset, Pop, Drained, ConsumerEnds,
              Uninit, vars, ring
<1> QED
  BY <1>1, <1>2, <1>3, <1>4 DEF Next, Push

\* The slots of the array hold exactly the queued events, and a waiting event
\* that is not being drained has its signal: the invariant of the ring.
THEOREM RingInvariant == Spec => []RInv
<1>1. Init => RInv
  <2> SUFFICES ASSUME Init PROVE RInv
    OBVIOUS
  <2>1. TypeOK
    <3>1. /\ size \in Nat /\ size <= MaxSize /\ count \in 0..size /\ head \in 0..(size - 1)
          /\ cpc \in ConsumerState /\ sent \in Seq(Event) /\ accepted \in Seq(Event) /\ pushes \in Nat
      BY SizeAssumption DEF Init, ConsumerState
    <3>2. events \in [0..(size - 1) -> Event \cup {Null}]
      BY DEF Init
    <3> QED
      BY <3>1, <3>2 DEF Init, TypeOK
  <2>2. SlotsExact
    <3>1. ASSUME NEW i \in 0..(size - 1) PROVE Slot(i) \in 0..(size - 1)
      <4>1. live /\ size \in Nat /\ i \in 0..size
        BY <3>1, SizeAssumption DEF Init
      <4> QED
        BY <2>1, <4>1, SlotRange
    <3> QED
      BY <3>1, SizeAssumption DEF Init, SlotsExact
  <2> QED
    BY <2>1, <2>2 DEF RInv, NoLostWakeup, Init
<1>2. RInv /\ [Next]_vars => RInv'
  BY NextStep, WakeupStep DEF RInv
<1> QED
  BY <1>1, <1>2, PTL DEF Spec

\* The fields of the ring stay inside the array: android_event.c never indexes
\* outside of it, whatever the order of pushes, pops and growth.
THEOREM RingTypeCorrect == Spec => []TypeOK
<1>1. RInv => TypeOK
  BY DEF RInv
<1> QED
  BY <1>1, RingInvariant, PTL

\* No wake-up is lost although the RDP thread resets the event outside the lock.
THEOREM WakeupKept == Spec => []NoLostWakeup
<1>1. RInv => NoLostWakeup
  BY DEF RInv
<1> QED
  BY <1>1, RingInvariant, PTL

\* The array holds the queued events and nothing else.
THEOREM SlotsKept == Spec => []SlotsExact
<1>1. RInv => SlotsExact
  BY DEF RInv
<1> QED
  BY <1>1, RingInvariant, PTL

\* Pushing, popping, wrapping around, growing and rolling back implement a plain
\* queue that merges at its end.
THEOREM Refinement == Spec => RefinesFifo
<1>1. Init => Fifo!FifoInit
  BY DEF Init, Fifo!FifoInit, Queued
<1>2. RInv /\ [Next]_vars => [Fifo!FifoNext]_<<Queued, sent, live>>
  BY NextStep
<1> QED
  BY <1>1, <1>2, RingInvariant, PTL DEF Spec, RefinesFifo, Fifo!FifoSpec
=============================================================================
