-------------------------- MODULE InputEffectProofs --------------------------
(***************************************************************************)
(* Merging input in the queue of android_event.c changes nothing the host  *)
(* can tell: what the sent and the queued events do is what the accepted   *)
(* events do, for every number of pushes and every set of events.          *)
(*                                                                         *)
(* What a sequence of events does is defined by recursion on its length,   *)
(* so the first part proves the recursion equations.  The induction is the *)
(* least-element principle of WellFoundedInduction: the least index at     *)
(* which a claim fails.                                                    *)
(***************************************************************************)
EXTENDS AndroidEventQueueProofs, WellFoundedInduction

\* A non-empty set of natural numbers has a least element.
LEMMA LeastElement ==
    ASSUME NEW T \in SUBSET Nat, T # {}
    PROVE  \E x \in T : \A y \in T : ~(y < x)
<1> DEFINE R == {p \in Nat \X Nat : p[1] < p[2]}
<1>1. IsWellFoundedOn(R, Nat)
  BY NatLessThanWellFounded DEF OpToRel
<1>2. \E x \in T : \A y \in T : <<y, x>> \notin R
  <2> HIDE DEF R
  <2> QED
    BY <1>1, WFMin
<1> QED
  BY <1>2

\* Induction over the numbers 0..n, on the set of those that satisfy the claim.
LEMMA UpTo ==
    ASSUME NEW n \in Nat, NEW T, 0 \in T, \A i \in 0..n : i \in T /\ i < n => i + 1 \in T
    PROVE  \A i \in 0..n : i \in T
<1> DEFINE Bad == {i \in 0..n : i \notin T}
<1> SUFFICES ASSUME Bad # {} PROVE FALSE
  OBVIOUS
<1>1. PICK x \in Bad : \A y \in Bad : ~(y < x)
  <2>1. Bad \in SUBSET Nat
    OBVIOUS
  <2> HIDE DEF Bad
  <2> QED
    BY <2>1, LeastElement
<1>2. x \in 0..n /\ x \notin T /\ x # 0
  BY <1>1
<1>3. x - 1 \in 0..n /\ x - 1 < x /\ x - 1 < n /\ (x - 1) + 1 = x
  BY <1>2
<1>4. x - 1 \in T
  BY <1>1, <1>3
<1> QED
  BY <1>2, <1>3, <1>4

-----------------------------------------------------------------------------
(* What a sequence of events does.                                         *)

\* f lists the effects of the first 0, 1, ..., n events of s.
EffectsOf(f, s, n) ==
    f = [i \in 0..n |-> IF i = 0 THEN Nothing ELSE Apply(f[i - 1], s[i])]

\* The list extended by one event.
Longer(f, n, e) == [i \in 0..(n + 1) |-> IF i = n + 1 THEN Apply(f[n], e) ELSE f[i]]

LEMMA Extends ==
    ASSUME NEW s, NEW t, NEW n \in Nat, NEW f, EffectsOf(f, s, n),
           \A i \in 1..n : t[i] = s[i]
    PROVE  EffectsOf(Longer(f, n, t[n + 1]), t, n + 1)
<1> DEFINE g == Longer(f, n, t[n + 1])
           h == [i \in 0..(n + 1) |-> IF i = 0 THEN Nothing ELSE Apply(g[i - 1], t[i])]
<1>1. \A i \in 0..n : f[i] = IF i = 0 THEN Nothing ELSE Apply(f[i - 1], s[i])
  BY DEF EffectsOf
<1>2. \A i \in 0..(n + 1) : g[i] = IF i = n + 1 THEN Apply(f[n], t[n + 1]) ELSE f[i]
  BY DEF Longer
<1>3. ASSUME NEW i \in 0..(n + 1) PROVE g[i] = h[i]
  <2>1. CASE i = 0
    BY <1>1, <1>2, <2>1
  <2>2. CASE i \in 1..n
    <3>1. i - 1 \in 0..(n + 1) /\ i - 1 # n + 1 /\ i # n + 1 /\ i \in 0..n /\ i # 0
      BY <2>2
    <3>2. g[i - 1] = f[i - 1] /\ g[i] = f[i] /\ t[i] = s[i]
      BY <1>2, <2>2, <3>1
    <3> QED
      BY <1>1, <3>1, <3>2
  <2>3. CASE i = n + 1
    <3>1. i - 1 \in 0..(n + 1) /\ i - 1 # n + 1 /\ i - 1 = n /\ i # 0
      BY <2>3
    <3>2. g[i - 1] = f[n] /\ g[i] = Apply(f[n], t[n + 1])
      BY <1>2, <2>3, <3>1
    <3> QED
      BY <2>3, <3>1, <3>2
  <2> QED
    BY <2>1, <2>2, <2>3
<1>4. g = [i \in 0..(n + 1) |-> g[i]]
  BY DEF Longer
<1>5. g = h
  <2> HIDE DEF g
  <2> QED
    BY <1>3, <1>4
<1> QED
  BY <1>5 DEF EffectsOf

\* The recursion has a solution.
LEMMA EffectsExist ==
    ASSUME NEW s, NEW n \in Nat
    PROVE  \E f : EffectsOf(f, s, n)
<1> DEFINE T == {i \in Nat : \E f : EffectsOf(f, s, i)}
<1>1. 0 \in T
  <2>1. EffectsOf([i \in 0..0 |-> Nothing], s, 0)
    BY DEF EffectsOf
  <2> QED
    BY <2>1
<1>2. ASSUME NEW i \in 0..n, i \in T PROVE i + 1 \in T
  <2>1. PICK f : EffectsOf(f, s, i)
    BY <1>2
  <2>2. EffectsOf(Longer(f, i, s[i + 1]), s, i + 1)
    BY <2>1, Extends
  <2> QED
    BY <2>2
<1>3. n \in T
  <2> HIDE DEF T
  <2> QED
    BY <1>1, <1>2, UpTo
<1> QED
  BY <1>3

\* and only one.
LEMMA EffectsUnique ==
    ASSUME NEW s, NEW n \in Nat, NEW f, NEW g, EffectsOf(f, s, n), EffectsOf(g, s, n)
    PROVE  f[n] = g[n]
<1> DEFINE T == {i \in Nat : f[i] = g[i]}
<1>1. /\ \A i \in 0..n : f[i] = IF i = 0 THEN Nothing ELSE Apply(f[i - 1], s[i])
      /\ \A i \in 0..n : g[i] = IF i = 0 THEN Nothing ELSE Apply(g[i - 1], s[i])
  BY DEF EffectsOf
<1>2. 0 \in T
  BY <1>1
<1>3. ASSUME NEW i \in 0..n, i \in T, i < n PROVE i + 1 \in T
  <2>1. i + 1 \in 0..n /\ i + 1 # 0 /\ (i + 1) - 1 = i /\ f[i] = g[i]
    BY <1>3
  <2> QED
    BY <1>1, <2>1
<1>4. n \in T
  <2> HIDE DEF T
  <2> QED
    BY <1>2, <1>3, UpTo
<1> QED
  BY <1>4

\* The definition picks that solution.
LEMMA EffectIs ==
    ASSUME NEW s, Len(s) \in Nat, NEW f, EffectsOf(f, s, Len(s))
    PROVE  Effect(s) = f[Len(s)]
<1>1. \E g : EffectsOf(g, s, Len(s)) /\ Effect(s) = g[Len(s)]
  BY DEF Effect, EffectsOf
<1> QED
  BY <1>1, EffectsUnique

\* No events do nothing.
LEMMA EffectEmpty == Effect(<<>>) = Nothing
<1>1. EffectsOf([i \in 0..0 |-> Nothing], <<>>, 0)
  BY DEF EffectsOf
<1>2. Effect(<<>>) = [i \in 0..0 |-> Nothing][0]
  BY <1>1, EffectIs
<1> QED
  BY <1>2

\* One more event.
LEMMA EffectAppend ==
    ASSUME NEW S, NEW s \in Seq(S), NEW e \in S
    PROVE  Effect(Append(s, e)) = Apply(Effect(s), e)
<1> DEFINE t == Append(s, e)
           n == Len(s)
<1>1. n \in Nat /\ Len(t) = n + 1 /\ t[n + 1] = e /\ \A i \in 1..n : t[i] = s[i]
  OBVIOUS
<1>2. PICK f : EffectsOf(f, s, n)
  BY <1>1, EffectsExist
<1> HIDE DEF t, n
<1>3. EffectsOf(Longer(f, n, e), t, n + 1)
  BY <1>1, <1>2, Extends
<1>4. Effect(t) = Longer(f, n, e)[n + 1]
  BY <1>1, <1>3, EffectIs
<1>5. Effect(s) = f[n]
  BY <1>1, <1>2, EffectIs DEF n
<1>6. Longer(f, n, e)[n + 1] = Apply(f[n], e)
  BY <1>1 DEF Longer
<1> QED
  BY <1>4, <1>5, <1>6 DEF t

\* The values an effect takes.
Effects ==
    [pos : Pos \cup {NoPos}, travel : Int,
     seen : Seq(Keys \X (Pos \cup {NoPos})), marks : Seq(Int)]

\* One event as an explicit record.
LEMMA ApplyIs ==
    ASSUME NEW x \in Effects, NEW e \in Event
    PROVE  /\ e.type = "move" =>
                /\ e.val \in Pos
                /\ Apply(x, e) = [pos |-> e.val, travel |-> x.travel, seen |-> x.seen, marks |-> x.marks]
           /\ e.type = "rel" =>
                /\ e.val \in Lo..Hi
                /\ Apply(x, e) = [pos |-> x.pos, travel |-> x.travel + e.val, seen |-> x.seen, marks |-> x.marks]
           /\ e.type = "discrete" =>
                /\ e.val \in Keys
                /\ Apply(x, e) = [pos |-> x.pos, travel |-> x.travel,
                                  seen |-> Append(x.seen, <<e.val, x.pos>>),
                                  marks |-> Append(x.marks, x.travel)]
           /\ e.type \in {"move", "rel", "discrete"}
<1>1. /\ e.type \in {"move", "rel", "discrete"}
      /\ e.type = "move" => e.val \in Pos
      /\ e.type = "rel" => e.val \in Lo..Hi
      /\ e.type = "discrete" => e.val \in Keys
  BY DEF Event
<1>2. x = [pos |-> x.pos, travel |-> x.travel, seen |-> x.seen, marks |-> x.marks]
  BY DEF Effects
<1>3. ASSUME e.type = "move"
      PROVE  Apply(x, e) = [pos |-> e.val, travel |-> x.travel, seen |-> x.seen, marks |-> x.marks]
  BY <1>2, <1>3 DEF Apply
<1>4. ASSUME e.type = "rel"
      PROVE  Apply(x, e) = [pos |-> x.pos, travel |-> x.travel + e.val, seen |-> x.seen, marks |-> x.marks]
  BY <1>2, <1>4 DEF Apply
<1>5. ASSUME e.type = "discrete"
      PROVE  Apply(x, e) = [pos |-> x.pos, travel |-> x.travel,
                            seen |-> Append(x.seen, <<e.val, x.pos>>),
                            marks |-> Append(x.marks, x.travel)]
  BY <1>2, <1>5 DEF Apply
<1> QED
  BY <1>1, <1>3, <1>4, <1>5

\* An event makes an effect of an effect.
LEMMA ApplyType ==
    ASSUME NEW x \in Effects, NEW e \in Event PROVE Apply(x, e) \in Effects
<1>1. /\ x.pos \in Pos \cup {NoPos} /\ x.travel \in Int
      /\ x.seen \in Seq(Keys \X (Pos \cup {NoPos})) /\ x.marks \in Seq(Int)
  BY DEF Effects
<1>2. CASE e.type = "move"
  <2>1. /\ e.val \in Pos
        /\ Apply(x, e) = [pos |-> e.val, travel |-> x.travel, seen |-> x.seen, marks |-> x.marks]
    BY <1>2, ApplyIs
  <2> QED
    BY <1>1, <2>1 DEF Effects
<1>3. CASE e.type = "rel"
  <2>1. /\ e.val \in Lo..Hi
        /\ Apply(x, e) = [pos |-> x.pos, travel |-> x.travel + e.val, seen |-> x.seen, marks |-> x.marks]
    BY <1>3, ApplyIs
  <2>2. x.travel + e.val \in Int
    BY <1>1, <2>1, RangeAssumption
  <2> QED
    BY <1>1, <2>1, <2>2 DEF Effects
<1>4. CASE e.type = "discrete"
  <2> DEFINE k == <<e.val, x.pos>>
  <2>1. /\ e.val \in Keys
        /\ Apply(x, e) = [pos |-> x.pos, travel |-> x.travel,
                          seen |-> Append(x.seen, k), marks |-> Append(x.marks, x.travel)]
    BY <1>4, ApplyIs
  <2>2. k \in Keys \X (Pos \cup {NoPos})
    BY <1>1, <2>1
  <2> HIDE DEF k
  <2>3. Append(x.seen, k) \in Seq(Keys \X (Pos \cup {NoPos}))
    BY <1>1, <2>2
  <2>4. Append(x.marks, x.travel) \in Seq(Int)
    BY <1>1
  <2> QED
    BY <1>1, <2>1, <2>3, <2>4 DEF Effects
<1> QED
  BY <1>2, <1>3, <1>4, ApplyIs

\* What a sequence of events does is an effect.
LEMMA EffectType ==
    ASSUME NEW s \in Seq(Event) PROVE Effect(s) \in Effects
<1> DEFINE n == Len(s)
<1>1. n \in Nat /\ \A i \in 1..n : s[i] \in Event
  OBVIOUS
<1>2. PICK f : EffectsOf(f, s, n)
  BY <1>1, EffectsExist
<1>3. Effect(s) = f[n]
  BY <1>1, <1>2, EffectIs
<1> DEFINE T == {i \in Nat : f[i] \in Effects}
<1>4. \A i \in 0..n : f[i] = IF i = 0 THEN Nothing ELSE Apply(f[i - 1], s[i])
  BY <1>2 DEF EffectsOf
<1>5. 0 \in T
  <2>1. Nothing \in Effects
    BY DEF Nothing, Effects
  <2>2. 0 \in 0..n
    BY <1>1
  <2>3. f[0] = Nothing
    BY <1>4, <2>2
  <2> QED
    BY <2>1, <2>3
<1> HIDE DEF n
<1>6. ASSUME NEW i \in 0..n, i \in T, i < n PROVE i + 1 \in T
  <2>1. i + 1 \in 1..n /\ i + 1 \in 0..n /\ i + 1 # 0 /\ (i + 1) - 1 = i /\ i + 1 \in Nat
    BY <1>1, <1>6
  <2>2. f[i + 1] = Apply(f[i], s[i + 1])
    BY <1>4, <2>1
  <2>3. f[i] \in Effects /\ s[i + 1] \in Event
    BY <1>1, <1>6, <2>1
  <2> QED
    BY <2>1, <2>2, <2>3, ApplyType
<1>7. n \in T
  <2>1. \A i \in 0..n : i \in T /\ i < n => i + 1 \in T
    BY <1>6
  <2>2. n \in 0..n
    BY <1>1
  <2> HIDE DEF T
  <2>3. \A i \in 0..n : i \in T
    BY <1>1, <1>5, <2>1, UpTo
  <2> QED
    BY <2>2, <2>3
<1> QED
  BY <1>3, <1>7

-----------------------------------------------------------------------------
(* Merging.                                                                *)

\* The host cannot tell x from y: same pointer, same discrete events at the same
\* places, and, unless a delta saturated, the same travel before each of them.
Alike(x, y, sat) == x.pos = y.pos /\ x.seen = y.seen /\ (~sat => x = y)

\* The next event keeps them alike.
LEMMA AlikeStep ==
    ASSUME NEW x \in Effects, NEW y \in Effects, NEW sat \in BOOLEAN, Alike(x, y, sat), NEW e \in Event
    PROVE  Alike(Apply(x, e), Apply(y, e), sat)
<1>1. x.pos = y.pos /\ x.seen = y.seen /\ (~sat => Apply(x, e) = Apply(y, e))
  <2>1. ~sat => x = y
    BY DEF Alike
  <2> QED
    BY <2>1 DEF Alike
<1>2. CASE e.type = "move"
  BY <1>1, <1>2, ApplyIs DEF Alike
<1>3. CASE e.type = "rel"
  BY <1>1, <1>3, ApplyIs DEF Alike
<1>4. CASE e.type = "discrete"
  <2>1. ASSUME NEW z \in Effects
        PROVE  Apply(z, e).pos = z.pos /\ Apply(z, e).seen = Append(z.seen, <<e.val, z.pos>>)
    <3> DEFINE k == Append(z.seen, <<e.val, z.pos>>)
               w == Append(z.marks, z.travel)
    <3>1. Apply(z, e) = [pos |-> z.pos, travel |-> z.travel, seen |-> k, marks |-> w]
      BY <1>4, ApplyIs, Zenon
    <3> HIDE DEF k, w
    <3>2. Apply(z, e).pos = z.pos /\ Apply(z, e).seen = k
      BY <3>1
    <3> QED
      BY <3>2 DEF k
  <2> QED
    BY <1>1, <2>1 DEF Alike
<1> QED
  BY <1>2, <1>3, <1>4, ApplyIs

\* One merged event does what the two it stands for do, except for the part of
\* a sum that leaves the INT16 range.
LEMMA MergeAlike ==
    ASSUME NEW x \in Effects, NEW l \in Event, NEW e \in Event, Mergeable(l, e), NEW sat \in BOOLEAN,
           e.type = "rel" /\ l.val + e.val \notin Lo..Hi => sat
    PROVE  Alike(Apply(x, Merge(l, e)), Apply(Apply(x, l), e), sat)
<1> DEFINE m == Merge(l, e)
           z == Apply(x, l)
<1>1. m \in Event /\ z \in Effects
  BY MergeType, ApplyType
<1>2. CASE e.type = "move"
  <2>1. l.type = "move" /\ m = e
    BY <1>2 DEF Mergeable, Merge
  <2>2. z = [pos |-> l.val, travel |-> x.travel, seen |-> x.seen, marks |-> x.marks]
    BY <2>1, ApplyIs
  <2>3. Apply(x, m) = [pos |-> e.val, travel |-> x.travel, seen |-> x.seen, marks |-> x.marks]
    BY <1>2, <2>1, ApplyIs
  <2>4. Apply(z, e) = [pos |-> e.val, travel |-> z.travel, seen |-> z.seen, marks |-> z.marks]
    BY <1>1, <1>2, ApplyIs
  <2>5. Apply(z, e) = Apply(x, m)
    BY <2>2, <2>3, <2>4
  <2> QED
    BY <2>5 DEF Alike
<1>3. CASE e.type = "rel"
  <2>1. l.type = "rel" /\ l.val \in Lo..Hi /\ e.val \in Lo..Hi /\ x.travel \in Int
    BY <1>3, ApplyIs DEF Mergeable, Effects
  <2>2. m.type = "rel" /\ m.val = Saturate(l.val + e.val)
    <3>1. e \in [type : {"rel"}, val : Lo..Hi]
      BY <1>3 DEF Event
    <3>2. m = [e EXCEPT !.val = Saturate(l.val + e.val)]
      BY <1>3 DEF Merge
    <3> QED
      BY <3>1, <3>2
  <2>3. z = [pos |-> x.pos, travel |-> x.travel + l.val, seen |-> x.seen, marks |-> x.marks]
    BY <2>1, ApplyIs
  <2>4. Apply(x, m) = [pos |-> x.pos, travel |-> x.travel + m.val, seen |-> x.seen, marks |-> x.marks]
    BY <1>1, <2>2, ApplyIs
  <2>5. Apply(z, e) = [pos |-> z.pos, travel |-> z.travel + e.val, seen |-> z.seen, marks |-> z.marks]
    BY <1>1, <1>3, ApplyIs
  <2>6. /\ Apply(z, e).pos = x.pos /\ Apply(z, e).seen = x.seen
        /\ Apply(x, m).pos = x.pos /\ Apply(x, m).seen = x.seen
    BY <2>3, <2>4, <2>5
  <2>7. ASSUME ~sat PROVE Apply(x, m) = Apply(z, e)
    <3>1. l.val + e.val \in Lo..Hi
      BY <1>3, <2>7
    <3>2. m.val = l.val + e.val
      BY <2>2, <3>1, RangeAssumption DEF Saturate
    <3>3. x.travel + m.val = (x.travel + l.val) + e.val
      BY <2>1, <3>2, RangeAssumption
    <3> QED
      BY <2>3, <2>4, <2>5, <3>3
  <2> QED
    BY <2>6, <2>7 DEF Alike
<1> QED
  BY <1>2, <1>3 DEF Mergeable

-----------------------------------------------------------------------------
(* The step.                                                               *)

\* Everything that was or will be sent.
Output == sent \o Queued

LEMMA OutputType == ASSUME RInv PROVE Output \in Seq(Event)
<1>1. Queued \in Seq(Event) /\ sent \in Seq(Event)
  BY QueuedType DEF RInv, TypeOK
<1> QED
  BY <1>1 DEF Output

\* An accepted event is added behind the output or merged into its last event.
\* These are facts about sequences only.
LEMMA AddedBehind ==
    ASSUME NEW S, NEW s \in Seq(S), NEW q \in Seq(S), NEW e \in S
    PROVE  s \o Append(q, e) = Append(s \o q, e)
<1>1. /\ s \o Append(q, e) \in Seq(S) /\ Append(s \o q, e) \in Seq(S)
      /\ Len(s \o Append(q, e)) = Len(Append(s \o q, e))
  OBVIOUS
<1>2. \A i \in 1..Len(s \o Append(q, e)) : (s \o Append(q, e))[i] = Append(s \o q, e)[i]
  OBVIOUS
<1> QED
  BY <1>1, <1>2, SameSeq

\* A sequence that is not empty is all but its last element, and that.
LEMMA LastOff ==
    ASSUME NEW S, NEW q \in Seq(S), q # <<>>
    PROVE  \E t \in Seq(S) : /\ q = Append(t, q[Len(q)])
                             /\ \A m \in S : [q EXCEPT ![Len(q)] = m] = Append(t, m)
<1> DEFINE n == Len(q)
           t == [i \in 1..(n - 1) |-> q[i]]
<1>1. n \in Nat \ {0} /\ q[n] \in S
  OBVIOUS
<1>2. t \in Seq(S) /\ Len(t) = n - 1 /\ \A i \in 1..(n - 1) : t[i] = q[i]
  BY <1>1
<1>3. ASSUME NEW m \in S PROVE [q EXCEPT ![n] = m] = Append(t, m)
  <2> DEFINE u == [q EXCEPT ![n] = m]
  <2>1. u \in Seq(S) /\ Len(u) = n /\ \A i \in 1..n : u[i] = IF i = n THEN m ELSE q[i]
    BY <1>1
  <2> HIDE DEF t, u
  <2>2. /\ Append(t, m) \in Seq(S) /\ Len(Append(t, m)) = n
        /\ \A i \in 1..n : Append(t, m)[i] = IF i = n THEN m ELSE q[i]
    BY <1>1, <1>2
  <2> HIDE DEF n
  <2>3. u = Append(t, m)
    BY <2>1, <2>2, SameSeq
  <2> QED
    BY <2>3 DEF u
<1>4. q = [q EXCEPT ![n] = q[n]]
  OBVIOUS
<1>5. q = Append(t, q[n])
  <2> HIDE DEF t, n
  <2> QED
    BY <1>1, <1>3, <1>4
<1> HIDE DEF t
<1> QED
  BY <1>2, <1>3, <1>5

\* A pop moves an event from the front of the queue to the end of what was sent.
LEMMA MovedOver ==
    ASSUME NEW S, NEW s \in Seq(S), NEW q \in Seq(S), q # <<>>
    PROVE  Append(s, Head(q)) \o Tail(q) = s \o q
<1>1. Head(q) \in S /\ Head(q) = q[1] /\ Tail(q) \in Seq(S) /\ Len(Tail(q)) = Len(q) - 1 /\ Len(q) \in Nat \ {0}
  OBVIOUS
<1>2. \A i \in 1..(Len(q) - 1) : Tail(q)[i] = q[i + 1]
  OBVIOUS
<1> DEFINE a == Append(s, Head(q))
           b == Tail(q)
<1>3. a \in Seq(S) /\ Len(a) = Len(s) + 1 /\ \A i \in 1..(Len(s) + 1) : a[i] = IF i = Len(s) + 1 THEN q[1] ELSE s[i]
  BY <1>1
<1>4. b \in Seq(S) /\ Len(b) = Len(q) - 1 /\ \A i \in 1..(Len(q) - 1) : b[i] = q[i + 1]
  BY <1>1, <1>2
<1> HIDE DEF a, b
<1>5. /\ a \o b \in Seq(S) /\ Len(a \o b) = Len(s) + Len(q) /\ s \o q \in Seq(S) /\ Len(s \o q) = Len(s) + Len(q)
  <2>1. a \o b \in Seq(S) /\ Len(a \o b) = Len(a) + Len(b)
    <3>1. a \in Seq(S) /\ b \in Seq(S)
      BY <1>3, <1>4
    <3> QED
      BY <3>1
  <2>2. s \o q \in Seq(S) /\ Len(s \o q) = Len(s) + Len(q) /\ Len(s) \in Nat
    OBVIOUS
  <2> QED
    BY <1>1, <1>3, <1>4, <2>1, <2>2
<1>6. ASSUME NEW i \in 1..(Len(s) + Len(q)) PROVE (a \o b)[i] = (s \o q)[i]
  <2>1. CASE i <= Len(s) + 1
    BY <1>1, <1>3, <1>4, <2>1
  <2>2. CASE i > Len(s) + 1
    <3>1. (a \o b)[i] = b[i - (Len(s) + 1)]
      BY <1>1, <1>3, <1>4, <2>2
    <3>2. i - (Len(s) + 1) \in 1..(Len(q) - 1) /\ (i - (Len(s) + 1)) + 1 = i - Len(s)
      BY <1>1, <2>2
    <3>3. b[i - (Len(s) + 1)] = q[i - Len(s)]
      BY <1>4, <3>2
    <3>4. (s \o q)[i] = q[i - Len(s)]
      BY <1>1, <2>2
    <3> QED
      BY <3>1, <3>3, <3>4
  <2>3. i <= Len(s) + 1 \/ i > Len(s) + 1
    OBVIOUS
  <2> QED
    BY <2>1, <2>2, <2>3
<1>7. a \o b = s \o q
  BY <1>5, <1>6, SameSeq
<1> QED
  BY <1>7 DEF a, b

\* What was or will be sent does what the accepted events do.
EffectInv == live => Alike(Effect(Output), Effect(accepted), saturated)

\* A step that leaves the output as a whole, and what was accepted.
LEMMA SameOutput ==
    ASSUME EffectInv, Output' = Output, live' = live, accepted' = accepted, saturated' = saturated
    PROVE  EffectInv'
<1>1. Effect(Output)' = Effect(Output) /\ Effect(accepted)' = Effect(accepted)
  BY DEF Effect
<1> QED
  BY <1>1 DEF EffectInv, Alike

\* A push that puts a new event behind the others.
LEMMA AppendedKeeps ==
    ASSUME RInv, EffectInv, live, NEW e \in Event, sent' = sent, saturated' = saturated,
           Queued' = Append(Queued, e), accepted' = Append(accepted, e)
    PROVE  EffectInv'
<1>1. /\ Queued \in Seq(Event) /\ sent \in Seq(Event) /\ accepted \in Seq(Event) /\ Output \in Seq(Event)
      /\ saturated \in BOOLEAN
  BY QueuedType, OutputType DEF RInv, TypeOK
<1>2. Output' = Append(Output, e)
  BY <1>1, AddedBehind DEF Output
<1>3. Effect(Output)' = Apply(Effect(Output), e) /\ Effect(accepted)' = Apply(Effect(accepted), e)
  <2>1. Effect(Append(Output, e)) = Apply(Effect(Output), e)
    BY <1>1, EffectAppend
  <2>2. Effect(Append(accepted, e)) = Apply(Effect(accepted), e)
    BY <1>1, EffectAppend
  <2>3. Effect(Output)' = Effect(Append(Output, e)) /\ Effect(accepted)' = Effect(Append(accepted, e))
    BY <1>2 DEF Effect
  <2> QED
    BY <2>1, <2>2, <2>3
<1>4. Effect(Output) \in Effects /\ Effect(accepted) \in Effects
  BY <1>1, EffectType
<1>5. Alike(Effect(Output), Effect(accepted), saturated)
  BY DEF EffectInv
<1>6. Alike(Apply(Effect(Output), e), Apply(Effect(accepted), e), saturated)
  BY <1>1, <1>4, <1>5, AlikeStep
<1> QED
  BY <1>3, <1>6 DEF EffectInv, Alike

\* A push that merges into the last event.
LEMMA MergedKeeps ==
    ASSUME RInv, EffectInv, NEW e \in Event, PushMerges(e)
    PROVE  EffectInv'
<1> DEFINE l == Queued[Len(Queued)]
           m == Merge(l, e)
<1>1. /\ Queued \in Seq(Event) /\ Len(Queued) = count /\ sent \in Seq(Event) /\ accepted \in Seq(Event)
      /\ saturated \in BOOLEAN
  BY QueuedType DEF RInv, TypeOK
<1>2. count \in Nat /\ count > 0 /\ live /\ sent' = sent /\ accepted' = Append(accepted, e)
  BY DEF RInv, TypeOK, PushMerges, MergesWithTail, Accepted
<1>3. Queued # <<>> /\ l \in Event /\ l = events[Slot(count - 1)]
  <2>1. \A i \in 1..count : Queued[i] = events[Slot(i - 1)]
    BY QueuedType DEF RInv
  <2> QED
    BY <1>1, <1>2, <2>1
<1>4. Mergeable(l, e)
  BY <1>3 DEF PushMerges, MergesWithTail
<1>5. m \in Event
  BY <1>3, <1>4, MergeType
<1>6. Queued' = [Queued EXCEPT ![Len(Queued)] = m]
  <2>1. Queued' = Fifo!Enqueue(Queued, e)
    BY PushMergesStep
  <2>2. Fifo!Mergeable(l, e) /\ Fifo!Merge(l, e) = m
    BY <1>4, SameMerge
  <2> QED
    BY <1>3, <2>1, <2>2 DEF Fifo!Enqueue
<1>7. saturated' = (saturated \/ (e.type = "rel" /\ l.val + e.val \notin Lo..Hi))
  BY <1>3 DEF PushMerges
<1> HIDE DEF l, m
<1>8. PICK t \in Seq(Event) : Queued = Append(t, l) /\ Queued' = Append(t, m)
  <2>1. \E t \in Seq(Event) : /\ Queued = Append(t, Queued[Len(Queued)])
                              /\ \A v \in Event : [Queued EXCEPT ![Len(Queued)] = v] = Append(t, v)
    <3>1. Queued \in Seq(Event) /\ Queued # <<>>
      BY <1>1, <1>3
    <3>2. \A q \in Seq(Event) : q # <<>> =>
             \E t \in Seq(Event) : /\ q = Append(t, q[Len(q)])
                                   /\ \A v \in Event : [q EXCEPT ![Len(q)] = v] = Append(t, v)
      BY LastOff
    <3> QED
      BY <3>1, <3>2, Zenon
  <2> QED
    BY <1>5, <1>6, <2>1 DEF l
<1> DEFINE r == sent \o t
           x == Effect(r)
           w == Effect(accepted)
<1>9. r \in Seq(Event) /\ Output = Append(r, l) /\ Output' = Append(r, m)
  BY <1>1, <1>2, <1>3, <1>5, <1>8, AddedBehind DEF Output
<1>10. x \in Effects /\ w \in Effects
  BY <1>1, <1>9, EffectType
<1>11. /\ Effect(Output) = Apply(x, l)
       /\ Effect(Output)' = Apply(x, m)
       /\ Effect(accepted)' = Apply(w, e)
  <2>1. Effect(Append(r, l)) = Apply(x, l)
    BY <1>3, <1>9, EffectAppend
  <2>2. Effect(Append(r, m)) = Apply(x, m)
    BY <1>5, <1>9, EffectAppend
  <2>3. Effect(Append(accepted, e)) = Apply(w, e)
    BY <1>1, EffectAppend
  <2>4. Effect(Output) = Effect(Append(r, l))
    BY <1>9
  <2> HIDE DEF r, x, w
  <2>5. Effect(Output)' = Effect(Append(r, m))
    BY <1>9 DEF Effect
  <2>6. Effect(accepted)' = Effect(Append(accepted, e))
    BY <1>2 DEF Effect
  <2> QED
    BY <2>1, <2>2, <2>3, <2>4, <2>5, <2>6
<1>12. saturated' \in BOOLEAN /\ (saturated => saturated')
  BY <1>1, <1>7, Zenon
<1> HIDE DEF r, x, w
<1>13. Alike(Apply(x, l), w, saturated')
  BY <1>2, <1>11, <1>12 DEF EffectInv, Alike, w
<1>14. Apply(x, l) \in Effects
  BY <1>3, <1>10, ApplyType
<1>15. Alike(Apply(Apply(x, l), e), Apply(w, e), saturated')
  BY <1>10, <1>12, <1>13, <1>14, AlikeStep
<1>16. Alike(Apply(x, m), Apply(Apply(x, l), e), saturated')
  <2>1. e.type = "rel" /\ l.val + e.val \notin Lo..Hi => saturated'
    BY <1>7, Zenon
  <2> QED
    BY <1>3, <1>4, <1>10, <1>12, <2>1, MergeAlike DEF m
<1>17. Alike(Apply(x, m), Apply(w, e), saturated')
  BY <1>15, <1>16 DEF Alike
<1> QED
  BY <1>11, <1>17 DEF EffectInv, Alike

\* One step.
LEMMA EffectStep ==
    ASSUME RInv, EffectInv, [Next]_vars PROVE EffectInv'
<1>1. ASSUME NEW e \in Event, PushMerges(e) PROVE EffectInv'
  BY <1>1, MergedKeeps
<1>2. ASSUME NEW e \in Event, PushAppends(e) PROVE EffectInv'
  <2>1. Queued' = Append(Queued, e)
    BY <1>2, PushAppendsStep, EnqueueAppends DEF PushAppends, RInv
  <2> QED
    BY <1>2, <2>1, AppendedKeeps DEF PushAppends, Accepted
<1>3. ASSUME NEW e \in Event, NEW ok \in BOOLEAN, PushGrows(e, ok) PROVE EffectInv'
  <2>1. live /\ live' = live /\ sent' = sent /\ saturated' = saturated /\ ~MergesWithTail(e)
    BY <1>3 DEF PushGrows
  <2>2. CASE ok
    <3>1. Queued' = Append(Queued, e)
      BY <1>3, <2>1, <2>2, PushGrowsStep, EnqueueAppends DEF RInv
    <3>2. accepted' = Append(accepted, e)
      BY <1>3, <2>2 DEF PushGrows, Accepted
    <3> QED
      BY <2>1, <3>1, <3>2, AppendedKeeps
  <2>3. CASE ~ok
    <3>1. Queued' = Queued
      BY <1>3, <2>3, PushGrowsStep
    <3>2. accepted' = accepted
      BY <1>3, <2>3 DEF PushGrows
    <3> QED
      BY <2>1, <3>1, <3>2, SameOutput DEF Output
  <2> QED
    BY <2>2, <2>3
<1>4. CASE Pop
  <2>1. Queued # <<>> /\ sent' = Append(sent, Head(Queued)) /\ Queued' = Tail(Queued)
    BY <1>4, PopStep
  <2>2. Queued \in Seq(Event) /\ sent \in Seq(Event)
    BY QueuedType DEF RInv, TypeOK
  <2>3. Output' = Output
    BY <2>1, <2>2, MovedOver DEF Output
  <2>4. live' = live /\ accepted' = accepted /\ saturated' = saturated
    BY <1>4 DEF Pop
  <2> QED
    BY <2>3, <2>4, SameOutput
<1>5. CASE Uninit
  BY <1>5, UninitStep DEF EffectInv
<1>6. CASE (\E e \in Event : PushRollsBack(e) \/ PushRefused(e)) \/ CheckSignalled \/ Reset \/ Drained \/ ConsumerEnds \/ UNCHANGED vars
  <2>1. UNCHANGED <<ring, live, sent, accepted, saturated>>
    BY <1>6, PushFailed DEF CheckSignalled, Reset, Drained, ConsumerEnds, vars
  <2>2. Queued' = Queued
    BY <2>1, RingUnchanged
  <2> QED
    BY <2>1, <2>2, SameOutput DEF Output
<1> QED
  BY <1>1, <1>2, <1>3, <1>4, <1>5, <1>6 DEF Next, Push, Drain

\* Merging loses no input: every accepted key, click and disconnect arrives
\* once, in order, with the pointer where it was when the event was made, and
\* the relative travel before it is kept unless a sum left the INT16 range, for
\* any number of pushes and any growth of the array of android_event.c.
THEOREM InputKept == Spec => []InputPreserved
<1>1. Init => EffectInv
  <2> SUFFICES ASSUME Init PROVE EffectInv
    OBVIOUS
  <2>1. Output = <<>> /\ accepted = <<>>
    BY DEF Init, Output, Queued
  <2> QED
    BY <2>1 DEF EffectInv, Alike
<1>2. RInv /\ EffectInv /\ [Next]_vars => EffectInv'
  BY EffectStep
<1>3. EffectInv => InputPreserved
  BY DEF EffectInv, InputPreserved, Alike, Output
<1> QED
  BY <1>1, <1>2, <1>3, RingInvariant, PTL DEF Spec
=============================================================================
