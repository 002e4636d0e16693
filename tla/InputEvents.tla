---------------------------- MODULE InputEvents ----------------------------
(***************************************************************************)
(* The input events the Android client queues for the RDP thread, and how  *)
(* two adjacent ones merge.  Only what android_push_event tells apart is   *)
(* kept: a "move" is an EVENT_TYPE_CURSOR whose flags are exactly          *)
(* PTR_FLAGS_MOVE and carries a position, a "rel" is the same for          *)
(* EVENT_TYPE_CURSOR_REL and carries a delta (one axis: the code treats dx *)
(* and dy alike and separately), and every other event (key, button,       *)
(* wheel, clipboard, disconnect) is "discrete".                            *)
(***************************************************************************)
EXTENDS Integers, Sequences

CONSTANTS Pos,      \* pointer positions
          Keys,     \* identities of discrete events
          Lo, Hi    \* SHRT_MIN and SHRT_MAX

ASSUME RangeAssumption == Lo \in Int /\ Hi \in Int /\ Lo <= 0 /\ 0 <= Hi

Event == [type : {"move"}, val : Pos]
             \cup [type : {"rel"}, val : Lo..Hi]
             \cup [type : {"discrete"}, val : Keys]

Saturate(n) == IF n > Hi THEN Hi ELSE IF n < Lo THEN Lo ELSE n

\* A plausible bug: a pure move also merges into a button or a key event.
Mergeable_Any(last, e) == e.type = "move" \/ (e.type = "rel" /\ last.type = "rel")

\* Only adjacent events of the same kind of pure motion merge.
Mergeable(last, e) == e.type \in {"move", "rel"} /\ last.type = e.type

\* A position replaces the queued one, deltas add up.
Merge(last, e) ==
    IF e.type = "move" THEN e ELSE [e EXCEPT !.val = Saturate(last.val + e.val)]

=============================================================================
