---------------------------- MODULE SessionSurface ----------------------------
(***************************************************************************)
(* The way of the picture from libfreerdp's buffer to the screen           *)
(* (SessionSurfaceController.kt): the RDP thread copies painted regions    *)
(* into a bitmap and asks the main thread for a flush; a resize, a new     *)
(* view and a new instance replace the bitmap.                             *)
(*                                                                         *)
(* The fields bitmap and inst are written by both threads without a lock.  *)
(* What happens between two accesses to them, or between two critical      *)
(* sections, is one step.  Pixels are abstracted to the set of regions in  *)
(* which a bitmap, or the screen, differs from libfreerdp's buffer.        *)
(***************************************************************************)
EXTENDS Naturals, Sequences

CONSTANTS
    Addr,           \* addresses of native instances, which may be used again
    Regions,        \* parts of the desktop
    Sizes,          \* sizes of the desktop
    None,           \* no instance, no bitmap
    MaxConnects,    \* bound on the connections
    MaxEvents       \* bound on the connections, paints and later resizes together

ASSUME SurfaceAssumption ==
    /\ MaxConnects \in Nat /\ MaxEvents \in Nat
    /\ None \notin Addr \cup Nat
    /\ Sizes # {}

VARIABLES
    conn,           \* connections so far, the number of the current session
    addr,           \* the instance of the current session, or None when it is freed
    connected,      \* its first callback is over
    size,           \* of the remote desktop
    changes,
    surface,        \* SessionState.surface of each session
    bitmaps,        \* every bitmap made: its size and its stale regions
    inst, bitmap,   \* fields of the controller
    viewReady,
    released,
    hasPendingDirty, flushScheduled,
    posts,          \* runnables posted to main, oldest first
    flush,          \* how often flushDirtyRunnable is posted, now or after a delay
    rdp,            \* the RDP thread: its place, its bitmap and its region
    main,           \* the main thread: its place and its bitmap
    effects,        \* effects of the screen that are to run
    boundInstance,
    viewSurface,    \* SessionView.surface
    invalid,        \* the view is to be drawn
    screen,         \* regions in which the screen is stale
    failed,         \* history: the last resize of this session made no bitmap
    overlap         \* history: since that resize began to change bitmap and surface,
                    \* a thread has written one of them while the other thread was
                    \* between its accesses to them

remoteVars == <<conn, addr, connected, size, changes>>
controller == <<inst, bitmap, viewReady, released, boundInstance>>
dirty == <<hasPendingDirty, flushScheduled, flush>>
view == <<viewSurface, invalid, screen>>
history == <<failed, overlap>>
vars == <<remoteVars, surface, bitmaps, controller, dirty, posts, rdp, main, effects, view, history>>

RdpIdle == [at |-> "idle", bm |-> None, region |-> {}]
MainIdle == [at |-> "idle", bm |-> None]
Bitmaps == DOMAIN bitmaps \cup {None}

\* The fields, and the places of the two threads; at most one flush is posted.
TypeOK ==
    /\ conn \in 0..MaxConnects /\ changes \in 0..MaxEvents
    /\ addr \in Addr \cup {None} /\ inst \in Addr \cup {None}
    /\ boundInstance \in Addr \cup {None}
    /\ size \in Sizes
    /\ bitmaps \in Seq([size : Sizes, stale : SUBSET Regions])
    /\ bitmap \in Bitmaps /\ viewSurface \in Bitmaps
    /\ surface \in [0..MaxConnects -> Bitmaps]
    /\ {connected, viewReady, released, hasPendingDirty, flushScheduled, invalid,
        failed, overlap} \subseteq BOOLEAN
    /\ flush \in 0..1
    /\ rdp.at \in {"idle", "resize", "surface", "fill", "show", "update", "copy", "dirty", "flush"}
    /\ rdp.bm \in Bitmaps /\ rdp.region \subseteq Regions
    /\ main.at \in {"idle", "catchUp", "look", "set", "bind"} /\ main.bm \in Bitmaps
    /\ effects \subseteq {"setInstance", "bind"}
    /\ screen \subseteq Regions

Init ==
    /\ conn = 0 /\ addr = None /\ connected = FALSE
    /\ size = CHOOSE s \in Sizes : TRUE
    /\ changes = 0
    /\ surface = [s \in 0..MaxConnects |-> None]
    /\ bitmaps = <<>>
    /\ inst = None /\ bitmap = None /\ boundInstance = None
    /\ viewReady = FALSE /\ released = FALSE
    /\ hasPendingDirty = FALSE /\ flushScheduled = FALSE /\ flush = 0
    /\ posts = <<>>
    /\ rdp = RdpIdle /\ main = MainIdle
    /\ effects = {}
    /\ viewSurface = None /\ invalid = FALSE /\ screen = Regions
    /\ failed = FALSE /\ overlap = FALSE

-----------------------------------------------------------------------------

\* onSessionInstanceBound, and what it leaves in bitmap.
BoundBitmap(a) == IF inst = a THEN bitmap ELSE None

\* The regions R are painted: every bitmap and the screen are stale there.
Painted(R) ==
    /\ bitmaps' = [b \in DOMAIN bitmaps |-> [bitmaps[b] EXCEPT !.stale = @ \cup R]]
    /\ screen' = screen \cup R

\* updateGraphics of the regions R of b.
Copied(b, R) == [bitmaps EXCEPT ![b].stale = @ \ R]

Go(place) == rdp' = [rdp EXCEPT !.at = place]

-----------------------------------------------------------------------------
(* The session: connect() on main, and the end of the native instance.     *)

\* The screen's own reconnects forget boundInstance first, the others do not.
Connect(a) ==
    /\ addr = None /\ ~released /\ main = MainIdle
    /\ conn < MaxConnects /\ conn + changes < MaxEvents
    /\ conn' = conn + 1
    /\ addr' = a
    /\ inst' = a
    /\ bitmap' = BoundBitmap(a)
    /\ boundInstance' \in {boundInstance, None}
    /\ effects' = effects \cup {"setInstance"}
    /\ failed' = FALSE /\ overlap' = FALSE
    /\ UNCHANGED <<connected, size, changes, surface, bitmaps, viewReady, released, dirty, posts,
                   rdp, main, view>>

\* The thread has ended before the instance is freed.
End ==
    /\ addr # None /\ rdp = RdpIdle
    /\ addr' = None
    /\ connected' = FALSE
    /\ UNCHANGED <<conn, size, changes, surface, bitmaps, controller, dirty, posts, rdp, main,
                   effects, view, history>>

-----------------------------------------------------------------------------
(* The RDP thread.                                                         *)

\* gdi_init and OnSettingsChanged, or gdi_resize and OnGraphicsResize.
Resize(s) ==
    /\ addr # None /\ rdp = RdpIdle /\ ~released
    /\ connected => conn + changes < MaxEvents
    /\ changes' = IF connected THEN changes + 1 ELSE changes
    /\ size' = s
    /\ Painted(Regions)
    /\ Go("resize")
    /\ UNCHANGED <<conn, addr, connected, surface, controller, dirty, posts, main, effects,
                   viewSurface, invalid, history>>

\* A plausible bug: the old bitmap is kept, whatever its size.
Fits_Always(b) == b # None

Fits(b) == b # None /\ bitmaps[b].size = size

\* A bitmap of the right size is kept, else a new one is made.
onGraphicsResize ==
    LET existing == BoundBitmap(addr)
    IN  /\ rdp.at = "resize"
        /\ inst' = addr
        /\ bitmap' = IF Fits(existing) THEN existing ELSE Len(bitmaps) + 1
        /\ bitmaps' = IF Fits(existing) THEN bitmaps
                      ELSE Append(bitmaps, [size |-> size, stale |-> Regions])
        /\ rdp' = [rdp EXCEPT !.at = "surface", !.bm = bitmap']
        /\ failed' = FALSE
        /\ overlap' = (main.at # "idle")
        /\ UNCHANGED <<remoteVars, surface, viewReady, released, boundInstance, dirty, posts, main,
                       effects, view>>

\* The size is out of bounds, so that no bitmap has it, or there is no memory.
ResizeFails ==
    /\ rdp.at = "resize"
    /\ ~Fits(BoundBitmap(addr))
    /\ inst' = addr /\ bitmap' = BoundBitmap(addr)
    /\ rdp' = RdpIdle
    /\ connected' = TRUE
    /\ effects' = IF connected THEN effects ELSE {"setInstance", "bind"}
    /\ failed' = TRUE
    /\ UNCHANGED <<conn, addr, size, changes, surface, bitmaps, viewReady, released, boundInstance,
                   dirty, posts, main, view, overlap>>

ResizeSetsSurface ==
    /\ rdp.at = "surface"
    /\ surface' = [surface EXCEPT ![conn] = rdp.bm]
    /\ Go("fill")
    /\ overlap' = (overlap \/ main.at # "idle")
    /\ UNCHANGED <<remoteVars, bitmaps, controller, dirty, posts, main, effects, view, failed>>

ResizeFills ==
    /\ rdp.at = "fill"
    /\ bitmaps' = Copied(rdp.bm, Regions)
    /\ Go("show")
    /\ UNCHANGED <<remoteVars, surface, controller, dirty, posts, main, effects, view, history>>

\* A plausible bug: the view is not told about the new surface.
ResizeShown_Not == posts

ResizeShown == Append(posts, <<"surface", conn>>)

\* After OnSettingsChanged, OnConnectionSuccess makes the state Connected.
ResizePosts ==
    /\ rdp.at = "show"
    /\ posts' = ResizeShown
    /\ rdp' = RdpIdle
    /\ connected' = TRUE
    /\ effects' = IF connected THEN effects ELSE {"setInstance", "bind"}
    /\ UNCHANGED <<conn, addr, size, changes, surface, bitmaps, controller, dirty, main, view, history>>

\* A region is painted; EndPaint calls OnGraphicsUpdate.
Paint(r) ==
    /\ connected /\ rdp = RdpIdle /\ ~released
    /\ conn + changes < MaxEvents
    /\ changes' = changes + 1
    /\ Painted({r})
    /\ rdp' = [rdp EXCEPT !.at = "update", !.region = {r}]
    /\ UNCHANGED <<conn, addr, connected, size, surface, controller, dirty, posts, main, effects,
                   viewSurface, invalid, history>>

onGraphicsUpdate ==
    LET own == BoundBitmap(addr)
        bm  == IF own # None THEN own ELSE surface[conn]
    IN  /\ rdp.at = "update"
        /\ inst' = addr
        /\ bitmap' = bm
        /\ rdp' = IF bm = None THEN RdpIdle ELSE [rdp EXCEPT !.at = "copy", !.bm = bm]
        /\ UNCHANGED <<remoteVars, surface, bitmaps, viewReady, released, boundInstance, dirty,
                       posts, main, effects, view, history>>

UpdateCopies ==
    /\ rdp.at = "copy"
    /\ bitmaps' = Copied(rdp.bm, rdp.region)
    /\ Go("dirty")
    /\ UNCHANGED <<remoteVars, surface, controller, dirty, posts, main, effects, view, history>>

\* A plausible bug: every update posts a flush.
shouldSchedule_Always == TRUE

shouldSchedule == ~flushScheduled

\* Under dirtyLock.
UpdateMarksDirty ==
    /\ rdp.at = "dirty"
    /\ hasPendingDirty' = TRUE
    /\ flushScheduled' = TRUE
    /\ rdp' = IF shouldSchedule THEN [rdp EXCEPT !.at = "flush"] ELSE RdpIdle
    /\ UNCHANGED <<remoteVars, surface, bitmaps, controller, flush, posts, main, effects, view,
                   history>>

UpdatePostsFlush ==
    /\ rdp.at = "flush"
    /\ flush' = flush + 1
    /\ rdp' = RdpIdle
    /\ UNCHANGED <<remoteVars, surface, bitmaps, controller, hasPendingDirty, flushScheduled, posts,
                   main, effects, view, history>>

Callback ==
    \/ onGraphicsResize \/ ResizeSetsSurface \/ ResizeFills \/ ResizePosts
    \/ onGraphicsUpdate \/ UpdateCopies \/ UpdateMarksDirty \/ UpdatePostsFlush

-----------------------------------------------------------------------------
(* The main thread.                                                        *)

\* GlobalApp.getSession(i) of the current session.
HasSession(i) == addr # None /\ i = addr

\* catchUpSurface reads the surface of the instance i.
catchUpSurface(i) ==
    main' = IF HasSession(i) /\ surface[conn] # None
            THEN [at |-> "catchUp", bm |-> surface[conn]] ELSE MainIdle

buildViewTree ==
    /\ main = MainIdle /\ ~released /\ ~viewReady
    /\ viewReady' = TRUE
    /\ catchUpSurface(inst)
    /\ UNCHANGED <<remoteVars, surface, bitmaps, inst, bitmap, released, boundInstance, dirty, posts,
                   rdp, effects, view, history>>

\* The effect keyed by the state: manager.instance() is 0 after the end.
setInstance ==
    /\ main = MainIdle /\ ~released /\ "setInstance" \in effects
    /\ effects' = effects \ {"setInstance"}
    /\ inst' = IF addr = None THEN inst ELSE addr
    /\ IF viewReady /\ addr # None THEN catchUpSurface(addr) ELSE UNCHANGED main
    /\ UNCHANGED <<remoteVars, surface, bitmaps, bitmap, viewReady, released, boundInstance, dirty,
                   posts, rdp, view, history>>

\* The next effect of a composition that finds Connected, once for an instance.
bind ==
    /\ main = MainIdle /\ ~released /\ effects = {"bind"}
    /\ effects' = effects \ {"bind"}
    /\ IF addr # None /\ boundInstance # addr
       THEN /\ boundInstance' = addr
            /\ inst' = addr
            /\ posts' = Append(posts, <<"bind", addr>>)
       ELSE UNCHANGED <<boundInstance, inst, posts>>
    /\ UNCHANGED <<remoteVars, surface, bitmaps, bitmap, viewReady, released, dirty, rdp, main, view,
                   history>>

\* A write of main to bitmap or surface, maybe in the middle of a resize.
MainWrites == overlap' = (overlap \/ rdp.at = "surface") /\ UNCHANGED failed

\* The bitmap main has read goes into the field, where the RDP thread may have
\* put another one meanwhile.
PutBack ==
    /\ bitmap' = main.bm
    /\ MainWrites
    /\ bitmaps' = IF addr = None THEN bitmaps ELSE Copied(main.bm, Regions)
    /\ main' = MainIdle

CatchUpEnds ==
    /\ main.at = "catchUp"
    /\ PutBack
    /\ posts' = Append(posts, <<"surface", conn>>)
    /\ UNCHANGED <<remoteVars, surface, inst, viewReady, released, boundInstance, dirty, rdp,
                   effects, view>>

Posted(kind) == main = MainIdle /\ posts # <<>> /\ Head(posts)[1] = kind /\ posts' = Tail(posts)

\* sessionView.onSurfaceChange(session) and invalidate().
OnSurfaceChange(s) ==
    /\ viewSurface' = IF viewReady THEN surface[s] ELSE viewSurface
    /\ invalid' = (invalid \/ viewReady)
    /\ UNCHANGED screen

\* The runnable of bind() finds the session by its address, which may be another
\* one's by now, and reads its surface.
BindStarts ==
    /\ Posted("bind")
    /\ main' = IF ~HasSession(Head(posts)[2]) THEN MainIdle
               ELSE [at |-> IF surface[conn] = None THEN "look" ELSE "bind", bm |-> surface[conn]]
    /\ UNCHANGED <<remoteVars, surface, bitmaps, controller, dirty, rdp, effects, view, history>>

\* A session without a surface ...
BindLooks ==
    /\ main.at = "look"
    /\ main' = IF bitmap = None THEN MainIdle ELSE [at |-> "set", bm |-> bitmap]
    /\ UNCHANGED <<remoteVars, surface, bitmaps, controller, dirty, posts, rdp, effects, view,
                   history>>

\* ... gets the bitmap there is.
BindSets ==
    /\ main.at = "set"
    /\ surface' = [surface EXCEPT ![conn] = main.bm]
    /\ main' = [main EXCEPT !.at = "bind"]
    /\ MainWrites
    /\ UNCHANGED <<remoteVars, bitmaps, controller, dirty, posts, rdp, effects, view>>

BindEnds ==
    /\ main.at = "bind"
    /\ PutBack
    /\ OnSurfaceChange(conn)
    /\ UNCHANGED <<remoteVars, surface, inst, viewReady, released, boundInstance, dirty, posts, rdp,
                   effects>>

\* The runnable of a resize or of a catch-up.
ShowSurface ==
    /\ Posted("surface")
    /\ OnSurfaceChange(Head(posts)[2])
    /\ UNCHANGED <<remoteVars, surface, bitmaps, controller, dirty, rdp, main, effects, history>>

\* A plausible bug: the flag stays set.
Unscheduled_Not == UNCHANGED flushScheduled

Unscheduled == flushScheduled' = FALSE

flushDirtyRunnable ==
    /\ main = MainIdle /\ flush > 0
    /\ flush' = flush - 1
    /\ Unscheduled
    /\ hasPendingDirty' = FALSE
    /\ invalid' = (invalid \/ (hasPendingDirty /\ viewReady))
    /\ UNCHANGED <<remoteVars, surface, bitmaps, controller, posts, rdp, main, effects, viewSurface,
                   screen, history>>

\* A frame: SessionView.onDraw draws the whole surface.
onDraw ==
    /\ main = MainIdle /\ viewReady /\ invalid
    /\ invalid' = FALSE
    /\ screen' = IF viewSurface = None THEN Regions ELSE bitmaps[viewSurface].stale
    /\ UNCHANGED <<remoteVars, surface, bitmaps, controller, dirty, posts, rdp, main, effects,
                   viewSurface, history>>

release ==
    /\ main = MainIdle /\ ~released
    /\ released' = TRUE
    /\ posts' = <<>> /\ flush' = 0
    /\ viewSurface' = None /\ invalid' = FALSE /\ screen' = Regions
    /\ bitmap' = None /\ inst' = None /\ viewReady' = FALSE
    /\ effects' = {}
    /\ UNCHANGED <<remoteVars, surface, bitmaps, boundInstance, hasPendingDirty, flushScheduled, rdp,
                   main, history>>

MainSteps ==
    \/ buildViewTree \/ setInstance \/ bind
    \/ CatchUpEnds \/ BindStarts \/ BindLooks \/ BindSets \/ BindEnds \/ ShowSurface
    \/ flushDirtyRunnable \/ onDraw

-----------------------------------------------------------------------------

Next ==
    \/ \E a \in Addr : Connect(a)
    \/ End
    \/ \E s \in Sizes : Resize(s)
    \/ ResizeFails
    \/ \E r \in Regions : Paint(r)
    \/ Callback
    \/ MainSteps
    \/ release

Spec == Init /\ [][Next]_vars

\* Both threads go on; the remote side and the user owe nothing.
FairSpec == Spec /\ WF_vars(Callback) /\ WF_vars(MainSteps)

-----------------------------------------------------------------------------
(* Properties.                                                             *)

\* No update is left behind by the coalescing: dirty pixels always have a flush
\* posted, or the RDP thread about to post it, whatever the flush that runs
\* meanwhile does.
DirtyHasFlush == hasPendingDirty /\ ~released => flush > 0 \/ rdp.at = "flush"

\* The bitmap the RDP thread copies into is that of the session's surface, and
\* has the remote size.
InStep == bitmap = surface[conn] /\ bitmap # None /\ bitmaps[bitmap].size = size

\* bitmap and the session's surface are two unlocked fields that both threads set:
\* between the callbacks they are in step, also after a new instance at an old
\* address, unless no bitmap could be made, or main's catch-up or bind and the
\* resize really ran at the same time.  Nothing is said about what such an overlap
\* leaves; main's writes before and after a resize, however late, are covered.
OneSurface ==
    connected /\ rdp = RdpIdle /\ ~failed /\ ~overlap /\ ~released => InStep

\* "agar tidak ada frame yang hilang": when the remote side comes to rest and the
\* bitmap is in step, however that came about, the screen shows the remote
\* picture, all of it.
ScreenCatchesUp ==
    <>[](connected /\ viewReady /\ InStep) => <>[](screen = {})
=============================================================================
