------------------------ MODULE SessionSurfaceProofs ------------------------
(***************************************************************************)
(* For every set of addresses, regions and sizes and any number of         *)
(* connections and events: the coalesced flush of the session surface      *)
(* loses no update and is never posted twice, every variable keeps its     *)
(* type, and the bitmap the RDP thread copies into is the session's        *)
(* surface in the remote size, unless a resize failed, or overlapped with  *)
(* main's catch-up or bind.                                                *)
(***************************************************************************)
EXTENDS SessionSurface, TLAPS

\* The RDP thread's record, and the flags under dirtyLock.
FlushTypes ==
    /\ rdp = [at |-> rdp.at, bm |-> rdp.bm, region |-> rdp.region]
    /\ released \in BOOLEAN /\ hasPendingDirty \in BOOLEAN /\ flushScheduled \in BOOLEAN
    /\ flush \in 0..1

\* flushScheduled stands for exactly one flush, posted or about to be.
FlushInv ==
    /\ FlushTypes
    /\ flush = 1 \/ rdp.at = "flush" => flushScheduled
    /\ ~(flush = 1 /\ rdp.at = "flush")
    /\ ~released /\ (hasPendingDirty \/ flushScheduled) => flush = 1 \/ rdp.at = "flush"

USE DEF FlushInv, FlushTypes, RdpIdle, Go

\* A step that leaves the flush alone and moves the RDP thread between places
\* other than the one before the post.
LEMMA Elsewhere ==
    ASSUME FlushInv, UNCHANGED <<dirty, released>>,
           rdp' = [at |-> rdp'.at, bm |-> rdp'.bm, region |-> rdp'.region],
           (rdp'.at = "flush") <=> (rdp.at = "flush")
    PROVE  FlushInv'
BY DEF dirty

\* The callbacks of the RDP thread.
LEMMA RdpStep ==
    ASSUME FlushInv, Callback \/ ResizeFails \/ (\E s \in Sizes : Resize(s))
                              \/ (\E r \in Regions : Paint(r))
    PROVE  FlushInv'
<1>1. CASE onGraphicsResize
  BY <1>1, Elsewhere DEF onGraphicsResize
<1>2. CASE ResizeSetsSurface
  BY <1>2, Elsewhere DEF ResizeSetsSurface, controller
<1>3. CASE ResizeFills
  BY <1>3, Elsewhere DEF ResizeFills, controller
<1>4. CASE ResizePosts
  BY <1>4, Elsewhere DEF ResizePosts, controller
<1>5. CASE onGraphicsUpdate
  BY <1>5, Elsewhere DEF onGraphicsUpdate
<1>6. CASE UpdateCopies
  BY <1>6, Elsewhere DEF UpdateCopies, controller
<1>7. CASE UpdateMarksDirty
  BY <1>7 DEF UpdateMarksDirty, shouldSchedule, controller
<1>8. CASE UpdatePostsFlush
  <2>1. flush = 0 /\ flushScheduled = TRUE
    BY <1>8 DEF UpdatePostsFlush
  <2>2. /\ flush' = 1 /\ rdp' = RdpIdle /\ released' = released
        /\ hasPendingDirty' = hasPendingDirty /\ flushScheduled' = TRUE
    BY <1>8, <2>1 DEF UpdatePostsFlush, controller
  <2> QED
    BY <2>2
<1>9. CASE ResizeFails
  BY <1>9, Elsewhere DEF ResizeFails
<1>10. CASE \E s \in Sizes : Resize(s)
  BY <1>10, Elsewhere DEF Resize, controller
<1>11. CASE \E r \in Regions : Paint(r)
  <2>1. PICK r \in Regions : Paint(r)
    BY <1>11
  <2>2. rdp' = [at |-> "update", bm |-> rdp.bm, region |-> {r}] /\ rdp.at = "idle"
    BY <2>1 DEF Paint
  <2>3. UNCHANGED <<dirty, released>>
    BY <2>1 DEF Paint, controller
  <2> QED
    BY <2>2, <2>3, Elsewhere
<1> QED
  BY <1>1, <1>2, <1>3, <1>4, <1>5, <1>6, <1>7, <1>8, <1>9, <1>10, <1>11 DEF Callback

\* The main thread, the connections and the end.
LEMMA MainStep ==
    ASSUME FlushInv, MainSteps \/ release \/ End \/ (\E a \in Addr : Connect(a))
    PROVE  FlushInv'
<1>1. CASE buildViewTree
  BY <1>1, Elsewhere DEF buildViewTree
<1>2. CASE setInstance
  BY <1>2, Elsewhere DEF setInstance
<1>3. CASE bind
  BY <1>3, Elsewhere DEF bind
<1>4. CASE CatchUpEnds
  BY <1>4, Elsewhere DEF CatchUpEnds
<1>5. CASE BindStarts \/ BindLooks \/ BindSets
  BY <1>5, Elsewhere DEF BindStarts, BindLooks, BindSets, controller
<1>6. CASE BindEnds
  BY <1>6, Elsewhere DEF BindEnds
<1>7. CASE ShowSurface
  BY <1>7, Elsewhere DEF ShowSurface, controller
<1>8. CASE flushDirtyRunnable
  <2>1. flush = 1 /\ rdp.at # "flush"
    BY <1>8 DEF flushDirtyRunnable
  <2>2. /\ flush' = 0 /\ rdp' = rdp /\ released' = released
        /\ hasPendingDirty' = FALSE /\ flushScheduled' = FALSE
    BY <1>8, <2>1 DEF flushDirtyRunnable, Unscheduled, controller
  <2>3. hasPendingDirty' \in BOOLEAN /\ flushScheduled' \in BOOLEAN
    BY <2>2, Zenon
  <2>4. ~hasPendingDirty' /\ ~flushScheduled'
    BY <2>2
  <2> QED
    BY <2>1, <2>2, <2>3, <2>4
<1>9. CASE onDraw
  BY <1>9, Elsewhere DEF onDraw, controller
<1>10. CASE release
  BY <1>10 DEF release
<1>11. CASE End
  BY <1>11, Elsewhere DEF End, controller
<1>12. CASE \E a \in Addr : Connect(a)
  BY <1>12, Elsewhere DEF Connect
<1> QED
  BY <1>1, <1>2, <1>3, <1>4, <1>5, <1>6, <1>7, <1>8, <1>9, <1>10, <1>11, <1>12 DEF MainSteps

\* The flag under dirtyLock and the posted runnable agree, although the post is
\* made after the lock is released and the flush runs on another thread.
THEOREM FlushInvariant == Spec => []FlushInv
<1>1. Init => FlushInv
  <2> SUFFICES ASSUME Init PROVE FlushInv
    OBVIOUS
  <2>1. /\ rdp = RdpIdle /\ flush = 0 /\ hasPendingDirty = FALSE /\ flushScheduled = FALSE
        /\ released = FALSE
    BY DEF Init
  <2>2. rdp.at = "idle" /\ rdp = [at |-> rdp.at, bm |-> rdp.bm, region |-> rdp.region]
    BY <2>1
  <2>3. FlushTypes
    <3>1. released \in BOOLEAN /\ hasPendingDirty \in BOOLEAN /\ flushScheduled \in BOOLEAN
      BY <2>1, Zenon
    <3>2. flush \in 0..1
      BY <2>1
    <3> QED
      BY <2>2, <3>1, <3>2
  <2>4. flush # 1 /\ rdp.at # "flush" /\ ~hasPendingDirty /\ ~flushScheduled
    BY <2>1, <2>2
  <2> QED
    BY <2>3, <2>4
<1>2. FlushInv /\ [Next]_vars => FlushInv'
  <2> SUFFICES ASSUME FlushInv, [Next]_vars PROVE FlushInv'
    OBVIOUS
  <2>1. CASE Next
    BY <2>1, RdpStep, MainStep DEF Next
  <2>2. CASE UNCHANGED vars
    BY <2>2, Elsewhere DEF vars, controller
  <2> QED
    BY <2>1, <2>2
<1> QED
  BY <1>1, <1>2, PTL DEF Spec

\* Dirty pixels always have a flush on its way: no order of updates and flushes
\* leaves a painted region off the screen for want of a wake-up.
THEOREM NoLostFlush == Spec => []DirtyHasFlush
<1>1. FlushInv => DirtyHasFlush
  BY DEF DirtyHasFlush
<1> QED
  BY <1>1, FlushInvariant, PTL

-----------------------------------------------------------------------------
(* Types.                                                                  *)

HIDE DEF FlushInv, FlushTypes

BitmapRec == [size : Sizes, stale : SUBSET Regions]
PostRec == {"surface"} \X (0..MaxConnects) \cup {"bind"} \X Addr
MainPlaces == {"idle", "catchUp", "look", "set", "bind"}
Places == {"idle", "resize", "surface", "fill", "show", "update", "copy", "dirty", "flush"}

\* The remote side and the fields that hold an instance.
RemoteOK ==
    /\ conn \in 0..MaxConnects /\ changes \in 0..MaxEvents
    /\ addr \in Addr \cup {None} /\ inst \in Addr \cup {None}
    /\ boundInstance \in Addr \cup {None}
    /\ size \in Sizes
    /\ effects \subseteq {"setInstance", "bind"}

\* Whatever holds a bitmap.
BitmapsOK ==
    /\ bitmaps \in Seq(BitmapRec)
    /\ bitmap \in Bitmaps /\ viewSurface \in Bitmaps
    /\ surface \in [0..MaxConnects -> Bitmaps]
    /\ rdp \in [at : Places, bm : Bitmaps, region : SUBSET Regions]
    /\ main \in [at : MainPlaces, bm : Bitmaps]
    /\ posts \in Seq(PostRec)
    /\ screen \subseteq Regions

BoolsOK ==
    /\ connected \in BOOLEAN /\ viewReady \in BOOLEAN /\ invalid \in BOOLEAN
    /\ failed \in BOOLEAN /\ overlap \in BOOLEAN

\* Bitmaps are never forgotten, and keep their size.
Grown(c) ==
    /\ c \in Seq(BitmapRec)
    /\ Len(c) >= Len(bitmaps)
    /\ \A b \in 1..Len(bitmaps) : c[b].size = bitmaps[b].size

LEMMA StaleRegions == ASSUME NEW r \in BitmapRec PROVE r.stale \in SUBSET Regions
BY DEF BitmapRec

LEMMA Restale ==
    ASSUME NEW r \in BitmapRec, NEW S \in SUBSET Regions
    PROVE  [r EXCEPT !.stale = S] \in BitmapRec /\ [r EXCEPT !.stale = S].size = r.size
BY DEF BitmapRec

\* A function on the places of the bitmaps is a sequence of as many.
LEMMA AsManyBitmaps ==
    ASSUME bitmaps \in Seq(BitmapRec), NEW c,
           c = [b \in 1..Len(bitmaps) |-> c[b]],
           \A b \in 1..Len(bitmaps) : c[b] \in BitmapRec /\ c[b].size = bitmaps[b].size
    PROVE  Grown(c) /\ Len(c) = Len(bitmaps)
<1>1. Len(bitmaps) \in Nat
  OBVIOUS
<1>2. c \in [1..Len(bitmaps) -> BitmapRec]
  OBVIOUS
<1>3. c \in Seq(BitmapRec) /\ Len(c) = Len(bitmaps)
  BY <1>1, <1>2
<1> QED
  BY <1>1, <1>3 DEF Grown

LEMMA GrownPaint ==
    ASSUME bitmaps \in Seq(BitmapRec), NEW R \in SUBSET Regions, Painted(R)
    PROVE  Grown(bitmaps') /\ Len(bitmaps') = Len(bitmaps)
<1>1. DOMAIN bitmaps = 1..Len(bitmaps)
  OBVIOUS
<1>2. bitmaps' = [b \in 1..Len(bitmaps) |-> [bitmaps[b] EXCEPT !.stale = bitmaps[b].stale \cup R]]
  BY <1>1 DEF Painted
<1>3. \A b \in 1..Len(bitmaps) : bitmaps[b] \in BitmapRec /\ bitmaps[b].stale \cup R \in SUBSET Regions
  <2>1. \A b \in 1..Len(bitmaps) : bitmaps[b] \in BitmapRec
    OBVIOUS
  <2> QED
    BY <2>1, StaleRegions
<1>4. \A b \in 1..Len(bitmaps) : bitmaps'[b] \in BitmapRec /\ bitmaps'[b].size = bitmaps[b].size
  BY <1>2, <1>3, Restale
<1> QED
  BY <1>2, <1>4, AsManyBitmaps

LEMMA GrownCopy ==
    ASSUME bitmaps \in Seq(BitmapRec), NEW b \in Bitmaps, NEW R
    PROVE  Grown(Copied(b, R)) /\ Len(Copied(b, R)) = Len(bitmaps)
<1>1. DOMAIN bitmaps = 1..Len(bitmaps) /\ bitmaps = [i \in 1..Len(bitmaps) |-> bitmaps[i]]
  OBVIOUS
<1>2. CASE b \in 1..Len(bitmaps)
  <2> DEFINE S == bitmaps[b].stale \ R
             n == [bitmaps[b] EXCEPT !.stale = S]
             c == [bitmaps EXCEPT ![b] = n]
  <2>1. Copied(b, R) = c
    BY DEF Copied
  <2>2. bitmaps[b] \in BitmapRec /\ S \in SUBSET Regions
    <3>1. bitmaps[b] \in BitmapRec
      BY <1>2
    <3> QED
      BY <3>1, StaleRegions
  <2>3. n \in BitmapRec /\ n.size = bitmaps[b].size
    BY <2>2, Restale
  <2> HIDE DEF n
  <2>4. c = [i \in 1..Len(bitmaps) |-> c[i]]
    BY <1>1
  <2>5. \A i \in 1..Len(bitmaps) : c[i] \in BitmapRec /\ c[i].size = bitmaps[i].size
    BY <1>1, <1>2, <2>3
  <2> HIDE DEF c
  <2>6. Grown(c) /\ Len(c) = Len(bitmaps)
    BY <2>4, <2>5, AsManyBitmaps
  <2> QED
    BY <2>1, <2>6
<1>3. CASE b \notin 1..Len(bitmaps)
  <2>1. Copied(b, R) = bitmaps
    BY <1>1, <1>3 DEF Copied
  <2> QED
    BY <2>1 DEF Grown
<1> QED
  BY <1>2, <1>3

LEMMA GrownAppend ==
    ASSUME bitmaps \in Seq(BitmapRec), NEW s \in Sizes
    PROVE  /\ Grown(Append(bitmaps, [size |-> s, stale |-> Regions]))
           /\ Len(Append(bitmaps, [size |-> s, stale |-> Regions])) = Len(bitmaps) + 1
           /\ Append(bitmaps, [size |-> s, stale |-> Regions])[Len(bitmaps) + 1].size = s
<1>1. [size |-> s, stale |-> Regions] \in BitmapRec
  BY DEF BitmapRec
<1> QED
  BY <1>1 DEF Grown

LEMMA GrownSame == ASSUME bitmaps \in Seq(BitmapRec) PROVE Grown(bitmaps)
BY DEF Grown

\* In every step the bitmaps stay or grow.
LEMMA BitmapsGrow == ASSUME RemoteOK, BitmapsOK, Next PROVE Grown(bitmaps')
<1> USE DEF BitmapsOK
<1>1. ASSUME NEW s \in Sizes, Resize(s) PROVE Grown(bitmaps')
  BY <1>1, GrownPaint DEF Resize
<1>2. ASSUME NEW r \in Regions, Paint(r) PROVE Grown(bitmaps')
  BY <1>2, GrownPaint DEF Paint
<1>3. CASE onGraphicsResize
  BY <1>3, GrownAppend, GrownSame DEF onGraphicsResize, RemoteOK
<1>4. CASE ResizeFills \/ UpdateCopies
  BY <1>4, GrownCopy DEF ResizeFills, UpdateCopies
<1>5. CASE CatchUpEnds \/ BindEnds
  BY <1>5, GrownCopy, GrownSame DEF CatchUpEnds, BindEnds, PutBack
<1>6. CASE UNCHANGED bitmaps
  BY <1>6, GrownSame
<1> QED
  BY <1>1, <1>2, <1>3, <1>4, <1>5, <1>6
  DEF Next, Callback, MainSteps, Connect, End, ResizeFails, ResizeSetsSurface, ResizePosts,
      onGraphicsUpdate, UpdateMarksDirty, UpdatePostsFlush, buildViewTree, setInstance, bind,
      BindStarts, BindLooks, BindSets, ShowSurface, flushDirtyRunnable, onDraw, release

\* The remote side's part of the types.
LEMMA RemoteStep == ASSUME RemoteOK, BitmapsOK, BoolsOK, Next PROVE RemoteOK'
<1> USE SurfaceAssumption DEF RemoteOK
<1>1. ASSUME NEW a \in Addr, Connect(a) PROVE RemoteOK'
  BY <1>1 DEF Connect
<1>2. ASSUME NEW s \in Sizes, Resize(s) PROVE RemoteOK'
  BY <1>2 DEF Resize, controller
<1>3. ASSUME NEW r \in Regions, Paint(r) PROVE RemoteOK'
  BY <1>3 DEF Paint, controller
<1>4. CASE End \/ ResizeFails \/ release
  BY <1>4 DEF End, ResizeFails, controller, release, remoteVars
<1>5. CASE Callback
  BY <1>5 DEF Callback, onGraphicsResize, ResizeSetsSurface, ResizeFills, ResizePosts,
     onGraphicsUpdate, UpdateCopies, UpdateMarksDirty, UpdatePostsFlush, remoteVars, controller
<1>6. CASE MainSteps
  BY <1>6 DEF MainSteps, buildViewTree, setInstance, bind, CatchUpEnds, BindStarts, BindLooks, BindSets, BindEnds,
     ShowSurface, flushDirtyRunnable, onDraw, remoteVars, controller
<1> QED
  BY <1>1, <1>2, <1>3, <1>4, <1>5, <1>6 DEF Next

\* The fields keep holding a bitmap, as bitmaps are never forgotten.
LEMMA StillBitmaps ==
    ASSUME bitmaps \in Seq(BitmapRec), Grown(bitmaps')
    PROVE  Bitmaps \subseteq Bitmaps' /\ None \in Bitmaps'
<1>1. DOMAIN bitmaps = 1..Len(bitmaps) /\ Len(bitmaps) \in Nat
  OBVIOUS
<1>2. DOMAIN bitmaps' = 1..Len(bitmaps') /\ Len(bitmaps') \in Nat /\ Len(bitmaps') >= Len(bitmaps)
  BY DEF Grown
<1> QED
  BY <1>1, <1>2 DEF Bitmaps

\* The RDP thread's part.
LEMMA RdpBitmaps ==
    ASSUME RemoteOK, BitmapsOK, Grown(bitmaps'),
           Callback \/ ResizeFails \/ (\E s \in Sizes : Resize(s)) \/ (\E r \in Regions : Paint(r))
    PROVE  BitmapsOK'
<1>0. Bitmaps \subseteq Bitmaps' /\ None \in Bitmaps' /\ bitmaps' \in Seq(BitmapRec)
  BY StillBitmaps DEF BitmapsOK, Grown
<1>a. surface \in [0..MaxConnects -> Bitmaps'] /\ bitmap \in Bitmaps' /\ viewSurface \in Bitmaps'
  BY <1>0 DEF BitmapsOK
<1>b. /\ rdp \in [at : Places, bm : Bitmaps', region : SUBSET Regions]
      /\ main \in [at : MainPlaces, bm : Bitmaps']
  BY <1>0 DEF BitmapsOK
<1>c. RdpIdle \in [at : Places, bm : Bitmaps', region : SUBSET Regions]
  BY <1>0 DEF Places
<1>d. \A p \in Places : [rdp EXCEPT !.at = p] \in [at : Places, bm : Bitmaps', region : SUBSET Regions]
  BY <1>b
<1>e. \A b \in Bitmaps', p \in Places :
          [rdp EXCEPT !.at = p, !.bm = b] \in [at : Places, bm : Bitmaps', region : SUBSET Regions]
  BY <1>b
<1>f. \A R \in SUBSET Regions, p \in Places :
          [rdp EXCEPT !.at = p, !.region = R] \in [at : Places, bm : Bitmaps', region : SUBSET Regions]
  BY <1>b
<1>g. posts \in Seq(PostRec) /\ screen \subseteq Regions
  BY DEF BitmapsOK
<1>h. {"resize", "surface", "fill", "show", "update", "copy", "dirty", "flush"} \subseteq Places
  BY DEF Places
<1>1. CASE onGraphicsResize
  <2> DEFINE existing == BoundBitmap(addr)
  <2>1. existing \in Bitmaps'
    BY <1>0, <1>a DEF BoundBitmap
  <2>2. bitmap' \in Bitmaps'
    <3>1. CASE Fits(existing)
      BY <1>1, <2>1, <3>1 DEF onGraphicsResize
    <3>2. CASE ~Fits(existing)
      <4>1. bitmap' = Len(bitmaps) + 1 /\ bitmaps' = Append(bitmaps, [size |-> size, stale |-> Regions])
        BY <1>1, <3>2 DEF onGraphicsResize
      <4>2. bitmaps \in Seq(BitmapRec) /\ Len(bitmaps') = Len(bitmaps) + 1
        BY <4>1, GrownAppend DEF RemoteOK, BitmapsOK
      <4>3. bitmap' \in DOMAIN bitmaps'
        BY <1>0, <4>1, <4>2
      <4> QED
        BY <4>3 DEF Bitmaps
    <3> QED
      BY <3>1, <3>2
  <2>3. rdp' = [rdp EXCEPT !.at = "surface", !.bm = bitmap'] /\ UNCHANGED <<surface, posts, main, view>>
    BY <1>1 DEF onGraphicsResize
  <2> QED
    BY <1>0, <1>a, <1>b, <1>e, <1>g, <1>h, <2>2, <2>3 DEF BitmapsOK, view
<1>2. CASE ResizeSetsSurface
  <2>1. /\ surface' = [surface EXCEPT ![conn] = rdp.bm] /\ rdp' = [rdp EXCEPT !.at = "fill"]
        /\ UNCHANGED <<bitmaps, bitmap, posts, main, view>>
    BY <1>2 DEF ResizeSetsSurface, controller
  <2>2. surface' \in [0..MaxConnects -> Bitmaps']
    BY <1>a, <1>b, <2>1
  <2> QED
    BY <1>0, <1>a, <1>b, <1>d, <1>g, <1>h, <2>1, <2>2 DEF BitmapsOK, view
<1>3. CASE ResizeFills \/ UpdateCopies
  <2>1. /\ rdp' \in {[rdp EXCEPT !.at = "show"], [rdp EXCEPT !.at = "dirty"]}
        /\ UNCHANGED <<surface, bitmap, posts, main, view>>
    BY <1>3 DEF ResizeFills, UpdateCopies, controller
  <2> QED
    BY <1>0, <1>a, <1>b, <1>d, <1>g, <1>h, <2>1 DEF BitmapsOK, view
<1>4. CASE ResizePosts
  <2>1. <<"surface", conn>> \in PostRec
    BY DEF RemoteOK, PostRec
  <2>2. posts' \in Seq(PostRec)
    BY <1>4, <1>g, <2>1 DEF ResizePosts, ResizeShown
  <2> QED
    BY <1>0, <1>4, <1>a, <1>b, <1>c, <1>g, <2>2 DEF ResizePosts, controller, BitmapsOK, view
<1>5. CASE onGraphicsUpdate
  <2>1. bitmap' \in Bitmaps'
    BY <1>0, <1>5, <1>a DEF onGraphicsUpdate, BoundBitmap, RemoteOK
  <2>2. rdp' = RdpIdle \/ rdp' = [rdp EXCEPT !.at = "copy", !.bm = bitmap']
    BY <1>5 DEF onGraphicsUpdate
  <2>3. UNCHANGED <<surface, bitmaps, posts, main, view>>
    BY <1>5 DEF onGraphicsUpdate
  <2> QED
    BY <1>0, <1>a, <1>b, <1>c, <1>e, <1>g, <1>h, <2>1, <2>2, <2>3 DEF BitmapsOK, view
<1>6. CASE UpdateMarksDirty \/ UpdatePostsFlush
  <2>1. /\ rdp' = RdpIdle \/ rdp' = [rdp EXCEPT !.at = "flush"]
        /\ UNCHANGED <<surface, bitmaps, bitmap, posts, main, view>>
    BY <1>6 DEF UpdateMarksDirty, UpdatePostsFlush, controller
  <2> QED
    BY <1>0, <1>a, <1>b, <1>c, <1>d, <1>g, <1>h, <2>1 DEF BitmapsOK, view
<1>7. CASE ResizeFails
  <2>1. /\ bitmap' = BoundBitmap(addr) /\ rdp' = RdpIdle
        /\ UNCHANGED <<surface, bitmaps, posts, main, view>>
    BY <1>7 DEF ResizeFails
  <2>2. bitmap' \in Bitmaps'
    BY <1>0, <1>a, <2>1 DEF BoundBitmap
  <2> QED
    BY <1>0, <1>a, <1>b, <1>c, <1>g, <2>1, <2>2 DEF BitmapsOK, view
<1>8. ASSUME NEW s \in Sizes, Resize(s) PROVE BitmapsOK'
  <2>1. /\ rdp' = [rdp EXCEPT !.at = "resize"] /\ screen' \subseteq Regions
        /\ UNCHANGED <<surface, bitmap, posts, main, viewSurface>>
    BY <1>8, <1>g DEF Resize, Painted, controller
  <2> QED
    BY <1>0, <1>a, <1>b, <1>d, <1>g, <1>h, <2>1 DEF BitmapsOK
<1>9. ASSUME NEW r \in Regions, Paint(r) PROVE BitmapsOK'
  <2>1. /\ rdp' = [rdp EXCEPT !.at = "update", !.region = {r}] /\ screen' \subseteq Regions
        /\ UNCHANGED <<surface, bitmap, posts, main, viewSurface>>
    BY <1>9, <1>g DEF Paint, Painted, controller
  <2> QED
    BY <1>0, <1>a, <1>b, <1>f, <1>g, <1>h, <2>1 DEF BitmapsOK
<1> QED
  BY <1>1, <1>2, <1>3, <1>4, <1>5, <1>6, <1>7, <1>8, <1>9 DEF Callback

\* The main thread's part, the connections and the end.
LEMMA MainBitmaps ==
    ASSUME RemoteOK, BitmapsOK, Grown(bitmaps'),
           MainSteps \/ release \/ End \/ (\E a \in Addr : Connect(a))
    PROVE  BitmapsOK'
<1> DEFINE MainType == [at : MainPlaces, bm : Bitmaps']
<1>0. Bitmaps \subseteq Bitmaps' /\ None \in Bitmaps' /\ bitmaps' \in Seq(BitmapRec)
  BY StillBitmaps DEF BitmapsOK, Grown
<1>a. surface \in [0..MaxConnects -> Bitmaps'] /\ bitmap \in Bitmaps' /\ viewSurface \in Bitmaps'
  BY <1>0 DEF BitmapsOK
<1>b. /\ rdp \in [at : Places, bm : Bitmaps', region : SUBSET Regions]
      /\ main \in MainType
  BY <1>0 DEF BitmapsOK
<1>c. MainIdle \in MainType
  BY <1>0 DEF MainIdle, MainPlaces
<1>d. posts \in Seq(PostRec) /\ screen \subseteq Regions
  BY DEF BitmapsOK
<1>e. surface[conn] \in Bitmaps' /\ conn \in 0..MaxConnects
  BY <1>a DEF RemoteOK
<1>f. posts # <<>> => Tail(posts) \in Seq(PostRec) /\ Head(posts) \in PostRec
  BY <1>d
<1>1. CASE buildViewTree \/ setInstance
  <2>1. main' = main \/ main' = MainIdle \/ main' = [at |-> "catchUp", bm |-> surface[conn]]
    BY <1>1 DEF buildViewTree, setInstance, catchUpSurface
  <2>2. main' \in MainType
    BY <1>b, <1>c, <1>e, <2>1 DEF MainPlaces
  <2>3. UNCHANGED <<surface, bitmaps, bitmap, posts, rdp, view>>
    BY <1>1 DEF buildViewTree, setInstance
  <2> QED
    BY <1>0, <1>a, <1>b, <1>d, <2>2, <2>3 DEF BitmapsOK, view
<1>2. CASE bind
  <2>1. ASSUME addr # None PROVE Append(posts, <<"bind", addr>>) \in Seq(PostRec)
    <3>1. <<"bind", addr>> \in PostRec
      BY <2>1 DEF RemoteOK, PostRec
    <3> QED
      BY <1>d, <3>1
  <2>2. posts' \in Seq(PostRec)
    BY <1>2, <1>d, <2>1 DEF bind
  <2> QED
    BY <1>0, <1>2, <1>a, <1>b, <1>d, <2>2 DEF bind, BitmapsOK, view
<1>3. CASE CatchUpEnds
  <2>1. <<"surface", conn>> \in PostRec
    BY <1>e DEF PostRec
  <2>2. posts' \in Seq(PostRec)
    BY <1>3, <1>d, <2>1 DEF CatchUpEnds
  <2>3. bitmap' \in Bitmaps' /\ main' \in MainType /\ UNCHANGED <<surface, rdp, view>>
    BY <1>3, <1>b, <1>c DEF CatchUpEnds, PutBack
  <2> QED
    BY <1>0, <1>a, <1>b, <1>d, <2>2, <2>3 DEF BitmapsOK, view
<1>4. CASE BindStarts
  <2>1. main' \in {MainIdle, [at |-> "look", bm |-> surface[conn]], [at |-> "bind", bm |-> surface[conn]]}
    BY <1>4 DEF BindStarts
  <2>2. main' \in MainType
    BY <1>c, <1>e, <2>1 DEF MainPlaces
  <2>3. posts' \in Seq(PostRec) /\ UNCHANGED <<surface, bitmaps, bitmap, rdp, view>>
    BY <1>4, <1>f DEF BindStarts, Posted, controller
  <2> QED
    BY <1>0, <1>a, <1>b, <1>d, <2>2, <2>3 DEF BitmapsOK, view
<1>11. CASE BindLooks
  <2>1. main' \in {MainIdle, [at |-> "set", bm |-> bitmap]}
    BY <1>11 DEF BindLooks
  <2>2. main' \in MainType
    BY <1>a, <1>c, <2>1 DEF MainPlaces
  <2>3. UNCHANGED <<surface, bitmaps, bitmap, posts, rdp, view>>
    BY <1>11 DEF BindLooks, controller
  <2> QED
    BY <1>0, <1>a, <1>b, <1>d, <2>2, <2>3 DEF BitmapsOK, view
<1>12. CASE BindSets
  <2>1. /\ surface' = [surface EXCEPT ![conn] = main.bm] /\ main' = [main EXCEPT !.at = "bind"]
        /\ UNCHANGED <<bitmaps, bitmap, posts, rdp, view>>
    BY <1>12 DEF BindSets, controller
  <2>2. surface' \in [0..MaxConnects -> Bitmaps'] /\ main' \in MainType
    BY <1>a, <1>b, <2>1 DEF MainPlaces
  <2> QED
    BY <1>0, <1>a, <1>b, <1>d, <2>1, <2>2 DEF BitmapsOK, view
<1>5. CASE BindEnds
  <2>1. bitmap' \in Bitmaps' /\ main' \in MainType /\ UNCHANGED <<surface, posts, rdp, screen>>
    BY <1>5, <1>b, <1>c DEF BindEnds, PutBack, OnSurfaceChange
  <2>2. viewSurface' \in Bitmaps'
    BY <1>5, <1>a, <1>e DEF BindEnds, OnSurfaceChange
  <2> QED
    BY <1>0, <1>a, <1>b, <1>d, <2>1, <2>2 DEF BitmapsOK
<1>6. CASE ShowSurface
  <2>1. /\ posts # <<>> /\ Head(posts)[1] = "surface" /\ posts' = Tail(posts)
        /\ viewSurface' = IF viewReady THEN surface[Head(posts)[2]] ELSE viewSurface
        /\ UNCHANGED <<surface, bitmaps, bitmap, rdp, main, screen>>
    BY <1>6 DEF ShowSurface, Posted, OnSurfaceChange, controller
  <2>2. Head(posts)[2] \in 0..MaxConnects
    BY <1>f, <2>1 DEF PostRec
  <2>3. viewSurface' \in Bitmaps' /\ posts' \in Seq(PostRec)
    BY <1>a, <1>f, <2>1, <2>2
  <2> QED
    BY <1>0, <1>a, <1>b, <1>d, <2>1, <2>3 DEF BitmapsOK
<1>7. CASE flushDirtyRunnable \/ End
  BY <1>0, <1>7, <1>a, <1>b, <1>d DEF flushDirtyRunnable, End, controller, view, BitmapsOK
<1>8. CASE onDraw
  <2>1. ASSUME viewSurface # None PROVE bitmaps[viewSurface].stale \subseteq Regions
    <3>1. viewSurface \in 1..Len(bitmaps) /\ bitmaps \in Seq(BitmapRec)
      BY <2>1 DEF BitmapsOK, Bitmaps
    <3>2. bitmaps[viewSurface] \in BitmapRec
      BY <3>1
    <3> QED
      BY <3>2, StaleRegions
  <2>2. screen' \subseteq Regions
    BY <1>8, <2>1 DEF onDraw
  <2> QED
    BY <1>0, <1>8, <1>a, <1>b, <1>d, <2>2 DEF onDraw, controller, BitmapsOK
<1>9. CASE release
  <2>1. <<>> \in Seq(PostRec)
    OBVIOUS
  <2> QED
    BY <1>0, <1>9, <1>a, <1>b, <2>1 DEF release, BitmapsOK
<1>10. ASSUME NEW a \in Addr, Connect(a) PROVE BitmapsOK'
  <2>1. bitmap' \in Bitmaps' /\ UNCHANGED <<surface, bitmaps, posts, rdp, main, view>>
    BY <1>0, <1>10, <1>a DEF Connect, BoundBitmap
  <2> QED
    BY <1>0, <1>a, <1>b, <1>d, <2>1 DEF BitmapsOK, view
<1> QED
  BY <1>1, <1>2, <1>3, <1>4, <1>5, <1>6, <1>7, <1>8, <1>9, <1>10, <1>11, <1>12 DEF MainSteps

-----------------------------------------------------------------------------
(* The bitmap follows the remote size.                                     *)

Right(b) == b # None /\ bitmaps[b].size = size

InResize == {"resize", "surface", "fill", "show"}

\* From the moment the RDP thread has chosen a bitmap of the right size, it is in
\* the field, and once it is the session's surface it stays so, unless the threads
\* overlap.
Follows ==
    /\ addr = None => ~connected /\ rdp = RdpIdle
    /\ rdp.at \in {"surface", "fill", "show"} =>
           /\ Right(rdp.bm)
           /\ ~overlap /\ ~released => bitmap = rdp.bm
    /\ rdp.at \in {"fill", "show"} /\ ~overlap => surface[conn] = rdp.bm
    /\ connected /\ rdp.at \notin InResize /\ ~failed /\ ~overlap =>
           /\ Right(surface[conn])
           /\ ~released => bitmap = surface[conn]

\* What main has read is still there, unless the threads overlap.
MainHolds ==
    /\ ~overlap /\ main.at \in {"catchUp", "bind"} => main.bm = surface[conn]
    /\ ~overlap /\ main.at \in {"look", "set"} => surface[conn] = None
USE DEF InResize

\* What is right stays right while the size does.
LEMMA StaysRight ==
    ASSUME BitmapsOK, Grown(bitmaps'), UNCHANGED size, NEW b \in Bitmaps, Right(b)
    PROVE  b # None /\ bitmaps'[b].size = size'
<1>1. b \in 1..Len(bitmaps)
  BY DEF Right, Bitmaps, BitmapsOK
<1> QED
  BY <1>1 DEF Right, Grown

\* A step outside a resize.
LEMMA FollowsElsewhere ==
    ASSUME RemoteOK, BitmapsOK, Grown(bitmaps'), Follows,
           UNCHANGED <<conn, addr, size, connected, surface, failed, overlap, released>>,
           rdp.at \notin InResize, rdp'.at \notin InResize, rdp' = rdp \/ addr # None,
           bitmap' \in {bitmap, surface[conn]}
    PROVE  Follows'
<1>1. connected /\ ~failed /\ ~overlap => surface[conn] # None /\ bitmaps'[surface[conn]].size = size'
  <2>1. surface[conn] \in Bitmaps
    BY DEF RemoteOK, BitmapsOK
  <2> QED
    BY <2>1, StaysRight DEF Follows
<1> QED
  BY <1>1 DEF Follows, Right

\* A step that leaves the RDP thread, the bitmap and the surface alone.
LEMMA FollowsKept ==
    ASSUME RemoteOK, BitmapsOK, Grown(bitmaps'), Follows,
           UNCHANGED <<conn, addr, size, connected, surface, failed, overlap, bitmap, rdp, released>>
    PROVE  Follows'
<1>1. connected /\ ~failed /\ ~overlap /\ rdp.at \notin InResize =>
          surface[conn] # None /\ bitmaps'[surface[conn]].size = size'
  <2>1. surface[conn] \in Bitmaps
    BY DEF RemoteOK, BitmapsOK
  <2> QED
    BY <2>1, StaysRight DEF Follows
<1>2. rdp.at \in {"surface", "fill", "show"} => rdp.bm # None /\ bitmaps'[rdp.bm].size = size'
  <2>1. rdp.bm \in Bitmaps
    BY DEF BitmapsOK
  <2> QED
    BY <2>1, StaysRight DEF Follows
<1> QED
  BY <1>1, <1>2 DEF Follows, Right

\* The RDP thread.
LEMMA RdpFollows ==
    ASSUME RemoteOK, BitmapsOK, Grown(bitmaps'), Follows,
           Callback \/ ResizeFails \/ (\E s \in Sizes : Resize(s)) \/ (\E r \in Regions : Paint(r))
    PROVE  Follows'
<1>a. \A p \in Places : [rdp EXCEPT !.at = p].at = p /\ [rdp EXCEPT !.at = p].bm = rdp.bm
  BY DEF BitmapsOK
<1>b. \A p \in Places, b \in Bitmaps' : /\ [rdp EXCEPT !.at = p, !.bm = b].at = p
                                        /\ [rdp EXCEPT !.at = p, !.bm = b].bm = b
  BY DEF BitmapsOK
<1>c. {"resize", "surface", "fill", "show", "update", "copy", "dirty", "flush"} \subseteq Places
  BY DEF Places
<1>d. rdp.at # "idle" => addr # None
  BY DEF Follows
<1>e. RdpIdle.at = "idle"
  OBVIOUS
<1>f. rdp.at \in {"surface", "fill", "show"} => rdp.bm # None /\ (size' = size => bitmaps'[rdp.bm].size = size')
  <2>1. rdp.bm \in Bitmaps
    BY DEF BitmapsOK
  <2> QED
    BY <2>1, StaysRight DEF Follows, Right
<1>1. CASE onGraphicsResize
  <2> DEFINE existing == BoundBitmap(addr)
  <2>1. /\ rdp' = [rdp EXCEPT !.at = "surface", !.bm = bitmap'] /\ rdp.at = "resize"
        /\ UNCHANGED <<conn, addr, connected, size, surface, released>>
    BY <1>1 DEF onGraphicsResize, remoteVars
  <2>2. bitmap' # None /\ bitmaps'[bitmap'].size = size
    <3>1. CASE Fits(existing)
      BY <1>1, <3>1 DEF onGraphicsResize, Fits
    <3>2. CASE ~Fits(existing)
      <4>1. bitmap' = Len(bitmaps) + 1 /\ bitmaps' = Append(bitmaps, [size |-> size, stale |-> Regions])
        BY <1>1, <3>2 DEF onGraphicsResize
      <4>2. bitmaps'[bitmap'].size = size /\ bitmap' \in Nat
        BY <4>1, GrownAppend DEF RemoteOK, BitmapsOK
      <4> QED
        BY <4>2, SurfaceAssumption
    <3> QED
      BY <3>1, <3>2
  <2>3. rdp'.at = "surface" /\ rdp'.bm = bitmap'
    BY <2>1 DEF BitmapsOK
  <2> QED
    BY <1>d, <2>1, <2>2, <2>3 DEF Follows, Right
<1>2. CASE ResizeSetsSurface
  <2>1. /\ surface' = [surface EXCEPT ![conn] = rdp.bm] /\ rdp' = [rdp EXCEPT !.at = "fill"]
        /\ rdp.at = "surface"
        /\ UNCHANGED <<conn, addr, connected, size, released, bitmaps, bitmap, failed>>
        /\ ~overlap' => ~overlap
    BY <1>2 DEF ResizeSetsSurface, controller, remoteVars
  <2>2. surface'[conn] = rdp.bm
    BY <2>1 DEF RemoteOK, BitmapsOK
  <2>3. rdp'.at = "fill" /\ rdp'.bm = rdp.bm
    BY <1>a, <1>c, <2>1
  <2> QED
    BY <1>d, <2>1, <2>2, <2>3 DEF Follows, Right
<1>3. CASE ResizeFills
  <2>1. /\ rdp' = [rdp EXCEPT !.at = "show"] /\ rdp.at = "fill"
        /\ UNCHANGED <<conn, addr, connected, size, released, surface, bitmap, failed, overlap>>
    BY <1>3 DEF ResizeFills, controller, remoteVars, history
  <2>2. rdp'.at = "show" /\ rdp'.bm = rdp.bm
    BY <1>a, <1>c, <2>1
  <2> QED
    BY <1>d, <1>f, <2>1, <2>2 DEF Follows, Right
<1>4. CASE ResizePosts
  <2>1. /\ rdp' = RdpIdle /\ rdp.at = "show"
        /\ UNCHANGED <<conn, addr, size, released, surface, bitmap, bitmaps, failed, overlap>>
    BY <1>4 DEF ResizePosts, controller, history
  <2> QED
    BY <1>d, <1>e, <1>f, <2>1 DEF Follows, Right
<1>5. CASE onGraphicsUpdate
  <2>1. bitmap' \in {bitmap, surface[conn]}
    BY <1>5 DEF onGraphicsUpdate, BoundBitmap
  <2>2. /\ rdp.at = "update" /\ UNCHANGED <<conn, addr, size, connected, surface, failed, overlap, released>>
        /\ rdp' = RdpIdle \/ rdp' = [rdp EXCEPT !.at = "copy", !.bm = bitmap']
    BY <1>5 DEF onGraphicsUpdate, remoteVars, history
  <2>3. rdp'.at \in {"idle", "copy"}
    BY <1>e, <2>2 DEF BitmapsOK
  <2> QED
    BY <1>d, <2>1, <2>2, <2>3, FollowsElsewhere
<1>6. CASE UpdateCopies \/ UpdateMarksDirty \/ UpdatePostsFlush
  <2>1. /\ rdp.at \in {"copy", "dirty", "flush"}
        /\ UNCHANGED <<conn, addr, size, connected, surface, failed, overlap, released, bitmap>>
        /\ rdp' \in {RdpIdle, [rdp EXCEPT !.at = "dirty"], [rdp EXCEPT !.at = "flush"]}
    BY <1>6 DEF UpdateCopies, UpdateMarksDirty, UpdatePostsFlush, remoteVars, controller,
                history
  <2>2. rdp'.at \in {"idle", "dirty", "flush"}
    BY <1>a, <1>c, <1>e, <2>1
  <2> QED
    BY <1>d, <2>1, <2>2, FollowsElsewhere
<1>7. CASE ResizeFails
  <2>1. failed' = TRUE /\ rdp' = RdpIdle /\ addr' = addr /\ rdp.at = "resize"
    BY <1>7 DEF ResizeFails
  <2> QED
    BY <1>d, <1>e, <2>1 DEF Follows
<1>8. ASSUME NEW s \in Sizes, Resize(s) PROVE Follows'
  <2>1. rdp' = [rdp EXCEPT !.at = "resize"] /\ addr' = addr /\ addr # None
    BY <1>8 DEF Resize
  <2>2. rdp'.at = "resize"
    BY <1>a, <1>c, <2>1
  <2> QED
    BY <2>1, <2>2 DEF Follows
<1>9. ASSUME NEW r \in Regions, Paint(r) PROVE Follows'
  <2>1. /\ rdp.at = "idle" /\ rdp' = [rdp EXCEPT !.at = "update", !.region = {r}]
        /\ UNCHANGED <<conn, addr, size, connected, surface, failed, overlap, released, bitmap>>
        /\ connected
    BY <1>9 DEF Paint, controller, history
  <2>2. rdp'.at = "update" /\ addr # None
    BY <2>1 DEF BitmapsOK, Follows
  <2> QED
    BY <2>1, <2>2, FollowsElsewhere
<1> QED
  BY <1>1, <1>2, <1>3, <1>4, <1>5, <1>6, <1>7, <1>8, <1>9 DEF Callback

\* The bitmap main puts back is the session's surface, unless the threads overlap.
LEMMA PutBackFollows ==
    ASSUME RemoteOK, BitmapsOK, Grown(bitmaps'), Follows, MainHolds, PutBack,
           main.at \in {"catchUp", "bind"},
           UNCHANGED <<conn, addr, size, connected, surface, rdp, released>>
    PROVE  Follows'
<1>1. connected /\ ~failed /\ ~overlap /\ rdp.at \notin InResize =>
          surface[conn] # None /\ bitmaps'[surface[conn]].size = size'
  <2>1. surface[conn] \in Bitmaps
    BY DEF RemoteOK, BitmapsOK
  <2> QED
    BY <2>1, StaysRight DEF Follows
<1>2. rdp.at \in {"surface", "fill", "show"} => rdp.bm # None /\ bitmaps'[rdp.bm].size = size'
  <2>1. rdp.bm \in Bitmaps
    BY DEF BitmapsOK
  <2> QED
    BY <2>1, StaysRight DEF Follows
<1>3. /\ ~overlap' => ~overlap /\ bitmap' = surface[conn] /\ rdp.at # "surface"
      /\ failed' = failed
  BY DEF PutBack, MainWrites, MainHolds
<1> QED
  BY <1>1, <1>2, <1>3 DEF Follows, Right

\* The main thread, the connections and the end.
LEMMA MainFollows ==
    ASSUME RemoteOK, BitmapsOK, Grown(bitmaps'), Follows, MainHolds,
           MainSteps \/ release \/ End \/ (\E a \in Addr : Connect(a))
    PROVE  Follows'
<1>1. CASE CatchUpEnds \/ BindEnds
  BY <1>1, PutBackFollows DEF CatchUpEnds, BindEnds, remoteVars
<1>2. CASE BindSets
  <2>1. /\ UNCHANGED <<conn, addr, size, connected, failed, bitmap, bitmaps, rdp, released>>
        /\ ~overlap' => ~overlap /\ rdp.at # "surface" /\ surface[conn] = None
    BY <1>2 DEF BindSets, MainWrites, MainHolds, remoteVars, controller
  <2> QED
    BY <2>1 DEF Follows, Right
<1>3. CASE buildViewTree \/ setInstance \/ bind \/ BindStarts \/ BindLooks \/ ShowSurface
           \/ flushDirtyRunnable \/ onDraw
  BY <1>3, FollowsKept DEF buildViewTree, setInstance, bind, BindStarts, BindLooks, ShowSurface,
                           flushDirtyRunnable, onDraw, remoteVars, controller, history
<1>4. CASE release
  <2>1. /\ released' = TRUE
        /\ UNCHANGED <<conn, addr, size, connected, surface, bitmaps, rdp, failed, overlap>>
    BY <1>4 DEF release, remoteVars, history
  <2> QED
    BY <2>1 DEF Follows, Right
<1>5. CASE End
  BY <1>5 DEF End, Follows
<1>6. ASSUME NEW a \in Addr, Connect(a) PROVE Follows'
  <2>1. addr = None /\ addr' = a /\ a # None /\ UNCHANGED <<rdp, connected>>
    BY <1>6, SurfaceAssumption DEF Connect
  <2> QED
    BY <2>1 DEF Follows
<1> QED
  BY <1>1, <1>2, <1>3, <1>4, <1>5, <1>6 DEF MainSteps

\* Main reads the surface, and what writes it meanwhile is an overlap.
LEMMA HoldsStep ==
    ASSUME RemoteOK, BitmapsOK, MainHolds, [Next]_vars
    PROVE  MainHolds'
<1> USE DEF MainHolds
<1>1. CASE UNCHANGED <<main, surface, conn, overlap>>
  BY <1>1
<1>2. CASE main' = MainIdle
  BY <1>2 DEF MainIdle
<1>3. CASE onGraphicsResize \/ ResizeSetsSurface
  BY <1>3 DEF onGraphicsResize, ResizeSetsSurface
<1>4. CASE buildViewTree \/ setInstance
  <2>1. \/ UNCHANGED <<main, surface, conn, overlap>>
        \/ main' = MainIdle
        \/ main'.at = "catchUp" /\ main'.bm = surface[conn] /\ UNCHANGED <<surface, conn>>
    BY <1>4 DEF buildViewTree, setInstance, catchUpSurface, remoteVars, history
  <2> QED
    BY <1>1, <1>2, <2>1
<1>5. CASE BindStarts
  <2>1. UNCHANGED <<surface, conn>>
    BY <1>5 DEF BindStarts, remoteVars
  <2>2. \/ main' = MainIdle
        \/ main'.at = "look" /\ surface[conn] = None
        \/ main'.at = "bind" /\ main'.bm = surface[conn]
    BY <1>5 DEF BindStarts
  <2> QED
    BY <1>2, <2>1, <2>2
<1>6. CASE BindLooks
  <2>1. main.at = "look" /\ UNCHANGED <<surface, conn, overlap>>
    BY <1>6 DEF BindLooks, remoteVars, history
  <2>2. main' = MainIdle \/ main'.at = "set"
    BY <1>6 DEF BindLooks
  <2> QED
    BY <1>2, <2>1, <2>2
<1>7. CASE BindSets
  <2>1. /\ surface' = [surface EXCEPT ![conn] = main.bm] /\ main' = [main EXCEPT !.at = "bind"]
        /\ conn' = conn
    BY <1>7 DEF BindSets, remoteVars
  <2>2. surface'[conn] = main.bm /\ main'.at = "bind" /\ main'.bm = main.bm
    BY <2>1 DEF RemoteOK, BitmapsOK
  <2> QED
    BY <2>1, <2>2
<1>8. CASE CatchUpEnds \/ BindEnds
  BY <1>2, <1>8 DEF CatchUpEnds, BindEnds, PutBack
<1>9. CASE \E a \in Addr : Connect(a)
  BY <1>2, <1>9 DEF Connect
<1>10. CASE release
  BY <1>2, <1>10 DEF release
<1>11. CASE \/ End \/ ResizeFails \/ (\E s \in Sizes : Resize(s)) \/ (\E r \in Regions : Paint(r))
            \/ ResizeFills \/ ResizePosts
            \/ onGraphicsUpdate \/ UpdateCopies \/ UpdateMarksDirty \/ UpdatePostsFlush
            \/ bind \/ ShowSurface \/ flushDirtyRunnable \/ onDraw \/ UNCHANGED vars
  BY <1>1, <1>11 DEF End, ResizeFails, Resize, Paint, ResizeFills, ResizePosts, onGraphicsUpdate,
     UpdateCopies, UpdateMarksDirty, UpdatePostsFlush, bind, ShowSurface, flushDirtyRunnable, onDraw,
     vars, remoteVars, history
<1> QED
  BY <1>3, <1>4, <1>5, <1>6, <1>7, <1>8, <1>9, <1>10, <1>11 DEF Next, Callback, MainSteps

\* The flags that are not under dirtyLock.
LEMMA BoolsStep == ASSUME BoolsOK, Next PROVE BoolsOK'
<1>1. connected' \in BOOLEAN
  <2>1. connected' = connected \/ connected' = TRUE \/ connected' = FALSE
    BY DEF Next, Callback, MainSteps, Connect, End, Resize, ResizeFails, Paint, onGraphicsResize,
      ResizeSetsSurface, ResizeFills, ResizePosts, onGraphicsUpdate, UpdateCopies,
      UpdateMarksDirty, UpdatePostsFlush, buildViewTree, setInstance, bind, CatchUpEnds,
      BindStarts, BindLooks, BindSets, BindEnds, ShowSurface, flushDirtyRunnable, onDraw, release, remoteVars
  <2> QED
    BY <2>1, Zenon DEF BoolsOK
<1>2. viewReady' \in BOOLEAN
  <2>1. viewReady' = viewReady \/ viewReady' = TRUE \/ viewReady' = FALSE
    BY DEF Next, Callback, MainSteps, Connect, End, Resize, ResizeFails, Paint, onGraphicsResize,
      ResizeSetsSurface, ResizeFills, ResizePosts, onGraphicsUpdate, UpdateCopies,
      UpdateMarksDirty, UpdatePostsFlush, buildViewTree, setInstance, bind, CatchUpEnds,
      BindStarts, BindLooks, BindSets, BindEnds, ShowSurface, flushDirtyRunnable, onDraw, release, controller
  <2> QED
    BY <2>1, Zenon DEF BoolsOK
<1>3. invalid' \in BOOLEAN
  <2>1. \/ invalid' = invalid \/ invalid' = FALSE \/ invalid' = (invalid \/ viewReady)
        \/ invalid' = (invalid \/ (hasPendingDirty /\ viewReady))
    BY DEF Next, Callback, MainSteps, Connect, End, Resize, ResizeFails, Paint, onGraphicsResize,
      ResizeSetsSurface, ResizeFills, ResizePosts, onGraphicsUpdate, UpdateCopies,
      UpdateMarksDirty, UpdatePostsFlush, buildViewTree, setInstance, bind, CatchUpEnds,
      BindStarts, BindLooks, BindSets, BindEnds, ShowSurface, flushDirtyRunnable, onDraw, release, view,
      OnSurfaceChange
  <2> QED
    BY <2>1, Zenon DEF BoolsOK
<1>4. failed' \in BOOLEAN
  <2>1. failed' = failed \/ failed' = TRUE \/ failed' = FALSE
    BY DEF Next, Callback, MainSteps, Connect, End, Resize, ResizeFails, Paint,
      onGraphicsResize, ResizeSetsSurface, ResizeFills, ResizePosts, onGraphicsUpdate,
      UpdateCopies, UpdateMarksDirty, UpdatePostsFlush, buildViewTree, setInstance, bind,
      BindStarts, BindLooks, BindSets, CatchUpEnds, BindEnds, PutBack, MainWrites, ShowSurface,
      flushDirtyRunnable, onDraw, release, history
  <2> QED
    BY <2>1, Zenon DEF BoolsOK
<1>5. overlap' \in BOOLEAN
  <2>1. \/ overlap' = overlap \/ overlap' = FALSE \/ overlap' = (main.at # "idle")
        \/ overlap' = (overlap \/ main.at # "idle") \/ overlap' = (overlap \/ rdp.at = "surface")
    BY DEF Next, Callback, MainSteps, Connect, End, Resize, ResizeFails, Paint,
      onGraphicsResize, ResizeSetsSurface, ResizeFills, ResizePosts, onGraphicsUpdate,
      UpdateCopies, UpdateMarksDirty, UpdatePostsFlush, buildViewTree, setInstance, bind,
      BindStarts, BindLooks, BindSets, CatchUpEnds, BindEnds, PutBack, MainWrites, ShowSurface,
      flushDirtyRunnable, onDraw, release, history
  <2> QED
    BY <2>1, Zenon DEF BoolsOK
<1> QED
  BY <1>1, <1>2, <1>3, <1>4, <1>5 DEF BoolsOK

SurfaceInv == RemoteOK /\ BitmapsOK /\ BoolsOK /\ Follows /\ MainHolds

\* SurfaceInv holds throughout.
THEOREM SurfaceInvariant == Spec => []SurfaceInv
<1>1. Init => SurfaceInv
  <2> SUFFICES ASSUME Init PROVE SurfaceInv
    OBVIOUS
  <2>1. size \in Sizes
    BY SurfaceAssumption DEF Init
  <2>2. RemoteOK
    BY <2>1, SurfaceAssumption DEF Init, RemoteOK
  <2>3. BoolsOK
    BY Zenon DEF Init, BoolsOK
  <2>4. bitmaps \in Seq(BitmapRec) /\ posts \in Seq(PostRec) /\ None \in Bitmaps
    BY DEF Init, Bitmaps
  <2>5. BitmapsOK
    BY <2>4 DEF Init, BitmapsOK, MainIdle, MainPlaces, Places
  <2>6. Follows /\ MainHolds
    BY DEF Init, Follows, MainHolds, MainIdle
  <2> QED
    BY <2>2, <2>3, <2>5, <2>6 DEF SurfaceInv
<1>2. SurfaceInv /\ [Next]_vars => SurfaceInv'
  <2> SUFFICES ASSUME SurfaceInv, [Next]_vars PROVE SurfaceInv'
    OBVIOUS
  <2> USE DEF SurfaceInv
  <2>1. CASE Next
    <3>1. Grown(bitmaps') /\ RemoteOK' /\ BoolsOK'
      BY <2>1, BitmapsGrow, RemoteStep, BoolsStep
    <3>2. BitmapsOK' /\ Follows'
      BY <2>1, <3>1, RdpBitmaps, MainBitmaps, RdpFollows, MainFollows DEF Next
    <3> QED
      BY <3>1, <3>2, HoldsStep
  <2>2. CASE UNCHANGED vars
    <3> USE <2>2 DEF vars, remoteVars, controller, dirty, view, history
    <3>1. RemoteOK' /\ BoolsOK'
      BY DEF RemoteOK, BoolsOK
    <3>2. BitmapsOK'
      BY DEF BitmapsOK, Bitmaps
    <3>3. Follows'
      BY DEF Follows, Right
    <3> QED
      BY <3>1, <3>2, <3>3, HoldsStep
  <2> QED
    BY <2>1, <2>2
<1> QED
  BY <1>1, <1>2, PTL DEF Spec

\* The fields, the bitmaps and the places of both threads keep their types, and
\* at most one flush is posted.
THEOREM SurfaceTypes == Spec => []TypeOK
<1>1. SurfaceInv /\ FlushInv => TypeOK
  <2> SUFFICES ASSUME SurfaceInv, FlushInv PROVE TypeOK
    OBVIOUS
  <2>1. {connected, viewReady, released, hasPendingDirty, flushScheduled, invalid,
         failed, overlap} \subseteq BOOLEAN
    BY Zenon DEF SurfaceInv, BoolsOK, FlushInv, FlushTypes
  <2>2. flush \in 0..1
    BY DEF FlushInv, FlushTypes
  <2>3. /\ rdp.at \in Places /\ rdp.bm \in Bitmaps /\ rdp.region \subseteq Regions
        /\ main.at \in MainPlaces /\ main.bm \in Bitmaps
    BY DEF SurfaceInv, BitmapsOK
  <2> QED
    BY <2>1, <2>2, <2>3 DEF SurfaceInv, RemoteOK, BitmapsOK, BitmapRec, Places, MainPlaces, TypeOK
<1> QED
  BY <1>1, SurfaceInvariant, FlushInvariant, PTL

\* Between the callbacks the RDP thread copies into the session's own surface,
\* which has the remote size, for any interleaving of resizes, reconnects at new
\* or old addresses, catch-ups and binds: only a write of one thread between two
\* accesses of the other, or a resize without a bitmap, can break that.
THEOREM SurfaceIsShared == Spec => []OneSurface
<1>1. SurfaceInv => OneSurface
  BY DEF SurfaceInv, Follows, OneSurface, InStep, Right
<1> QED
  BY <1>1, SurfaceInvariant, PTL
=============================================================================
