------------------------- MODULE SessionScreenProofs -------------------------
(***************************************************************************)
(* Safety of the session screen in every behaviour, however compositions   *)
(* are delayed: its reconnecting effects exclude each other, none of their *)
(* connect() calls is lost or made after an authentication error, every    *)
(* attempt is made within an open window, and the part of the black screen *)
(* effect that the model leaves out is never reached.                      *)
(***************************************************************************)
EXTENDS SessionScreen, TLAPS

\* Each effect that is under way was launched by the last composition, whose
\* keys say which of the two may be.
DriverInv ==
    /\ apply \in BOOLEAN /\ applyingResolution \in BOOLEAN /\ composed.applying \in BOOLEAN
    /\ apply => composed.applying
    /\ rc # "none" => ~composed.applying

USE DEF DriverInv

\* A step that launches nothing.
LEMMA NoLaunch ==
    ASSUME DriverInv, UNCHANGED composed, applyingResolution' \in BOOLEAN,
           apply' \in {apply, FALSE}, rc' = rc \/ rc' = "none" \/ rc # "none"
    PROVE  DriverInv'
<1>1. CASE apply' = apply
  BY <1>1
<1>2. CASE apply' = FALSE
  <2>1. apply' \in BOOLEAN
    BY <1>2, Zenon
  <2> QED
    BY <1>2, <2>1
<1> QED
  BY <1>1, <1>2

\* The composition: it launches one of the effects at most.
LEMMA RecomposeStep == ASSUME DriverInv, Recompose PROVE DriverInv'
<1>1. /\ composed'.applying = applyingResolution /\ applyingResolution' = applyingResolution
  BY DEF Recompose, Keys
<1>2. apply' \in BOOLEAN /\ (apply' => applyingResolution)
  BY DEF Recompose
<1>3. rc' # "none" => ~applyingResolution
  BY DEF Recompose, ConnectedEffect, ReconnectEffect, MayReconnect
<1> QED
  BY <1>1, <1>2, <1>3

\* The coroutines: they go on or end.
LEMMA EffectsStep == ASSUME DriverInv, Effects PROVE DriverInv'
<1>1. UNCHANGED composed /\ apply' \in {apply, FALSE}
  BY DEF Effects, ReconnectWakes, ReconnectConnects, ReconnectGivesUp, ApplyConnects
<1>2. applyingResolution' \in BOOLEAN
  BY DEF Effects, ReconnectWakes, ReconnectConnects, ReconnectGivesUp, ApplyConnects
<1>3. rc' = rc \/ rc # "none"
  BY DEF Effects, ReconnectWakes, ReconnectConnects, ReconnectGivesUp, ApplyConnects
<1> QED
  BY <1>1, <1>2, <1>3, NoLaunch

\* The user, the activity and the passing of time.
LEMMA OtherStep ==
    ASSUME DriverInv, Next, ~Recompose, ~Effects
    PROVE  DriverInv'
<1>1. UNCHANGED composed /\ apply' \in {apply, FALSE}
  BY DEF Next, Sample, Open, User, TapReconnect, TapApply, TapResize, performDisconnect,
         CancelConnect, TapExit, Leave, Background, Foreground, ResizeEnds, bgDisconnect,
         onDestroy, DeadlinePasses, SixSecondsPass, screenVars
<1>2. applyingResolution' \in BOOLEAN
  BY DEF Next, Sample, Open, User, TapReconnect, TapApply, TapResize, performDisconnect,
         CancelConnect, TapExit, Leave, Background, Foreground, ResizeEnds, bgDisconnect,
         onDestroy, DeadlinePasses, SixSecondsPass, screenVars
<1>3. rc' = rc \/ rc' = "none"
  BY DEF Next, Sample, Open, User, TapReconnect, TapApply, TapResize, performDisconnect,
         CancelConnect, TapExit, Leave, Background, Foreground, ResizeEnds, bgDisconnect,
         onDestroy, DeadlinePasses, SixSecondsPass, screenVars
<1> QED
  BY <1>1, <1>2, <1>3, NoLaunch

\* Whatever the manager, the user and the activity do, and however compositions
\* are delayed, only one of the two loops is about to call connect().
THEOREM SingleDriver == Spec => []OneDriver
<1>1. Init => DriverInv
  <2> SUFFICES ASSUME Init PROVE DriverInv
    OBVIOUS
  <2>1. apply = FALSE /\ applyingResolution = FALSE /\ rc = "none"
    BY DEF Init
  <2>2. composed.applying = FALSE
    BY <2>1 DEF Init, Keys
  <2>3. apply \in BOOLEAN /\ applyingResolution \in BOOLEAN /\ composed.applying \in BOOLEAN
    BY <2>1, <2>2, Zenon
  <2> QED
    BY <2>1, <2>3
<1>2. DriverInv /\ [Next]_vars => DriverInv'
  <2> SUFFICES ASSUME DriverInv, [Next]_vars PROVE DriverInv'
    OBVIOUS
  <2>1. CASE UNCHANGED vars
    BY <2>1 DEF vars, screenVars
  <2> QED
    BY <2>1, RecomposeStep, EffectsStep, OtherStep
<1>3. DriverInv => OneDriver
  BY DEF OneDriver
<1> QED
  BY <1>1, <1>2, <1>3, PTL DEF Spec

-----------------------------------------------------------------------------
(* The screen as a client of the manager's contract.                       *)

\* Every step of the screen makes one call of the manager, or none, or is a step
\* of the manager itself.
LEMMA ClientStep == Next => [ContractNext]_contractVars
<1> SUFFICES ASSUME Next PROVE [ContractNext]_contractVars
  OBVIOUS
<1> USE DEF ContractNext
<1>1. CASE Recompose
  BY <1>1 DEF Recompose, BlackScreenEffect
<1>2. ASSUME NEW f \in BOOLEAN, Sample(f) PROVE [ContractNext]_contractVars
  BY <1>2 DEF Sample, BlackScreenEffect
<1>3. CASE Effects
  BY <1>3 DEF Effects, ReconnectWakes, ReconnectConnects, ReconnectGivesUp, ApplyConnects,
              CallConnect
<1>4. CASE User
  BY <1>4 DEF User, TapReconnect, CallConnect, TapApply, TapResize, performDisconnect,
              CancelConnect, TapExit, Background, Foreground
<1>5. CASE Open \/ bgDisconnect \/ onDestroy \/ DeadlinePasses \/ SixSecondsPass
  BY <1>5 DEF Open, bgDisconnect, onDestroy, DeadlinePasses, SixSecondsPass
<1>6. ASSUME NEW c \in BOOLEAN, ResizeEnds(c) PROVE [ContractNext]_contractVars
  BY <1>6 DEF ResizeEnds
<1> QED
  BY <1>1, <1>2, <1>3, <1>4, <1>5, <1>6 DEF Next

\* Without an instance nothing is shown as connected, until the screen is gone:
\* an instance gets its status only after the worker has started it, and the
\* worker frees what it has not started.
FreeInv ==
    /\ ContractTypeOK
    /\ gone => inst = "none"
    /\ worker = "free" => inst = "probing" \/ gone
    /\ inst \in {"none", "probing"} /\ ~gone => status \notin {"Connected", "Authenticating"}

\* The calls and the steps of the manager keep the types and FreeInv.
LEMMA FreeStep == FreeInv /\ [ContractNext]_contractVars => FreeInv'
<1> SUFFICES ASSUME FreeInv, [ContractNext]_contractVars PROVE FreeInv'
  OBVIOUS
<1> USE DEF FreeInv, ContractTypeOK, Status, Busy
<1>1. CASE UserConnect
  BY <1>1 DEF UserConnect, Connect, MayConnect
<1>2. CASE Cancel
  BY <1>2 DEF Cancel
<1>3. CASE Disconnect
  BY <1>3 DEF Disconnect
<1>4. CASE Release
  BY <1>4 DEF Release
<1>5. CASE Attempt
  BY <1>5 DEF Attempt, ProbeFails, Decide, Starts, StartFails, FreeFailed
<1>9. CASE Handler
  BY <1>9 DEF Handler, Shows, Told
<1>6. CASE Up \/ End \/ Ask \/ TimesOut \/ Unconfirmed
  <2>1. retry' \in BOOLEAN /\ stop' \in BOOLEAN /\ gone' \in BOOLEAN
    <3>1. retry' = retry \/ retry' = TRUE
      BY <1>6 DEF Up, End, Ask, TimesOut, Unconfirmed
    <3>2. stop' = stop \/ stop' = FALSE
      BY <1>6 DEF Up, End, Ask, TimesOut, Unconfirmed
    <3>3. gone' = gone
      BY <1>6 DEF Up, End, Ask, TimesOut, Unconfirmed
    <3> QED
      BY <3>1, <3>2, <3>3, Zenon
  <2>2. CASE Up
    BY <2>1, <2>2 DEF Up
  <2>3. CASE End
    BY <2>1, <2>3 DEF End
  <2>4. CASE Ask \/ TimesOut \/ Unconfirmed
    BY <2>1, <2>4 DEF Ask, TimesOut, Unconfirmed
  <2> QED
    BY <1>6, <2>2, <2>3, <2>4
<1>7. CASE Retries
  <2>1. retry' \in BOOLEAN
    <3>1. CASE RetryFires
      BY <3>1, Zenon DEF RetryFires
    <3>2. CASE RetryDropped
      BY <3>2, Zenon DEF RetryDropped
    <3> QED
      BY <1>7, <3>1, <3>2 DEF Retries
  <2>2. CASE RetryFires
    BY <2>1, <2>2 DEF RetryFires, Connect, MayConnect
  <2>3. CASE RetryDropped
    BY <2>1, <2>3 DEF RetryDropped
  <2> QED
    BY <1>7, <2>2, <2>3 DEF Retries
<1>8. CASE UNCHANGED contractVars
  BY <1>8 DEF contractVars
<1> QED
  BY <1>1, <1>2, <1>3, <1>4, <1>5, <1>6, <1>7, <1>8, <1>9 DEF ContractNext, Manager

\* FreeInv is an invariant of the screen.
THEOREM FreeIsIdle == Spec => []FreeInv
<1>1. Init => FreeInv
  BY DEF Init, ContractInit, FreeInv, ContractTypeOK, Status, Busy
<1>2. FreeInv /\ [Next]_vars => FreeInv'
  BY ClientStep, FreeStep DEF vars, contractVars
<1> QED
  BY <1>1, <1>2, PTL DEF Spec

\* No connect() of the reconnect effect or of the apply effect is ignored or
\* deferred by the manager: the wait for the end of the instance is enough.
THEOREM NoLostConnect == Spec => AutoConnectHonoured
<1>1. FreeInv /\ [Next]_vars =>
          [(ReconnectConnects /\ StillWanted) \/ ApplyConnects => inst' = "probing"]_vars
  <2> SUFFICES ASSUME FreeInv, (ReconnectConnects /\ StillWanted) \/ ApplyConnects
               PROVE  inst' = "probing"
    OBVIOUS
  <2>1. inst = "none" /\ ~gone /\ CallConnect
    BY DEF ReconnectConnects, ApplyConnects, NativeReleased, OnMain
  <2>2. MayConnect
    BY <2>1 DEF FreeInv, MayConnect
  <2> QED
    BY <2>1, <2>2 DEF CallConnect, UserConnect, Connect
<1> QED
  BY <1>1, FreeIsIdle, PTL DEF Spec, AutoConnectHonoured

\* A reconnect under way was launched for a state that is retried.
RetryInv == rc # "none" => Retryable(composed.state)

\* While the screen is shown, the reconnect effect starts no attempt from an
\* authentication or certificate error: the error would have been composed, and
\* the composition would have ended the effect.
THEOREM NoRetryAfterAuth == Spec => AuthStopsRetry
<1>1. Init => RetryInv
  BY DEF Init, RetryInv
<1>2. RetryInv /\ [Next]_vars => RetryInv'
  <2> SUFFICES ASSUME RetryInv, [Next]_vars PROVE RetryInv'
    OBVIOUS
  <2>1. CASE Recompose
    <3>1. composed'.state = status
      BY <2>1 DEF Recompose, Keys
    <3>2. rc' # "none" => Retryable(status)
      BY <2>1 DEF Recompose, ConnectedEffect, ReconnectEffect
    <3> QED
      BY <3>1, <3>2 DEF RetryInv, Retryable
  <2>2. CASE ~Recompose
    <3>1. UNCHANGED composed
      BY <2>2 DEF Next, Effects, ReconnectWakes, ReconnectConnects, ReconnectGivesUp,
         ApplyConnects, Sample, Open, User, TapReconnect, TapApply, TapResize,
         performDisconnect, CancelConnect, TapExit, Leave, Background, Foreground, ResizeEnds,
         bgDisconnect, onDestroy, DeadlinePasses, SixSecondsPass, screenVars, vars
    <3>2. rc' # "none" => rc # "none"
      BY <2>2 DEF Next, Effects, ReconnectWakes, ReconnectConnects, ReconnectGivesUp,
         ApplyConnects, Sample, Open, User, TapReconnect, TapApply, TapResize,
         performDisconnect, CancelConnect, TapExit, Leave, Background, Foreground, ResizeEnds,
         bgDisconnect, onDestroy, DeadlinePasses, SixSecondsPass, screenVars, vars
    <3> QED
      BY <3>1, <3>2 DEF RetryInv, Retryable
  <2> QED
    BY <2>1, <2>2
<1>3. RetryInv /\ [Next]_vars => [fore /\ ReconnectConnects /\ status = "Failed" => inst' = inst]_vars
  <2> SUFFICES ASSUME RetryInv, fore, ReconnectConnects, status = "Failed" PROVE FALSE
    OBVIOUS
  <2>1. composed = Keys /\ rc = "wait"
    BY DEF ReconnectConnects, Settled
  <2>2. composed.state = "Failed"
    BY <2>1 DEF Keys
  <2> QED
    BY <2>1, <2>2 DEF RetryInv, Retryable
<1> QED
  BY <1>1, <1>2, <1>3, PTL DEF Spec, AuthStopsRetry

-----------------------------------------------------------------------------
(* The black screen effect.                                                *)

\* No frameless sample has been counted.
NothingCounted == zeroFrameStreak = 0 /\ blackScreenReconnects = 0

\* Until Connected is composed the clock of the effect stands at zero, and a
\* positive frame rate that was composed with Connected counts as a frame.
BlackInv ==
    /\ NothingCounted
    /\ fps \in BOOLEAN
    /\ composed.state # "Connected" => since = "zero"
    /\ composed.state = "Connected" /\ fps => everRenderedFrame

\* A launch that finds a frame, an earlier frame or a fresh clock counts nothing.
LEMMA LaunchCountsNothing ==
    ASSUME NothingCounted, NEW frame \in BOOLEAN, BlackScreenEffect(frame),
           status = "Connected" => frame \/ everRenderedFrame \/ since = "zero"
    PROVE  /\ NothingCounted'
           /\ status = "Connected" /\ frame => everRenderedFrame'
           /\ status # "Connected" => since' = "zero"
BY DEF NothingCounted, BlackScreenEffect

\* BlackInv is preserved.
LEMMA BlackStep == BlackInv /\ [Next]_vars => BlackInv'
<1> SUFFICES ASSUME BlackInv, [Next]_vars PROVE BlackInv'
  OBVIOUS
<1>1. CASE Recompose
  <2>1. composed'.state = status /\ fps' = fps
    BY <1>1 DEF Recompose, Keys
  <2>2. CASE composed.state # status
    <3>1. PICK bitmap \in BOOLEAN : BlackScreenEffect(fps \/ bitmap)
      BY <1>1, <2>2 DEF Recompose
    <3> DEFINE frame == fps \/ bitmap
    <3>2. frame \in BOOLEAN /\ BlackScreenEffect(frame)
      BY <3>1
    <3>3. status = "Connected" => since = "zero"
      BY <2>2 DEF BlackInv
    <3>4. fps => frame
      OBVIOUS
    <3> HIDE DEF frame
    <3>5. /\ NothingCounted'
          /\ status = "Connected" /\ frame => everRenderedFrame'
          /\ status # "Connected" => since' = "zero"
      BY <3>2, <3>3, LaunchCountsNothing DEF BlackInv
    <3> QED
      BY <2>1, <3>4, <3>5 DEF BlackInv
  <2>3. CASE composed.state = status
    BY <1>1, <2>1, <2>3 DEF Recompose, BlackInv, NothingCounted
  <2> QED
    BY <2>2, <2>3
<1>2. ASSUME NEW f \in BOOLEAN, Sample(f) PROVE BlackInv'
  <2>1. /\ composed' = composed /\ composed.state = status
        /\ fps' = f /\ fps # f
    BY <1>2 DEF Sample, Keys
  <2>2. PICK bitmap \in BOOLEAN : BlackScreenEffect(f \/ bitmap)
    BY <1>2 DEF Sample
  <2> DEFINE frame == f \/ bitmap
  <2>3. frame \in BOOLEAN /\ BlackScreenEffect(frame) /\ (f => frame)
    BY <2>2
  <2> HIDE DEF frame
  <2>4. status = "Connected" => frame \/ everRenderedFrame
    <3>1. f \/ fps
      BY <2>1, Zenon DEF BlackInv
    <3> QED
      BY <2>1, <2>3, <3>1 DEF BlackInv
  <2>5. /\ NothingCounted'
        /\ status = "Connected" /\ frame => everRenderedFrame'
        /\ status # "Connected" => since' = "zero"
    BY <2>3, <2>4, LaunchCountsNothing DEF BlackInv
  <2> QED
    BY <2>1, <2>3, <2>5 DEF BlackInv
<1>3. CASE SixSecondsPass
  BY <1>3 DEF SixSecondsPass, BlackInv, NothingCounted
<1>4. CASE UNCHANGED <<composed, blackVars>>
  BY <1>4 DEF blackVars, BlackInv, NothingCounted
<1>5. CASE Effects \/ (Manager /\ UNCHANGED screenVars) \/ Open \/ bgDisconnect
  BY <1>4, <1>5 DEF Effects, ReconnectWakes, ReconnectConnects, ReconnectGivesUp, ApplyConnects,
                    Open, bgDisconnect, screenVars
<1>6. CASE User
  BY <1>4, <1>6 DEF User, TapReconnect, TapApply, TapResize, performDisconnect, CancelConnect,
                    TapExit, Leave, Background, Foreground
<1>7. ASSUME NEW c \in BOOLEAN, ResizeEnds(c) PROVE BlackInv'
  BY <1>4, <1>7 DEF ResizeEnds
<1>8. CASE onDestroy \/ DeadlinePasses
  BY <1>4, <1>8 DEF onDestroy, DeadlinePasses
<1>9. CASE UNCHANGED vars
  BY <1>4, <1>9 DEF vars, screenVars
<1> QED
  BY <1>1, <1>2, <1>3, <1>5, <1>6, <1>7, <1>8, <1>9 DEF Next

\* The black screen effect never counts a frameless sample, so its disconnect()
\* and what follows it are never reached: it is launched by a frame rate that
\* changed, and a rate that fell to zero had been a frame.
THEOREM BlackInvariant == Spec => []BlackInv
<1>1. Init => BlackInv
  BY DEF Init, ContractInit, Keys, BlackInv, NothingCounted
<1> QED
  BY <1>1, BlackStep, PTL DEF Spec

-----------------------------------------------------------------------------
(* Types.                                                                  *)

\* The Boolean part of TypeOK, one variable a conjunct.
BoolOK ==
    /\ auto \in BOOLEAN /\ fore \in BOOLEAN /\ leaving \in BOOLEAN /\ everConnected \in BOOLEAN
    /\ reconnecting \in BOOLEAN /\ userDisconnect \in BOOLEAN /\ applyingResolution \in BOOLEAN
    /\ apply \in BOOLEAN /\ resize \in BOOLEAN /\ fps \in BOOLEAN /\ everRenderedFrame \in BOOLEAN

\* The part of TypeOK that is about places, times and keys.
PlaceOK ==
    /\ composed \in [state : Status, ever : BOOLEAN, user : BOOLEAN, applying : BOOLEAN]
    /\ deadline \in {"unset", "open", "over"}
    /\ rc \in {"none", "delay", "wait"}
    /\ since \in {"zero", "recent", "long"}

\* A launch of the black screen effect keeps the types.
LEMMA LaunchTypes ==
    ASSUME since \in {"zero", "recent", "long"}, everRenderedFrame \in BOOLEAN,
           NEW frame \in BOOLEAN, BlackScreenEffect(frame)
    PROVE  since' \in {"zero", "recent", "long"} /\ everRenderedFrame' \in BOOLEAN
<1>1. since' \in {"zero", "recent", "long"}
  BY DEF BlackScreenEffect
<1>2. everRenderedFrame' = (everRenderedFrame \/ frame) \/ everRenderedFrame' = FALSE
  BY DEF BlackScreenEffect
<1>3. everRenderedFrame' \in BOOLEAN
  BY <1>2, Zenon
<1> QED
  BY <1>1, <1>3

\* A step keeps the Booleans.
LEMMA BoolStep == BoolOK /\ PlaceOK /\ [Next]_vars => BoolOK'
<1> SUFFICES ASSUME BoolOK, PlaceOK, [Next]_vars PROVE BoolOK'
  OBVIOUS
<1>1. CASE Recompose
  <2>1. UNCHANGED <<auto, fore, leaving, userDisconnect, applyingResolution, resize, fps>>
    BY <1>1 DEF Recompose
  <2>2. everConnected' \in BOOLEAN
    <3>1. everConnected' = everConnected \/ everConnected' = TRUE
      BY <1>1 DEF Recompose, ConnectedEffect
    <3> QED
      BY <3>1, Zenon DEF BoolOK
  <2>3. reconnecting' \in BOOLEAN
    BY <1>1 DEF Recompose, ConnectedEffect, ReconnectEffect
  <2>4. apply' \in BOOLEAN
    BY <1>1 DEF Recompose, BoolOK
  <2>5. everRenderedFrame' \in BOOLEAN
    <3>1. CASE composed.state # status
      <4>1. PICK bitmap \in BOOLEAN : BlackScreenEffect(fps \/ bitmap)
        BY <1>1, <3>1 DEF Recompose
      <4> QED
        BY <4>1, LaunchTypes DEF BoolOK, PlaceOK
    <3>2. CASE composed.state = status
      BY <1>1, <3>2 DEF Recompose, BoolOK
    <3> QED
      BY <3>1, <3>2
  <2> QED
    BY <2>1, <2>2, <2>3, <2>4, <2>5 DEF BoolOK
<1>2. ASSUME NEW f \in BOOLEAN, Sample(f) PROVE BoolOK'
  <2>1. PICK bitmap \in BOOLEAN : BlackScreenEffect(f \/ bitmap)
    BY <1>2 DEF Sample
  <2>2. everRenderedFrame' \in BOOLEAN
    BY <2>1, LaunchTypes DEF BoolOK, PlaceOK
  <2> QED
    BY <1>2, <2>2 DEF Sample, BoolOK
<1>3. CASE Effects
  <2>1. CASE ReconnectWakes
    BY <2>1, Zenon DEF ReconnectWakes, BoolOK, blackVars
  <2>2. CASE ReconnectConnects
    BY <2>2, Zenon DEF ReconnectConnects, BoolOK, blackVars
  <2>3. CASE ReconnectGivesUp
    BY <2>3, Zenon DEF ReconnectGivesUp, BoolOK, blackVars
  <2>4. CASE ApplyConnects
    BY <2>4, Zenon DEF ApplyConnects, BoolOK, blackVars
  <2> QED
    BY <1>3, <2>1, <2>2, <2>3, <2>4 DEF Effects
<1>4. CASE (Manager /\ UNCHANGED screenVars) \/ Open \/ bgDisconnect \/ UNCHANGED vars
  BY <1>4 DEF Open, bgDisconnect, screenVars, vars, BoolOK, blackVars
<1>5. CASE User
  <2>1. CASE TapReconnect
    BY <2>1, Zenon DEF TapReconnect, BoolOK, blackVars
  <2>4. CASE TapApply
    BY <2>4, Zenon DEF TapApply, BoolOK, blackVars
  <2>5. CASE TapResize
    BY <2>5, Zenon DEF TapResize, BoolOK, blackVars
  <2>2. CASE performDisconnect \/ CancelConnect \/ TapExit
    BY <2>2, Zenon DEF performDisconnect, CancelConnect, TapExit, Leave, BoolOK, blackVars
  <2>3. CASE Background \/ Foreground
    BY <2>3, Zenon DEF Background, Foreground, BoolOK, blackVars
  <2> QED
    BY <1>5, <2>1, <2>2, <2>3, <2>4, <2>5 DEF User
<1>6. ASSUME NEW c \in BOOLEAN, ResizeEnds(c) PROVE BoolOK'
  BY <1>6, Zenon DEF ResizeEnds, BoolOK, blackVars
<1>7. CASE onDestroy \/ DeadlinePasses \/ SixSecondsPass
  <2>1. CASE onDestroy
    BY <2>1, Zenon DEF onDestroy, BoolOK, blackVars
  <2>2. CASE DeadlinePasses \/ SixSecondsPass
    BY <2>2 DEF DeadlinePasses, SixSecondsPass, BoolOK, blackVars
  <2> QED
    BY <1>7, <2>1, <2>2
<1> QED
  BY <1>1, <1>2, <1>3, <1>4, <1>5, <1>6, <1>7 DEF Next

\* A step keeps the places and the keys.
LEMMA PlaceStep == BoolOK /\ PlaceOK /\ ContractTypeOK /\ [Next]_vars => PlaceOK'
<1> SUFFICES ASSUME BoolOK, PlaceOK, ContractTypeOK, [Next]_vars PROVE PlaceOK'
  OBVIOUS
<1>1. CASE Recompose
  <2>1. composed' \in [state : Status, ever : BOOLEAN, user : BOOLEAN, applying : BOOLEAN]
    BY <1>1 DEF Recompose, Keys, BoolOK, ContractTypeOK
  <2>2. deadline' \in {"unset", "open", "over"} /\ rc' \in {"none", "delay", "wait"}
    BY <1>1 DEF Recompose, ConnectedEffect, ReconnectEffect, Window, PlaceOK
  <2>3. since' \in {"zero", "recent", "long"}
    BY <1>1 DEF Recompose, BlackScreenEffect, PlaceOK
  <2> QED
    BY <2>1, <2>2, <2>3 DEF PlaceOK
<1>2. ASSUME NEW f \in BOOLEAN, Sample(f) PROVE PlaceOK'
  BY <1>2 DEF Sample, BlackScreenEffect, PlaceOK
<1>3. CASE Effects
  BY <1>3 DEF Effects, ReconnectWakes, ReconnectConnects, ReconnectGivesUp, ApplyConnects,
              PlaceOK, blackVars
<1>4. CASE (Manager /\ UNCHANGED screenVars) \/ Open \/ bgDisconnect \/ UNCHANGED vars
  BY <1>4 DEF Open, bgDisconnect, screenVars, vars, PlaceOK, blackVars
<1>5. CASE User
  BY <1>5 DEF User, TapReconnect, TapApply, TapResize, performDisconnect, CancelConnect, TapExit,
              Leave, Background, Foreground, PlaceOK, blackVars
<1>6. ASSUME NEW c \in BOOLEAN, ResizeEnds(c) PROVE PlaceOK'
  BY <1>6 DEF ResizeEnds, PlaceOK, blackVars
<1>7. CASE onDestroy \/ DeadlinePasses \/ SixSecondsPass
  BY <1>7 DEF onDestroy, DeadlinePasses, SixSecondsPass, PlaceOK, blackVars
<1> QED
  BY <1>1, <1>2, <1>3, <1>4, <1>5, <1>6, <1>7 DEF Next

\* A reconnect effect under way has opened a window, and the button that closes
\* it is not offered meanwhile.
WindowInv == rc # "none" => deadline # "unset" /\ (reconnecting \/ leaving)

\* WindowInv is preserved.
LEMMA WindowStep == WindowInv /\ [Next]_vars => WindowInv'
<1> SUFFICES ASSUME WindowInv, [Next]_vars PROVE WindowInv'
  OBVIOUS
<1> USE DEF WindowInv
<1>1. CASE Recompose
  BY <1>1 DEF Recompose, ConnectedEffect, ReconnectEffect, Window
<1>2. CASE Effects
  BY <1>2 DEF Effects, ReconnectWakes, ReconnectConnects, ReconnectGivesUp, ApplyConnects
<1>3. CASE User
  <2>1. CASE TapReconnect
    BY <2>1 DEF TapReconnect, Touchable, Offered
  <2>2. CASE performDisconnect \/ CancelConnect \/ TapExit
    BY <2>2 DEF performDisconnect, CancelConnect, TapExit, Leave
  <2>3. CASE TapApply \/ TapResize \/ Background \/ Foreground
    BY <2>3 DEF TapApply, TapResize, Background, Foreground
  <2> QED
    BY <1>3, <2>1, <2>2, <2>3 DEF User
<1>4. CASE onDestroy \/ DeadlinePasses \/ SixSecondsPass
  BY <1>4 DEF onDestroy, DeadlinePasses, SixSecondsPass
<1>5. CASE (Manager /\ UNCHANGED screenVars) \/ Open \/ bgDisconnect \/ UNCHANGED vars
  BY <1>5 DEF Open, bgDisconnect, screenVars, vars
<1>6. ASSUME NEW f \in BOOLEAN, Sample(f) \/ ResizeEnds(f) PROVE WindowInv'
  BY <1>6 DEF Sample, ResizeEnds
<1> QED
  BY <1>1, <1>2, <1>3, <1>4, <1>5, <1>6 DEF Next

\* Every variable keeps its type, and every attempt of the reconnect effect is
\* made within a window that was opened for it.
THEOREM ScreenTypes == Spec => []TypeOK
<1>1. Init => BoolOK /\ PlaceOK /\ WindowInv
  <2> SUFFICES ASSUME Init PROVE BoolOK /\ PlaceOK /\ WindowInv
    OBVIOUS
  <2>1. BoolOK
    BY Zenon DEF Init, BoolOK
  <2>2. status \in Status
    BY DEF Init, ContractInit, Status
  <2>3. composed = Keys
    BY DEF Init
  <2>4. composed \in [state : Status, ever : BOOLEAN, user : BOOLEAN, applying : BOOLEAN]
    BY <2>1, <2>2, <2>3 DEF Keys, BoolOK
  <2> QED
    BY <2>1, <2>4 DEF Init, PlaceOK, WindowInv
<1>2. FreeInv /\ BoolOK /\ PlaceOK /\ WindowInv /\ [Next]_vars => (BoolOK /\ PlaceOK /\ WindowInv)'
  BY BoolStep, PlaceStep, WindowStep DEF FreeInv
<1>3. FreeInv /\ BlackInv /\ BoolOK /\ PlaceOK /\ WindowInv => TypeOK
  <2> SUFFICES ASSUME FreeInv, BlackInv, BoolOK, PlaceOK, WindowInv PROVE TypeOK
    OBVIOUS
  <2>1. {auto, fore, leaving, everConnected, reconnecting, userDisconnect, applyingResolution,
         apply, resize, fps, everRenderedFrame} \subseteq BOOLEAN
    BY Zenon DEF BoolOK
  <2>2. zeroFrameStreak \in Nat /\ blackScreenReconnects \in 0..1
    BY DEF BlackInv, NothingCounted
  <2> QED
    BY <2>1, <2>2 DEF TypeOK, FreeInv, PlaceOK, WindowInv
<1> QED
  BY <1>1, <1>2, <1>3, FreeIsIdle, BlackInvariant, PTL DEF Spec
=============================================================================
