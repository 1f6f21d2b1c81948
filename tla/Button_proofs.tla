---------------------------- MODULE Button_proofs ----------------------------
(***************************************************************************)
(* What holds of a button for every round of millis(), all debounce and    *)
(* holding times, any gaps between loops, and whatever the contact does.   *)
(***************************************************************************)
EXTENDS Button, TLAPS

\* While a loop is under way, millis() has moved on from its now by the time waited.
Clock ==
    /\ waited <= (IF inLoop THEN MaxLag ELSE MaxGap)
    /\ inLoop => Since(now, millis) = waited

\* The level each state stands for was seen by the last update.
Levels ==
    /\ state \in {"UP", "UP_DEBOUNCE", "HOLD_END_DEBOUNCE"} => level = "released"
    /\ state \in {"DOWN_DEBOUNCE", "DOWN", "HOLDING"} => level = "pressed"

\* The level has been seen since t at least, which is no later than the loop's now, unless
\* it was seen for long enough anyway: then t may be more than a round ago.
SeenSince(t) ==
    \/ levelAge > Debounce
    \/ /\ Since(t, millis) <= levelAge
       /\ inLoop => waited <= Since(t, millis)

\* A press taken up within a loop began after its now; the loop's update will see to that.
LateSince(t) == late /\ inLoop /\ Since(t, millis) <= levelAge
PressTimed == state = "DOWN_DEBOUNCE" => SeenSince(time_down) \/ LateSince(time_down)
ReleaseTimed == state \in {"UP_DEBOUNCE", "HOLD_END_DEBOUNCE"} => SeenSince(time_up)

Base == TypeOK /\ Clock /\ Levels
ReleaseInv == Base /\ ReleaseTimed /\ ReleaseIsDebounced
PressInv == Base /\ PressTimed /\ DownIsDebounced

-----------------------------------------------------------------------------
(***************************************************************************)
(* Arithmetic modulo Wrap.                                                 *)
(***************************************************************************)
LEMMA Numbers ==
    /\ Wrap \in Nat /\ Debounce \in Nat /\ Hold \in Nat /\ MaxGap \in Nat /\ MaxLag \in Nat
    /\ Debounce < Hold /\ Hold + MaxGap + MaxLag + 1 < Wrap
    /\ AgeCap \in Nat /\ AgeCap = Hold + MaxGap + MaxLag + 1
BY TimeAssumption DEF AgeCap

\* The difference of two readings, without a remainder.
LEMMA SinceIs ==
    ASSUME NEW t \in 0 .. Wrap - 1, NEW u \in 0 .. Wrap - 1
    PROVE  Since(t, u) = IF t <= u THEN u - t ELSE u - t + Wrap
<1>1. Wrap \in Nat
  BY TimeAssumption
<1>2. CASE t <= u
  <2>1. u - t \in 0 .. Wrap - 1 /\ u - t + Wrap = (u - t) + Wrap
    BY <1>1, <1>2
  <2>2. ((u - t) + Wrap) % Wrap = u - t
    BY <1>1, <2>1
  <2>3. QED
    BY <1>2, <2>2 DEF Since
<1>3. CASE t > u
  <2>1. u - t + Wrap \in 0 .. Wrap - 1
    BY <1>1, <1>3
  <2>2. (u - t + Wrap) % Wrap = u - t + Wrap
    BY <1>1, <2>1
  <2>3. QED
    BY <1>1, <1>3, <2>2 DEF Since
<1>4. QED
  BY <1>2, <1>3

\* The clock a tick later.
LEMMA NextIs ==
    ASSUME NEW u \in 0 .. Wrap - 1
    PROVE  (u + 1) % Wrap = IF u = Wrap - 1 THEN 0 ELSE u + 1
<1>1. Wrap \in Nat /\ Wrap > 0
  BY TimeAssumption
<1>2. CASE u = Wrap - 1
  BY <1>1, <1>2
<1>3. CASE u # Wrap - 1
  BY <1>1, <1>3
<1>4. QED
  BY <1>2, <1>3

-----------------------------------------------------------------------------
(***************************************************************************)
(* Types, the clock and the levels.                                        *)
(***************************************************************************)
LEMMA InitBase == Init => Base
<1> SUFFICES ASSUME Init PROVE Base
  OBVIOUS
<1>1. 0 \in 0 .. Wrap - 1 /\ 0 \in 0 .. AgeCap /\ 0 <= MaxGap /\ 0 <= MaxLag
  BY Numbers
<1>2. TypeOK
  BY <1>1 DEF Init, TypeOK, Level, State, Event
<1>3. Clock /\ Levels
  BY <1>1 DEF Init, Clock, Levels
<1>4. QED
  BY <1>2, <1>3 DEF Base

LEMMA Readings ==
    ASSUME Base
    PROVE  /\ millis \in 0 .. Wrap - 1 /\ now \in 0 .. Wrap - 1
           /\ levelAge \in Nat /\ waited \in Nat /\ inLoop \in BOOLEAN
BY Numbers DEF Base, TypeOK

\* The time update goes by is a reading of the clock.
LEMMA TimeType == ASSUME Base PROVE (IF now = 0 THEN millis ELSE now) \in 0 .. Wrap - 1
BY DEF Base, TypeOK

LEMMA UpdateTypes == ASSUME Base, update PROVE TypeOK' /\ Levels'
<1> DEFINE t == IF now = 0 THEN millis ELSE now
<1>1. t \in 0 .. Wrap - 1
  BY TimeType
<1>2. InIdle \/ InWait(t) \/ InUp(t) \/ InDownDebounce(t) \/ InDown(t)
      \/ InUpDebounce(t) \/ InHolding(t) \/ InHoldEndDebounce(t)
  BY DEF update
<1>3. level' = pin /\ levelAge' \in {levelAge, waited} /\ waited <= AgeCap /\ waited \in Nat
  BY Numbers DEF update, See, Base, Clock, TypeOK
<1> HIDE DEF t
<1>4. state' \in State /\ event' \in Event
      /\ time_down' \in {time_down, t} /\ time_up' \in {time_up, t}
  BY <1>2 DEF InIdle, InWait, InUp, InDownDebounce, InDown, InUpDebounce, InHolding,
              InHoldEndDebounce, Goto, Stay, State, Event
<1>5. TypeOK'
  <2>1. time_down' \in 0 .. Wrap - 1 /\ time_up' \in 0 .. Wrap - 1
    BY <1>1, <1>4 DEF Base, TypeOK
  <2>2. levelAge' \in 0 .. AgeCap
    BY <1>3, Numbers DEF Base, TypeOK
  <2>3. millis' = millis /\ now' = now /\ pin' = pin /\ inLoop' = FALSE /\ waited' = 0
        /\ last' \in {last, event'} /\ late' \in BOOLEAN
    BY DEF update
  <2>4. QED
    BY <1>3, <1>4, <2>1, <2>2, <2>3 DEF Base, TypeOK
<1>6. Levels'
  BY <1>2, <1>3 DEF Base, Levels, InIdle, InWait, InUp, InDownDebounce, InDown,
                    InUpDebounce, InHolding, InHoldEndDebounce, Goto, Pressed, Released
<1>7. QED
  BY <1>5, <1>6

LEMMA BaseStep == ASSUME Base, [Next]_vars PROVE Base'
<1>1. CASE Bounce \/ UNCHANGED vars
  BY <1>1 DEF Bounce, vars, Base, TypeOK, Clock, Levels, Level
<1>2. CASE Tick
  <2>1. millis' = IF millis = Wrap - 1 THEN 0 ELSE millis + 1
    BY <1>2, NextIs DEF Tick, Base, TypeOK
  <2>2. millis' \in 0 .. Wrap - 1 /\ levelAge' \in 0 .. AgeCap
    BY <1>2, <2>1, Numbers DEF Tick, Older, Base, TypeOK
  <2>3. inLoop => Since(now, millis') = waited + 1
    <3>1. now \in 0 .. Wrap - 1 /\ millis \in 0 .. Wrap - 1 /\ waited \in Nat
      BY Readings
    <3>2. inLoop => Since(now, millis) = waited /\ waited + 1 < Wrap
      BY <1>2, <3>1, Numbers DEF Tick, Base, Clock
    <3>3. inLoop => Since(now, millis) + 1 = Since(now, millis')
      <4>1. /\ Since(now, millis) = IF now <= millis THEN millis - now ELSE millis - now + Wrap
            /\ Since(now, millis') = IF now <= millis' THEN millis' - now
                                                      ELSE millis' - now + Wrap
        BY <2>2, <3>1, SinceIs
      <4>2. QED
        BY <2>1, <3>1, <3>2, <4>1, Numbers
    <3>4. QED
      BY <3>2, <3>3
  <2>4. QED
    BY <1>2, <2>2, <2>3, Numbers DEF Tick, Base, TypeOK, Clock, Levels
<1>3. CASE LoopStart
  <2>1. Since(millis, millis) = 0
    BY SinceIs, Numbers DEF Base, TypeOK
  <2>2. QED
    BY <1>3, <2>1, Numbers DEF LoopStart, Base, TypeOK, Clock, Levels
<1>4. CASE Begin
  BY <1>4, Numbers DEF Begin, begin, Base, TypeOK, Clock, Levels, Level, State, Event
<1>5. CASE update
  <2>1. Clock'
    BY <1>5, Numbers DEF update, Clock
  <2>2. QED
    BY <1>5, <2>1, UpdateTypes DEF Base
<1>6. QED
  BY <1>1, <1>2, <1>3, <1>4, <1>5 DEF Next

-----------------------------------------------------------------------------
(***************************************************************************)
(* For how long a level was seen.                                          *)
(***************************************************************************)
\* Time passes alike for a start and for the level seen since.
LEMMA TickKeepsSeen ==
    ASSUME Base, Tick, NEW t \in 0 .. Wrap - 1, SeenSince(t)
    PROVE  SeenSince(t)'
<1>1. CASE levelAge > Debounce
  BY <1>1, Numbers DEF Tick, Older, SeenSince, Base, TypeOK
<1>2. CASE levelAge <= Debounce
  <2>1. Since(t, millis) <= levelAge /\ (inLoop => waited <= Since(t, millis))
    BY <1>2, Readings, Numbers DEF SeenSince
  <2>2. millis \in 0 .. Wrap - 1 /\ levelAge \in Nat /\ waited \in Nat
    BY Readings
  <2>3. millis' = (IF millis = Wrap - 1 THEN 0 ELSE millis + 1) /\ millis' \in 0 .. Wrap - 1
    BY <2>2, NextIs, Numbers DEF Tick
  <2>4. levelAge' = levelAge + 1
    BY <1>2, <2>2, Numbers DEF Tick, Older
  <2>5. Since(t, millis') = Since(t, millis) + 1
    <3>1. Since(t, millis) = (IF t <= millis THEN millis - t ELSE millis - t + Wrap)
      BY <2>2, SinceIs
    <3>2. Since(t, millis') = (IF t <= millis' THEN millis' - t ELSE millis' - t + Wrap)
      BY <2>3, SinceIs
    <3>3. Since(t, millis) < Wrap - 1
      BY <1>2, <2>1, <2>2, <3>1, Numbers
    <3>4. QED
      BY <2>2, <2>3, <3>1, <3>2, <3>3, Numbers
  <2>6. Since(t, millis) \in Nat /\ waited' = waited + 1 /\ inLoop' = inLoop /\ t \in Nat
    BY <2>2, SinceIs, Numbers DEF Tick
  <2>7. Since(t, millis') <= levelAge' /\ (inLoop => waited' <= Since(t, millis'))
    BY <2>1, <2>2, <2>4, <2>5, <2>6
  <2>8. QED
    BY <2>6, <2>7 DEF SeenSince
<1>3. QED
  BY <1>1, <1>2, Readings, Numbers

\* A level that is new to update has been seen since the time update goes by.
LEMMA SeenFromNow ==
    ASSUME Base, update, level' # level,
           NEW t, t = IF now = 0 THEN millis ELSE now
    PROVE  (Since(t, millis) <= levelAge /\ ~inLoop)'
<1>1. levelAge' = waited /\ inLoop' = FALSE /\ millis' = millis
  BY DEF update, See
<1>2. Since(t, millis) \in {0, waited} /\ waited \in Nat
  BY SinceIs, Numbers DEF Base, TypeOK, Clock, update
<1>3. QED
  BY <1>1, <1>2, Numbers

\* A level seen again by update was seen for longer than the debounce time if a start
\* before it was.
LEMMA SeenForLong ==
    ASSUME Base, update, level' = level, NEW u \in 0 .. Wrap - 1, SeenSince(u),
           NEW t, t = (IF now = 0 THEN millis ELSE now), Since(u, t) > Debounce
    PROVE  levelAge' > Debounce
<1>1. levelAge' = levelAge
  BY DEF update, See
<1>2. CASE levelAge <= Debounce
  <2>1. Since(u, millis) <= levelAge /\ waited <= Since(u, millis) /\ inLoop
    BY <1>2, Readings, Numbers DEF SeenSince, update
  <2>2. Since(now, millis) = waited /\ waited \in Nat
    BY <2>1, Readings DEF Base, Clock
  <2>3. Since(u, now) <= levelAge
    <3>1. millis \in 0 .. Wrap - 1 /\ now \in 0 .. Wrap - 1 /\ levelAge \in Nat
      BY Readings
    <3>2. /\ Since(u, millis) = IF u <= millis THEN millis - u ELSE millis - u + Wrap
          /\ Since(u, now) = IF u <= now THEN now - u ELSE now - u + Wrap
          /\ Since(now, millis) = IF now <= millis THEN millis - now ELSE millis - now + Wrap
      BY <3>1, SinceIs
    <3>3. QED
      BY <2>1, <2>2, <3>1, <3>2, Numbers
  <2>4. Since(u, t) <= levelAge /\ Since(u, t) \in Nat
    <3>1. t = now \/ t = millis
      OBVIOUS
    <3>2. Since(u, t) <= levelAge
      BY <2>1, <2>3, <3>1
    <3>3. t \in 0 .. Wrap - 1
      BY <3>1, Readings
    <3>4. Since(u, t) \in Nat
      <4>1. Since(u, t) = IF u <= t THEN t - u ELSE t - u + Wrap
        BY <3>3, SinceIs
      <4>2. QED
        BY <3>3, <4>1, Numbers
    <3>5. QED
      BY <3>2, <3>4
  <2>5. QED
    BY <1>2, <2>4, Readings, Numbers
<1>3. QED
  BY <1>1, <1>2, Readings, Numbers

-----------------------------------------------------------------------------
(***************************************************************************)
(* The press and the release.                                              *)
(***************************************************************************)
\* A start stays one when only the pin or a new loop comes.
LEMMA LoopKeepsSeen ==
    ASSUME Base, Bounce \/ LoopStart \/ UNCHANGED vars,
           NEW t \in 0 .. Wrap - 1, SeenSince(t)
    PROVE  SeenSince(t)'
<1>1. Since(t, millis) \in Nat /\ millis' = millis /\ levelAge' = levelAge
  BY SinceIs, Readings, Numbers DEF Bounce, LoopStart, vars
<1>2. \/ inLoop' = inLoop /\ waited' = waited
      \/ waited' = 0
  BY DEF Bounce, LoopStart, vars
<1>3. QED
  BY <1>1, <1>2, Readings DEF SeenSince

\* The release is debounced, however begin is called.
LEMMA ReleaseStep == ASSUME ReleaseInv, [Next]_vars PROVE ReleaseInv'
<1>1. Base /\ Base'
  BY BaseStep DEF ReleaseInv
<1>2. time_up \in 0 .. Wrap - 1 /\ level \in Level
  BY <1>1 DEF Base, TypeOK
<1>3. CASE Bounce \/ LoopStart \/ UNCHANGED vars
  <2>1. UNCHANGED <<state, time_up, event, level, levelAge>>
    BY <1>3 DEF Bounce, LoopStart, vars
  <2>2. QED
    BY <1>1, <1>2, <1>3, <2>1, LoopKeepsSeen
       DEF ReleaseInv, ReleaseTimed, ReleaseIsDebounced, SeenSince
<1>4. CASE Tick
  <2>1. UNCHANGED <<state, time_up, event, level>> /\ levelAge' >= levelAge
        /\ levelAge' \in Nat
    BY <1>1, <1>4, Readings DEF Tick, Older
  <2>2. ReleaseIsDebounced'
    BY <1>1, <2>1, Readings, Numbers DEF ReleaseInv, ReleaseIsDebounced
  <2>3. QED
    BY <1>1, <1>2, <1>4, <2>1, <2>2, TickKeepsSeen
       DEF ReleaseInv, ReleaseTimed, SeenSince
<1>5. CASE Begin
  BY <1>1, <1>5 DEF Begin, begin, ReleaseInv, ReleaseTimed, ReleaseIsDebounced
<1>6. CASE update
  <2> DEFINE t == IF now = 0 THEN millis ELSE now
  <2>1. InIdle \/ InWait(t) \/ InUp(t) \/ InDownDebounce(t) \/ InDown(t)
        \/ InUpDebounce(t) \/ InHolding(t) \/ InHoldEndDebounce(t)
    BY <1>6 DEF update
  <2>2. level' = pin /\ millis' = millis /\ inLoop' = FALSE
    BY <1>6 DEF update, See
  <2>3. t = IF now = 0 THEN millis ELSE now
    OBVIOUS
  <2> HIDE DEF t
  <2>4. CASE InDown(t) \/ InHolding(t)
    <3>1. level = "pressed" /\ event' \notin {"CLICK", "HOLD_END"}
      BY <1>1, <2>4 DEF Base, Levels, InDown, InHolding, Goto
    <3>2. state' \in {"UP_DEBOUNCE", "HOLD_END_DEBOUNCE"} => pin = "released" /\ time_up' = t
      BY <2>4 DEF InDown, InHolding, Goto, Released
    <3>3. pin = "released" => Since(t, millis') <= levelAge'
      BY <1>1, <1>6, <2>2, <2>3, <3>1, SeenFromNow
    <3>4. QED
      BY <1>1, <2>2, <3>1, <3>2, <3>3 DEF ReleaseInv, ReleaseTimed, ReleaseIsDebounced, SeenSince
  <2>5. CASE InUpDebounce(t) \/ InHoldEndDebounce(t)
    <3>1. level = "released" /\ SeenSince(time_up) /\ time_up' = time_up
      BY <1>1, <2>5 DEF Base, Levels, ReleaseInv, ReleaseTimed, InUpDebounce,
                        InHoldEndDebounce, Stay
    <3>2. CASE pin = "pressed"
      BY <1>1, <2>5, <3>2 DEF InUpDebounce, InHoldEndDebounce, Goto, Released, ReleaseInv,
                              ReleaseTimed, ReleaseIsDebounced
    <3>3. CASE pin = "released"
      <4>1. levelAge' = levelAge
        BY <1>6, <3>1, <3>3 DEF update, See
      <4>2. SeenSince(time_up)'
        BY <2>2, <3>1, <4>1 DEF SeenSince
      <4>3. event' \in {"CLICK", "HOLD_END"} => Since(time_up, t) > Debounce
        BY <2>5, <3>3 DEF InUpDebounce, InHoldEndDebounce, Goto, UpFor, Pressed
      <4>4. event' \in {"CLICK", "HOLD_END"} => levelAge' > Debounce
        BY <1>1, <1>2, <1>6, <2>2, <2>3, <3>1, <3>3, <4>3, SeenForLong
      <4>5. QED
        BY <1>1, <2>2, <3>1, <3>3, <4>2, <4>4 DEF ReleaseInv, ReleaseTimed, ReleaseIsDebounced
    <3>4. QED
      BY <1>1, <3>2, <3>3 DEF Base, TypeOK, Level
  <2>6. CASE InIdle \/ InWait(t) \/ InUp(t) \/ InDownDebounce(t)
    BY <1>1, <2>6 DEF InIdle, InWait, InUp, InDownDebounce, Goto, ReleaseInv, ReleaseTimed,
                      ReleaseIsDebounced
  <2>7. QED
    BY <2>1, <2>4, <2>5, <2>6
<1>7. QED
  BY <1>3, <1>4, <1>5, <1>6 DEF Next

\* A start later than the loop's now is one before the next loop's.
LEMMA TickKeepsLate ==
    ASSUME Base, Tick, NEW t \in 0 .. Wrap - 1, LateSince(t)
    PROVE  SeenSince(t)' \/ LateSince(t)'
<1>1. /\ millis \in 0 .. Wrap - 1 /\ levelAge \in Nat /\ late' /\ inLoop'
      /\ Since(t, millis) <= levelAge
  BY Readings DEF Tick, LateSince
<1>2. CASE levelAge > Debounce
  BY <1>1, <1>2, Numbers DEF Tick, Older, SeenSince
<1>3. CASE levelAge <= Debounce
  <2>1. millis' = (IF millis = Wrap - 1 THEN 0 ELSE millis + 1) /\ millis' \in 0 .. Wrap - 1
    BY <1>1, NextIs, Numbers DEF Tick
  <2>2. levelAge' = levelAge + 1
    BY <1>1, <1>3, Numbers DEF Tick, Older
  <2>3. Since(t, millis) = (IF t <= millis THEN millis - t ELSE millis - t + Wrap)
    BY <1>1, SinceIs
  <2>4. Since(t, millis') = (IF t <= millis' THEN millis' - t ELSE millis' - t + Wrap)
    BY <2>1, SinceIs
  <2>5. Since(t, millis) < Wrap - 1
    BY <1>1, <1>3, <2>3, Numbers
  <2>6. Since(t, millis') <= levelAge'
    BY <1>1, <2>1, <2>2, <2>3, <2>4, <2>5, Numbers
  <2>7. QED
    BY <1>1, <2>6 DEF LateSince
<1>4. QED
  BY <1>1, <1>2, <1>3, Numbers

\* The press is debounced too, but for one taken up within a loop.
LEMMA PressStep == ASSUME PressInv, [Next]_vars PROVE PressInv'
<1>1. Base /\ Base'
  BY BaseStep DEF PressInv
<1>2. time_down \in 0 .. Wrap - 1 /\ level \in Level
  BY <1>1 DEF Base, TypeOK
<1>3. CASE Bounce \/ LoopStart \/ UNCHANGED vars
  <2>1. UNCHANGED <<millis, state, time_down, event, level, levelAge, late>> /\ (inLoop => inLoop')
    BY <1>3 DEF Bounce, LoopStart, vars
  <2>2. DownIsDebounced'
    BY <2>1 DEF PressInv, DownIsDebounced
  <2>3. LateSince(time_down) => LateSince(time_down)'
    BY <2>1 DEF LateSince
  <2>4. SeenSince(time_down) => SeenSince(time_down)'
    BY <1>1, <1>2, <1>3, <2>1, LoopKeepsSeen DEF SeenSince
  <2>5. QED
    BY <1>1, <2>1, <2>2, <2>3, <2>4 DEF PressInv, PressTimed
<1>4. CASE Tick
  <2>1. UNCHANGED <<state, time_down, event, level, late>> /\ levelAge' >= levelAge
        /\ levelAge' \in Nat
    BY <1>1, <1>4, Readings DEF Tick, Older
  <2>2. DownIsDebounced'
    BY <1>1, <2>1, Readings, Numbers DEF PressInv, DownIsDebounced
  <2>3. QED
    BY <1>1, <1>2, <1>4, <2>1, <2>2, TickKeepsSeen, TickKeepsLate
       DEF PressInv, PressTimed, SeenSince, LateSince
<1>5. CASE Begin
  <2>1. event' = "NONE" /\ millis' = millis /\ inLoop' = inLoop /\ waited' = waited
        /\ levelAge' = 0
    BY <1>5 DEF Begin, begin
  <2>2. state' = "DOWN_DEBOUNCE" => time_down' = millis /\ (~inLoop \/ late')
    BY <1>5 DEF Begin, begin
  <2>3. Since(millis, millis) = 0
    BY <1>1, SinceIs, Readings, Numbers
  <2>4. PressTimed'
    BY <1>1, <2>1, <2>2, <2>3 DEF PressTimed, SeenSince, LateSince
  <2>5. QED
    BY <1>1, <2>1, <2>4 DEF PressInv, DownIsDebounced
<1>6. CASE update
  <2> DEFINE t == IF now = 0 THEN millis ELSE now
  <2>1. InIdle \/ InWait(t) \/ InUp(t) \/ InDownDebounce(t) \/ InDown(t)
        \/ InUpDebounce(t) \/ InHolding(t) \/ InHoldEndDebounce(t)
    BY <1>6 DEF update
  <2>2. level' = pin /\ millis' = millis /\ inLoop' = FALSE
    BY <1>6 DEF update, See
  <2>3. t = IF now = 0 THEN millis ELSE now
    OBVIOUS
  <2> HIDE DEF t
  <2>4. CASE InUp(t)
    <3>1. level = "released" /\ event' = "NONE"
      BY <1>1, <2>4 DEF Base, Levels, InUp, Goto
    <3>2. state' = "DOWN_DEBOUNCE" => pin = "pressed" /\ time_down' = t
      BY <2>4 DEF InUp, Goto, Pressed
    <3>3. pin = "pressed" => Since(t, millis') <= levelAge'
      BY <1>1, <1>6, <2>2, <2>3, <3>1, SeenFromNow
    <3>4. QED
      BY <1>1, <2>2, <3>1, <3>2, <3>3 DEF PressInv, PressTimed, DownIsDebounced, SeenSince
  <2>5. CASE InDownDebounce(t)
    <3>1. level = "pressed" /\ time_down' = time_down
          /\ (SeenSince(time_down) \/ LateSince(time_down))
      BY <1>1, <2>5 DEF Base, Levels, PressInv, PressTimed, InDownDebounce, Stay
    <3>2. CASE pin = "released"
      BY <1>1, <2>5, <3>2 DEF InDownDebounce, Goto, Pressed, PressInv, PressTimed, DownIsDebounced
    <3>3. CASE pin = "pressed"
      <4>1. levelAge' = levelAge
        BY <1>6, <3>1, <3>3 DEF update, See
      <4>2. SeenSince(time_down)'
        BY <2>2, <3>1, <4>1 DEF SeenSince, LateSince
      <4>3. event' = "DOWN" => Since(time_down, t) > Debounce
        BY <2>5, <3>3 DEF InDownDebounce, Goto, DownFor, Released
      <4>4. event' = "DOWN" => levelAge' > Debounce \/ late'
        <5>1. SeenSince(time_down) /\ event' = "DOWN" => levelAge' > Debounce
          BY <1>1, <1>2, <1>6, <2>2, <2>3, <3>1, <3>3, <4>3, SeenForLong
        <5>2. LateSince(time_down) /\ event' = "DOWN" => late'
          BY <1>6 DEF update, LateSince
        <5>3. QED
          BY <3>1, <5>1, <5>2
      <4>5. QED
        BY <1>1, <2>2, <3>1, <3>3, <4>2, <4>4 DEF PressInv, PressTimed, DownIsDebounced
    <3>4. QED
      BY <1>1, <3>2, <3>3 DEF Base, TypeOK, Level
  <2>6. CASE InIdle \/ InWait(t) \/ InDown(t) \/ InUpDebounce(t) \/ InHolding(t)
             \/ InHoldEndDebounce(t)
    BY <1>1, <2>6 DEF InIdle, InWait, InDown, InUpDebounce, InHolding, InHoldEndDebounce, Goto,
                      PressInv, PressTimed, DownIsDebounced
  <2>7. QED
    BY <2>1, <2>4, <2>5, <2>6
<1>7. QED
  BY <1>3, <1>4, <1>5, <1>6 DEF Next

\* No CLICK and no HOLD_END comes of a contact that has not been found open for longer than
\* the debounce time, across the wrap of millis() and whenever begin is called.
THEOREM ReleasesAreDebounced == Spec => []ReleaseIsDebounced
<1>1. Init => ReleaseInv
  <2> SUFFICES ASSUME Init PROVE ReleaseInv
    OBVIOUS
  <2>1. ReleaseTimed /\ ReleaseIsDebounced
    BY DEF Init, ReleaseTimed, ReleaseIsDebounced
  <2>2. QED
    BY <2>1, InitBase DEF ReleaseInv
<1>2. ReleaseInv /\ [Next]_vars => ReleaseInv'
  BY ReleaseStep
<1>3. ReleaseInv => ReleaseIsDebounced
  BY DEF ReleaseInv
<1>4. QED
  BY <1>1, <1>2, <1>3, PTL DEF Spec

\* Every variable keeps its type, whenever begin is called.
THEOREM Typing == Spec => []TypeOK
<1>1. Base => TypeOK
  BY DEF Base
<1>2. Base /\ [Next]_vars => Base'
  BY BaseStep
<1>3. QED
  BY <1>1, <1>2, InitBase, PTL DEF Spec

\* Nor does DOWN, but at the end of a loop in which begin(false) found the button pressed:
\* millis() is ahead of the loop's now, and update takes the difference for a very long time.
THEOREM EventsAreDebounced == Spec => []ButtonInv
<1>1. Init => PressInv
  <2> SUFFICES ASSUME Init PROVE PressInv
    OBVIOUS
  <2>1. PressTimed /\ DownIsDebounced
    BY DEF Init, PressTimed, DownIsDebounced
  <2>2. QED
    BY <2>1, InitBase DEF PressInv
<1>2. PressInv /\ [Next]_vars => PressInv'
  BY PressStep
<1>3. PressInv /\ ReleaseIsDebounced => ButtonInv
  BY DEF PressInv, Base, ButtonInv
<1>4. QED
  BY <1>1, <1>2, <1>3, ReleasesAreDebounced, PTL DEF Spec

-----------------------------------------------------------------------------
(***************************************************************************)
(* The order of events.                                                    *)
(***************************************************************************)
\* What was reported last, by the state of the button.
Reported ==
    /\ state \in {"IDLE", "WAIT_FOR_RELEASE"} => last = "NONE"
    /\ state \in {"UP", "DOWN_DEBOUNCE"} => last \in {"NONE", "CLICK", "HOLD_END"}
    /\ state \in {"DOWN", "UP_DEBOUNCE"} => last = "DOWN"
    /\ state \in {"HOLDING", "HOLD_END_DEBOUNCE"} => last \in {"HOLD_START", "HOLDING"}

InOrder ==
    CASE event' = "DOWN" -> last \in {"NONE", "CLICK", "HOLD_END"}
      [] event' \in {"CLICK", "HOLD_START"} -> last = "DOWN"
      [] event' \in {"HOLDING", "HOLD_END"} -> last \in {"HOLD_START", "HOLDING"}
      [] OTHER -> TRUE

Silent == event' = "NONE" /\ (level' = "pressed" => state' = "WAIT_FOR_RELEASE")

LEMMA UpdateInOrder == ASSUME Reported, update
    PROVE  Reported' /\ InOrder /\ (state = "WAIT_FOR_RELEASE" => Silent)
<1> DEFINE t == IF now = 0 THEN millis ELSE now
<1>1. InIdle \/ InWait(t) \/ InUp(t) \/ InDownDebounce(t) \/ InDown(t)
      \/ InUpDebounce(t) \/ InHolding(t) \/ InHoldEndDebounce(t)
  BY DEF update
<1>2. last' = (IF event' = "NONE" THEN last ELSE event') /\ level' = pin
  BY DEF update, See
<1> HIDE DEF t
<1>3. CASE InIdle \/ InWait(t) \/ InUp(t)
  BY <1>2, <1>3 DEF InIdle, InWait, InUp, Goto, Reported, InOrder, Silent, Released
<1>4. CASE InDownDebounce(t) \/ InDown(t)
  BY <1>2, <1>4 DEF InDownDebounce, InDown, Goto, Reported, InOrder, Silent
<1>5. CASE InUpDebounce(t) \/ InHolding(t) \/ InHoldEndDebounce(t)
  BY <1>2, <1>5 DEF InUpDebounce, InHolding, InHoldEndDebounce, Goto, Reported, InOrder, Silent
<1>6. QED
  BY <1>1, <1>3, <1>4, <1>5

LEMMA ReportedStep == ASSUME Reported, [Next]_vars PROVE Reported'
<1>1. CASE Bounce \/ Tick \/ LoopStart \/ UNCHANGED vars
  BY <1>1 DEF Bounce, Tick, LoopStart, vars, Reported
<1>2. CASE Begin
  BY <1>2 DEF Begin, begin, Reported
<1>3. QED
  BY <1>1, <1>2, UpdateInOrder DEF Next

\* A press is reported as DOWN CLICK or as DOWN HOLD_START HOLDING* HOLD_END, and not at all
\* while the release of an earlier one is awaited, whatever the contact and begin do.
THEOREM EventsMakeSense == Spec => Events
<1>1. Init => Reported
  BY DEF Init, Reported
<1>2. Reported /\ [Next]_vars => Reported'
  BY ReportedStep
<1>3. Reported /\ [Next]_vars => /\ [update => InOrder]_vars
                               /\ [update /\ state = "WAIT_FOR_RELEASE" => Silent]_vars
  BY UpdateInOrder
<1>4. Spec => /\ [][update => InOrder]_vars
             /\ [][update /\ state = "WAIT_FOR_RELEASE" => Silent]_vars
  BY <1>1, <1>2, <1>3, PTL DEF Spec
<1>5. Spec => EventOrder
  BY <1>4 DEF EventOrder, InOrder
<1>6. Spec => SilentUntilRelease
  BY <1>4 DEF SilentUntilRelease, Silent
<1>7. QED
  BY <1>5, <1>6 DEF Events
=============================================================================
