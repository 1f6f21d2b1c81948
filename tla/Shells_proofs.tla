---------------------------- MODULE Shells_proofs ----------------------------
(***************************************************************************)
(* What holds of the shells for all timers, any number of outputs, and     *)
(* whatever users, other components, loads and the light do.               *)
(***************************************************************************)
EXTENDS Shells, TLAPS

\* The time charged next was owed before: what a shell's second timestamp counts is
\* within what it owes, until the shell hands over.
Metering ==
    /\ owed >= 0
    /\ cur # "detail" /\ (pc # "idle" \/ next = cur) => secAge <= owed

\* The shells' flags agree on the one panel, which is on where no shell asks.
SharedPanel ==
    /\ display_on = panel
    /\ cur = "detail" => panel

\* The low light counter began after what last lit or used the panel.
LightBehind ==
    /\ lightAge <= quiet
    /\ cur = "detail" => lightAge = NotCounting

\* So did the time to the screen saver; and only that time leads there.
ExitBehind ==
    /\ cur = "overview" => exitAge <= quiet
    /\ next = "screensaver" /\ cur # "screensaver" => pc = "idle" /\ quiet > SaverTimer

\* Whoever toggles an output sees the panel, to the end of the loop.
Seen ==
    /\ user # {} => panel
    /\ pc = "loop" => user = {}
    /\ user # {} /\ pc \in {"measure", "light"} => lightAge = NotCounting

\* Which steps belong to which shell.
Places ==
    /\ pc \in {"measure", "light"} => cur = "overview"
    /\ pc = "second" => cur = "screensaver"
    /\ pc = "account" => cur \in {"overview", "screensaver"}
    /\ pc # "idle" => next = cur
    /\ cur = "none" => pc = "idle" /\ next = "overview"

PanelInv == SharedPanel /\ LightBehind /\ ExitBehind /\ Seen
IInv == TypeOK /\ Places /\ Metering /\ PanelInv

\* The timers and bounds are numbers.
LEMMA Numbers ==
    /\ MeasureTimer \in Nat /\ SecondTimer \in Nat /\ PublishTimer \in Nat
    /\ LightOffTimer \in Nat /\ SaverTimer \in Nat /\ BackTimer \in Nat /\ OwedCap \in Nat
    /\ LongTimer \in Nat /\ LongTimer >= LightOffTimer /\ LongTimer >= SaverTimer
BY TimerAssumption DEF LongTimer

\* Not counting is less than any time.
LEMMA Nothing == NotCounting \in Int /\ NotCounting < 0
BY DEF NotCounting

LEMMA InitInv == Init => IInv
<1> SUFFICES ASSUME Init PROVE IInv
  OBVIOUS
<1>1. quiet = 0 /\ exitAge = 0 /\ secAge = 0 /\ owed = 0 /\ lightAge = NotCounting
      /\ panel = FALSE /\ display_on = FALSE /\ cur = "none" /\ next = "overview" /\ pc = "idle"
      /\ user = {}
  BY DEF Init
<1>2. measureAge \in Age(MeasureTimer) /\ secAge \in Age(SecondTimer) /\ owed \in Int
      /\ publishAge \in Age(PublishTimer) /\ exitAge \in Age(SaverTimer)
      /\ backAge \in Age(BackTimer) /\ quiet \in Age(LongTimer)
  BY Numbers DEF Init, Age
<1>3. touched \subseteq Output /\ moved \subseteq Output /\ user \subseteq Output
      /\ channel \in Channel /\ clicks \subseteq Button /\ bright \in BOOLEAN
  BY DEF Init, Channel
<1>4. TypeOK
  BY <1>1, <1>2, <1>3 DEF TypeOK, Shell
<1>5. Places /\ Metering
  BY <1>1 DEF Places, Metering
<1>6. SharedPanel /\ Seen
  BY <1>1 DEF SharedPanel, Seen
<1>7. lightAge <= quiet
  BY <1>1, Nothing
<1>8. LightBehind /\ ExitBehind
  BY <1>1, <1>7 DEF LightBehind, ExitBehind
<1>9. QED
  BY <1>4, <1>5, <1>6, <1>8 DEF IInv, PanelInv

\* What waking, dark and light may change keeps its type.
PanelTypes ==
    /\ panel \in BOOLEAN /\ display_on \in BOOLEAN
    /\ lightAge \in Age(LightOffTimer) \cup {NotCounting}
    /\ exitAge \in Age(SaverTimer) /\ quiet \in Age(LongTimer)

LEMMA WakeTypes == ASSUME PanelTypes, Wake \/ NoWake PROVE PanelTypes'
<1>0. 0 \in Age(SaverTimer) /\ 0 \in Age(LongTimer)
  BY Numbers DEF Age
<1>1. CASE Wake
  BY <1>0, <1>1 DEF PanelTypes, Wake, Light
<1>2. CASE NoWake
  BY <1>2 DEF PanelTypes, NoWake
<1>3. QED
  BY <1>1, <1>2

LEMMA DarkTypes ==
    ASSUME PanelTypes, DarkStep, UNCHANGED <<exitAge, quiet>> PROVE PanelTypes'
<1>1. 0 \in Age(LightOffTimer)
  BY Numbers DEF Age
<1>2. /\ panel' \in {panel, FALSE} /\ display_on' \in {display_on, FALSE}
      /\ lightAge' \in {lightAge, 0}
  BY DEF DarkStep, StartCounting, TurnOff, StayAsIs
<1>3. QED
  BY <1>1, <1>2 DEF PanelTypes

\* The types, step by step.
LEMMA TypeStep == ASSUME TypeOK, Places, Next PROVE TypeOK'
<1> USE DEF TypeOK
<1>0. PanelTypes
  BY DEF PanelTypes
<1>1. CASE LoopSame
  BY <1>1 DEF LoopSame, ages
<1>2. CASE LoopSwitch
  <2>1. panel' = TRUE /\ display_on' = TRUE /\ lightAge' = NotCounting /\ quiet' = 0 /\ owed' = 0
        /\ secAge' = 0 /\ publishAge' = 0 /\ exitAge' = 0 /\ backAge' = 0
        /\ measureAge' \in 0 .. MeasureTimer + 1
    BY <1>2 DEF LoopSwitch, Enter, Light
  <2>2. pc' = "loop" /\ cur' = next /\ next' = next /\ touched' = {} /\ moved' \subseteq Output
        /\ bright' = bright /\ channel' = channel /\ clicks' = {} /\ user' = {}
    BY <1>2 DEF LoopSwitch, Enter
  <2>3. QED
    BY <2>1, <2>2, Numbers DEF Age
<1>3. CASE OverviewToDetail
  BY <1>3 DEF OverviewToDetail, Return, ages, Shell, Button
<1>4. CASE OverviewButtons
  <2>1. PICK c \in SUBSET {"sw2", "sw3"} :
            /\ clicks' = c /\ user' = UserToggles(c) /\ touched' = {}
            /\ pc' \in {"measure", "light"}
            /\ Wake \/ NoWake
    BY <1>4 DEF OverviewButtons
  <2>2. user' \subseteq Output
    BY <2>1, OutputAssumption DEF UserToggles, Toggled, Channel
  <2>3. PanelTypes' /\ clicks' \subseteq Button
    BY <1>0, <2>1, WakeTypes DEF Button
  <2>4. UNCHANGED <<cur, next, moved, bright, channel, measureAge, secAge, publishAge, backAge, owed>>
    BY <1>4 DEF OverviewButtons
  <2>5. QED
    BY <2>1, <2>2, <2>3, <2>4 DEF PanelTypes
<1>5. CASE OverviewMeasure
  <2>1. (Wake \/ NoWake) /\ MeasureRest
    BY <1>5 DEF OverviewMeasure
  <2>2. PanelTypes'
    BY <1>0, <2>1, WakeTypes
  <2>3. QED
    BY <2>1, <2>2, Numbers DEF MeasureRest, Goto, PanelTypes, Age
<1>6. CASE OverviewBright
  <2>1. (Wake \/ NoWake) /\ pc' \in {"account", "idle"} /\ next' \in Shell
    BY <1>6 DEF OverviewBright, Goto, Return, Shell
  <2>2. PanelTypes'
    BY <1>0, <2>1, WakeTypes
  <2>3. UNCHANGED <<cur, touched, moved, bright, channel, measureAge, secAge, publishAge, backAge,
                    clicks, user, owed>>
    BY <1>6 DEF OverviewBright
  <2>4. QED
    BY <2>1, <2>2, <2>3 DEF PanelTypes
<1>7. CASE OverviewDark
  <2>1. PanelTypes'
    BY <1>0, <1>7, DarkTypes DEF OverviewDark, ghosts
  <2>2. QED
    BY <1>7, <2>1 DEF OverviewDark, Goto, ghosts, PanelTypes
<1>8. CASE Account
  BY <1>8, Numbers DEF Account, Places, Accumulate, Publish, Return, Age, Shell
<1>9. CASE SaverLeave
  BY <1>9 DEF SaverLeave, Return, ages, Shell, Button
<1>10. CASE SaverBright
  <2>0. 0 \in Age(LongTimer)
    BY Numbers DEF Age
  <2>1. /\ panel' \in {panel, TRUE} /\ display_on' \in {display_on, TRUE}
        /\ lightAge' \in {lightAge, NotCounting} /\ quiet' \in {quiet, 0} /\ exitAge' = exitAge
    BY <1>10 DEF SaverBright, Light
  <2>2. PanelTypes'
    BY <1>0, <2>0, <2>1 DEF PanelTypes
  <2>3. QED
    BY <1>10, <2>2 DEF SaverBright, Goto, PanelTypes
<1>11. CASE SaverDark
  <2>1. PanelTypes'
    BY <1>0, <1>11, DarkTypes DEF SaverDark, ghosts
  <2>2. QED
    BY <1>11, <2>1 DEF SaverDark, Goto, ghosts, PanelTypes
<1>12. CASE SaverSecond
  BY <1>12, Numbers DEF SaverSecond, Goto, Return, Age, Shell
<1>13. CASE SaverNoSecond
  BY <1>13 DEF SaverNoSecond, Goto, ages, ghosts
<1>14. CASE DetailBack
  BY <1>14 DEF DetailBack, Return, ages, Shell, Button, Channel
<1>15. CASE DetailLoop
  <2>1. channel' \in Channel /\ user' \subseteq Output
    BY <1>15, OutputAssumption DEF DetailLoop, Channel
  <2>2. QED
    BY <1>15, <2>1, Numbers DEF DetailLoop, Return, Shell, Button, Age
<1>16. CASE ExternalToggle
  BY <1>16 DEF ExternalToggle, Xor, ages, ghosts
<1>17. CASE LoadChange
  BY <1>17 DEF LoadChange, Xor, ages, ghosts
<1>18. CASE LightChange
  BY <1>18 DEF LightChange, ages, ghosts
<1>19. CASE Tick
  BY <1>19, Numbers, Nothing DEF Tick, Grow, Age
<1>20. QED
  BY <1>1, <1>2, <1>3, <1>4, <1>5, <1>6, <1>7, <1>8, <1>9, <1>10, <1>11, <1>12, <1>13, <1>14,
     <1>15, <1>16, <1>17, <1>18, <1>19 DEF Next, Loop

\* The places of steps, which nothing but pc, cur and next decide.
LEMMA PlacesStep == ASSUME TypeOK, Places, Next PROVE Places'
<1> USE DEF Places, Goto, Return
<1>1. CASE LoopSame \/ LoopSwitch
  BY <1>1 DEF LoopSame, LoopSwitch, Enter, TypeOK, Shell
<1>2. CASE OverviewToDetail \/ OverviewButtons \/ OverviewMeasure \/ OverviewBright \/ OverviewDark
  BY <1>2 DEF OverviewToDetail, OverviewButtons, OverviewMeasure, MeasureRest, OverviewBright,
              OverviewDark
<1>3. CASE Account \/ SaverLeave \/ SaverBright \/ SaverDark \/ SaverSecond \/ SaverNoSecond
  BY <1>3 DEF Account, SaverLeave, SaverBright, SaverDark, SaverSecond, SaverNoSecond
<1>4. CASE DetailBack \/ DetailLoop
  BY <1>4 DEF DetailBack, DetailLoop
<1>5. CASE ExternalToggle \/ LoadChange \/ LightChange \/ Tick
  BY <1>5 DEF ExternalToggle, LoadChange, LightChange, Tick
<1>6. QED
  BY <1>1, <1>2, <1>3, <1>4, <1>5 DEF Next, Loop

\* No time is charged that is not owed.
LEMMA MeteringStep == ASSUME TypeOK, Places, Metering, Next PROVE Metering'
<1> USE Numbers DEF Metering
<1>1. CASE LoopSame \/ LoopSwitch
  BY <1>1 DEF LoopSame, LoopSwitch, Enter, ages, Places
<1>2. CASE OverviewToDetail \/ OverviewButtons \/ OverviewMeasure \/ OverviewBright \/ OverviewDark
  BY <1>2 DEF OverviewToDetail, OverviewButtons, OverviewMeasure, MeasureRest, OverviewBright,
              OverviewDark, Goto, Return, ages, ghosts, Places
<1>3. CASE Account
  BY <1>3 DEF Account, Accumulate, Return, Places, TypeOK, Age
<1>4. CASE SaverLeave \/ SaverBright \/ SaverDark \/ SaverNoSecond
  BY <1>4 DEF SaverLeave, SaverBright, SaverDark, SaverNoSecond, Goto, Return, ages, ghosts, Places
<1>5. CASE SaverSecond
  BY <1>5 DEF SaverSecond, Goto, Return, Places, TypeOK, Age
<1>6. CASE DetailBack \/ DetailLoop
  BY <1>6 DEF DetailBack, DetailLoop, Return, ages, TypeOK
<1>7. CASE ExternalToggle \/ LoadChange \/ LightChange
  BY <1>7 DEF ExternalToggle, LoadChange, LightChange, ages, ghosts
<1>8. CASE Tick
  <2>1. secAge' \in {secAge, secAge + 1} /\ secAge' \in 0 .. SecondTimer + 1
    BY <1>8, Nothing DEF Tick, Grow, TypeOK, Age
  <2>2. owed' = IF owed < OwedCap THEN owed + 1 ELSE owed
    BY <1>8 DEF Tick
  <2>3. UNCHANGED <<pc, cur, next>>
    BY <1>8 DEF Tick
  <2>4. QED
    BY <2>1, <2>2, <2>3, OwedAssumption DEF TypeOK, Age
<1>9. QED
  BY <1>1, <1>2, <1>3, <1>4, <1>5, <1>6, <1>7, <1>8 DEF Next, Loop

\* The low light of either shell: the panel goes off only after a count of its own.
LEMMA DarkStepInv ==
    ASSUME PanelTypes, SharedPanel, LightBehind, DarkStep, cur' = cur, cur # "detail", quiet' = quiet
    PROVE  SharedPanel' /\ LightBehind'
<1>1. SharedPanel'
  BY DEF DarkStep, StartCounting, TurnOff, StayAsIs, SharedPanel
<1>2. lightAge' \in {0, lightAge} /\ quiet >= 0
  BY Numbers DEF PanelTypes, DarkStep, StartCounting, TurnOff, StayAsIs, Age
<1>3. QED
  BY <1>1, <1>2 DEF LightBehind

\* A wake-up, or none.
LEMMA WakeInv ==
    ASSUME SharedPanel, LightBehind, Wake \/ NoWake, cur' = cur
    PROVE  SharedPanel' /\ LightBehind'
<1>1. SharedPanel'
  BY DEF SharedPanel, Wake, NoWake, Light
<1>2. LightBehind'
  BY Nothing DEF LightBehind, Wake, NoWake
<1>3. QED
  BY <1>1, <1>2

\* The flags, the counters and the user's view of them.
LEMMA PanelStep == ASSUME TypeOK, Places, PanelInv, Next PROVE PanelInv'
<1> USE DEF PanelInv
<1>0. PanelTypes
  BY DEF TypeOK, PanelTypes
<1>1. CASE LoopSame
  BY <1>1 DEF LoopSame, SharedPanel, LightBehind, ExitBehind, Seen, ages
<1>2. CASE LoopSwitch
  BY <1>2, Nothing DEF LoopSwitch, Enter, Light, SharedPanel, LightBehind, ExitBehind, Seen
<1>3. CASE OverviewToDetail
  BY <1>3 DEF OverviewToDetail, Return, SharedPanel, LightBehind, ExitBehind, Seen, ages
<1>4. CASE OverviewButtons
  <2>1. PICK c \in SUBSET {"sw2", "sw3"} :
            /\ user' = UserToggles(c)
            /\ \/ Wake /\ pc' = "measure"
               \/ NoWake /\ c = {} /\ pc' \in {"measure", "light"}
    BY <1>4 DEF OverviewButtons
  <2>2. cur = "overview" /\ UNCHANGED <<cur, next>>
    BY <1>4 DEF OverviewButtons
  <2>3. SharedPanel' /\ LightBehind'
    BY <2>1, <2>2, WakeInv
  <2>4. user' # {} => panel' /\ lightAge' = NotCounting
    BY <2>1 DEF UserToggles, Toggled, SharedPanel, Wake, Light
  <2>5. ExitBehind'
    BY <2>1, <2>2, <1>4 DEF OverviewButtons, ExitBehind, Places, Wake, NoWake
  <2>6. Seen'
    BY <2>1, <2>4 DEF Seen
  <2>7. QED
    BY <2>3, <2>5, <2>6
<1>5. CASE OverviewMeasure
  <2>1. (Wake \/ NoWake) /\ cur = "overview" /\ UNCHANGED <<cur, user, next>> /\ pc' = "light" /\ pc = "measure"
    BY <1>5 DEF OverviewMeasure, MeasureRest, Goto, Places
  <2>2. SharedPanel' /\ LightBehind'
    BY <2>1, WakeInv
  <2>3. ExitBehind' /\ Seen'
    BY <2>1 DEF ExitBehind, Seen, Wake, NoWake, Light, Places, SharedPanel
  <2>4. QED
    BY <2>2, <2>3
<1>6. CASE OverviewBright
  <2>1. (Wake \/ NoWake) /\ cur = "overview" /\ UNCHANGED <<cur, user>> /\ pc' \in {"account", "idle"} /\ pc = "light"
    BY <1>6 DEF OverviewBright, Goto, Return
  <2>2. SharedPanel' /\ LightBehind'
    BY <2>1, WakeInv
  <2>3. exitAge <= quiet /\ (exitAge > SaverTimer => quiet > SaverTimer)
    BY <2>1, Numbers DEF ExitBehind, TypeOK, Age
  <2>4. /\ (exitAge' = 0 /\ quiet' = 0) \/ (exitAge' = exitAge /\ quiet' = quiet)
        /\ next' # "screensaver" \/ (pc' = "idle" /\ exitAge > SaverTimer /\ quiet' = quiet)
    <3>1. CASE ~display_on
      BY <1>6, <3>1 DEF OverviewBright, Goto, Wake, Places
    <3>2. CASE display_on /\ exitAge > SaverTimer
      BY <1>6, <3>2 DEF OverviewBright, Goto, Return, NoWake, Places
    <3>3. CASE display_on /\ ~(exitAge > SaverTimer)
      BY <1>6, <3>3 DEF OverviewBright, Goto, Return, NoWake, Places
    <3>4. QED
      BY <3>1, <3>2, <3>3
  <2>5. exitAge' <= quiet'
    BY <2>3, <2>4
  <2>6. ExitBehind'
    BY <2>1, <2>3, <2>4, <2>5 DEF ExitBehind
  <2>7. Seen'
    BY <2>1 DEF Seen, Wake, NoWake, Light
  <2>8. QED
    BY <2>2, <2>6, <2>7
<1>7. CASE OverviewDark
  <2>1. SharedPanel' /\ LightBehind'
    BY <1>0, <1>7, DarkStepInv DEF OverviewDark, ghosts
  <2>2. user # {} => panel' = panel
    <3>1. SUFFICES ASSUME user # {} PROVE panel' = panel
      OBVIOUS
    <3>2. lightAge = NotCounting /\ DarkStep
      BY <1>7, <3>1 DEF OverviewDark, Seen
    <3>3. ~(lightAge > LightOffTimer)
      BY <3>2, Numbers, Nothing
    <3>4. QED
      BY <3>2, <3>3 DEF DarkStep, StartCounting, TurnOff, StayAsIs
  <2>3. ExitBehind' /\ Seen'
    BY <1>7, <2>2 DEF OverviewDark, Goto, ghosts, ExitBehind, Seen
  <2>4. QED
    BY <2>1, <2>3
<1>8. CASE Account
  BY <1>8 DEF Account, Return, SharedPanel, LightBehind, ExitBehind, Seen
<1>9. CASE SaverLeave
  BY <1>9 DEF SaverLeave, Return, SharedPanel, LightBehind, ExitBehind, Seen, ages
<1>10. CASE SaverBright
  <2>1. SharedPanel'
    BY <1>10 DEF SaverBright, Light, SharedPanel
  <2>2. LightBehind'
    BY <1>10, Nothing DEF SaverBright, LightBehind
  <2>3. ExitBehind' /\ Seen'
    BY <1>10 DEF SaverBright, Goto, ExitBehind, Seen
  <2>4. QED
    BY <2>1, <2>2, <2>3
<1>11. CASE SaverDark
  <2>1. SharedPanel' /\ LightBehind'
    BY <1>0, <1>11, DarkStepInv DEF SaverDark, ghosts
  <2>2. user = {} /\ user' = user /\ pc' = "second" /\ UNCHANGED <<cur, next, exitAge, quiet>> /\ cur = "screensaver"
    BY <1>11 DEF SaverDark, Goto, ghosts, Seen
  <2>3. QED
    BY <2>1, <2>2 DEF ExitBehind, Seen
<1>12. CASE SaverSecond
  BY <1>12 DEF SaverSecond, Goto, Return, SharedPanel, LightBehind, ExitBehind, Seen, Places
<1>13. CASE SaverNoSecond
  BY <1>13 DEF SaverNoSecond, Goto, SharedPanel, LightBehind, ExitBehind, Seen, ages, ghosts, Places
<1>14. CASE DetailBack
  BY <1>14 DEF DetailBack, Return, SharedPanel, LightBehind, ExitBehind, Seen, ages
<1>15. CASE DetailLoop
  <2>1. /\ cur = "detail" /\ pc' = "idle" /\ next' = "detail" /\ quiet' \in {quiet, 0}
        /\ UNCHANGED <<cur, panel, display_on, exitAge, lightAge>>
    BY <1>15 DEF DetailLoop, Return
  <2>2. panel /\ lightAge = NotCounting
    BY <2>1 DEF SharedPanel, LightBehind
  <2>3. lightAge' <= quiet'
    BY <2>1, <2>2, Numbers, Nothing DEF TypeOK, Age
  <2>4. QED
    BY <2>1, <2>2, <2>3 DEF SharedPanel, LightBehind, ExitBehind, Seen
<1>16. CASE ExternalToggle
  BY <1>16 DEF ExternalToggle, SharedPanel, LightBehind, ExitBehind, Seen, ages, ghosts
<1>17. CASE LoadChange
  BY <1>17 DEF LoadChange, SharedPanel, LightBehind, ExitBehind, Seen, ages, ghosts
<1>18. CASE LightChange
  BY <1>18 DEF LightChange, SharedPanel, LightBehind, ExitBehind, Seen, ages, ghosts
<1>19. CASE Tick
  <2>0. quiet \in 0 .. LongTimer + 1 /\ lightAge \in (0 .. LightOffTimer + 1) \cup {NotCounting}
        /\ exitAge \in 0 .. SaverTimer + 1
        /\ quiet' = Grow(quiet, LongTimer) /\ lightAge' = Grow(lightAge, LightOffTimer)
        /\ exitAge' = Grow(exitAge, SaverTimer)
    BY <1>19 DEF Tick, TypeOK, Age
  <2>1. quiet' \in {quiet, quiet + 1} /\ (quiet' = quiet => quiet = LongTimer + 1)
    BY <2>0, Numbers, Nothing DEF Grow
  <2>2. lightAge' \in {lightAge, lightAge + 1} /\ lightAge' <= LightOffTimer + 1
        /\ (lightAge = NotCounting <=> lightAge' = NotCounting)
    BY <2>0, Numbers, Nothing DEF Grow
  <2>3. exitAge' \in {exitAge, exitAge + 1} /\ exitAge' <= SaverTimer + 1
    BY <2>0, Numbers, Nothing DEF Grow
  <2>4. UNCHANGED <<pc, cur, next, panel, display_on, user>>
    BY <1>19 DEF Tick
  <2>5. LightBehind'
    BY <2>0, <2>1, <2>2, <2>4, Numbers, Nothing DEF LightBehind
  <2>6. ExitBehind'
    BY <2>0, <2>1, <2>3, <2>4, Numbers DEF ExitBehind
  <2>7. SharedPanel' /\ Seen'
    BY <1>19, <2>2, <2>4 DEF Tick, SharedPanel, Seen
  <2>8. QED
    BY <2>5, <2>6, <2>7
<1>20. QED
  BY <1>1, <1>2, <1>3, <1>4, <1>5, <1>6, <1>7, <1>8, <1>9, <1>10, <1>11, <1>12, <1>13, <1>14,
     <1>15, <1>16, <1>17, <1>18, <1>19 DEF Next, Loop

\* A stutter changes none of it.
LEMMA Stutter == ASSUME IInv, UNCHANGED vars PROVE IInv'
BY DEF IInv, TypeOK, Places, Metering, PanelInv, SharedPanel, LightBehind, ExitBehind, Seen,
       vars, ages, ghosts

\* All of it is kept, from the start and by every step.
THEOREM Invariance == Spec => []IInv
<1>1. IInv /\ [Next]_vars => IInv'
  BY TypeStep, PlacesStep, MeteringStep, PanelStep, Stutter DEF IInv
<1>2. QED
  BY InitInv, <1>1, PTL DEF Spec

\* No hour is charged twice, whatever shells come and go, and all keeps its type
\* (shell_overview.cpp:254-275, shell_screensaver.cpp:158-208).
THEOREM NothingIsChargedTwice == Spec => []ShellsInv
<1>1. IInv => ShellsInv
  BY DEF IInv, Metering, ShellsInv, NeverOvercharged
<1>2. QED
  BY <1>1, Invariance, PTL

\* No click in front of a dark panel switches an output (shell_overview.cpp:114-117).
THEOREM DarkClicksSwitchNothing == Spec => NoBlindToggle
<1>1. IInv /\ IInv' /\ [Next]_vars => [user' # {} => panel]_vars
  <2> SUFFICES ASSUME IInv, IInv', Next, user' # {} PROVE panel
    BY DEF vars
  <2>1. user = {} => OverviewButtons \/ DetailLoop
    BY DEF Next, Loop, LoopSame, LoopSwitch, OverviewToDetail, OverviewMeasure, MeasureRest,
           OverviewBright, OverviewDark, Account, SaverLeave, SaverBright, SaverDark, SaverSecond,
           SaverNoSecond, DetailBack, ExternalToggle, LoadChange, LightChange, Tick, ghosts
  <2>2. OverviewButtons => display_on
    BY DEF OverviewButtons, UserToggles
  <2>3. DetailLoop => cur = "detail"
    BY DEF DetailLoop
  <2>4. QED
    BY <2>1, <2>2, <2>3 DEF IInv, PanelInv, SharedPanel, Seen
<1>2. QED
  BY <1>1, Invariance, PTL DEF Spec, NoBlindToggle

\* The panel goes off only LIGHT_OFF_TIMER after whatever last lit or used it, in either shell
\* (shell_overview.cpp:236-249, shell_screensaver.cpp:133-146).
THEOREM LitPanelStaysLit == Spec => WakeHolds
<1>1. IInv /\ [Next]_vars => [panel /\ ~panel' => quiet > LightOffTimer]_vars
  <2> SUFFICES ASSUME IInv, Next, panel, ~panel' PROVE quiet > LightOffTimer
    BY DEF vars
  <2>1. DarkStep
    BY DEF Next, Loop, LoopSame, LoopSwitch, Enter, Light, OverviewToDetail, OverviewButtons, Wake,
           NoWake, OverviewMeasure, OverviewBright, OverviewDark, Account, SaverLeave, SaverBright,
           SaverDark, SaverSecond, SaverNoSecond, DetailBack, DetailLoop, ExternalToggle,
           LoadChange, LightChange, Tick
  <2>2. lightAge > LightOffTimer
    BY <2>1 DEF DarkStep, StartCounting, TurnOff, StayAsIs
  <2>3. QED
    BY <2>2, Numbers, Nothing DEF IInv, PanelInv, LightBehind, TypeOK, Age
<1>2. QED
  BY <1>1, Invariance, PTL DEF Spec, WakeHolds

\* The screen saver replaces the overview only after SCREENSAVER_TIMER without a click, a toggle or
\* a wake-up (shell_overview.cpp:226-233).
THEOREM SaverComesWhenIdle == Spec => SaverOnlyWhenIdle
<1>1. IInv /\ [Next]_vars => [cur # "screensaver" /\ cur' = "screensaver" => quiet > SaverTimer]_vars
  <2> SUFFICES ASSUME IInv, Next, cur # "screensaver", cur' = "screensaver"
               PROVE  quiet > SaverTimer
    BY DEF vars
  <2>1. next = "screensaver"
    BY DEF Next, Loop, LoopSame, LoopSwitch, Enter, OverviewToDetail, OverviewButtons,
           OverviewMeasure, MeasureRest, OverviewBright, OverviewDark, Account, SaverLeave,
           SaverBright, SaverDark, SaverSecond, SaverNoSecond, DetailBack, DetailLoop,
           ExternalToggle, LoadChange, LightChange, Tick
  <2>2. QED
    BY <2>1 DEF IInv, PanelInv, ExitBehind
<1>2. QED
  BY <1>1, Invariance, PTL DEF Spec, SaverOnlyWhenIdle

\* With reads that do not fail, neither a dark panel nor the screen saver goes without a click, a
\* toggle, a change of 200 mA or light (shell_overview.cpp:38-41, shell_screensaver.cpp:22-25).
THEOREM NothingWakesForNothing == ASSUME ~ReadMayFail PROVE Spec => WakeHasCause
<1>1. Next => [\/ cur' = cur /\ ~panel /\ panel'
               \/ cur = "screensaver" /\ next = cur /\ next' # cur
               => Cause]_vars
  <2> SUFFICES ASSUME Next,
                      \/ cur' = cur /\ ~panel /\ panel'
                      \/ cur = "screensaver" /\ next = cur /\ next' # cur
               PROVE  Cause
    BY DEF vars
  <2> USE DEF Cause
  <2>1. CASE LoopSame \/ LoopSwitch
    BY <2>1 DEF LoopSame, LoopSwitch, Enter
  <2>2. CASE OverviewToDetail
    BY <2>2 DEF OverviewToDetail
  <2>3. CASE OverviewButtons
    <3>1. PICK c \in SUBSET {"sw2", "sw3"} :
              clicks' = c /\ (c # {} \/ touched # {} \/ UNCHANGED panel)
      BY <2>3 DEF OverviewButtons, NoWake
    <3>2. cur = "overview"
      BY <2>3 DEF OverviewButtons
    <3>3. QED
      BY <3>1, <3>2
  <2>4. CASE OverviewMeasure
    BY <2>4 DEF OverviewMeasure, MeasureRest, Found, NoWake, Goto
  <2>5. CASE OverviewBright \/ SaverBright
    BY <2>5 DEF OverviewBright, SaverBright
  <2>6. CASE OverviewDark \/ SaverDark
    BY <2>6 DEF OverviewDark, SaverDark, DarkStep, StartCounting, TurnOff, StayAsIs, Goto
  <2>7. CASE Account \/ SaverNoSecond
    BY <2>7 DEF Account, SaverNoSecond, Return, Goto
  <2>8. CASE SaverLeave
    BY <2>8 DEF SaverLeave
  <2>9. CASE SaverSecond
    BY <2>9 DEF SaverSecond, Found, Goto
  <2>10. CASE DetailBack \/ DetailLoop
    BY <2>10 DEF DetailBack, DetailLoop
  <2>11. CASE ExternalToggle \/ LoadChange \/ LightChange \/ Tick
    BY <2>11 DEF ExternalToggle, LoadChange, LightChange, Tick
  <2>12. QED
    BY <2>1, <2>2, <2>3, <2>4, <2>5, <2>6, <2>7, <2>8, <2>9, <2>10, <2>11 DEF Next, Loop
<1>2. QED
  BY <1>1, PTL DEF Spec, WakeHasCause

\* Together: the screen saver comes to an idle device and goes, as a dark panel does, with a cause.
THEOREM SaverAndPanelHaveCauses == ASSUME ~ReadMayFail PROVE Spec => Causes
BY SaverComesWhenIdle, NothingWakesForNothing DEF Causes
=============================================================================
