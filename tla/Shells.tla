------------------------------- MODULE Shells -------------------------------
(***************************************************************************)
(* The user interface of SmartAPS: SmartAPS::loop (smartaps.cpp) runs one  *)
(* of three shells and switches between them.  The overview and the screen *)
(* saver are modelled whole (shell_overview.cpp, shell_screensaver.cpp);   *)
(* of the detail shell what its neighbours see (DetailShell has the rest). *)
(*                                                                         *)
(* One loop is a few steps, pc naming where it is; time and the outside    *)
(* world move between loops.  Ages are times since a timestamp, in ticks,  *)
(* that stop growing once past every limit they are compared with.         *)
(***************************************************************************)
EXTENDS Integers, FiniteSets

CONSTANTS
    Output,         \* the outputs: at least PORT_A, PORT_B and USB
    MeasureTimer,   \* 500 ms between two measurements of the overview
    SecondTimer,    \* 1000 ms between two accumulations
    PublishTimer,   \* 60000 ms between two publications
    LightOffTimer,  \* LIGHT_OFF_TIMER, 30 s
    SaverTimer,     \* SCREENSAVER_TIMER, 5 min
    BackTimer,      \* BACK_TO_OVERVIEW_TIMER, 5 min
    OwedCap,        \* where `owed' stops growing
    ReadMayFail     \* the I2C bus may fail

Shell == {"overview", "detail", "screensaver"}
Button == {"sw1", "sw2", "sw3"}
Channel == {"USB", "PORT_A", "PORT_B"}
NotCounting == -1       \* _timestamp_light_off = 0

ASSUME OutputAssumption == Channel \subseteq Output
ASSUME TimerAssumption ==
    {MeasureTimer, SecondTimer, PublishTimer, LightOffTimer, SaverTimer, BackTimer,
     OwedCap} \subseteq Nat
ASSUME ModeAssumption == ReadMayFail \in BOOLEAN
\* Time owed is remembered for longer than it takes to fall due.
ASSUME OwedAssumption == OwedCap > SecondTimer

VARIABLES
    pc,             \* where the loop is; "idle" between loops
    cur, next,      \* _cur_shell, _next_shell
    panel,          \* the OLED is lit
    display_on,     \* _display_on of the current shell
    touched,        \* outputs not in the state the shell last saw
    moved,          \* outputs whose current is 200 mA off the last measurement
    bright,         \* temt6000 reads above LOWLIGHT_THRESHOLD
    channel,        \* the detail shell's _channel
    measureAge,     \* now - _timestamp_per_500ms
    secAge,         \* now - _timestamp_per_1s
    publishAge,     \* now - _timestamp_publish_ha
    exitAge,        \* now - _timestamp_exit_screensaver
    lightAge,       \* now - _timestamp_light_off, or NotCounting
    backAge,        \* now - _timestamp_back_to_overview
    \* What the properties speak of:
    clicks,         \* the clicks of this loop
    user,           \* the outputs the user's clicks toggled in this loop
    quiet,          \* time since a click, a toggle, a shell switch or a wake-up
    owed            \* time in the shell minus the time metered

ages == <<measureAge, secAge, publishAge, exitAge, lightAge, backAge>>
ghosts == <<clicks, user, quiet, owed>>
vars == <<pc, cur, next, panel, display_on, touched, moved, bright, channel, ages,
          ghosts>>

Xor(S, T) == (S \ T) \cup (T \ S)
Grow(age, limit) == IF age = NotCounting \/ age > limit THEN age ELSE age + 1
LongTimer == IF SaverTimer > LightOffTimer THEN SaverTimer ELSE LightOffTimer

\* oled.reset and oled.on light the panel, and the shell notes it.
Light == panel' = TRUE /\ display_on' = TRUE
-----------------------------------------------------------------------------
(***************************************************************************)
(* SmartAPS::loop: leave, enter, and then the shell's loop with one now.   *)
(***************************************************************************)
\* The timestamp for the 500 ms task is 0 on entry: its age is now itself.
Enter(shell) ==
    /\ cur' = shell
    /\ Light
    /\ touched' = {}
    /\ moved' \in IF cur = "detail" THEN SUBSET Output ELSE {moved}
    /\ measureAge' \in 0 .. MeasureTimer + 1
    /\ secAge' = 0 /\ publishAge' = 0 /\ exitAge' = 0 /\ backAge' = 0
    /\ lightAge' = NotCounting
    /\ quiet' = 0 /\ owed' = 0

LoopSame ==
    /\ pc = "idle" /\ next = cur
    /\ pc' = "loop"
    /\ clicks' = {} /\ user' = {}
    /\ UNCHANGED <<cur, next, panel, display_on, touched, moved, bright, channel, ages,
                   quiet, owed>>

LoopSwitch ==
    /\ pc = "idle" /\ next # cur
    /\ pc' = "loop"
    /\ Enter(next)
    /\ clicks' = {} /\ user' = {}
    /\ UNCHANGED <<next, bright, channel>>

Return(shell) == pc' = "idle" /\ next' = shell
Goto(step) == pc' = step /\ UNCHANGED next

-----------------------------------------------------------------------------
(***************************************************************************)
(* OverviewShell::loop.                                                    *)
(***************************************************************************)
OverviewToDetail ==
    /\ pc = "loop" /\ cur = "overview"
    /\ \E c \in SUBSET Button : "sw1" \in c /\ clicks' = c
    /\ Return("detail")
    /\ UNCHANGED <<cur, panel, display_on, touched, moved, bright, channel, ages,
                   user, quiet, owed>>

Toggled(c) == {IF b = "sw2" THEN "PORT_A" ELSE "PORT_B" : b \in c \ {"sw1"}}

\* Mutant: a click toggles its output whether or not the display is on.
UserToggles_Blind(c) == Toggled(c)

\* If the display is off a click only turns it on.
UserToggles(c) == IF display_on THEN Toggled(c) ELSE {}

\* Mutant: the low light counter goes on counting.
Wake_KeepsCounting == Light /\ exitAge' = 0 /\ quiet' = 0 /\ UNCHANGED lightAge

\* Mutant: the time to the screen saver goes on counting.
Wake_KeepsExit == Light /\ lightAge' = NotCounting /\ quiet' = 0 /\ UNCHANGED exitAge

\* The display on, not counting low light, counting to the screen saver anew.
Wake == Light /\ lightAge' = NotCounting /\ exitAge' = 0 /\ quiet' = 0
NoWake == UNCHANGED <<panel, display_on, lightAge, exitAge, quiet>>

\* A sw2 or sw3 click, or an output that is not as it was, wakes the display
\* and makes the measurement due.
OverviewButtons ==
    /\ pc = "loop" /\ cur = "overview"
    /\ \E c \in SUBSET {"sw2", "sw3"} :
          /\ clicks' = c
          /\ user' = UserToggles(c)
          /\ touched' = {}          \* compared, then noted
          /\ \/ /\ c # {} \/ touched # {}
                /\ Wake /\ pc' = "measure"
             \/ /\ c = {} /\ touched = {}
                /\ NoWake
                /\ pc' = IF measureAge > MeasureTimer THEN "measure" ELSE "light"
    /\ UNCHANGED <<cur, next, moved, bright, channel, measureAge, secAge, publishAge,
                   backAge, owed>>

\* Which outputs are found 200 mA off; a failed read compares garbage.
Found == IF ReadMayFail THEN SUBSET Output ELSE {moved}

MeasureRest ==
    /\ moved' = {}
    /\ measureAge' = 0
    /\ Goto("light")
    /\ UNCHANGED <<cur, touched, bright, channel, secAge, publishAge, backAge,
                   clicks, user, owed>>

\* Mutant: a changing current keeps resetting the screen saver timer.
OverviewMeasure_Resets ==
    /\ pc = "measure"
    /\ \E found \in Found :
          \/ found # {} /\ Wake
          \/ found = {} /\ NoWake
    /\ MeasureRest

\* A changed current wakes the display; it does not keep it awake.
OverviewMeasure ==
    /\ pc = "measure"
    /\ \E found \in Found :
          \/ found # {} /\ ~display_on /\ Wake
          \/ (found = {} \/ display_on) /\ NoWake
    /\ MeasureRest

\* The room is bright: the display goes on, or has been on for long enough.
OverviewBright ==
    /\ pc = "light" /\ cur = "overview" /\ bright
    /\ \/ ~display_on /\ Wake /\ Goto("account")
       \/ display_on /\ exitAge > SaverTimer /\ NoWake /\ Return("screensaver")
       \/ display_on /\ exitAge <= SaverTimer /\ NoWake /\ Goto("account")
    /\ UNCHANGED <<cur, touched, moved, bright, channel, measureAge, secAge, publishAge,
                   backAge, clicks, user, owed>>

StartCounting ==
    /\ display_on /\ lightAge = NotCounting
    /\ lightAge' = 0
    /\ UNCHANGED <<panel, display_on>>

TurnOff ==
    /\ display_on /\ lightAge > LightOffTimer
    /\ panel' = FALSE /\ display_on' = FALSE
    /\ UNCHANGED lightAge

StayAsIs ==
    /\ display_on => lightAge \in 0 .. LightOffTimer
    /\ UNCHANGED <<panel, display_on, lightAge>>

\* The room is dark, for the overview and for the screen saver alike.
DarkStep == StartCounting \/ TurnOff \/ StayAsIs

OverviewDark ==
    /\ pc = "light" /\ cur = "overview" /\ ~bright
    /\ DarkStep
    /\ Goto("account")
    /\ UNCHANGED <<cur, touched, moved, bright, channel, measureAge, secAge, publishAge,
                   exitAge, backAge, ghosts>>

\* Mutant: the timestamp is left alone, and the second charged again in the next loop.
Accumulate_NoStamp == owed' = owed - SecondTimer /\ UNCHANGED secAge

Accumulate == owed' = owed - SecondTimer /\ secAge' = 0

\* Both shells publish alike.
Publish == publishAge' = IF publishAge > PublishTimer THEN 0 ELSE publishAge

\* AH and WH every second in the overview, publication every minute.
Account ==
    /\ pc = "account"
    /\ IF cur = "overview" /\ secAge > SecondTimer
       THEN Accumulate ELSE UNCHANGED <<secAge, owed>>
    /\ Publish
    /\ Return(cur)
    /\ UNCHANGED <<cur, panel, display_on, touched, moved, bright, channel, measureAge,
                   exitAge, lightAge, backAge, clicks, user, quiet>>

-----------------------------------------------------------------------------
(***************************************************************************)
(* ScreenSaverShell::loop.                                                 *)
(***************************************************************************)
SaverLeave ==
    /\ pc = "loop" /\ cur = "screensaver"
    /\ \E c \in SUBSET Button : (c # {} \/ touched # {}) /\ clicks' = c
    /\ Return("overview")
    /\ UNCHANGED <<cur, panel, display_on, touched, moved, bright, channel, ages,
                   user, quiet, owed>>

SaverBright ==
    /\ pc = "loop" /\ cur = "screensaver" /\ touched = {} /\ bright
    /\ \/ ~display_on /\ Light /\ lightAge' = NotCounting /\ quiet' = 0
       \/ display_on /\ UNCHANGED <<panel, display_on, lightAge, quiet>>
    /\ Goto("second")
    /\ UNCHANGED <<cur, touched, moved, bright, channel, measureAge, secAge, publishAge,
                   exitAge, backAge, clicks, user, owed>>

SaverDark ==
    /\ pc = "loop" /\ cur = "screensaver" /\ touched = {} /\ ~bright
    /\ DarkStep
    /\ Goto("second")
    /\ UNCHANGED <<cur, touched, moved, bright, channel, measureAge, secAge, publishAge,
                   exitAge, backAge, ghosts>>

\* Every second: measure, accumulate, and leave on a change, before the
\* timestamp is set (the shell that is entered starts its own).
SaverSecond ==
    /\ pc = "second" /\ secAge > SecondTimer
    /\ owed' = owed - SecondTimer
    /\ moved' = {}
    /\ \E found \in Found :
          \/ found # {} /\ Return("overview") /\ UNCHANGED secAge
          \/ found = {} /\ Goto("account") /\ secAge' = 0
    /\ UNCHANGED <<cur, panel, display_on, touched, bright, channel, measureAge,
                   publishAge, exitAge, lightAge, backAge, clicks, user, quiet>>

SaverNoSecond ==
    /\ pc = "second" /\ secAge <= SecondTimer
    /\ Goto("account")
    /\ UNCHANGED <<cur, panel, display_on, touched, moved, bright, channel, ages, ghosts>>

-----------------------------------------------------------------------------
(***************************************************************************)
(* DetailShell::loop, as far as the other shells can tell: sw1 goes        *)
(* through the channels, sw2 toggles the selected output, a time without   *)
(* sw2, sw3 or a channel switch leads back, and no more time is metered    *)
(* than passed (DetailShell!NeverOvercharged).                             *)
(***************************************************************************)
DetailBack ==
    /\ pc = "loop" /\ cur = "detail"
    /\ \/ /\ channel = "PORT_B"
          /\ \E c \in SUBSET Button : "sw1" \in c /\ clicks' = c
       \/ backAge > BackTimer /\ clicks' = {}
    /\ channel' = "USB"
    /\ Return("overview")
    /\ UNCHANGED <<cur, panel, display_on, touched, moved, bright, ages,
                   user, quiet, owed>>

DetailLoop ==
    /\ pc = "loop" /\ cur = "detail"
    /\ \E c \in SUBSET Button :
          /\ "sw1" \in c => channel # "PORT_B"
          /\ c = {} => backAge <= BackTimer
          /\ clicks' = c
          /\ backAge' = IF c = {} THEN backAge ELSE 0
          /\ quiet' = IF c = {} THEN quiet ELSE 0
          /\ channel' = IF "sw1" \notin c THEN channel
                        ELSE IF channel = "USB" THEN "PORT_A" ELSE "PORT_B"
          /\ user' = IF "sw2" \in c THEN {channel'} ELSE {}
    /\ owed' \in 0 .. owed
    /\ Return("detail")
    /\ UNCHANGED <<cur, panel, display_on, touched, moved, bright, measureAge, secAge,
                   publishAge, exitAge, lightAge>>

-----------------------------------------------------------------------------
\* Between loops: another component toggles an output, a load changes, the light
\* changes, time passes.
ExternalToggle ==
    /\ pc = "idle" /\ cur # "detail"
    /\ \E o \in Output : touched' = Xor(touched, {o})
    /\ UNCHANGED <<pc, cur, next, panel, display_on, moved, bright, channel, ages, ghosts>>

LoadChange ==
    /\ pc = "idle" /\ cur # "detail"
    /\ \E o \in Output : moved' = Xor(moved, {o})
    /\ UNCHANGED <<pc, cur, next, panel, display_on, touched, bright, channel, ages, ghosts>>

LightChange ==
    /\ pc = "idle"
    /\ bright' = ~bright
    /\ UNCHANGED <<pc, cur, next, panel, display_on, touched, moved, channel, ages, ghosts>>

Tick ==
    /\ pc = "idle"
    /\ measureAge' = Grow(measureAge, MeasureTimer)
    /\ secAge' = Grow(secAge, SecondTimer)
    /\ publishAge' = Grow(publishAge, PublishTimer)
    /\ exitAge' = Grow(exitAge, SaverTimer)
    /\ lightAge' = Grow(lightAge, LightOffTimer)
    /\ backAge' = Grow(backAge, BackTimer)
    /\ quiet' = Grow(quiet, LongTimer)
    /\ owed' = IF owed < OwedCap THEN owed + 1 ELSE owed
    /\ UNCHANGED <<pc, cur, next, panel, display_on, touched, moved, bright, channel,
                   clicks, user>>

\* After setup: the overview is entered by the first loop.
Init ==
    /\ pc = "idle"
    /\ cur = "none" /\ next = "overview"
    /\ panel = FALSE /\ display_on = FALSE
    /\ touched = {} /\ moved \in SUBSET Output /\ bright \in BOOLEAN
    /\ channel = "USB"
    /\ measureAge = 0 /\ secAge = 0 /\ publishAge = 0 /\ exitAge = 0
    /\ lightAge = NotCounting /\ backAge = 0
    /\ clicks = {} /\ user = {} /\ quiet = 0 /\ owed = 0

Loop == \/ LoopSame \/ LoopSwitch
        \/ OverviewToDetail \/ OverviewButtons \/ OverviewMeasure
        \/ OverviewBright \/ OverviewDark \/ Account
        \/ SaverLeave \/ SaverBright \/ SaverDark \/ SaverSecond \/ SaverNoSecond
        \/ DetailBack \/ DetailLoop
Next == Loop \/ ExternalToggle \/ LoadChange \/ LightChange \/ Tick
Spec == Init /\ [][Next]_vars

\* The main loop runs for ever and time passes between loops.
FairSpec == Spec /\ WF_vars(Loop) /\ SF_vars(Tick)
-----------------------------------------------------------------------------
(***************************************************************************)
(* Properties.                                                             *)
(***************************************************************************)
Age(limit) == 0 .. limit + 1

\* Every variable has its type.
TypeOK ==
    /\ pc \in {"idle", "loop", "measure", "light", "account", "second"}
    /\ cur \in Shell \cup {"none"} /\ next \in Shell
    /\ panel \in BOOLEAN /\ display_on \in BOOLEAN /\ bright \in BOOLEAN
    /\ touched \subseteq Output /\ moved \subseteq Output /\ user \subseteq Output
    /\ channel \in Channel /\ clicks \subseteq Button
    /\ measureAge \in Age(MeasureTimer) /\ secAge \in Age(SecondTimer)
    /\ publishAge \in Age(PublishTimer) /\ exitAge \in Age(SaverTimer)
    /\ lightAge \in Age(LightOffTimer) \cup {NotCounting} /\ backAge \in Age(BackTimer)
    /\ quiet \in Age(LongTimer) /\ owed \in Int

\* An output is never switched by a click its user made in front of a dark panel:
\* that click only lights it (shell_overview.cpp:114-117).  Each shell keeps a flag
\* of its own for a panel the three of them share.
NoBlindToggle == [][user' # {} => panel]_vars

\* The panel, once lit by a click, a toggle, a load, the light or a new shell, stays
\* lit for LIGHT_OFF_TIMER in a dark room: no low light counted before it is left.
WakeHolds == [][panel /\ ~panel' => quiet > LightOffTimer]_vars

\* The screen saver replaces the overview only after SCREENSAVER_TIMER without a
\* click, a toggle or a wake-up.
SaverOnlyWhenIdle ==
    [][cur # "screensaver" /\ cur' = "screensaver" => quiet > SaverTimer]_vars

\* The panel lights in a shell, and the screen saver leaves, on one of the causes the
\* shells' comments list: a click, an output toggled, a current changed by 200 mA, or
\* a bright room (shell_overview.cpp:38-41, shell_screensaver.cpp:22-25).
Cause == clicks' # {} \/ touched # {} \/ moved # {} \/ bright
WakeHasCause ==
    [][\/ cur' = cur /\ ~panel /\ panel'
       \/ cur = "screensaver" /\ next = cur /\ next' # cur
       => Cause]_vars

\* Ampere and watt hours are never charged for more time than was spent in the shell,
\* whatever shells come and go and at whatever moment a timestamp is set.
NeverOvercharged == owed >= 0

LeftAlone == clicks = {} /\ touched = {}

\* In a room that stays dark, with nobody at the buttons, no toggles and no load
\* changes, the panel goes off for good, from whichever shell is running.
DarkGoesOff == <>[](LeftAlone /\ moved = {} /\ ~bright) => <>[]~panel

\* In a bright room, left alone, the screen saver keeps coming, however often the loads
\* change: "changing of current won't keep reset screensaver timer"
\* (shell_overview.cpp:168-170).
SaverKeepsComing == <>[](LeftAlone /\ bright) => []<>(cur = "screensaver")

\* With the device left alone the readings go on being published in whatever light,
\* although every shell starts its minute anew when it is entered and may be left for
\* another (shell_overview.cpp:281-301, shell_screensaver.cpp:211-231).
PublishingGoesOn ==
    <>[](LeftAlone /\ moved = {}) => []<>(pc = "account" /\ publishAge > PublishTimer)

\* What holds in every state: no time is metered that did not pass.
ShellsInv == TypeOK /\ NeverOvercharged

\* The screen saver comes to an idle device only, and neither it nor a dark panel goes without
\* a cause.
Causes == SaverOnlyWhenIdle /\ WakeHasCause

\* What becomes of a device left alone: panel off in the dark, the screen saver in the light,
\* and readings published in either.
Unattended == DarkGoesOff /\ SaverKeepsComing /\ PublishingGoesOn
=============================================================================
