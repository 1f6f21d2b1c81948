------------------------------- MODULE Button -------------------------------
(***************************************************************************)
(* One push button (button.cpp), polled by the shells: SmartAPS::loop      *)
(* reads now = millis(), may switch shells, whose enter calls begin, and   *)
(* then the shell's loop calls update(now).  The pin may bounce at any     *)
(* time; millis() wraps, here at Wrap.                                     *)
(***************************************************************************)
EXTENDS Integers

CONSTANTS
    Wrap,       \* 2^32: millis() and all arithmetic on it are modulo Wrap
    Debounce,   \* DEBOUNCE_MILLIS
    Hold,       \* MIN_HOLDING_MILLIS
    MaxGap,     \* the most time between two loops
    MaxLag      \* the most time a loop spends before it reaches update

ASSUME TimeAssumption ==
    /\ Wrap \in Nat /\ Debounce \in Nat /\ Hold \in Nat
    /\ MaxGap \in Nat /\ MaxLag \in Nat
    /\ Debounce < Hold
    /\ 2 * (Hold + MaxGap + MaxLag + 1) <= Wrap

Level == {"pressed", "released"}
State == {"IDLE", "WAIT_FOR_RELEASE", "UP", "DOWN_DEBOUNCE", "DOWN", "HOLDING",
          "HOLD_END_DEBOUNCE", "UP_DEBOUNCE"}
Event == {"NONE", "DOWN", "CLICK", "HOLD_START", "HOLDING", "HOLD_END"}

VARIABLES
    millis,     \* the system's clock
    now,        \* the loop's now
    inLoop,     \* a loop has read now and not called update yet
    waited,     \* time since the loop began, or since it ended
    pin,        \* the level digitalRead sees
    state,      \* _state
    time_down,  \* _time_down
    time_up,    \* _time_up
    event,      \* what the last update returned
    \* What the properties speak of:
    last,       \* the last event but NONE since begin
    level,      \* the level begin and update saw last
    levelAge,   \* for how long it has been seen, capped
    late        \* the press began after the loop's now, and was not looked at since, or
                \* that very look gave DOWN

vars == <<millis, now, inLoop, waited, pin, state, time_down, time_up, event,
          last, level, levelAge, late>>

Since(t, u) == (u - t + Wrap) % Wrap        \* unsigned u - t
AgeCap == Hold + MaxGap + MaxLag + 1
Older == IF levelAge < AgeCap THEN levelAge + 1 ELSE levelAge

\* update looks at the pin: at the loop's now, for all it can tell.
See(lv) == /\ level' = lv
           /\ levelAge' = IF lv = level THEN levelAge ELSE waited

Bounce ==
    /\ pin' \in Level \ {pin}
    /\ UNCHANGED <<millis, now, inLoop, waited, state, time_down, time_up, event,
                   last, level, levelAge, late>>

Tick ==
    /\ waited < (IF inLoop THEN MaxLag ELSE MaxGap)
    /\ waited' = waited + 1
    /\ millis' = (millis + 1) % Wrap
    /\ levelAge' = Older
    /\ UNCHANGED <<now, inLoop, pin, state, time_down, time_up, event, last, level, late>>

LoopStart ==
    /\ ~inLoop
    /\ inLoop' = TRUE /\ waited' = 0
    /\ now' = millis
    /\ UNCHANGED <<millis, pin, state, time_down, time_up, event, last, level, levelAge, late>>

\* Button::begin.  setup calls begin(false), once and before any loop; a shell's enter calls
\* it within one and only after the panel's reset, whose delays put millis() ahead of now.
\* _time_down is read from millis() anew.
begin(wait_for_release) ==
    /\ IF inLoop THEN waited > 0 ELSE state = "IDLE" /\ ~wait_for_release
    /\ \/ pin = "released" /\ state' = "UP" /\ time_down' = 0
       \/ /\ pin = "pressed" /\ wait_for_release
          /\ state' = "WAIT_FOR_RELEASE" /\ time_down' = 0
       \/ /\ pin = "pressed" /\ ~wait_for_release
          /\ state' = "DOWN_DEBOUNCE" /\ time_down' = millis
    /\ time_up' = 0
    /\ event' = "NONE" /\ last' = "NONE"
    /\ level' = pin /\ levelAge' = 0
    /\ late' = (inLoop /\ state' = "DOWN_DEBOUNCE")
    /\ UNCHANGED <<millis, now, inLoop, waited, pin>>

-----------------------------------------------------------------------------
(***************************************************************************)
(* Button::update, one operator per state.                                 *)
(***************************************************************************)
Goto(s, e) == state' = s /\ event' = e
Stay == UNCHANGED <<time_down, time_up>>
Pressed == pin = "pressed"
Released == pin = "released"
DownFor(t) == Since(time_down, t)
UpFor(t) == Since(time_up, t)

InIdle == state = "IDLE" /\ Goto("IDLE", "NONE") /\ Stay

InWait(t) ==
    /\ state = "WAIT_FOR_RELEASE"
    /\ \/ Released /\ Goto("UP", "NONE")
       \/ Pressed /\ Goto("WAIT_FOR_RELEASE", "NONE")
    /\ Stay

\* Mutant: the start of the press is not recorded.
InUp_NoTime(t) ==
    /\ state = "UP"
    /\ \/ Pressed /\ Goto("DOWN_DEBOUNCE", "NONE") /\ Stay
       \/ Released /\ Goto("UP", "NONE") /\ Stay

InUp(t) ==
    /\ state = "UP"
    /\ \/ Pressed /\ Goto("DOWN_DEBOUNCE", "NONE") /\ time_down' = t /\ UNCHANGED time_up
       \/ Released /\ Goto("UP", "NONE") /\ Stay

InDownDebounce(t) ==
    /\ state = "DOWN_DEBOUNCE"
    /\ \/ Released /\ Goto("UP", "NONE")
       \/ Pressed /\ DownFor(t) > Debounce /\ Goto("DOWN", "DOWN")
       \/ Pressed /\ DownFor(t) <= Debounce /\ Goto("DOWN_DEBOUNCE", "NONE")
    /\ Stay

\* Mutant: the hold time is compared for equality.
InDown_Exact(t) ==
    /\ state = "DOWN"
    /\ \/ Released /\ Goto("UP_DEBOUNCE", "NONE") /\ time_up' = t /\ UNCHANGED time_down
       \/ Pressed /\ DownFor(t) = Hold + 1 /\ Goto("HOLDING", "HOLD_START") /\ Stay
       \/ Pressed /\ DownFor(t) # Hold + 1 /\ Goto("DOWN", "NONE") /\ Stay

InDown(t) ==
    /\ state = "DOWN"
    /\ \/ Released /\ Goto("UP_DEBOUNCE", "NONE") /\ time_up' = t /\ UNCHANGED time_down
       \/ Pressed /\ DownFor(t) > Hold /\ Goto("HOLDING", "HOLD_START") /\ Stay
       \/ Pressed /\ DownFor(t) <= Hold /\ Goto("DOWN", "NONE") /\ Stay

\* Mutant: a bounce during the release ends the press.
InUpDebounce_BounceEnds(t) ==
    /\ state = "UP_DEBOUNCE"
    /\ \/ Pressed /\ Goto("UP", "NONE")
       \/ Released /\ UpFor(t) > Debounce /\ Goto("UP", "CLICK")
       \/ Released /\ UpFor(t) <= Debounce /\ Goto("UP_DEBOUNCE", "NONE")
    /\ Stay

InUpDebounce(t) ==
    /\ state = "UP_DEBOUNCE"
    /\ \/ Pressed /\ Goto("DOWN", "NONE")
       \/ Released /\ UpFor(t) > Debounce /\ Goto("UP", "CLICK")
       \/ Released /\ UpFor(t) <= Debounce /\ Goto("UP_DEBOUNCE", "NONE")
    /\ Stay

InHolding(t) ==
    /\ state = "HOLDING"
    /\ \/ Released /\ Goto("HOLD_END_DEBOUNCE", "NONE") /\ time_up' = t /\ UNCHANGED time_down
       \/ Pressed /\ Goto("HOLDING", "HOLDING") /\ Stay

InHoldEndDebounce(t) ==
    /\ state = "HOLD_END_DEBOUNCE"
    /\ \/ Pressed /\ Goto("HOLDING", "NONE")
       \/ Released /\ UpFor(t) > Debounce /\ Goto("UP", "HOLD_END")
       \/ Released /\ UpFor(t) <= Debounce /\ Goto("HOLD_END_DEBOUNCE", "NONE")
    /\ Stay

\* A now of 0 stands for "not given": the clock is read instead.
update ==
    /\ inLoop
    /\ inLoop' = FALSE /\ waited' = 0
    /\ LET t == IF now = 0 THEN millis ELSE now
       IN  \/ InIdle \/ InWait(t) \/ InUp(t) \/ InDownDebounce(t) \/ InDown(t)
           \/ InUpDebounce(t) \/ InHolding(t) \/ InHoldEndDebounce(t)
    /\ last' = IF event' = "NONE" THEN last ELSE event'
    /\ late' = (late /\ event' = "DOWN")
    /\ See(pin)
    /\ UNCHANGED <<millis, now, pin>>

Begin == \E w \in BOOLEAN : begin(w)
Init ==
    /\ millis \in 0 .. Wrap - 1 /\ now = 0
    /\ inLoop = FALSE /\ waited = 0
    /\ pin \in Level
    /\ state = "IDLE" /\ time_down = 0 /\ time_up = 0
    /\ event = "NONE" /\ last = "NONE"
    /\ level = "released" /\ levelAge = 0 /\ late = FALSE

Next == Bounce \/ Tick \/ LoopStart \/ Begin \/ update
Spec == Init /\ [][Next]_vars

\* The main loop runs for ever.
Fairness == SF_vars(Tick) /\ WF_vars(LoopStart) /\ WF_vars(update)
FairSpec == Spec /\ Fairness
-----------------------------------------------------------------------------
(***************************************************************************)
(* Properties.                                                             *)
(***************************************************************************)
\* Every variable keeps its type: no clock reaches Wrap.
TypeOK ==
    /\ millis \in 0 .. Wrap - 1 /\ now \in 0 .. Wrap - 1
    /\ inLoop \in BOOLEAN /\ waited \in Nat
    /\ pin \in Level /\ level \in Level
    /\ state \in State /\ event \in Event /\ last \in Event
    /\ time_down \in 0 .. Wrap - 1 /\ time_up \in 0 .. Wrap - 1
    /\ levelAge \in 0 .. AgeCap /\ late \in BOOLEAN

\* The DOWN event means that every look at the pin for longer than the debounce
\* time found it pressed, across the wrap of millis() too (button.cpp:110-124); only a press
\* that begin(false) found within a loop gives DOWN at that loop's update (line 77 against 116).
DownIsDebounced == event = "DOWN" => level = "pressed" /\ (levelAge > Debounce \/ late)

\* ... and CLICK and HOLD_END that it was found released for as long.
ReleaseIsDebounced ==
    event \in {"CLICK", "HOLD_END"} => level = "released" /\ levelAge > Debounce

\* Events come as DOWN CLICK or as DOWN HOLD_START HOLDING* HOLD_END, whatever the
\* contact does in between: no press gives two clicks or a click and a hold.
EventOrder ==
    [][update => CASE event' = "DOWN" -> last \in {"NONE", "CLICK", "HOLD_END"}
                   [] event' \in {"CLICK", "HOLD_START"} -> last = "DOWN"
                   [] event' \in {"HOLDING", "HOLD_END"} -> last \in {"HOLD_START", "HOLDING"}
                   [] OTHER -> TRUE]_vars

\* After begin(true) on a pressed button nothing is reported before a release was
\* seen (button.cpp:68-71), so the press that woke a shell cannot act in it.
SilentUntilRelease ==
    [][update /\ state = "WAIT_FOR_RELEASE"
        => event' = "NONE" /\ (level' = "pressed" => state' = "WAIT_FOR_RELEASE")]_vars

\* A button that stays pressed is reported as held for as long, unless its release
\* is still awaited or begin is called again and again.
HoldIsReported ==
    <>[](pin = "pressed") =>
        \/ []<><<Begin>>_vars
        \/ <>[](state \in {"IDLE", "WAIT_FOR_RELEASE"})
        \/ []<>(event = "HOLDING")

\* A button that stays released is ready for the next press.
ReadyAgain ==
    <>[](pin = "released") =>
        []<><<Begin>>_vars \/ <>[](state = "IDLE") \/ <>[](state = "UP")

\* What holds in every state: no event comes of a contact that had not settled.
ButtonInv == TypeOK /\ DownIsDebounced /\ ReleaseIsDebounced

\* The events of a press make sense together, and a press that woke a shell gives none.
Events == EventOrder /\ SilentUntilRelease

\* Whatever is done with the button for long enough shows.
Answers == HoldIsReported /\ ReadyAgain
=============================================================================
