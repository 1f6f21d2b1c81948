----------------------------- MODULE Interlock -----------------------------
(***************************************************************************)
(* GPIO switches (gpio_switch.cpp, switch.cpp) that exclude each other,    *)
(* with their wait time on the scheduler's timeouts, and their restored    *)
(* states.  A call that turns one switch may turn others first; its writes *)
(* and saves are steps, so that power may fail between any two.            *)
(***************************************************************************)
EXTENDS Preferences, SequencesExt

CONSTANTS
    RestoreMode,    \* restore_mode_ of each switch
    Inverted,       \* the switches with inverted_
    Group,          \* interlock_ of each switch
    WaitTime        \* interlock_wait_time_

\* A switch is in the interlock_ of those in its own.
ASSUME InterlockAssumption ==
    /\ RestoreMode \in [Switch -> {"RESTORE_DEFAULT_OFF", "RESTORE_DEFAULT_ON",
                                    "RESTORE_INVERTED_DEFAULT_OFF",
                                    "RESTORE_INVERTED_DEFAULT_ON", "ALWAYS_OFF", "ALWAYS_ON"}]
    /\ Inverted \subseteq Switch /\ WaitTime \in Nat
    /\ Group \in [Switch -> SUBSET Switch]
    /\ \A s \in Switch : \A o \in Group[s] : s \in Group[o]

VARIABLES
    there,      \* switches whose setup is over or under way
    level,      \* what was last written to the pin
    state,      \* Switch::state
    shown,      \* publish_dedup_: what was published last, if anything
    timer,      \* the timeout "interlock": ticks to go, or none
    steps,      \* what is left of the call under way
    asked,      \* what each switch was last told to be, by its user or a rival
    unsaved     \* switches the last save of which failed

pinVars == <<there, level, state, shown, unsaved>>
switchVars == <<nvs, prefs, offset, pinVars, timer, steps, asked>>

Position == {"on", "off"}
NoTimer == -1
Flip(p) == IF p = "on" THEN "off" ELSE "on"
\* Positions on the pin and as the user has them.
Raw(s, p) == IF s \in Inverted THEN Flip(p) ELSE p

\* The first half of GPIOSwitch::setup.
initial_state(s, saved) ==
    CASE RestoreMode[s] = "RESTORE_DEFAULT_OFF" -> IF saved = "none" THEN "off" ELSE saved
      [] RestoreMode[s] = "RESTORE_DEFAULT_ON" -> IF saved = "none" THEN "on" ELSE saved
      [] RestoreMode[s] = "RESTORE_INVERTED_DEFAULT_OFF" ->
            IF saved = "none" THEN "off" ELSE Flip(saved)
      [] RestoreMode[s] = "RESTORE_INVERTED_DEFAULT_ON" ->
            IF saved = "none" THEN "on" ELSE Flip(saved)
      [] RestoreMode[s] = "ALWAYS_OFF" -> "off"
      [] RestoreMode[s] = "ALWAYS_ON" -> "on"
Restores(s) == RestoreMode[s] \notin {"ALWAYS_OFF", "ALWAYS_ON"}

-----------------------------------------------------------------------------
Write(s, p) == [op |-> "write", s |-> s, p |-> p]
Save(s) == [op |-> "save", s |-> s, p |-> "on"]
Again(s, p) == [op |-> "again", s |-> s, p |-> p]

Rivals(s) == {o \in Group[s] \ {s} : state[o] = "on"}

WritesOff(S) ==
    LET q == SetToSeq(S) IN [i \in DOMAIN q |-> Write(q[i], "off")]

\* write_state: turning on turns the rivals off and, if there were any, waits; turning
\* off takes back a wait.  then is what the caller has left, timers the timeouts.
write_state(s, p, then, timers) ==
    IF p = "on"
    THEN LET waits == Rivals(s) # {} /\ WaitTime # 0
         IN  /\ steps' = WritesOff(Rivals(s)) \o (IF waits THEN <<>> ELSE <<Write(s, p)>>) \o then
             /\ timer' = [o \in Switch |-> IF WaitTime # 0 /\ o \in Rivals(s) THEN NoTimer
                                           ELSE IF o = s /\ waits THEN WaitTime ELSE timers[o]]
             /\ asked' = [o \in Switch |-> IF o \in Rivals(s) THEN "off"
                                           ELSE IF o = s THEN "on" ELSE asked[o]]
    ELSE /\ steps' = <<Write(s, p)>> \o then
         /\ timer' = IF WaitTime # 0 THEN [timers EXCEPT ![s] = NoTimer] ELSE timers
         /\ asked' = [asked EXCEPT ![s] = "off"]

\* The pin is written and the state published, which is saved if it is news.
DoWrite ==
    /\ steps # <<>> /\ steps[1].op = "write"
    /\ LET s == steps[1].s
           p == steps[1].p
       IN  /\ level' = [level EXCEPT ![s] = Raw(s, p)]
           /\ shown' = [shown EXCEPT ![s] = p]
           /\ state' = [state EXCEPT ![s] = p]
           /\ steps' = (IF shown[s] # p /\ prefs[s] # 0 THEN <<Save(s)>> ELSE <<>>) \o Tail(steps)
    /\ UNCHANGED <<nvs, prefs, offset, there, timer, asked, unsaved>>

\* NVS may refuse a write.
DoSave(image, mayFail) ==
    /\ steps # <<>> /\ steps[1].op = "save"
    /\ LET s == steps[1].s
       IN  \/ /\ nvs' = Saved(s, image, state[s])
              /\ unsaved' = unsaved \ {s}
           \/ /\ mayFail /\ unsaved' = unsaved \cup {s}
              /\ UNCHANGED nvs
    /\ steps' = Tail(steps)
    /\ UNCHANGED <<prefs, offset, there, level, state, shown, timer, asked>>

\* The second write of setup, after pin_->setup().
DoAgain ==
    /\ steps # <<>> /\ steps[1].op = "again"
    /\ write_state(steps[1].s, steps[1].p, Tail(steps), timer)
    /\ UNCHANGED <<nvs, prefs, offset, pinVars>>

setup(s, image) ==
    LET key == IF Restores(s) THEN offset ELSE 0
        p == initial_state(s, load(s, image, key))
    IN  /\ IF Restores(s) THEN make_preference(s) ELSE UNCHANGED <<prefs, offset>>
        /\ there' = there \cup {s}
        /\ write_state(s, p, <<Again(s, p)>>, timer)
        /\ UNCHANGED <<nvs, level, state, shown, unsaved>>

\* turn_on, turn_off and toggle, by a shell or through the API.
turn(s, p) ==
    /\ s \in there /\ write_state(s, p, <<>>, timer)
    /\ UNCHANGED <<nvs, prefs, offset, pinVars>>

\* Mutant: it writes directly.
InterlockTimeout_Direct(s) ==
    /\ timer[s] = 0
    /\ timer' = [timer EXCEPT ![s] = NoTimer] /\ steps' = <<Write(s, "on")>>
    /\ UNCHANGED <<nvs, prefs, offset, pinVars, asked>>
\* The timeout is over when its function runs.
InterlockTimeout(s) ==
    /\ timer[s] = 0
    /\ write_state(s, "on", <<>>, [timer EXCEPT ![s] = NoTimer])
    /\ UNCHANGED <<nvs, prefs, offset, pinVars>>

\* A start: nothing is set up yet.
SwitchesOff ==
    /\ there' = {} /\ level' = [s \in Switch |-> "float"]
    /\ state' = [s \in Switch |-> "off"] /\ shown' = [s \in Switch |-> "none"]
    /\ timer' = [s \in Switch |-> NoTimer] /\ steps' = <<>>
    /\ asked' = [s \in Switch |-> "off"] /\ unsaved' = {}
=============================================================================
