------------------------------- MODULE Beeper -------------------------------
(***************************************************************************)
(* The beeper (beeper.cpp): a Sequencer (sequencer.cpp) that plays patterns *)
(* of tones from the main loop, and asks the application for a high loop   *)
(* frequency meanwhile (HighFrequencyLoopRequester, core/helpers.cpp;      *)
(* Application::loop, core/application.cpp).                               *)
(*                                                                         *)
(* One turn of Application::loop is: the components run, SmartAPS::loop    *)
(* among them calls Beeper::loop once, any of them may call beep1..3 and   *)
(* stop; then the task sleeps, briefly if anyone asked for high frequency. *)
(***************************************************************************)
EXTENDS Integers, Sequences, FiniteSets

CONSTANTS
    Patterns,   \* the beep patterns: sequences of [opcode, duration, repeat]
    Cycles,     \* how often start may be told to play one; 0 is for ever
    Others,     \* the other components that ask for a high loop frequency
    FastGap,    \* the most ticks between two turns at high frequency
    SlowGap,    \* ... and when the loop sleeps its loop_interval_
    PlayedCap   \* where `played' stops counting

Requester == Others \cup {"beeper"}
LongestTone == LET D == UNION {{p[i].duration : i \in DOMAIN p} : p \in Patterns}
               IN  CHOOSE d \in D : \A e \in D : e <= d

ASSUME PatternAssumption ==     \* every pattern ends with the tone off
    /\ \A p \in Patterns :
          /\ p \in Seq([opcode : Nat, duration : Nat, repeat : BOOLEAN])
          /\ Len(p) > 0 /\ p[Len(p)].opcode = 0
    /\ Cycles \subseteq Nat
\* There is a longest tone.
ASSUME ToneAssumption ==
    LongestTone \in Nat /\ \A p \in Patterns : \A i \in DOMAIN p : p[i].duration <= LongestTone
ASSUME GapAssumption == FastGap \in Nat /\ SlowGap \in Nat /\ FastGap <= SlowGap
\* What is played by a pattern that ends is counted.
ASSUME CapAssumption ==
    PlayedCap \in Nat /\ \A p \in Patterns : \A c \in Cycles : c * Len(p) <= PlayedCap
ASSUME OthersAssumption == IsFiniteSet(Others) /\ "beeper" \notin Others

VARIABLES
    running,        \* _running
    actions,        \* _actions, the pattern
    cur_action,     \* _cur_action; -1 before the first
    cycles,         \* _cycles
    cur_cycle,      \* _cur_cycle
    age,            \* now - _cur_action_start_time, capped
    duty,           \* the opcode the LEDC channel plays, 0 for silence
    requested,      \* _highfreq_requested
    started,        \* the requesters whose started_ is true
    num_requests,   \* high_freq_num_requests
    awake,          \* Application::loop runs the components
    looped,         \* Beeper::loop was called in this turn
    gap,            \* ticks slept
    high,           \* is_high_frequency() when the turn ended
    played          \* actions begun since start (for the properties)

seqVars == <<running, actions, cur_action, cycles, cur_cycle, age>>
freqVars == <<requested, started, num_requests>>
appVars == <<awake, looped, gap, high>>
vars == <<seqVars, duty, freqVars, appVars, played>>

-----------------------------------------------------------------------------
\* HighFrequencyLoopRequester::start and stop, each idempotent.
HighFreqStart(r) ==
    /\ started' = started \cup {r}
    /\ num_requests' = IF r \in started THEN num_requests ELSE num_requests + 1
HighFreqStop(r) ==
    /\ started' = started \ {r}
    /\ num_requests' = IF r \in started THEN num_requests - 1 ELSE num_requests

is_high_frequency == num_requests > 0

\* Another component starts or stops its own request.
OtherRequests ==
    /\ awake
    /\ \E r \in Others : HighFreqStart(r) \/ HighFreqStop(r)
    /\ UNCHANGED <<seqVars, duty, requested, appVars, played>>

-----------------------------------------------------------------------------
\* beep1, beep2 and beep3 differ in the pattern; each then calls
\* Sequencer::start, also while another pattern is playing.
\* Mutant: the request is not made.
beep_NoRequest ==
    /\ awake
    /\ \E p \in Patterns, c \in Cycles :
          /\ actions' = p /\ cycles' = c
          /\ cur_action' = -1 /\ running' = TRUE /\ played' = 0
    /\ UNCHANGED <<cur_cycle, age, duty, freqVars, appVars>>

beep ==
    /\ awake
    /\ \/ requested /\ UNCHANGED freqVars
       \/ ~requested /\ requested' = TRUE /\ HighFreqStart("beeper")
    /\ \E p \in Patterns, c \in Cycles : actions' = p /\ cycles' = c
    /\ cur_action' = -1 /\ running' = TRUE /\ played' = 0
    /\ UNCHANGED <<cur_cycle, age, duty, appVars>>

\* Mutant: only the sequencer is stopped.
stop_SequencerOnly ==
    /\ awake
    /\ running' = FALSE
    /\ UNCHANGED <<actions, cur_action, cycles, cur_cycle, age, duty, freqVars,
                   appVars, played>>

\* Beeper::stop.
stop ==
    /\ awake
    /\ duty' = 0
    /\ \/ requested /\ requested' = FALSE /\ HighFreqStop("beeper")
       \/ ~requested /\ UNCHANGED freqVars
    /\ running' = FALSE
    /\ UNCHANGED <<actions, cur_action, cycles, cur_cycle, age, appVars, played>>

-----------------------------------------------------------------------------
(***************************************************************************)
(* Sequencer::loop, called by Beeper::loop; i is the C++ index of an       *)
(* action.  execute writes the tone, or silence, and never fails.          *)
(***************************************************************************)
act(i) == actions[i + 1]
Begin(i) ==
    /\ cur_action' = i
    /\ age' = 0
    /\ duty' = act(i).opcode
    /\ played' = IF played < PlayedCap THEN played + 1 ELSE played

LoopIdle ==
    /\ ~running
    /\ UNCHANGED <<seqVars, duty, freqVars, played>>

LoopStartup ==
    /\ running /\ cur_action = -1
    /\ cur_cycle' = 0
    /\ Begin(0)
    /\ UNCHANGED <<running, actions, cycles, freqVars>>

LoopHold ==
    /\ running /\ cur_action # -1
    /\ age < act(cur_action).duration
    /\ duty' = IF act(cur_action).repeat THEN act(cur_action).opcode ELSE duty
    /\ UNCHANGED <<seqVars, freqVars, played>>

Expired == running /\ cur_action # -1 /\ age >= act(cur_action).duration
\* Mutant: off by one.
LastAction_Early == cur_action + 2 >= Len(actions)
LastAction == cur_action + 1 >= Len(actions)
LastCycle == cycles # 0 /\ cur_cycle + 1 >= cycles

LoopNext ==
    /\ Expired /\ ~LastAction
    /\ Begin(cur_action + 1)
    /\ UNCHANGED <<running, actions, cycles, cur_cycle, freqVars>>

LoopAgain ==
    /\ Expired /\ LastAction /\ ~LastCycle
    /\ cur_cycle' = cur_cycle + 1
    /\ Begin(0)
    /\ UNCHANGED <<running, actions, cycles, freqVars>>

\* The pattern is over: Sequencer::loop returns false and Beeper::loop
\* withdraws the request.
LoopFinish ==
    /\ Expired /\ LastAction /\ LastCycle
    /\ running' = FALSE
    /\ cur_action' = cur_action + 1 /\ cur_cycle' = cur_cycle + 1
    /\ requested' = FALSE /\ HighFreqStop("beeper")
    /\ UNCHANGED <<actions, cycles, age, duty, played>>

loop ==
    /\ awake /\ ~looped
    /\ looped' = TRUE
    /\ LoopIdle \/ LoopStartup \/ LoopHold \/ LoopNext \/ LoopAgain \/ LoopFinish
    /\ UNCHANGED <<awake, gap, high>>

-----------------------------------------------------------------------------
\* The end of Application::loop, the sleep, and the next turn.
Sleep ==
    /\ awake /\ looped
    /\ awake' = FALSE /\ gap' = 0 /\ high' = is_high_frequency
    /\ UNCHANGED <<seqVars, duty, freqVars, looped, played>>

AgeCap == LongestTone + SlowGap + 1
Tick ==
    /\ ~awake
    /\ gap < (IF high THEN FastGap ELSE SlowGap)
    /\ gap' = gap + 1
    /\ age' = IF age < AgeCap THEN age + 1 ELSE age
    /\ UNCHANGED <<running, actions, cur_action, cycles, cur_cycle, duty, freqVars,
                   awake, looped, high, played>>

Wake ==
    /\ ~awake
    /\ high \/ gap = SlowGap
    /\ awake' = TRUE /\ looped' = FALSE
    /\ UNCHANGED <<seqVars, duty, freqVars, gap, high, played>>

Init ==
    /\ running = FALSE /\ actions = <<>> /\ cur_action = 0
    /\ cycles = 0 /\ cur_cycle = 0 /\ age = AgeCap
    /\ duty = 0 /\ requested = FALSE /\ started = {} /\ num_requests = 0
    /\ awake = TRUE /\ looped = FALSE /\ gap = 0 /\ high = FALSE
    /\ played = 0

Next == OtherRequests \/ beep \/ stop \/ loop \/ Sleep \/ Tick \/ Wake
Spec == Init /\ [][Next]_vars

\* Components return and sleeps end; time passes, however often the loop turns.
Fairness == WF_vars(loop) /\ WF_vars(Sleep) /\ WF_vars(Wake) /\ SF_vars(Tick)
FairSpec == Spec /\ Fairness
-----------------------------------------------------------------------------
(***************************************************************************)
(* Properties.                                                             *)
(***************************************************************************)
\* Every variable keeps its type: cur_action never runs past the pattern's end.
TypeOK ==
    /\ running \in BOOLEAN /\ requested \in BOOLEAN
    /\ actions \in Patterns \cup {<<>>}
    /\ cur_action \in -1 .. Len(actions)
    /\ cycles \in Cycles \cup {0} /\ cur_cycle \in Nat
    /\ age \in 0 .. AgeCap
    /\ duty \in Nat
    /\ started \subseteq Requester /\ num_requests \in Nat
    /\ awake \in BOOLEAN /\ looped \in BOOLEAN /\ high \in BOOLEAN
    /\ gap \in 0 .. SlowGap
    /\ played \in Nat

\* The beeper never sounds once its pattern is over or was stopped, whatever
\* beeps were begun over others (beeper.cpp:48-68, sequencer.cpp:22-81).
SilentWhenStopped == ~running => duty = 0

\* The loop is kept at high frequency exactly as long as someone needs it: a
\* request neither leaks nor is withdrawn early, and the shared count agrees with
\* the requesters (beeper.cpp:54, 66, 92; helpers.cpp:278-288).
RequestsMatch ==
    /\ "beeper" \in started <=> running
    /\ num_requests = Cardinality(started)

\* A beeper that stops holds neither the channel nor the loop's pace.
NothingHeld == SilentWhenStopped /\ RequestsMatch

\* No tone outlasts its duration by more than one fast turn of the loop.
TonesEndOnTime == duty # 0 => age <= LongestTone + FastGap

\* A pattern that ends by itself was played to its last action as often as asked.
PlayedWhole ==
    [][running /\ ~running' /\ duty' = duty /\ ~looped /\ looped'
          => played = cycles * Len(actions)]_vars

\* Unless something keeps beeping, the beeper falls silent for good.
FallsSilent == []<><<beep>>_vars \/ <>[](duty = 0 /\ ~running)

\* What a beep is: tones of their length, in a well-typed state ...
BeepsOnTime == TypeOK /\ TonesEndOnTime

\* ... all of them, and then silence.
BeepsEnd == PlayedWhole /\ FallsSilent
-----------------------------------------------------------------------------
(***************************************************************************)
(* The inductive invariant behind silence and the requests.                *)
(***************************************************************************)
\* While a pattern runs cur_action is one of its actions, once it has begun, and the
\* channel plays it: the last one is silence, so that the pattern may just end.
Playing ==
    running => /\ actions \in Patterns
               /\ cur_action \in -1 .. Len(actions) - 1
               /\ cur_action # -1 => duty = act(cur_action).opcode

\* _highfreq_requested, started_ and _running agree.
Requesting ==
    /\ running \in BOOLEAN /\ requested \in BOOLEAN
    /\ requested = running
    /\ running <=> "beeper" \in started
    /\ started \subseteq Requester

BeeperInv == Playing /\ Requesting /\ SilentWhenStopped /\ num_requests = Cardinality(started)
=============================================================================
