---------------------------- MODULE Beeper_proofs ----------------------------
(***************************************************************************)
(* What holds of the beeper for all patterns that end with the tone off,   *)
(* all cycles, any number of other requesters and any pace of the loop.    *)
(***************************************************************************)
EXTENDS Beeper, TLAPS, FiniteSetTheorems


\* Requesters are finitely many, the beeper one of them.
LEMMA RequestersFinite ==
    /\ IsFiniteSet(Requester)
    /\ \A S \in SUBSET Requester : IsFiniteSet(S) /\ Cardinality(S) \in Nat
<1>1. IsFiniteSet(Requester)
  BY OthersAssumption, FS_AddElement DEF Requester
<1>2. QED
  BY <1>1, FS_Subset, FS_CardinalityType

\* start counts a requester once, however often it is called.
LEMMA StartCounts ==
    ASSUME started \subseteq Requester, num_requests = Cardinality(started),
           NEW r \in Requester, HighFreqStart(r)
    PROVE  /\ started' = started \cup {r}
           /\ num_requests' = Cardinality(started')
<1>1. IsFiniteSet(started)
  BY RequestersFinite
<1>2. QED
  BY <1>1, FS_AddElement DEF HighFreqStart

\* stop discounts a requester once.
LEMMA StopCounts ==
    ASSUME started \subseteq Requester, num_requests = Cardinality(started),
           NEW r \in Requester, HighFreqStop(r)
    PROVE  /\ started' = started \ {r}
           /\ num_requests' = Cardinality(started')
<1>1. IsFiniteSet(started)
  BY RequestersFinite
<1>2. r \notin started => started \ {r} = started
  OBVIOUS
<1>3. QED
  BY <1>1, <1>2, FS_RemoveElement DEF HighFreqStop

\* Another component's request changes the count and nothing of the beeper's.
LEMMA OthersInv == ASSUME BeeperInv, OtherRequests PROVE BeeperInv'
<1> USE DEF BeeperInv
<1>1. PICK r \in Others : HighFreqStart(r) \/ HighFreqStop(r)
  BY DEF OtherRequests
<1>2. r \in Requester /\ r # "beeper"
  BY OthersAssumption DEF Requester
<1>3. /\ started' \in {started \cup {r}, started \ {r}}
      /\ num_requests' = Cardinality(started')
  BY <1>1, <1>2, StartCounts, StopCounts DEF Requesting
<1>4. Requesting'
  BY <1>2, <1>3 DEF OtherRequests, Requesting, seqVars
<1>5. Playing' /\ SilentWhenStopped'
  BY DEF OtherRequests, Playing, SilentWhenStopped, seqVars, act
<1>6. QED
  BY <1>3, <1>4, <1>5

\* A new beep leaves the old one's tone on until the next loop, with its request.
LEMMA BeepInv == ASSUME BeeperInv, beep PROVE BeeperInv'
<1> USE DEF BeeperInv
<1>1. /\ actions' \in Patterns /\ cur_action' = -1 /\ running' = TRUE
      /\ UNCHANGED duty
  BY DEF beep
<1>2. requested' = TRUE /\ started' = started \cup {"beeper"}
      /\ num_requests' = Cardinality(started')
  <2>1. CASE requested /\ UNCHANGED freqVars
    BY <2>1 DEF Requesting, freqVars
  <2>2. CASE ~requested /\ requested' = TRUE /\ HighFreqStart("beeper")
    BY <2>2, StartCounts DEF Requesting, Requester
  <2>3. QED
    BY <2>1, <2>2 DEF beep
<1>3. Requesting'
  BY <1>1, <1>2 DEF Requesting, Requester
<1>4. Playing'
  <2>1. Len(actions') \in Nat /\ Len(actions') > 0
    BY <1>1, PatternAssumption
  <2>2. QED
    BY <1>1, <2>1 DEF Playing
<1>5. SilentWhenStopped'
  BY <1>1 DEF SilentWhenStopped
<1>6. QED
  BY <1>2, <1>3, <1>4, <1>5

\* Beeper::stop silences the channel and withdraws the request.
LEMMA StopInv == ASSUME BeeperInv, stop PROVE BeeperInv'
<1> USE DEF BeeperInv
<1>1. running' = FALSE /\ duty' = 0
  BY DEF stop
<1>2. requested' = FALSE /\ started' = started \ {"beeper"}
      /\ num_requests' = Cardinality(started')
  <2>1. CASE requested /\ requested' = FALSE /\ HighFreqStop("beeper")
    BY <2>1, StopCounts DEF Requesting, Requester
  <2>2. CASE ~requested /\ UNCHANGED freqVars
    BY <2>2 DEF Requesting, freqVars
  <2>3. QED
    BY <2>1, <2>2 DEF stop
<1>3. Requesting'
  BY <1>1, <1>2 DEF Requesting
<1>4. QED
  BY <1>1, <1>2, <1>3 DEF Playing, SilentWhenStopped

\* An action that begins is in the pattern and is what the channel plays.
LEMMA BeginPlays ==
    ASSUME BeeperInv, running, UNCHANGED <<running, actions, freqVars>>,
           NEW i \in 0 .. Len(actions) - 1, Begin(i)
    PROVE  BeeperInv'
<1> USE DEF BeeperInv
<1>1. Playing'
  BY DEF Begin, Playing, act
<1>2. QED
  BY <1>1 DEF Requesting, SilentWhenStopped, freqVars

\* A turn of the sequencer: when the pattern ends, its last action has silenced
\* the channel.
LEMMA LoopInv == ASSUME BeeperInv, loop PROVE BeeperInv'
<1> USE DEF BeeperInv
<1>1. running => /\ Len(actions) \in Nat /\ Len(actions) > 0
                 /\ cur_action \in -1 .. Len(actions) - 1
                 /\ act(Len(actions) - 1).opcode = 0
  BY PatternAssumption DEF Playing, act
<1>2. CASE LoopIdle
  BY <1>2 DEF LoopIdle, Playing, Requesting, SilentWhenStopped, seqVars, freqVars, act
<1>3. CASE LoopStartup
  BY <1>1, <1>3, BeginPlays DEF LoopStartup
<1>4. CASE LoopHold
  <2>1. UNCHANGED duty
    BY <1>4 DEF LoopHold, Playing
  <2>2. QED
    BY <1>4, <2>1
       DEF LoopHold, Playing, Requesting, SilentWhenStopped, seqVars, freqVars, act
<1>5. CASE LoopNext
  <2>1. cur_action + 1 \in 0 .. Len(actions) - 1
    BY <1>1, <1>5 DEF LoopNext, Expired, LastAction
  <2>2. QED
    BY <1>5, <2>1, BeginPlays DEF LoopNext, Expired
<1>6. CASE LoopAgain
  BY <1>1, <1>6, BeginPlays DEF LoopAgain, Expired
<1>7. CASE LoopFinish
  <2>1. cur_action = Len(actions) - 1
    BY <1>1, <1>7 DEF LoopFinish, Expired, LastAction
  <2>2. running' = FALSE /\ duty' = 0 /\ requested' = FALSE
    BY <1>1, <1>7, <2>1 DEF LoopFinish, Expired, Playing
  <2>3. started' = started \ {"beeper"} /\ num_requests' = Cardinality(started')
    BY <1>7, StopCounts DEF LoopFinish, Requesting, Requester
  <2>4. QED
    BY <2>2, <2>3 DEF Playing, Requesting, SilentWhenStopped
<1>8. QED
  BY <1>2, <1>3, <1>4, <1>5, <1>6, <1>7 DEF loop

\* Every step keeps the invariant.
LEMMA BeeperStep == BeeperInv /\ [Next]_vars => BeeperInv'
<1> SUFFICES ASSUME BeeperInv, [Next]_vars PROVE BeeperInv'
  OBVIOUS
<1>1. CASE UNCHANGED <<running, actions, cur_action, duty, requested, started,
                       num_requests>>
  BY <1>1 DEF BeeperInv, Playing, Requesting, SilentWhenStopped, act
<1>2. CASE Sleep \/ Tick \/ Wake \/ UNCHANGED vars
  BY <1>1, <1>2 DEF Sleep, Tick, Wake, vars, seqVars, freqVars
<1>3. QED
  BY <1>2, OthersInv, BeepInv, StopInv, LoopInv DEF Next

\* The invariant holds of every behaviour.
LEMMA BeeperInvariance == Spec => []BeeperInv
<1>1. Init => BeeperInv
  BY FS_EmptySet
     DEF Init, BeeperInv, Playing, Requesting, SilentWhenStopped
<1>2. QED
  BY <1>1, BeeperStep, PTL DEF Spec

\* No pattern that ends with the tone off leaves a tone sounding when it has ended or
\* was stopped, whatever beeps were begun over it; the beeper's request for a high loop
\* frequency lasts exactly as long as its pattern, and the shared count is that of the
\* requesters, however many they are.
THEOREM NothingIsHeld == Spec => []NothingHeld
<1>1. BeeperInv => SilentWhenStopped
  BY DEF BeeperInv
<1>2. BeeperInv => RequestsMatch
  BY DEF BeeperInv, Requesting, RequestsMatch
<1>3. BeeperInv => NothingHeld
  BY <1>1, <1>2 DEF NothingHeld
<1>4. QED
  BY <1>3, BeeperInvariance, PTL

-----------------------------------------------------------------------------
(***************************************************************************)
(* The length of tones, and of patterns.                                   *)
(***************************************************************************)
\* A sounding tone is looked at in every turn, and turns are short: the request that
\* comes with it holds when the task goes to sleep.
Pace ==
    /\ ~awake /\ high => gap <= FastGap
    /\ duty # 0 => /\ awake /\ ~looped => age <= LongestTone + FastGap
                   /\ awake /\ looped => age <= LongestTone
                   /\ ~awake => high /\ age <= LongestTone + gap

\* What was played of a pattern that ends by itself.
Count ==
    running => /\ cycles \in Cycles
               /\ cur_action = -1 => played = 0
               /\ cycles # 0 /\ cur_action # -1 =>
                      /\ cur_cycle < cycles
                      /\ played = cur_cycle * Len(actions) + cur_action + 1

TimedInv == TypeOK /\ BeeperInv /\ Pace /\ Count

LEMMA Lengths ==
    /\ LongestTone \in Nat /\ FastGap \in Nat /\ SlowGap \in Nat /\ FastGap <= SlowGap
    /\ AgeCap \in Nat /\ AgeCap = LongestTone + SlowGap + 1 /\ PlayedCap \in Nat
BY ToneAssumption, GapAssumption, CapAssumption DEF AgeCap

\* An action of a pattern that runs.
LEMMA ActionIs ==
    ASSUME BeeperInv, running, NEW i \in 0 .. Len(actions) - 1
    PROVE  act(i).opcode \in Nat /\ act(i).duration \in Nat /\ act(i).duration <= LongestTone
<1>1. actions \in Patterns
  BY DEF BeeperInv, Playing
<1>2. actions \in Seq([opcode : Nat, duration : Nat, repeat : BOOLEAN])
  BY <1>1, PatternAssumption
<1>3. i + 1 \in 1 .. Len(actions) /\ DOMAIN actions = 1 .. Len(actions)
  BY <1>2
<1>4. actions[i + 1] \in [opcode : Nat, duration : Nat, repeat : BOOLEAN]
  <2> DEFINE A == [opcode : Nat, duration : Nat, repeat : BOOLEAN]
  <2>1. actions \in Seq(A)
    BY <1>2
  <2> HIDE DEF A
  <2>2. actions[i + 1] \in A
    BY <2>1, <1>3
  <2>3. QED BY <2>2 DEF A
<1>5. actions[i + 1].duration <= LongestTone
  BY <1>1, <1>3, ToneAssumption
<1>6. QED BY <1>4, <1>5 DEF act

LEMMA PatternLength == ASSUME BeeperInv, running
                       PROVE  Len(actions) \in Nat \ {0} /\ actions \in Patterns
BY PatternAssumption DEF BeeperInv, Playing

\* Beginning an action: its tone is of age 0 and may be as long as the longest.
LEMMA BeginTimed ==
    ASSUME TimedInv, loop, running, NEW i \in 0 .. Len(actions) - 1, Begin(i),
           UNCHANGED <<running, actions, cycles, freqVars>>, cur_cycle' \in Nat
    PROVE  TypeOK' /\ Pace'
<1>1. act(i).opcode \in Nat
  BY ActionIs DEF TimedInv
<1>2. Len(actions) \in Nat
  BY PatternLength DEF TimedInv
<1>3. played' \in Nat
  BY Lengths DEF Begin, TimedInv, TypeOK
<1>4. awake /\ looped' = TRUE /\ UNCHANGED <<awake, gap, high>>
  BY DEF loop
<1>5. TypeOK'
  BY <1>1, <1>2, <1>3, <1>4, Lengths DEF TimedInv, TypeOK, Begin, freqVars
<1>6. Pace'
  BY <1>4, Lengths DEF Begin, Pace
<1>7. QED BY <1>5, <1>6

LEMMA TimedLoop == ASSUME TimedInv, loop
                   PROVE  TypeOK' /\ Pace'
<1>t. TypeOK /\ BeeperInv /\ Pace
  BY DEF TimedInv
<1>l. awake /\ looped' = TRUE /\ UNCHANGED <<awake, gap, high>>
  BY DEF loop
<1>r. running => /\ Len(actions) \in Nat \ {0} /\ actions \in Patterns
                 /\ cur_action \in -1 .. Len(actions) - 1
  BY <1>t, PatternLength DEF BeeperInv, Playing
<1>1. CASE LoopIdle
  <2>1. UNCHANGED <<seqVars, duty, freqVars, played>> /\ duty = 0
    BY <1>1, <1>t DEF LoopIdle, BeeperInv, SilentWhenStopped
  <2>2. QED BY <2>1, <1>t, <1>l DEF TypeOK, Pace, seqVars, freqVars
<1>2. CASE LoopStartup
  <2>1. 0 \in 0 .. Len(actions) - 1 /\ cur_cycle' \in Nat /\ running
    BY <1>2, <1>r DEF LoopStartup
  <2>2. QED BY <1>2, <2>1, BeginTimed DEF LoopStartup
<1>3. CASE LoopHold
  <2>1. cur_action \in 0 .. Len(actions) - 1 /\ running
    BY <1>3, <1>r DEF LoopHold
  <2>2. /\ act(cur_action).opcode \in Nat /\ act(cur_action).duration \in Nat
        /\ act(cur_action).duration <= LongestTone
    BY <2>1, <1>t, ActionIs
  <2>3. duty' \in Nat /\ UNCHANGED <<seqVars, freqVars, played>>
        /\ age < act(cur_action).duration
    BY <1>3, <2>2, <1>t DEF LoopHold, TypeOK
  <2>4. age' <= LongestTone
    BY <2>2, <2>3, <1>t, Lengths DEF seqVars, TypeOK
  <2>5. QED BY <2>3, <2>4, <1>t, <1>l DEF TypeOK, Pace, seqVars, freqVars
<1>4. CASE LoopNext
  <2>1. cur_action + 1 \in 0 .. Len(actions) - 1 /\ cur_cycle' \in Nat /\ running
    BY <1>4, <1>r, <1>t DEF LoopNext, Expired, LastAction, TypeOK
  <2>2. QED BY <1>4, <2>1, BeginTimed DEF LoopNext
<1>5. CASE LoopAgain
  <2>1. 0 \in 0 .. Len(actions) - 1 /\ cur_cycle' \in Nat /\ running
    BY <1>5, <1>r, <1>t DEF LoopAgain, Expired, TypeOK
  <2>2. QED BY <1>5, <2>1, BeginTimed DEF LoopAgain
<1>6. CASE LoopFinish
  <2>1. /\ cur_action' \in -1 .. Len(actions) /\ cur_cycle' \in Nat /\ running' = FALSE
        /\ UNCHANGED <<actions, cycles, age, duty, played>> /\ requested' = FALSE
    BY <1>6, <1>r, <1>t DEF LoopFinish, Expired, TypeOK
  <2>2. BeeperInv'
    BY <1>t, LoopInv
  <2>3. duty' = 0 /\ started' \subseteq Requester /\ num_requests' \in Nat
    BY <2>1, <2>2, RequestersFinite DEF BeeperInv, SilentWhenStopped, Requesting
  <2>4. QED BY <2>1, <2>3, <1>t, <1>l DEF TypeOK, Pace
<1>7. QED BY <1>1, <1>2, <1>3, <1>4, <1>5, <1>6 DEF loop

LEMMA CountLoop == ASSUME TimedInv, loop
                   PROVE  Count'
<1>t. TypeOK /\ BeeperInv /\ Count
  BY DEF TimedInv
<1>r. running => /\ Len(actions) \in Nat \ {0} /\ actions \in Patterns
                 /\ cur_action \in -1 .. Len(actions) - 1
  BY <1>t, PatternLength DEF BeeperInv, Playing
<1>c. cur_cycle \in Nat /\ played \in Nat /\ (running => cycles \in Nat /\ cycles \in Cycles)
  BY <1>t, PatternAssumption DEF TypeOK, Count
<1> DEFINE n == Len(actions)
<1>p. running => cycles * n <= PlayedCap /\ cycles * n \in Nat /\ cur_cycle * n \in Nat
  BY <1>r, <1>c, CapAssumption
<1>m. running /\ cur_cycle + 1 <= cycles => (cur_cycle + 1) * n <= cycles * n
  BY <1>r, <1>c
<1>a. running => (cur_cycle + 1) * n = cur_cycle * n + n
  BY <1>r, <1>c
<1>1. CASE LoopIdle \/ LoopHold
  BY <1>1, <1>t DEF LoopIdle, LoopHold, Count, seqVars
<1>2. CASE LoopStartup
  <2>1. /\ running /\ played = 0 /\ cur_cycle' = 0 /\ cur_action' = 0
        /\ UNCHANGED <<running, actions, cycles>>
        /\ played' = IF played < PlayedCap THEN played + 1 ELSE played
    BY <1>2, <1>t DEF LoopStartup, Begin, Count
  <2>2. cycles # 0 => 0 < PlayedCap
    <3>1. cycles # 0 => cycles * n > 0
      BY <2>1, <1>r, <1>c
    <3>2. QED BY <3>1, <2>1, <1>p, Lengths
  <2>3. 0 * n = 0
    BY <2>1, <1>r
  <2>4. QED BY <2>1, <2>2, <2>3, <1>c, Lengths DEF Count
<1>3. CASE LoopNext
  <2>1. /\ running /\ cur_action # -1 /\ cur_action + 1 < n /\ cur_action' = cur_action + 1
        /\ UNCHANGED <<running, actions, cycles, cur_cycle>>
        /\ played' = IF played < PlayedCap THEN played + 1 ELSE played
    BY <1>3, <1>r DEF LoopNext, Expired, LastAction, Begin
  <2>2. cycles # 0 => /\ cur_cycle < cycles
                      /\ played = cur_cycle * n + cur_action + 1
    BY <2>1, <1>t DEF Count
  <2> HIDE DEF n
  <2>3. cycles # 0 => played < PlayedCap
    <3> DEFINE x == cur_cycle * n
               y == (cur_cycle + 1) * n
               z == cycles * n
    <3>1. cycles # 0 => /\ x \in Int /\ z \in Int /\ y = x + n /\ y <= z /\ z <= PlayedCap
                        /\ played = x + cur_action + 1
      BY <2>1, <2>2, <1>p, <1>m, <1>a, <1>c
    <3>2. n \in Int /\ cur_action \in Int
      BY <2>1, <1>r DEF n
    <3> HIDE DEF x, y, z
    <3>3. QED BY <3>1, <3>2, <2>1, Lengths
  <2>4. cycles # 0 => played' = cur_cycle * n + (cur_action + 1) + 1
    BY <2>1, <2>2, <2>3, <1>p, <1>r
  <2>5. QED BY <2>1, <2>2, <2>4, <1>c, <1>r DEF Count, n
<1>4. CASE LoopAgain
  <2>1. /\ running /\ cur_action # -1 /\ cur_action = n - 1 /\ cur_action' = 0
        /\ ~(cycles # 0 /\ cur_cycle + 1 >= cycles) /\ cur_cycle' = cur_cycle + 1
        /\ UNCHANGED <<running, actions, cycles>>
        /\ played' = IF played < PlayedCap THEN played + 1 ELSE played
    BY <1>4, <1>r DEF LoopAgain, Expired, LastAction, LastCycle, Begin
  <2>2. cycles # 0 => /\ cur_cycle + 1 < cycles
                      /\ played = cur_cycle * n + cur_action + 1
    BY <2>1, <1>t, <1>c DEF Count
  <2>3. cycles # 0 => (cur_cycle + 1) * n < cycles * n
    BY <2>1, <2>2, <1>c, <1>r
  <2> HIDE DEF n
  <2>4. cycles # 0 => played < PlayedCap /\ played = (cur_cycle + 1) * n
    <3> DEFINE x == cur_cycle * n
               y == (cur_cycle + 1) * n
               z == cycles * n
    <3>1. cycles # 0 => /\ x \in Int /\ z \in Int /\ y = x + n /\ y < z /\ z <= PlayedCap
                        /\ played = x + cur_action + 1
      BY <2>1, <2>2, <2>3, <1>p, <1>a
    <3>2. n \in Int
      BY <2>1, <1>r DEF n
    <3> HIDE DEF x, y, z
    <3>3. cycles # 0 => played < PlayedCap /\ played = y
      BY <3>1, <3>2, <2>1, Lengths
    <3>4. QED BY <3>3 DEF y
  <2>5. QED BY <2>1, <2>2, <2>4, <1>c DEF Count, n
<1>5. CASE LoopFinish
  BY <1>5 DEF LoopFinish, Count
<1>6. QED BY <1>1, <1>2, <1>3, <1>4, <1>5 DEF loop

LEMMA TimedStep == TimedInv /\ [Next]_vars => TimedInv'
<1> SUFFICES ASSUME TimedInv, [Next]_vars
             PROVE  TimedInv'
  OBVIOUS
<1>t. TypeOK /\ BeeperInv /\ Pace /\ Count
  BY DEF TimedInv
<1>b. BeeperInv'
  BY <1>t, BeeperStep
<1>r. started' \subseteq Requester /\ num_requests' \in Nat
  BY <1>b, RequestersFinite DEF BeeperInv, Requesting
<1>1. CASE OtherRequests
  <2>1. UNCHANGED <<seqVars, duty, requested, appVars, played>>
    BY <1>1 DEF OtherRequests
  <2>2. QED BY <2>1, <1>t, <1>b, <1>r
            DEF TimedInv, TypeOK, Pace, Count, seqVars, appVars
<1>2. CASE beep
  <2>1. /\ actions' \in Patterns /\ cycles' \in Cycles /\ cur_action' = -1 /\ running' = TRUE
        /\ played' = 0 /\ UNCHANGED <<cur_cycle, age, duty, appVars>>
    BY <1>2 DEF beep
  <2>2. requested' \in BOOLEAN /\ Len(actions') \in Nat
    BY <1>b, <2>1, PatternAssumption DEF BeeperInv, Requesting
  <2>3. TypeOK'
    BY <2>1, <2>2, <1>t, <1>r DEF TypeOK, appVars
  <2>4. Pace' /\ Count'
    BY <2>1, <1>t DEF Pace, Count, appVars
  <2>5. QED BY <2>3, <2>4, <1>b DEF TimedInv
<1>3. CASE stop
  <2>1. /\ duty' = 0 /\ running' = FALSE
        /\ UNCHANGED <<actions, cur_action, cycles, cur_cycle, age, appVars, played>>
    BY <1>3 DEF stop
  <2>2. requested' \in BOOLEAN
    BY <1>b DEF BeeperInv, Requesting
  <2>3. QED BY <2>1, <2>2, <1>t, <1>b, <1>r DEF TimedInv, TypeOK, Pace, Count, appVars
<1>4. CASE loop
  BY <1>4, <1>b, TimedLoop, CountLoop DEF TimedInv
<1>5. CASE Sleep
  <2>1. /\ awake /\ looped /\ awake' = FALSE /\ gap' = 0 /\ high' = is_high_frequency
        /\ UNCHANGED <<seqVars, duty, freqVars, looped, played>>
    BY <1>5 DEF Sleep
  <2>2. duty # 0 => is_high_frequency
    <3>1. duty # 0 => "beeper" \in started
      BY <1>t DEF BeeperInv, SilentWhenStopped, Requesting
    <3>2. IsFiniteSet(started) /\ num_requests = Cardinality(started)
      BY <1>t, RequestersFinite DEF BeeperInv, Requesting
    <3>3. started # {} => Cardinality(started) # 0
      BY <3>2, FS_EmptySet
    <3>4. QED BY <3>1, <3>2, <3>3, <1>t DEF is_high_frequency, TypeOK
  <2>3. high' \in BOOLEAN /\ gap' \in 0 .. SlowGap /\ awake' \in BOOLEAN
    <3>1. is_high_frequency \in BOOLEAN
      BY DEF is_high_frequency
    <3>2. high' = is_high_frequency
      BY <2>1
    <3> HIDE DEF is_high_frequency
    <3>3. high' \in BOOLEAN
      BY <3>1, <3>2, Zenon
    <3>4. gap' \in 0 .. SlowGap
      BY <2>1, Lengths
    <3>5. awake' \in BOOLEAN
      BY <2>1
    <3>6. QED BY <3>3, <3>4, <3>5, Zenon
  <2>4. TypeOK'
    <3> HIDE DEF is_high_frequency
    <3>1. UNCHANGED <<running, actions, cur_action, cycles, cur_cycle, age, duty, requested,
                      started, num_requests, looped, played>>
      BY <2>1 DEF seqVars, freqVars
    <3>2. QED BY <3>1, <2>3, <1>t DEF TypeOK
  <2>5. Pace'
    BY <2>1, <2>2, <1>t, Lengths DEF Pace, TypeOK, seqVars
  <2>6. QED BY <2>1, <2>4, <2>5, <1>b, <1>t DEF TimedInv, Count, seqVars
<1>6. CASE Tick
  <2>1. /\ ~awake /\ gap < (IF high THEN FastGap ELSE SlowGap) /\ gap' = gap + 1
        /\ age' = IF age < AgeCap THEN age + 1 ELSE age
        /\ UNCHANGED <<running, actions, cur_action, cycles, cur_cycle, duty, freqVars,
                       awake, looped, high, played>>
    BY <1>6 DEF Tick
  <2>2. TypeOK'
    BY <2>1, <1>t, Lengths DEF TypeOK, freqVars
  <2>3. Pace'
    BY <2>1, <1>t, Lengths DEF Pace, TypeOK
  <2>4. QED BY <2>1, <2>2, <2>3, <1>b, <1>t DEF TimedInv, Count
<1>7. CASE Wake
  <2>1. /\ ~awake /\ (high \/ gap = SlowGap) /\ awake' = TRUE /\ looped' = FALSE
        /\ UNCHANGED <<seqVars, duty, freqVars, gap, high, played>>
    BY <1>7 DEF Wake
  <2>2. TypeOK'
    BY <2>1, <1>t DEF TypeOK, seqVars, freqVars
  <2>3. Pace'
    BY <2>1, <1>t, Lengths DEF Pace, TypeOK, seqVars
  <2>4. QED BY <2>1, <2>2, <2>3, <1>b, <1>t DEF TimedInv, Count, seqVars
<1>8. CASE UNCHANGED vars
  BY <1>8, <1>b, <1>t DEF vars, seqVars, freqVars, appVars, TimedInv, TypeOK, Pace, Count
<1>9. QED BY <1>1, <1>2, <1>3, <1>4, <1>5, <1>6, <1>7, <1>8 DEF Next

LEMMA TimedInvariance == Spec => []TimedInv
<1>1. Init => TimedInv
  <2> SUFFICES ASSUME Init
               PROVE  TimedInv
    OBVIOUS
  <2>1. BeeperInv
    BY FS_EmptySet DEF Init, BeeperInv, Playing, Requesting, SilentWhenStopped
  <2>2. TypeOK
    <3>1. Len(<<>>) = 0 /\ AgeCap \in 0 .. AgeCap /\ 0 \in 0 .. SlowGap
      BY Lengths
    <3>2. actions = <<>> /\ cur_action = 0
      BY DEF Init
    <3>3. cur_action \in -1 .. Len(actions)
      BY <3>1, <3>2
    <3>4. QED BY <3>1, <3>3 DEF Init, TypeOK
  <2>3. Pace /\ Count
    BY DEF Init, Pace, Count
  <2>4. QED BY <2>1, <2>2, <2>3 DEF TimedInv
<1>2. QED BY <1>1, TimedStep, PTL DEF Spec

\* No tone outlasts its duration by more than one fast turn of the loop, and cur_action
\* stays within its pattern, whatever other components request and whenever beeps are
\* begun and stopped.
THEOREM TonesEnd == Spec => []BeepsOnTime
<1>1. TimedInv => BeepsOnTime
  <2> SUFFICES ASSUME TimedInv
               PROVE  BeepsOnTime
    OBVIOUS
  <2>1. TypeOK /\ TonesEndOnTime
    BY Lengths DEF TimedInv, Pace, TonesEndOnTime, TypeOK
  <2>2. QED BY <2>1 DEF BeepsOnTime
<1>2. QED BY <1>1, TimedInvariance, PTL

\* A pattern that ends by itself was played to its last action as often as asked.
THEOREM PatternsArePlayed == Spec => PlayedWhole
<1>1. TimedInv /\ [Next]_vars =>
          (running /\ ~running' /\ duty' = duty /\ ~looped /\ looped'
               => played = cycles * Len(actions))
  <2> SUFFICES ASSUME TimedInv, [Next]_vars, running, ~running', ~looped, looped'
               PROVE  played = cycles * Len(actions)
    OBVIOUS
  <2>1. LoopFinish
    BY DEF Next, OtherRequests, beep, stop, loop, Sleep, Tick, Wake, vars, seqVars, appVars,
           LoopIdle, LoopStartup, LoopHold, LoopNext, LoopAgain
  <2>2. /\ TypeOK /\ BeeperInv /\ cycles # 0 /\ cycles \in Nat /\ cur_cycle < cycles
        /\ played = cur_cycle * Len(actions) + cur_action + 1 /\ cur_cycle \in Nat
        /\ cur_cycle + 1 >= cycles
    BY <2>1, PatternAssumption
       DEF TimedInv, Count, TypeOK, LoopFinish, Expired, LastAction, LastCycle
  <2>3. cur_action = Len(actions) - 1 /\ Len(actions) \in Nat \ {0}
    BY <2>1, <2>2, PatternLength DEF BeeperInv, Playing, LoopFinish, Expired, LastAction
  <2>4. cycles = cur_cycle + 1
    BY <2>2
  <2>5. (cur_cycle + 1) * Len(actions) = cur_cycle * Len(actions) + Len(actions)
        /\ cur_cycle * Len(actions) \in Nat
    BY <2>2, <2>3
  <2>6. QED BY <2>2, <2>3, <2>4, <2>5
<1>2. QED BY <1>1, TimedInvariance, PTL DEF Spec, PlayedWhole
=============================================================================
