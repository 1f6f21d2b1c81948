--------------------------- MODULE Restarts_proofs ---------------------------
(***************************************************************************)
(* What holds over restarts and crashes for any switches, firmwares, wait  *)
(* times and numbers of attempts: switches that exclude each other do, the *)
(* states that were kept come back (SwitchMemory is implemented), what a   *)
(* client was told is booted, and safe mode is earned.                     *)
(***************************************************************************)
EXTENDS Restarts, FiniteSetTheorems, TLAPS

(***************************************************************************)
(* The types, by component.                                                *)
(***************************************************************************)
Action == [op : {"write", "save", "again"}, s : Switch, p : Position]
SwitchTypes ==
    /\ nvs \in [Keys -> Blob] /\ offset \in 1 .. Cardinality(Switch) + 2
    /\ prefs \in [Switch \cup {"wifi"} -> Keys \cup {0}]
    /\ there \subseteq Switch /\ unsaved \subseteq Switch
    /\ level \in [Switch -> Position \cup {"float"}] /\ state \in [Switch -> Position]
    /\ shown \in [Switch -> Position \cup {"none"}] /\ asked \in [Switch -> Position]
    /\ timer \in [Switch -> 0 .. WaitTime \cup {NoTimer}]
    /\ steps \in Seq(Action)
Client == {"none", "ota", "web"}
UpdateRun == [run : BOOLEAN, owner : Client, ota : 0 .. Chunks, web : 0 .. Chunks]
OtaTypes ==
    /\ tries \in 0 .. NumAttempts /\ ota \in Stages \cup {"none", "listen"}
    /\ web \in Image \cup {"none"} /\ gift \in Image \cup {"none"} /\ boot \in Image
    /\ upd \in UpdateRun /\ begun \in Client
    /\ told \in [by : Client, image : Image \cup {"none"}]
    /\ has_safe \in BOOLEAN /\ (ota \in Stages => gift \in Image)
LifeTypes ==
    /\ power \in {"off", "start", "on"} /\ up \in 0 .. UpCap /\ starts \in 0 .. StartsCap
    /\ image \in Image /\ safe \in BOOLEAN /\ play \in Plays
    /\ once \in [Switch -> SUBSET Position]

-----------------------------------------------------------------------------
(***************************************************************************)
(* The call under way.                                                     *)
(***************************************************************************)
\* Steps belong to switches that are set up, the second write of setup comes last, and only
\* what was published is saved.
StepsFit ==
    \A i \in DOMAIN steps :
        /\ steps[i].s \in there
        /\ steps[i].op = "again" => i = Len(steps)
        /\ steps[i].op = "save" => shown[steps[i].s] # "none" /\ prefs[steps[i].s] # 0

\* Whoever is to be turned on comes after the last of its rivals has been turned off,
\* and nobody else is turned on before.
TurnsOn(a) == a.op \in {"write", "again"} /\ a.p = "on"
OffFirst ==
    \A i \in DOMAIN steps : TurnsOn(steps[i]) =>
        /\ \A o \in Group[steps[i].s] \ {steps[i].s} : state[o] = "on" =>
               \E j \in 1 .. i - 1 : steps[j] = Write(o, "off")
        /\ \A j \in 1 .. i - 1 : steps[j].op = "write" /\ steps[j].p = "on" =>
               steps[i].op = "again" /\ steps[j].s = steps[i].s

\* Pin, state and what was published agree; who has published nothing is about to.
Agree ==
    \A s \in Switch :
        /\ level[s] = Raw(s, "on") => state[s] = "on"
        /\ shown[s] # "none" => shown[s] = state[s] /\ s \in there
        /\ shown[s] = "none" => state[s] = "off"
        /\ s \in there /\ shown[s] = "none" =>
               \E i \in DOMAIN steps : steps[i].op \in {"write", "again"} /\ steps[i].s = s

\* Of switches that exclude each other one is on.
Exclusive == \A s \in Switch : state[s] = "on" => Rivals(s) = {}

\* A wait is that of a switch last told to be on.
Waits == \A s \in Switch : timer[s] # NoTimer => s \in there /\ asked[s] = "on" /\ WaitTime # 0

-----------------------------------------------------------------------------
(***************************************************************************)
(* A life of the device.                                                   *)
(***************************************************************************)
\* The device that is off has set nothing up; the one that starts has made no preference.
Fresh ==
    /\ power # "on" => there = {} /\ steps = <<>> /\ \A s \in Switch : shown[s] = "none"
    /\ power = "start" => offset = 1 /\ \A o \in Switch \cup {"wifi"} : prefs[o] = 0

\* Setup goes through the components in order; who had its turn has its preference.
Order == Components(image, safe)
Done == Len(Order) - Len(todo)
SetUpOrder ==
    power = "on" =>
        /\ todo \in Seq(Switch \cup {"wifi", "ota"}) /\ Len(todo) <= Len(Order)
        /\ \A i \in DOMAIN todo : todo[i] = Order[Done + i]
        /\ there = {s \in Switch : \E i \in 1 .. Done : Order[i] = s}
        /\ \A s \in Switch : prefs[s] # 0 <=> s \in there /\ Restores(s)
        /\ prefs["wifi"] # 0 <=> Len(todo) <= 1
        /\ \A s \in there : shown[s] = "none" => Len(todo) >= 2

\* Preferences have keys of their own, given out in order; that of a switch is the one it
\* has in every start of this firmware.
Made == {o \in Switch \cup {"wifi"} : prefs[o] # 0}
Numbered ==
    power = "on" =>
        /\ offset = Cardinality(Made) + 1
        /\ \A o \in Made : prefs[o] < offset
        /\ \A o, p \in Made : prefs[o] = prefs[p] => o = p
        /\ \A s \in Switch : prefs[s] # 0 => prefs[s] = KeyOf(s)

-----------------------------------------------------------------------------
(***************************************************************************)
(* What is kept.                                                           *)
(***************************************************************************)
OnceKept == \A k \in Keys : nvs[k].crc \in Switch => nvs[k].data \in once[nvs[k].crc]

\* What a switch has published is saved, or about to be, or was refused.
Kept ==
    \A s \in there \ unsaved : prefs[s] # 0 /\ shown[s] # "none" =>
        \/ \E i \in DOMAIN steps : steps[i].op = "save" /\ steps[i].s = s
        \/ nvs[prefs[s]] = [words |-> 1, crc |-> s, data |-> state[s]]

\* What the next start of this firmware would restore.
Stored(s) == LET d == load(s, image, KeyOf(s)) IN IF d = "none" THEN "absent" ELSE d

\* A switch begins as it was kept.
BeginsRight ==
    \A i \in DOMAIN steps : steps[i].op \in {"write", "again"} /\ shown[steps[i].s] = "none" =>
        steps[i].p = Begins[steps[i].s][Stored(steps[i].s)]

SwitchInv == SwitchTypes /\ StepsFit /\ OffFirst /\ Exclusive /\ Agree /\ Waits
KeptInv == OnceKept /\ Kept /\ BeginsRight
CallInv == SwitchInv /\ Fresh /\ SetUpOrder /\ Numbered /\ KeptInv

\* The update that runs is that of whoever began last, who was told nothing yet.
Whose == upd.run => upd.owner = begun /\ told.by # begun
\* Who is about to be told is right, unless somebody else has begun an update since.
OtaAboutToTell == ota = "ok" /\ begun = "ota" => ~upd.run /\ boot = gift
WebAboutToTell ==
    /\ answer => web # "none"
    /\ answer /\ ~error /\ begun = "web" => ~upd.run /\ boot = web
    /\ Uploading /\ begun = "web" /\ ~upd.run => error
TellInv == ToldIsBooted /\ Whose /\ OtaAboutToTell /\ WebAboutToTell

OtaInv == OtaTypes /\ TellInv
IInv == OtaInv /\ LifeTypes /\ CallInv

\* Unless it was not cleared when it was to be, the counter is no more than the starts that
\* were, and is cleared before the loop goes on after a good one.
Counting ==
    ~uncleared => /\ power = "start" => starts > tries
                  /\ starts >= tries
                  /\ power = "on" => has_safe \/ tries = 0
TriesInv == IInv /\ Counting

-----------------------------------------------------------------------------
(***************************************************************************)
(* Constants, sequences and sets.                                          *)
(***************************************************************************)
LEMMA Names ==
    /\ IsFiniteSet(Switch) /\ Cardinality(Switch) \in Nat
    /\ "wifi" \notin Switch /\ "ota" \notin Switch /\ "none" \notin Switch /\ "none" \notin Image
    /\ \A s \in Switch : s \notin Image
    /\ NoTimer \notin 0 .. WaitTime /\ WaitTime \in Nat
    /\ \A s \in Switch : Group[s] \subseteq Switch /\ \A o \in Group[s] : s \in Group[o]
BY PreferencesAssumption, InterlockAssumption, FS_CardinalityType DEF NoTimer

LEMMA Positions == ASSUME NEW s, NEW p \in Position
                   PROVE  Raw(s, p) \in Position /\ Flip(p) \in Position /\ Raw(s, "on") # Raw(s, "off")
BY DEF Position, Raw, Flip

\* SetToSeq lists the elements of a finite set.
LEMMA Listed ==
    ASSUME NEW S, IsFiniteSet(S)
    PROVE  /\ SetToSeq(S) \in [1 .. Cardinality(S) -> S] /\ Cardinality(S) \in Nat
           /\ \A x \in S : \E i \in 1 .. Cardinality(S) : SetToSeq(S)[i] = x
<1> DEFINE n == Cardinality(S)
           D == 1 .. n
           f == SetToSeq(S)
<1>1. n \in Nat /\ ExistsBijection(D, S)
  BY FS_CardinalityType
<1>2. \E g \in [D -> S] : IsInjective(g)
  BY <1>1 DEF ExistsBijection, Bijection, Injection
<1>3. f \in [D -> S] /\ IsInjective(f)
  BY <1>2 DEF SetToSeq
<1>4. f \in Injection(D, S)
  BY <1>3 DEF Injection
<1>5. IsFiniteSet(D) /\ Cardinality(D) = n
  BY <1>1, FS_Interval
<1>6. f \in Surjection(D, S)
  BY <1>4, <1>5, FS_Injection
<1>7. \A x \in S : \E i \in D : f[i] = x
  BY <1>6 DEF Surjection
<1>8. QED
  BY <1>1, <1>3, <1>7

LEMMA WritesOffIs ==
    ASSUME NEW S \in SUBSET Switch
    PROVE  /\ WritesOff(S) \in Seq(Action)
           /\ \A i \in DOMAIN WritesOff(S) : \E o \in S : WritesOff(S)[i] = Write(o, "off")
           /\ \A o \in S : \E i \in DOMAIN WritesOff(S) : WritesOff(S)[i] = Write(o, "off")
           /\ S = {} => WritesOff(S) = <<>>
<1> DEFINE n == Cardinality(S)
           q == SetToSeq(S)
<1>1. q \in [1 .. n -> S] /\ n \in Nat /\ \A x \in S : \E i \in 1 .. n : q[i] = x
  BY Names, FS_Subset, Listed
<1>2. DOMAIN q = 1 .. n
  BY <1>1
<1>3. WritesOff(S) = [i \in 1 .. n |-> Write(q[i], "off")]
  BY <1>2 DEF WritesOff
<1> HIDE DEF q, n
<1>4. \A i \in 1 .. n : q[i] \in S /\ Write(q[i], "off") \in Action
  BY <1>1 DEF Write, Action, Position
<1>5. WritesOff(S) \in Seq(Action)
  BY <1>1, <1>3, <1>4
<1>6. S = {} => n = 0
  BY FS_EmptySet DEF n
<1>7. S = {} => WritesOff(S) = <<>>
  BY <1>3, <1>6
<1>8. QED
  BY <1>1, <1>3, <1>4, <1>5, <1>7

LEMMA ActionAt ==
    ASSUME NEW q \in Seq(Action), NEW i \in 1 .. Len(q)
    PROVE  /\ q[i] \in Action /\ q[i].s \in Switch /\ q[i].p \in Position
           /\ q[i].op \in {"write", "save", "again"}
<1>1. q[i] \in Action
  OBVIOUS
<1>2. QED
  BY <1>1 DEF Action

-----------------------------------------------------------------------------
(***************************************************************************)
(* write_state.                                                            *)
(***************************************************************************)
\* What it does at once: the rivals, if any, are turned off; then, unless there is a wait,
\* the switch is turned.
LEMMA Writes ==
    ASSUME NEW s \in Switch, NEW p \in Position, NEW then \in Seq(Action), NEW timers,
           write_state(s, p, then, timers)
    PROVE  \E q \in Seq(Action) :
              /\ steps' = q \o then
              /\ \A i \in DOMAIN q :
                    /\ q[i].op = "write" /\ q[i].s \in Rivals(s) \cup {s}
                    /\ q[i].s = s => q[i].p = p
                    /\ q[i].p = "on" => p = "on" /\ q[i].s = s /\ i = Len(q)
              /\ p = "on" => \A o \in Rivals(s) : \E i \in DOMAIN q : q[i] = Write(o, "off")
              /\ p = "off" \/ Rivals(s) = {} => q = <<Write(s, p)>>
<1>0. Write(s, p) \in Action /\ <<Write(s, p)>> \in Seq(Action)
  BY DEF Write, Action
<1>1. CASE p = "off"
  <2>1. steps' = <<Write(s, p)>> \o then
    BY <1>1 DEF write_state
  <2> DEFINE q == <<Write(s, p)>>
  <2>2. q \in Seq(Action) /\ DOMAIN q = {1} /\ q[1] = Write(s, p)
    BY <1>0
  <2>3. \A i \in DOMAIN q : q[i] = [op |-> "write", s |-> s, p |-> "off"]
    BY <1>1, <2>2 DEF Write
  <2> HIDE DEF q
  <2>4. steps' = q \o then /\ q = <<Write(s, p)>>
    BY <2>1 DEF q
  <2>5. \A i \in DOMAIN q : /\ q[i].op = "write" /\ q[i].s = s /\ q[i].p = p
                           /\ q[i].p # "on"
    BY <1>1, <2>3
  <2>6. QED
    BY <1>1, <2>2, <2>4, <2>5
<1>2. CASE p = "on"
  <2> DEFINE R == Rivals(s)
             w == WritesOff(R)
             e == IF R # {} /\ WaitTime # 0 THEN <<>> ELSE <<Write(s, p)>>
  <2>1. steps' = (w \o e) \o then
    BY <1>2 DEF write_state
  <2>2. R \in SUBSET Switch /\ s \notin R
    BY Names DEF Rivals
  <2> HIDE DEF R
  <2>3. /\ w \in Seq(Action)
        /\ \A i \in DOMAIN w : \E o \in R : w[i] = Write(o, "off")
        /\ \A o \in R : \E i \in DOMAIN w : w[i] = Write(o, "off")
        /\ R = {} => w = <<>>
    BY <2>2, WritesOffIs
  <2>4. e \in Seq(Action) /\ Len(e) <= 1
        /\ (e = <<>> \/ e = <<Write(s, p)>>) /\ (R = {} => e = <<Write(s, p)>>)
    BY <1>0
  <2> HIDE DEF w, e
  <2> DEFINE q == w \o e
  <2>5. q \in Seq(Action) /\ Len(q) = Len(w) + Len(e)
        /\ (\A i \in 1 .. Len(w) : q[i] = w[i])
        /\ (\A i \in 1 .. Len(q) : i > Len(w) => q[i] = Write(s, p) /\ i = Len(q))
    BY <1>0, <2>3, <2>4
  <2>6. \A i \in DOMAIN q :
           /\ q[i].op = "write" /\ q[i].s \in R \cup {s}
           /\ q[i].s = s => q[i].p = p
           /\ q[i].p = "on" => p = "on" /\ q[i].s = s /\ i = Len(q)
    <3> SUFFICES ASSUME NEW i \in DOMAIN q
                 PROVE  /\ q[i].op = "write" /\ q[i].s \in R \cup {s}
                        /\ q[i].s = s => q[i].p = p
                        /\ q[i].p = "on" => p = "on" /\ q[i].s = s /\ i = Len(q)
      OBVIOUS
    <3>1. i \in 1 .. Len(q) /\ i \in Nat /\ Len(w) \in Nat
      BY <2>3, <2>5
    <3>2. CASE i <= Len(w)
      <4>1. \E o \in R : q[i] = Write(o, "off")
        BY <2>3, <2>5, <3>1, <3>2
      <4>2. QED
        BY <2>2, <4>1 DEF Write
    <3>3. CASE i > Len(w)
      BY <1>2, <2>5, <3>1, <3>3 DEF Write
    <3>4. QED
      BY <3>1, <3>2, <3>3
  <2>7. \A o \in R : \E i \in DOMAIN q : q[i] = Write(o, "off")
    <3> SUFFICES ASSUME NEW o \in R PROVE \E i \in DOMAIN q : q[i] = Write(o, "off")
      OBVIOUS
    <3>1. PICK i \in DOMAIN w : w[i] = Write(o, "off")
      BY <2>3
    <3>2. i \in DOMAIN q /\ q[i] = w[i]
      BY <2>3, <2>4, <2>5
    <3>3. QED
      BY <3>1, <3>2
  <2>8. R = {} => q = <<Write(s, p)>>
    <3> SUFFICES ASSUME R = {} PROVE q = <<Write(s, p)>>
      OBVIOUS
    <3>1. q = <<>> \o <<Write(s, p)>>
      BY <2>3, <2>4
    <3>2. QED
      BY <1>0, <3>1
  <2> HIDE DEF q
  <2>9. steps' = q \o then
    BY <2>1 DEF q
  <2>10. QED
    BY <1>2, <2>5, <2>6, <2>7, <2>8, <2>9 DEF R
<1>3. QED
  BY <1>1, <1>2 DEF Position

\* The waits: a rival's ends, a switch that is off waits no longer.
LEMMA WaitsAfter ==
    ASSUME SwitchTypes, Waits, NEW s \in Switch, NEW p \in Position, NEW then,
           NEW timers \in [Switch -> 0 .. WaitTime \cup {NoTimer}],
           \A o \in Switch : timers[o] \in {timer[o], NoTimer},
           write_state(s, p, then, timers), s \in there', there \subseteq there'
    PROVE  /\ timer' \in [Switch -> 0 .. WaitTime \cup {NoTimer}]
           /\ asked' \in [Switch -> Position] /\ Waits'
<1>1. asked \in [Switch -> Position] /\ timer \in [Switch -> 0 .. WaitTime \cup {NoTimer}]
  BY DEF SwitchTypes
<1>2. \A o \in Switch : timers[o] # NoTimer => o \in there' /\ asked[o] = "on" /\ WaitTime # 0
  BY DEF Waits
<1>3. CASE p = "on"
  <2> DEFINE waits == Rivals(s) # {} /\ WaitTime # 0
  <2>1. /\ timer' = [o \in Switch |-> IF WaitTime # 0 /\ o \in Rivals(s) THEN NoTimer
                                      ELSE IF o = s /\ waits THEN WaitTime ELSE timers[o]]
        /\ asked' = [o \in Switch |-> IF o \in Rivals(s) THEN "off"
                                      ELSE IF o = s THEN "on" ELSE asked[o]]
    BY <1>3 DEF write_state
  <2>2. s \notin Rivals(s)
    BY DEF Rivals
  <2>3. WaitTime \in 0 .. WaitTime
    BY Names
  <2>4. timer' \in [Switch -> 0 .. WaitTime \cup {NoTimer}] /\ asked' \in [Switch -> Position]
    BY <1>1, <2>1, <2>3 DEF Position
  <2>5. \A o \in Switch : timer'[o] # NoTimer => o \in there' /\ asked'[o] = "on" /\ WaitTime # 0
    BY <1>2, <2>1, <2>2
  <2>6. QED
    BY <2>4, <2>5 DEF Waits
<1>4. CASE p = "off"
  <2>1. /\ timer' = IF WaitTime # 0 THEN [timers EXCEPT ![s] = NoTimer] ELSE timers
        /\ asked' = [asked EXCEPT ![s] = "off"]
    BY <1>4 DEF write_state
  <2>2. timer' \in [Switch -> 0 .. WaitTime \cup {NoTimer}] /\ asked' \in [Switch -> Position]
    BY <1>1, <2>1 DEF Position
  <2>3. \A o \in Switch : timer'[o] # NoTimer => o \in there' /\ asked'[o] = "on" /\ WaitTime # 0
    BY <1>1, <1>2, <2>1
  <2>4. QED
    BY <2>2, <2>3 DEF Waits
<1>5. QED
  BY <1>3, <1>4 DEF Position

\* A call that begins: it puts turning off first.
LEMMA CallBegins ==
    ASSUME NEW s \in Switch, NEW p \in Position, NEW then, NEW timers,
           state \in [Switch -> Position], state' = state,
           then = <<>> \/ then = <<Again(s, p)>>,
           write_state(s, p, then, timers)
    PROVE  /\ steps' \in Seq(Action) /\ OffFirst'
           /\ \A i \in DOMAIN steps' :
                 /\ steps'[i].s \in Rivals(s) \cup {s} /\ (steps'[i].s = s => steps'[i].p = p)
                 /\ steps'[i].op # "save" /\ (steps'[i].op = "again" => i = Len(steps'))
           /\ p = "off" \/ Rivals(s) = {} \/ then # <<>> =>
                 \E i \in DOMAIN steps' : steps'[i].op \in {"write", "again"} /\ steps'[i].s = s
<1>0. then \in Seq(Action) /\ Len(then) <= 1
  <2>1. Again(s, p) \in Action
    BY DEF Again, Action
  <2> DEFINE a == Again(s, p)
  <2>2. <<a>> \in Seq(Action) /\ Len(<<a>>) = 1 /\ <<>> \in Seq(Action) /\ Len(<<>>) = 0
    BY <2>1
  <2>3. CASE then = <<>>
    BY <2>2, <2>3
  <2>4. CASE then = <<a>>
    BY <2>2, <2>4
  <2>5. QED
    BY <2>3, <2>4
<1>1. PICK q \in Seq(Action) :
              /\ steps' = q \o then
              /\ \A i \in DOMAIN q :
                    /\ q[i].op = "write" /\ q[i].s \in Rivals(s) \cup {s}
                    /\ q[i].s = s => q[i].p = p
                    /\ q[i].p = "on" => p = "on" /\ q[i].s = s /\ i = Len(q)
              /\ p = "on" => \A o \in Rivals(s) : \E i \in DOMAIN q : q[i] = Write(o, "off")
              /\ p = "off" \/ Rivals(s) = {} => q = <<Write(s, p)>>
  BY <1>0, Writes
<1>2. /\ steps' \in Seq(Action) /\ Len(steps') = Len(q) + Len(then)
      /\ \A i \in 1 .. Len(q) : steps'[i] = q[i]
      /\ \A i \in 1 .. Len(steps') :
             i > Len(q) => steps'[i] = Again(s, p) /\ i = Len(steps') /\ then # <<>>
      /\ Len(q) \in Nat /\ Len(steps') \in Nat
  BY <1>0, <1>1
<1>3. \A i \in DOMAIN steps' :
         /\ steps'[i].s \in Rivals(s) \cup {s} /\ (steps'[i].s = s => steps'[i].p = p)
         /\ steps'[i].op # "save" /\ (steps'[i].op = "again" => i = Len(steps'))
  <2> SUFFICES ASSUME NEW i \in 1 .. Len(steps')
               PROVE  /\ steps'[i].s \in Rivals(s) \cup {s} /\ (steps'[i].s = s => steps'[i].p = p)
                      /\ steps'[i].op # "save" /\ (steps'[i].op = "again" => i = Len(steps'))
    BY <1>2
  <2>1. CASE i <= Len(q)
    BY <1>1, <1>2, <2>1
  <2>2. CASE i > Len(q)
    BY <1>2, <2>2 DEF Again
  <2>3. QED
    BY <1>2, <2>1, <2>2
<1>4. OffFirst'
  <2> SUFFICES ASSUME NEW i \in 1 .. Len(steps'), TurnsOn(steps'[i])
               PROVE  /\ \A o \in Group[steps'[i].s] \ {steps'[i].s} : state[o] = "on" =>
                             \E j \in 1 .. i - 1 : steps'[j] = Write(o, "off")
                      /\ \A j \in 1 .. i - 1 : steps'[j].op = "write" /\ steps'[j].p = "on" =>
                             steps'[i].op = "again" /\ steps'[j].s = steps'[i].s
    BY <1>2 DEF OffFirst, TurnsOn
  <2>1. steps'[i].s = s /\ p = "on" /\ (i = Len(q) \/ (i > Len(q) /\ steps'[i].op = "again"))
    <3>1. CASE i <= Len(q)
      BY <1>1, <1>2, <3>1 DEF TurnsOn
    <3>2. CASE i > Len(q)
      BY <1>2, <3>2 DEF TurnsOn, Again
    <3>3. QED
      BY <1>2, <3>1, <3>2
  <2>2. ASSUME NEW o \in Group[s] \ {s}, state[o] = "on"
        PROVE  \E j \in 1 .. i - 1 : steps'[j] = Write(o, "off")
    <3>1. o \in Rivals(s)
      BY <2>2 DEF Rivals
    <3>2. PICK j \in DOMAIN q : q[j] = Write(o, "off")
      BY <1>1, <2>1, <3>1
    <3>3. steps'[j] = Write(o, "off") /\ j \in 1 .. Len(q)
      BY <1>2, <3>2
    <3>4. j # i
      BY <2>1, <3>3 DEF TurnsOn, Write
    <3>5. QED
      BY <1>2, <2>1, <3>3, <3>4
  <2>3. ASSUME NEW j \in 1 .. i - 1, steps'[j].op = "write", steps'[j].p = "on"
        PROVE  steps'[i].op = "again" /\ steps'[j].s = s
    <3>1. j \in 1 .. Len(q) /\ steps'[j] = q[j]
      BY <1>2, <2>1, <2>3 DEF Again
    <3>2. j = Len(q) /\ q[j].s = s
      BY <1>1, <2>3, <3>1
    <3>3. QED
      BY <2>1, <3>1, <3>2
  <2>4. QED
    BY <2>1, <2>2, <2>3
<1>5. p = "off" \/ Rivals(s) = {} =>
        \E i \in DOMAIN steps' : steps'[i].op \in {"write", "again"} /\ steps'[i].s = s
  <2>1. ASSUME q = <<Write(s, p)>> PROVE 1 \in DOMAIN steps' /\ steps'[1] = Write(s, p)
    BY <1>2, <2>1
  <2>2. QED
    BY <1>1, <2>1 DEF Write
<1>6. then # <<>> =>
        \E i \in DOMAIN steps' : steps'[i].op \in {"write", "again"} /\ steps'[i].s = s
  <2>1. ASSUME then # <<>> PROVE Len(steps') \in DOMAIN steps' /\ steps'[Len(steps')] = Again(s, p)
    BY <1>0, <1>2, <2>1
  <2>2. QED
    BY <2>1 DEF Again
<1>7. QED
  BY <1>2, <1>3, <1>4, <1>5, <1>6

-----------------------------------------------------------------------------
(***************************************************************************)
(* A step of the call is done: it goes, or a save comes in its place.      *)
(***************************************************************************)
Shift(d) ==
    /\ d \in {0, 1} /\ steps \in Seq(Action) /\ steps # <<>>
    /\ steps' \in Seq(Action) /\ Len(steps') = Len(steps) - d
    /\ \A k \in 2 .. Len(steps) : steps'[k - d] = steps[k]
    /\ d = 0 => steps'[1] = Save(steps[1].s)

LEMMA Shifted ==
    ASSUME NEW d, Shift(d), NEW i \in 1 .. Len(steps')
    PROVE  \/ d = 0 /\ i = 1 /\ steps'[i] = Save(steps[1].s)
           \/ i + d \in 2 .. Len(steps) /\ steps'[i] = steps[i + d]
<1>1. Len(steps) \in Nat /\ Len(steps') \in Nat /\ i \in Nat /\ Len(steps') = Len(steps) - d
  BY DEF Shift
<1>2. CASE d = 0 /\ i = 1
  BY <1>2 DEF Shift
<1>3. CASE ~(d = 0 /\ i = 1)
  <2>1. i + d \in 2 .. Len(steps) /\ (i + d) - d = i
    BY <1>1, <1>3 DEF Shift
  <2>2. QED
    BY <2>1 DEF Shift
<1>4. QED
  BY <1>2, <1>3

\* What was there after the first step still is.
LEMMA ShiftKeeps ==
    ASSUME NEW d, Shift(d), NEW k \in 2 .. Len(steps)
    PROVE  k - d \in 1 .. Len(steps') /\ steps'[k - d] = steps[k]
BY DEF Shift

LEMMA ShiftFits ==
    ASSUME NEW d, Shift(d), StepsFit, UNCHANGED <<there, prefs>>,
           \A o \in Switch : shown[o] # "none" => shown'[o] # "none",
           d = 0 => shown'[steps[1].s] # "none" /\ prefs[steps[1].s] # 0
    PROVE  StepsFit'
<1>0. steps \in Seq(Action) /\ steps' \in Seq(Action) /\ Len(steps') = Len(steps) - d
      /\ d \in {0, 1} /\ 1 \in 1 .. Len(steps)
  BY DEF Shift
<1>1. \A i \in 1 .. Len(steps) : steps[i].s \in Switch
  BY <1>0, ActionAt
<1> SUFFICES ASSUME NEW i \in 1 .. Len(steps')
             PROVE  /\ steps'[i].s \in there
                    /\ steps'[i].op = "again" => i = Len(steps')
                    /\ steps'[i].op = "save" => shown'[steps'[i].s] # "none" /\ prefs[steps'[i].s] # 0
  BY <1>0 DEF StepsFit
<1>2. CASE d = 0 /\ i = 1 /\ steps'[i] = Save(steps[1].s)
  BY <1>0, <1>2 DEF Save, StepsFit
<1>3. CASE i + d \in 2 .. Len(steps) /\ steps'[i] = steps[i + d]
  <2>1. i + d \in 1 .. Len(steps) /\ (i + d = Len(steps) => i = Len(steps'))
    BY <1>0, <1>3
  <2>2. QED
    BY <1>0, <1>1, <1>3, <2>1 DEF StepsFit
<1>4. QED
  BY <1>2, <1>3, Shifted

\* Nobody is turned on before its rivals are off.
LEMMA ShiftOffFirst ==
    ASSUME NEW d, Shift(d), OffFirst, StepsFit, steps[1].op # "again",
           \/ state' = state /\ steps[1].op # "write"
           \/ /\ steps[1].op = "write" /\ state \in [Switch -> Position]
              /\ state' = [state EXCEPT ![steps[1].s] = steps[1].p]
    PROVE  OffFirst'
<1>0. steps \in Seq(Action) /\ steps' \in Seq(Action) /\ Len(steps') = Len(steps) - d
      /\ d \in {0, 1} /\ 1 \in 1 .. Len(steps)
  BY DEF Shift
<1>1. \A k \in 1 .. Len(steps) : steps[k].s \in Switch
  BY <1>0, ActionAt
<1> SUFFICES ASSUME NEW i \in 1 .. Len(steps'), TurnsOn(steps'[i])
             PROVE  /\ \A o \in Group[steps'[i].s] \ {steps'[i].s} : state'[o] = "on" =>
                           \E j \in 1 .. i - 1 : steps'[j] = Write(o, "off")
                    /\ \A j \in 1 .. i - 1 : steps'[j].op = "write" /\ steps'[j].p = "on" =>
                           steps'[i].op = "again" /\ steps'[j].s = steps'[i].s
  BY <1>0 DEF OffFirst, TurnsOn
<1> DEFINE k == i + d
           s == steps[k].s
<1>2. k \in 2 .. Len(steps) /\ steps'[i] = steps[k] /\ i \in Nat /\ k \in 1 .. Len(steps)
  BY <1>0, Shifted DEF TurnsOn, Save
<1>3. /\ \A o \in Group[s] \ {s} : state[o] = "on" =>
            \E j \in 1 .. k - 1 : steps[j] = Write(o, "off")
      /\ \A j \in 1 .. k - 1 : steps[j].op = "write" /\ steps[j].p = "on" =>
            steps[k].op = "again" /\ steps[j].s = s
  BY <1>0, <1>2 DEF OffFirst
<1> HIDE DEF k
<1>4. ASSUME NEW o \in Group[s] \ {s}, state'[o] = "on"
      PROVE  \E j \in 1 .. i - 1 : steps'[j] = Write(o, "off")
  <2>1. s \in Switch /\ o \in Switch
    BY <1>1, <1>2, <1>4, Names
  <2>2. state[o] = "on" /\ (steps[1].op = "write" => steps[1] # Write(o, "off"))
    <3>1. CASE state' = state /\ steps[1].op # "write"
      BY <1>4, <3>1
    <3>2. CASE steps[1].op = "write" /\ state' = [state EXCEPT ![steps[1].s] = steps[1].p]
               /\ state \in [Switch -> Position]
      <4>1. CASE steps[1].s # o
        BY <1>1, <1>4, <2>1, <3>2, <4>1 DEF Write
      <4>2. CASE steps[1].s = o
        <5>1. steps[1].p = "on"
          BY <1>0, <1>1, <1>4, <2>1, <3>2, <4>2
        <5>2. 1 \in 1 .. k - 1
          BY <1>2
        <5>3. o = s
          BY <1>3, <3>2, <4>2, <5>1, <5>2
        <5>4. QED
          BY <1>4, <5>3
      <4>3. QED
        BY <4>1, <4>2
    <3>3. QED
      BY <3>1, <3>2
  <2>3. PICK j \in 1 .. k - 1 : steps[j] = Write(o, "off")
    BY <1>3, <1>4, <2>2
  <2>4. j # 1
    BY <2>2, <2>3 DEF Write
  <2>5. j \in 2 .. Len(steps) /\ j - d \in 1 .. i - 1
    BY <1>0, <1>2, <2>3, <2>4, ShiftKeeps DEF k
  <2>6. steps'[j - d] = Write(o, "off")
    BY <2>3, <2>5, ShiftKeeps
  <2>7. QED
    BY <2>5, <2>6
<1>5. ASSUME NEW j \in 1 .. i - 1, steps'[j].op = "write", steps'[j].p = "on"
      PROVE  steps[k].op = "again" /\ steps'[j].s = s
  <2>1. j + d \in 2 .. Len(steps) /\ steps'[j] = steps[j + d]
    BY <1>0, <1>5, Shifted DEF Save
  <2>2. j + d \in 1 .. k - 1
    BY <1>0, <1>2, <2>1 DEF k
  <2>3. QED
    BY <1>3, <1>5, <2>1, <2>2
<1>6. QED
  BY <1>2, <1>4, <1>5

-----------------------------------------------------------------------------
(***************************************************************************)
(* What depends on little.                                                 *)
(***************************************************************************)
LEMMA NumberedSame ==
    ASSUME Numbered, UNCHANGED <<power, prefs, offset, image>> PROVE Numbered'
BY DEF Numbered, Made, KeyOf, UpTo

LEMMA OrderSame ==
    ASSUME SetUpOrder, UNCHANGED <<power, todo, image, safe, there, prefs>>,
           \A s \in there : shown'[s] = "none" => shown[s] = "none"
    PROVE  SetUpOrder'
<1>1. Order' = Order /\ Done' = Done
  BY DEF Order, Done
<1>2. QED
  BY <1>1 DEF SetUpOrder

LEMMA FreshOn == ASSUME power' = "on" PROVE Fresh'
BY DEF Fresh

LEMMA StoredSame == ASSUME UNCHANGED <<nvs, image>>, NEW s PROVE Stored(s)' = Stored(s)
BY DEF Stored, load, load_valid, KeyOf, UpTo

LEMMA OnceSame == ASSUME OnceKept, UNCHANGED <<nvs, once>> PROVE OnceKept'
BY DEF OnceKept

-----------------------------------------------------------------------------
(***************************************************************************)
(* The steps of a call.                                                    *)
(***************************************************************************)
LEMMA DoWriteIs ==
    ASSUME SwitchTypes, StepsFit, DoWrite
    PROVE  LET s == steps[1].s
               p == steps[1].p
           IN  /\ s \in there /\ s \in Switch /\ p \in Position
               /\ level' = [level EXCEPT ![s] = Raw(s, p)]
               /\ shown' = [shown EXCEPT ![s] = p] /\ state' = [state EXCEPT ![s] = p]
               /\ \E d \in {0, 1} : /\ Shift(d)
                                    /\ d = 0 <=> shown[s] # p /\ prefs[s] # 0
<1> DEFINE s == steps[1].s
           p == steps[1].p
           e == IF shown[s] # p /\ prefs[s] # 0 THEN <<Save(s)>> ELSE <<>>
<1>1. steps \in Seq(Action) /\ steps # <<>> /\ 1 \in 1 .. Len(steps)
  BY DEF DoWrite, SwitchTypes
<1>2. s \in there /\ s \in Switch /\ p \in Position
  BY <1>1, ActionAt DEF StepsFit
<1>3. steps' = e \o Tail(steps)
  BY DEF DoWrite
<1>4. Save(s) \in Action
  BY <1>2 DEF Save, Action, Position
<1>5. Tail(steps) \in Seq(Action) /\ Len(Tail(steps)) = Len(steps) - 1
      /\ \A i \in 1 .. Len(steps) - 1 : Tail(steps)[i] = steps[i + 1]
  BY <1>1
<1> HIDE DEF s, p
<1>6. CASE shown[s] # p /\ prefs[s] # 0
  <2>1. steps' = <<Save(s)>> \o Tail(steps)
    BY <1>3, <1>6
  <2>2. steps' \in Seq(Action) /\ Len(steps') = Len(steps) /\ steps'[1] = Save(s)
        /\ \A k \in 2 .. Len(steps) : steps'[k] = Tail(steps)[k - 1]
    BY <1>1, <1>4, <1>5, <2>1
  <2>3. \A k \in 2 .. Len(steps) : steps'[k - 0] = steps[k]
    BY <1>1, <1>5, <2>2
  <2>4. Shift(0)
    BY <1>1, <2>2, <2>3 DEF Shift, s
  <2>5. QED
    BY <1>2, <1>6, <2>4 DEF DoWrite, s, p
<1>7. CASE ~(shown[s] # p /\ prefs[s] # 0)
  <2>0. \A t \in Seq(Action) : <<>> \o t = t
    OBVIOUS
  <2>1. steps' = Tail(steps)
    <3>1. e = <<>>
      BY <1>7
    <3>2. QED
      BY <1>3, <1>5, <2>0, <3>1
  <2>2. Shift(1)
    BY <1>1, <1>5, <2>1 DEF Shift
  <2>3. QED
    BY <1>2, <1>7, <2>2 DEF DoWrite, s, p
<1>8. QED
  BY <1>6, <1>7

LEMMA WriteInv ==
    ASSUME CallInv, power = "on", DoWrite, UNCHANGED <<power, image, safe, todo, once>>
    PROVE  CallInv'
<1> DEFINE s == steps[1].s
           p == steps[1].p
<1>1. SwitchTypes /\ StepsFit /\ OffFirst /\ Exclusive /\ Agree /\ Waits
  BY DEF CallInv, SwitchInv
<1>2. steps[1].op = "write" /\ UNCHANGED <<nvs, prefs, offset, there, timer, asked, unsaved>>
  BY DEF DoWrite
<1>3. s \in there /\ s \in Switch /\ p \in Position
      /\ level' = [level EXCEPT ![s] = Raw(s, p)]
      /\ shown' = [shown EXCEPT ![s] = p] /\ state' = [state EXCEPT ![s] = p]
  BY <1>1, DoWriteIs
<1>4. PICK d \in {0, 1} : Shift(d) /\ (d = 0 <=> shown[s] # p /\ prefs[s] # 0)
  BY <1>1, DoWriteIs
<1>5. /\ level \in [Switch -> Position \cup {"float"}] /\ state \in [Switch -> Position]
      /\ shown \in [Switch -> Position \cup {"none"}] /\ steps \in Seq(Action)
      /\ steps' \in Seq(Action) /\ 1 \in DOMAIN steps
      /\ Len(steps') = Len(steps) - d
  BY <1>1, <1>4 DEF SwitchTypes, Shift
<1> HIDE DEF s, p
<1>6. p # "none" /\ (p = "on" \/ p = "off")
  BY <1>3 DEF Position
<1>7. \A o \in Switch : shown[o] # "none" => shown'[o] # "none"
  BY <1>3, <1>5, <1>6
<1>8. SwitchTypes'
  BY <1>1, <1>2, <1>3, <1>5, Positions DEF SwitchTypes
<1>9. StepsFit'
  BY <1>1, <1>2, <1>3, <1>4, <1>5, <1>6, <1>7, ShiftFits DEF s
<1>10. OffFirst'
  BY <1>1, <1>2, <1>3, <1>4, <1>5, ShiftOffFirst DEF s, p
<1>11. Agree'
  <2> SUFFICES ASSUME NEW o \in Switch
               PROVE  /\ level'[o] = Raw(o, "on") => state'[o] = "on"
                      /\ shown'[o] # "none" => shown'[o] = state'[o] /\ o \in there
                      /\ shown'[o] = "none" => state'[o] = "off"
                      /\ o \in there /\ shown'[o] = "none" =>
                            \E i \in DOMAIN steps' : steps'[i].op \in {"write", "again"}
                                                     /\ steps'[i].s = o
    BY <1>2 DEF Agree
  <2>1. CASE o = s
    BY <1>3, <1>5, <1>6, <2>1, Positions
  <2>2. CASE o # s
    <3>1. level'[o] = level[o] /\ shown'[o] = shown[o] /\ state'[o] = state[o]
      BY <1>3, <1>5, <2>2
    <3>2. ASSUME o \in there, shown[o] = "none"
          PROVE  \E i \in DOMAIN steps' : steps'[i].op \in {"write", "again"} /\ steps'[i].s = o
      <4>1. PICK i \in DOMAIN steps : steps[i].op \in {"write", "again"} /\ steps[i].s = o
        BY <1>1, <3>2 DEF Agree
      <4>2. i \in 2 .. Len(steps)
        BY <1>5, <2>2, <4>1 DEF s
      <4>3. QED
        BY <1>4, <1>5, <4>1, <4>2, ShiftKeeps
    <3>3. QED
      BY <1>1, <3>1, <3>2 DEF Agree
  <2>3. QED
    BY <2>1, <2>2
<1>12. Waits' /\ OnceKept' /\ Numbered'
  BY <1>1, <1>2, NumberedSame, OnceSame DEF Waits, CallInv, KeptInv
<1>13. SetUpOrder' /\ Fresh'
  BY <1>1, <1>2, <1>7, OrderSame, FreshOn DEF CallInv, SwitchTypes
<1>14. Kept'
  <2> SUFFICES ASSUME NEW o \in there \ unsaved, prefs[o] # 0, shown'[o] # "none"
               PROVE  \/ \E i \in DOMAIN steps' : steps'[i].op = "save" /\ steps'[i].s = o
                      \/ nvs[prefs[o]] = [words |-> 1, crc |-> o, data |-> state'[o]]
    BY <1>2 DEF Kept
  <2>0. o \in Switch
    BY <1>1 DEF SwitchTypes
  <2>1. CASE d = 0 /\ o = s
    <3>1. steps'[1] = Save(s) /\ 1 \in DOMAIN steps'
      BY <1>4, <1>5, <2>1 DEF Shift, s
    <3>2. QED
      BY <2>1, <3>1 DEF Save
  <2>2. CASE ~(d = 0 /\ o = s)
    <3>1. state'[o] = state[o] /\ shown[o] # "none"
      <4>1. CASE o = s
        BY <1>1, <1>3, <1>4, <1>5, <1>6, <2>0, <2>2, <4>1 DEF Agree
      <4>2. CASE o # s
        BY <1>3, <1>5, <2>0, <4>2
      <4>3. QED
        BY <4>1, <4>2
    <3>2. CASE nvs[prefs[o]] = [words |-> 1, crc |-> o, data |-> state[o]]
      BY <3>1, <3>2
    <3>3. CASE \E i \in DOMAIN steps : steps[i].op = "save" /\ steps[i].s = o
      <4>1. PICK i \in DOMAIN steps : steps[i].op = "save" /\ steps[i].s = o
        BY <3>3
      <4>2. i \in 2 .. Len(steps)
        BY <1>2, <1>5, <4>1
      <4>3. QED
        BY <1>4, <1>5, <4>1, <4>2, ShiftKeeps
    <3>4. QED
      BY <3>1, <3>2, <3>3 DEF CallInv, KeptInv, Kept
  <2>3. QED
    BY <2>1, <2>2
<1>15. BeginsRight'
  <2> SUFFICES ASSUME NEW i \in 1 .. Len(steps'), steps'[i].op \in {"write", "again"},
                      shown'[steps'[i].s] = "none"
               PROVE  steps'[i].p = Begins[steps'[i].s][Stored(steps'[i].s)]
    BY <1>2, <1>5, StoredSame DEF BeginsRight
  <2>1. i + d \in 2 .. Len(steps) /\ steps'[i] = steps[i + d]
    BY <1>4, Shifted DEF Save
  <2>2. steps'[i].s \in Switch
    BY <1>5, ActionAt
  <2>3. shown[steps'[i].s] = "none"
    BY <1>7, <2>2
  <2>4. QED
    BY <1>5, <2>1, <2>3 DEF CallInv, KeptInv, BeginsRight
<1>16. Exclusive'
  <2> SUFFICES ASSUME NEW o \in Switch, state'[o] = "on", NEW r \in Group[o] \ {o},
                      state'[r] = "on"
               PROVE  FALSE
    BY DEF Exclusive, Rivals
  <2>1. r \in Switch /\ o \in Group[r]
    BY Names
  <2>2. p = "on" => \A x \in Group[s] \ {s} : state[x] # "on"
    BY <1>1, <1>2, <1>5 DEF OffFirst, TurnsOn, s, p
  <2>3. CASE s \notin {o, r}
    BY <1>1, <1>3, <1>5, <2>1, <2>3 DEF Exclusive, Rivals
  <2>4. CASE s \in {o, r}
    BY <1>3, <1>5, <2>1, <2>2, <2>4
  <2>5. QED
    BY <2>3, <2>4
<1>17. QED
  BY <1>8, <1>9, <1>10, <1>11, <1>12, <1>13, <1>14, <1>15, <1>16 DEF CallInv, SwitchInv, KeptInv

LEMMA SaveIs ==
    ASSUME SwitchTypes, StepsFit, NEW mayFail, DoSave(image, mayFail)
    PROVE  LET s == steps[1].s
           IN  /\ s \in there /\ s \in Switch /\ shown[s] # "none" /\ prefs[s] # 0
               /\ Shift(1)
               /\ \/ /\ nvs' = [nvs EXCEPT ![prefs[s]] = [words |-> 1, crc |-> s, data |-> state[s]]]
                     /\ unsaved' = unsaved \ {s}
                  \/ nvs' = nvs /\ unsaved' = unsaved \cup {s}
<1> DEFINE s == steps[1].s
<1>1. steps \in Seq(Action) /\ steps # <<>> /\ 1 \in 1 .. Len(steps) /\ steps[1].op = "save"
  BY DEF DoSave, SwitchTypes
<1>2. s \in there /\ s \in Switch /\ shown[s] # "none" /\ prefs[s] # 0
  BY <1>1, ActionAt DEF StepsFit
<1>3. steps' = Tail(steps)
  BY DEF DoSave
<1>4. Shift(1)
  BY <1>1, <1>3 DEF Shift
<1>5. Words(s) = 1 /\ Type(s, image) = s
  BY <1>2, Names DEF Words, Type
<1>6. \/ nvs' = Saved(s, image, state[s]) /\ unsaved' = unsaved \ {s}
      \/ nvs' = nvs /\ unsaved' = unsaved \cup {s}
  BY DEF DoSave
<1> HIDE DEF s
<1>7. \/ /\ nvs' = [nvs EXCEPT ![prefs[s]] = [words |-> 1, crc |-> s, data |-> state[s]]]
         /\ unsaved' = unsaved \ {s}
      \/ nvs' = nvs /\ unsaved' = unsaved \cup {s}
  BY <1>5, <1>6 DEF Saved
<1>8. QED
  BY <1>2, <1>4, <1>7 DEF s

\* What is saved of one switch is no other's; what was ever saved of each is known.
Remembers == once' = [s \in Switch |-> once[s] \cup {nvs'[k].data : k \in {k \in Keys : nvs'[k].crc = s}}]

LEMMA OnceGrows == ASSUME once \in [Switch -> SUBSET Position], Remembers, OnceKept,
                          \A k \in Keys : nvs'[k].crc \in Switch => nvs'[k].data \in Position
                   PROVE  OnceKept' /\ once' \in [Switch -> SUBSET Position]
<1>1. once' \in [Switch -> SUBSET Position]
  BY DEF Remembers
<1>2. ASSUME NEW k \in Keys, nvs'[k].crc \in Switch PROVE nvs'[k].data \in once'[nvs'[k].crc]
  BY <1>2 DEF Remembers
<1>3. QED
  BY <1>1, <1>2 DEF OnceKept, Keys

LEMMA OnceStays == ASSUME once \in [Switch -> SUBSET Position], Remembers, OnceKept, nvs' = nvs
                   PROVE  once' = once
<1>1. \A s \in Switch : {nvs[k].data : k \in {k \in Keys : nvs[k].crc = s}} \subseteq once[s]
  BY DEF OnceKept
<1>2. \A s \in Switch :
         once[s] \cup {nvs[k].data : k \in {k \in Keys : nvs[k].crc = s}} = once[s]
  BY <1>1
<1>3. once' = [s \in Switch |-> once[s]]
  BY <1>2 DEF Remembers
<1>4. QED
  BY <1>3

LEMMA BlobData == ASSUME NEW b \in Blob, b.crc \in Switch
                  PROVE  b.data \in Position /\ b.words = 1
<1>1. b # NoBlob /\ b \notin [words : {25}, crc : Image, data : {"set"}]
  BY Names DEF NoBlob
<1>2. QED
  BY <1>1 DEF Blob

-----------------------------------------------------------------------------
(***************************************************************************)
(* The keys: each switch that a firmware sets up has one of its own.       *)
(***************************************************************************)
LEMMA KeyRange ==
    ASSUME NEW s \in Switch
    PROVE  /\ UpTo(s) \subseteq Switch /\ IsFiniteSet(UpTo(s)) /\ Cardinality(UpTo(s)) \in Nat
           /\ KeyOf(s) \in 0 .. Cardinality(Switch)
           /\ KeyOf(s) # 0 => KeyOf(s) \in Keys
<1>1. UpTo(s) \subseteq Switch
  BY DEF UpTo
<1>2. IsFiniteSet(UpTo(s)) /\ Cardinality(UpTo(s)) <= Cardinality(Switch)
      /\ Cardinality(UpTo(s)) \in Nat
  BY <1>1, Names, FS_Subset, FS_CardinalityType
<1>3. KeyOf(s) \in 0 .. Cardinality(Switch)
  BY <1>2, Names DEF KeyOf
<1>4. QED
  BY <1>1, <1>2, <1>3, Names DEF Keys

LEMMA Layouts ==
    ASSUME image \in Image
    PROVE  /\ Layout[image] \in Seq(Switch)
           /\ \A i, j \in 1 .. Len(Layout[image]) : Layout[image][i] = Layout[image][j] => i = j
<1>1. Layout[image] \in Seq(Switch)
  BY PreferencesAssumption
<1>2. QED
  BY <1>1, PreferencesAssumption

LEMMA KeyGrows ==
    ASSUME image \in Image, NEW i \in 1 .. Len(Layout[image]), NEW j \in 1 .. i - 1,
           Restores(Layout[image][i])
    PROVE  Cardinality(UpTo(Layout[image][j])) < Cardinality(UpTo(Layout[image][i]))
<1> DEFINE L == Layout[image]
           s == L[j]
           x == L[i]
<1>1. L \in Seq(Switch) /\ DOMAIN L = 1 .. Len(L) /\ s \in Switch /\ x \in Switch
      /\ Len(L) \in Nat /\ j \in 1 .. Len(L) /\ i \in 1 .. Len(L)
  BY Layouts
<1>2. \A k, m \in 1 .. Len(L) : L[k] = L[m] => k = m
  BY Layouts
<1> HIDE DEF L
<1>3. UpTo(s) = {o \in Switch : Restores(o) /\ \E k \in 1 .. j : L[k] = o}
  BY <1>1, <1>2 DEF UpTo, L
<1>4. UpTo(x) = {o \in Switch : Restores(o) /\ \E k \in 1 .. i : L[k] = o}
  BY <1>1, <1>2 DEF UpTo, L
<1>5. UpTo(s) \subseteq UpTo(x) /\ x \in UpTo(x)
  BY <1>1, <1>3, <1>4 DEF L
<1>6. x \notin UpTo(s)
  <2>1. ASSUME NEW k \in 1 .. j, L[k] = L[i] PROVE FALSE
    <3>1. k \in 1 .. Len(L) /\ k # i
      BY <1>1
    <3>2. QED
      BY <1>1, <1>2, <2>1, <3>1
  <2>2. QED
    BY <1>3, <2>1
<1> HIDE DEF s, x
<1>7. /\ IsFiniteSet(UpTo(x)) /\ Cardinality(UpTo(x)) \in Nat /\ Cardinality(UpTo(s)) \in Nat
  BY <1>1, KeyRange
<1>8. Cardinality(UpTo(s)) < Cardinality(UpTo(x))
  BY <1>5, <1>6, <1>7, FS_Subset
<1>9. QED
  BY <1>8 DEF s, x, L

LEMMA KeysDiffer ==
    ASSUME image \in Image, NEW s \in Switch, NEW x \in Switch, s # x, KeyOf(s) # 0
    PROVE  KeyOf(x) # KeyOf(s)
<1> DEFINE L == Layout[image]
<1>1. L \in Seq(Switch) /\ DOMAIN L = 1 .. Len(L) /\ Len(L) \in Nat
  BY Layouts
<1>2. SUFFICES ASSUME KeyOf(x) # 0, Restores(s), Restores(x) PROVE KeyOf(x) # KeyOf(s)
  BY DEF KeyOf
<1>3. UpTo(s) # {} /\ UpTo(x) # {}
  BY <1>2, FS_EmptySet DEF KeyOf
<1>4. PICK i \in 1 .. Len(L), j \in 1 .. Len(L) : L[i] = s /\ L[j] = x
  BY <1>1, <1>3 DEF UpTo
<1>5. Cardinality(UpTo(s)) \in Nat /\ Cardinality(UpTo(x)) \in Nat
  BY KeyRange
<1>6. CASE i < j
  <2>1. Cardinality(UpTo(L[i])) < Cardinality(UpTo(L[j]))
    BY <1>2, <1>4, <1>6, KeyGrows
  <2>2. QED
    BY <1>2, <1>4, <1>5, <2>1 DEF KeyOf
<1>7. CASE j < i
  <2>1. Cardinality(UpTo(L[j])) < Cardinality(UpTo(L[i]))
    BY <1>2, <1>4, <1>7, KeyGrows
  <2>2. QED
    BY <1>2, <1>4, <1>5, <2>1 DEF KeyOf
<1>8. QED
  BY <1>4, <1>6, <1>7

\* A save changes what is kept of its switch, and of no other.
LEMMA StoredKeeps ==
    ASSUME nvs \in [Keys -> Blob], image \in Image, image' = image, NEW s \in Switch,
           KeyOf(s) # 0, NEW p \in Position,
           nvs' = [nvs EXCEPT ![KeyOf(s)] = [words |-> 1, crc |-> s, data |-> p]],
           NEW x \in Switch
    PROVE  Stored(x)' = IF x = s THEN p ELSE Stored(x)
<1>1. KeyOf(x)' = KeyOf(x)
  BY DEF KeyOf, UpTo
<1>2. KeyOf(s) \in Keys /\ (KeyOf(x) # 0 => KeyOf(x) \in Keys)
  BY KeyRange
<1>3. nvs'[KeyOf(s)] = [words |-> 1, crc |-> s, data |-> p]
  BY <1>2
<1>4. Words(x) = 1 /\ Type(x, image) = x
  BY Names DEF Words, Type
<1>5. CASE x = s
  <2>1. nvs'[KeyOf(s)].words = 1 /\ nvs'[KeyOf(s)].crc = s /\ nvs'[KeyOf(s)].data = p
    BY <1>3
  <2>2. load(x, image, KeyOf(x))' = p
    BY <1>1, <1>4, <1>5, <2>1 DEF load, load_valid
  <2>3. QED
    BY <1>5, <2>2 DEF Stored, Position
<1>6. CASE x # s
  <2>1. KeyOf(x) # 0 => KeyOf(x) # KeyOf(s) /\ nvs'[KeyOf(x)] = nvs[KeyOf(x)]
    BY <1>2, <1>6, KeysDiffer
  <2>2. QED
    BY <1>1, <1>6, <2>1 DEF Stored, load, load_valid
<1>7. QED
  BY <1>5, <1>6

LEMMA StoredType ==
    ASSUME nvs \in [Keys -> Blob], NEW s \in Switch
    PROVE  /\ load(s, image, KeyOf(s)) \in Position \cup {"none"}
           /\ Stored(s) \in Position \cup {"absent"}
<1> DEFINE k == KeyOf(s)
<1>1. CASE k # 0 /\ nvs[k].words = 1 /\ nvs[k].crc = s
  <2>1. nvs[k].data \in Position
    <3>1. nvs[k] \in Blob
      BY <1>1, KeyRange
    <3>2. QED
      BY <1>1, <3>1, BlobData
  <2>2. QED
    BY <2>1 DEF Stored, load, Position
<1>2. CASE ~(k # 0 /\ nvs[k].words = 1 /\ nvs[k].crc = s)
  BY <1>2, Names DEF Stored, load, load_valid, Words, Type
<1>3. QED
  BY <1>1, <1>2

-----------------------------------------------------------------------------
LEMMA SaveInv ==
    ASSUME CallInv, LifeTypes, power = "on", NEW mayFail, DoSave(image, mayFail), Remembers,
           UNCHANGED <<power, image, safe, todo>>
    PROVE  CallInv' /\ once' \in [Switch -> SUBSET Position]
<1> DEFINE s == steps[1].s
           blob == [words |-> 1, crc |-> s, data |-> state[s]]
<1>1. SwitchTypes /\ StepsFit /\ OffFirst /\ Exclusive /\ Agree /\ Waits
  BY DEF CallInv, SwitchInv
<1>2. steps[1].op = "save" /\ UNCHANGED <<prefs, offset, there, level, state, shown, timer, asked>>
  BY DEF DoSave
<1>3. /\ s \in there /\ s \in Switch /\ shown[s] # "none" /\ prefs[s] # 0 /\ Shift(1)
      /\ \/ nvs' = [nvs EXCEPT ![prefs[s]] = blob] /\ unsaved' = unsaved \ {s}
         \/ nvs' = nvs /\ unsaved' = unsaved \cup {s}
  BY <1>1, SaveIs
<1>4. /\ nvs \in [Keys -> Blob] /\ prefs \in [Switch \cup {"wifi"} -> Keys \cup {0}]
      /\ state \in [Switch -> Position] /\ unsaved \subseteq Switch /\ there \subseteq Switch
      /\ steps \in Seq(Action) /\ steps' \in Seq(Action) /\ Len(steps') = Len(steps) - 1
      /\ Len(steps) \in Nat /\ 1 \in DOMAIN steps
      /\ once \in [Switch -> SUBSET Position] /\ image \in Image
  BY <1>1, <1>3 DEF SwitchTypes, Shift, LifeTypes
<1>5. prefs[s] \in Keys /\ prefs[s] = KeyOf(s) /\ state[s] \in Position
  BY <1>3, <1>4 DEF CallInv, Numbered
<1> HIDE DEF s
<1>6. blob \in Blob
  BY <1>3, <1>5 DEF Blob
<1> HIDE DEF blob
<1>7. nvs' \in [Keys -> Blob] /\ unsaved' \subseteq Switch
  BY <1>3, <1>4, <1>5, <1>6
<1>8. SwitchTypes'
  BY <1>1, <1>2, <1>4, <1>7 DEF SwitchTypes
<1>9. StepsFit'
  BY <1>1, <1>2, <1>3, ShiftFits
<1>10. OffFirst'
  BY <1>1, <1>2, <1>3, ShiftOffFirst
<1>11. Agree'
  <2> SUFFICES ASSUME NEW o \in Switch, o \in there, shown[o] = "none"
               PROVE  \E i \in DOMAIN steps' : steps'[i].op \in {"write", "again"}
                                               /\ steps'[i].s = o
    BY <1>1, <1>2 DEF Agree
  <2>1. PICK i \in DOMAIN steps : steps[i].op \in {"write", "again"} /\ steps[i].s = o
    BY <1>1 DEF Agree
  <2>2. i \in 2 .. Len(steps)
    BY <1>2, <1>4, <2>1
  <2>3. QED
    BY <1>3, <1>4, <2>1, <2>2, ShiftKeeps
<1>12. Waits' /\ Exclusive' /\ Numbered' /\ SetUpOrder' /\ Fresh'
  BY <1>1, <1>2, NumberedSame, OrderSame, FreshOn DEF Waits, Exclusive, Rivals, CallInv
<1>13. OnceKept' /\ once' \in [Switch -> SUBSET Position]
  <2>0. \A k \in Keys : nvs'[k] \in Blob
    BY <1>7
  <2>1. \A k \in Keys : nvs'[k].crc \in Switch => nvs'[k].data \in Position
    BY <2>0, BlobData
  <2>2. QED
    BY <1>4, <2>1, OnceGrows DEF CallInv, KeptInv
<1>14. Kept'
  <2> SUFFICES ASSUME NEW o \in there \ unsaved', prefs[o] # 0, shown[o] # "none"
               PROVE  \/ \E i \in DOMAIN steps' : steps'[i].op = "save" /\ steps'[i].s = o
                      \/ nvs'[prefs[o]] = [words |-> 1, crc |-> o, data |-> state[o]]
    BY <1>2 DEF Kept
  <2>0. o \in Switch
    BY <1>4
  <2>1. CASE o = s
    BY <1>3, <1>4, <1>5, <2>1 DEF blob
  <2>2. CASE o # s
    <3>1. o \in there \ unsaved
      BY <1>3, <2>2
    <3>2. CASE nvs[prefs[o]] = [words |-> 1, crc |-> o, data |-> state[o]]
      <4>1. prefs[o] # prefs[s]
        BY <1>3, <2>0, <2>2 DEF CallInv, Numbered, Made
      <4>2. nvs'[prefs[o]] = nvs[prefs[o]]
        BY <1>3, <1>4, <2>0, <4>1
      <4>3. QED
        BY <3>2, <4>2
    <3>3. CASE \E i \in DOMAIN steps : steps[i].op = "save" /\ steps[i].s = o
      <4>1. PICK i \in DOMAIN steps : steps[i].op = "save" /\ steps[i].s = o
        BY <3>3
      <4>2. i \in 2 .. Len(steps)
        BY <1>4, <2>2, <4>1 DEF s
      <4>3. QED
        BY <1>3, <1>4, <4>1, <4>2, ShiftKeeps
    <3>4. QED
      BY <3>1, <3>2, <3>3 DEF CallInv, KeptInv, Kept
  <2>3. QED
    BY <2>1, <2>2
<1>15. BeginsRight'
  <2>1. ASSUME NEW x \in Switch, x # s PROVE Stored(x)' = Stored(x)
    <3>1. CASE nvs' = nvs
      BY <3>1, StoredSame
    <3>2. CASE nvs' = [nvs EXCEPT ![prefs[s]] = blob]
      <4>1. nvs' = [nvs EXCEPT ![KeyOf(s)] = [words |-> 1, crc |-> s, data |-> state[s]]]
        BY <1>5, <3>2 DEF blob
      <4>2. KeyOf(s) # 0
        BY <1>3, <1>5
      <4> DEFINE v == state[s]
      <4>3. v \in Position /\ nvs' = [nvs EXCEPT ![KeyOf(s)] = [words |-> 1, crc |-> s, data |-> v]]
        BY <1>5, <4>1
      <4> HIDE DEF v
      <4>4. QED
        BY <1>3, <1>4, <2>1, <4>2, <4>3, StoredKeeps
    <3>3. QED
      BY <1>3, <3>1, <3>2
  <2>6. shown' = shown
    BY <1>2
  <2>7. DOMAIN steps' = 1 .. Len(steps')
    BY <1>4
  <2> SUFFICES ASSUME NEW i \in 1 .. Len(steps'), steps'[i].op \in {"write", "again"},
                      NEW x, x = steps'[i].s, shown[x] = "none"
               PROVE  steps'[i].p = Begins[x][Stored(x)']
    BY <2>6, <2>7 DEF BeginsRight
  <2>2. i + 1 \in 2 .. Len(steps) /\ steps'[i] = steps[i + 1]
    BY <1>3, Shifted
  <2>3. x \in Switch /\ x # s
    BY <1>3, <1>4, ActionAt
  <2>4. steps'[i].p = Begins[x][Stored(x)]
    BY <1>4, <2>2 DEF CallInv, KeptInv, BeginsRight
  <2>5. QED
    BY <2>1, <2>3, <2>4
<1>16. QED
  BY <1>8, <1>9, <1>10, <1>11, <1>12, <1>13, <1>14, <1>15 DEF CallInv, SwitchInv, KeptInv

\* A call begins between two others, or is the second one of setup.
LEMMA BeginInv ==
    ASSUME CallInv, NEW s \in there, NEW p \in Position, NEW timers,
           timers \in [Switch -> 0 .. WaitTime \cup {NoTimer}],
           \A o \in Switch : timers[o] \in {timer[o], NoTimer},
           write_state(s, p, <<>>, timers),
           UNCHANGED <<nvs, prefs, offset, pinVars, power, image, safe, todo, once>>,
           power = "on",
           steps = <<>> \/ steps = <<Again(s, p)>>
    PROVE  CallInv'
<1>1. SwitchTypes /\ StepsFit /\ OffFirst /\ Exclusive /\ Agree /\ Waits
  BY DEF CallInv, SwitchInv
<1>2. UNCHANGED <<there, level, state, shown, unsaved>>
  BY DEF pinVars
<1>3. s \in Switch /\ there \subseteq Switch /\ state \in [Switch -> Position]
  BY <1>1 DEF SwitchTypes
<1>4. /\ steps' \in Seq(Action) /\ OffFirst'
      /\ \A i \in DOMAIN steps' :
            /\ steps'[i].s \in Rivals(s) \cup {s} /\ (steps'[i].s = s => steps'[i].p = p)
            /\ steps'[i].op # "save" /\ (steps'[i].op = "again" => i = Len(steps'))
      /\ p = "off" \/ Rivals(s) = {} =>
            \E i \in DOMAIN steps' : steps'[i].op \in {"write", "again"} /\ steps'[i].s = s
  BY <1>2, <1>3, CallBegins
<1>5. timer' \in [Switch -> 0 .. WaitTime \cup {NoTimer}] /\ asked' \in [Switch -> Position] /\ Waits'
  BY <1>1, <1>2, <1>3, WaitsAfter
<1>6. \A o \in Rivals(s) : o \in Switch /\ shown[o] # "none" /\ o \in there
  BY <1>1, <1>3, Names DEF Rivals, Agree
<1>7. SwitchTypes'
  BY <1>1, <1>2, <1>4, <1>5 DEF SwitchTypes
<1>8. StepsFit'
  BY <1>2, <1>4, <1>6 DEF StepsFit
<1>9. Exclusive'
  BY <1>1, <1>2 DEF Exclusive, Rivals
\* Nothing was left of the call before, or its second half, which has no rivals.
<1>10. steps = <<Again(s, p)>> =>
          1 \in DOMAIN steps /\ steps[1] = Again(s, p) /\ \A i \in DOMAIN steps : i = 1
  OBVIOUS
<1>11. \A i \in DOMAIN steps : steps[i] = Again(s, p)
  BY <1>10
<1>12. steps = <<Again(s, p)>> => p = "off" \/ Rivals(s) = {}
  <2> SUFFICES ASSUME steps = <<Again(s, p)>>, p # "off", NEW o \in Rivals(s) PROVE FALSE
    OBVIOUS
  <2>1. TurnsOn(steps[1]) /\ steps[1].s = s
    BY <1>10 DEF TurnsOn, Again, Position
  <2>2. \E j \in 1 .. 1 - 1 : steps[j] = Write(o, "off")
    BY <1>1, <1>10, <2>1 DEF OffFirst, Rivals
  <2>3. QED
    BY <2>2
<1>13. Agree'
  <2> SUFFICES ASSUME NEW o \in there, shown[o] = "none"
               PROVE  \E i \in DOMAIN steps' : steps'[i].op \in {"write", "again"} /\ steps'[i].s = o
    BY <1>1, <1>2, <1>3 DEF Agree
  <2>1. PICK i \in DOMAIN steps : steps[i].s = o
    BY <1>1, <1>3 DEF Agree
  <2>2. o = s /\ steps = <<Again(s, p)>>
    BY <1>11, <2>1 DEF Again
  <2>3. QED
    BY <1>4, <1>12, <2>2
<1>14. OnceKept' /\ Numbered' /\ SetUpOrder' /\ Fresh'
  BY <1>2, NumberedSame, OrderSame, OnceSame, FreshOn DEF CallInv, KeptInv
<1>15. Kept'
  <2>1. \A i \in DOMAIN steps : steps[i].op # "save"
    BY <1>11 DEF Again
  <2>2. QED
    BY <1>2, <2>1 DEF CallInv, KeptInv, Kept
<1>16. BeginsRight'
  <2> SUFFICES ASSUME NEW i \in DOMAIN steps', shown[steps'[i].s] = "none"
               PROVE  steps'[i].p = Begins[steps'[i].s][Stored(steps'[i].s)]
    BY <1>2, StoredSame DEF BeginsRight
  <2>1. steps'[i].s = s /\ steps'[i].p = p
    BY <1>4, <1>6
  <2>2. PICK j \in DOMAIN steps : steps[j].op \in {"write", "again"} /\ steps[j].s = s
    BY <1>1, <1>3, <2>1 DEF Agree
  <2>3. steps[j].p = p
    BY <1>11, <2>2 DEF Again
  <2>4. QED
    BY <2>1, <2>2, <2>3 DEF CallInv, KeptInv, BeginsRight
<1>17. QED
  BY <1>4, <1>5, <1>7, <1>8, <1>9, <1>13, <1>14, <1>15, <1>16 DEF CallInv, SwitchInv, KeptInv

LEMMA AgainIs ==
    ASSUME SwitchTypes, StepsFit, steps # <<>>, steps[1].op = "again"
    PROVE  /\ steps[1].s \in there /\ steps[1].p \in Position /\ Tail(steps) = <<>>
           /\ steps = <<Again(steps[1].s, steps[1].p)>>
<1>1. steps \in Seq(Action) /\ 1 \in 1 .. Len(steps) /\ Len(steps) \in Nat
  BY DEF SwitchTypes
<1>2. Len(steps) = 1
  <2>1. 1 \in DOMAIN steps
    BY <1>1
  <2>2. QED
    BY <2>1 DEF StepsFit
<1>3. steps[1] \in Action /\ steps[1].p \in Position
  BY <1>1, ActionAt
<1>4. steps[1] = Again(steps[1].s, steps[1].p)
  BY <1>3 DEF Action, Again
<1>5. Len(Tail(steps)) = 0 /\ Tail(steps) \in Seq(Action)
  BY <1>1, <1>2
<1>6. steps = <<steps[1]>> /\ Tail(steps) = <<>>
  <2>1. \A q \in Seq(Action) : Len(q) = 0 => q = <<>>
    OBVIOUS
  <2>2. \A q \in Seq(Action) : Len(q) = 1 => q = <<q[1]>>
    OBVIOUS
  <2>3. QED
    BY <1>1, <1>2, <1>5, <2>1, <2>2
<1>7. QED
  BY <1>1, <1>3, <1>4, <1>6 DEF StepsFit

LEMMA StepInv ==
    ASSUME CallInv, LifeTypes, Step
    PROVE  CallInv' /\ once' \in [Switch -> SUBSET Position]
<1>1. power = "on" /\ UNCHANGED <<power, image, safe, todo>> /\ Remembers
  BY DEF Step, Remembers
<1>2. SwitchTypes /\ StepsFit /\ OnceKept /\ once \in [Switch -> SUBSET Position]
  BY DEF CallInv, SwitchInv, KeptInv, LifeTypes
<1>3. nvs' = nvs => once' = once
  BY <1>1, <1>2, OnceStays
<1>4. CASE DoWrite
  <2>1. once' = once
    BY <1>3, <1>4 DEF DoWrite
  <2>2. QED
    BY <1>1, <1>2, <1>4, <2>1, WriteInv
<1>5. CASE DoSave(image, "refused" \in play.may)
  BY <1>1, <1>5, SaveInv
<1>6. CASE DoAgain
  <2>1. once' = once
    BY <1>3, <1>6 DEF DoAgain
  <2>2. steps # <<>> /\ steps[1].op = "again"
    BY <1>6 DEF DoAgain
  <2> DEFINE s == steps[1].s
             p == steps[1].p
  <2>3. s \in there /\ p \in Position /\ Tail(steps) = <<>> /\ steps = <<Again(s, p)>>
    BY <1>2, <2>2, AgainIs
  <2>4. write_state(s, p, Tail(steps), timer) /\ UNCHANGED <<nvs, prefs, offset, pinVars>>
    BY <1>6 DEF DoAgain
  <2> HIDE DEF s, p
  <2>5. write_state(s, p, <<>>, timer)
    BY <2>3, <2>4
  <2>6. timer \in [Switch -> 0 .. WaitTime \cup {NoTimer}]
    BY <1>2 DEF SwitchTypes
  <2>7. QED
    BY <1>1, <1>2, <2>1, <2>3, <2>4, <2>5, <2>6, BeginInv
<1>7. QED
  BY <1>4, <1>5, <1>6 DEF Step

\* Turning a switch, and the end of a wait.
LEMMA TurnInv == ASSUME CallInv, Turn PROVE CallInv'
<1>1. steps = <<>> /\ power = "on" /\ UNCHANGED <<power, image, safe, todo, once>>
  BY DEF Turn, Loops, Free, lifeVars
<1>2. PICK s \in Switch, p \in Position : turn(s, p)
  BY DEF Turn
<1>3. s \in there /\ write_state(s, p, <<>>, timer) /\ UNCHANGED <<nvs, prefs, offset, pinVars>>
  BY <1>2 DEF turn
<1>4. timer \in [Switch -> 0 .. WaitTime \cup {NoTimer}]
  BY DEF CallInv, SwitchInv, SwitchTypes
<1>5. QED
  BY <1>1, <1>3, <1>4, BeginInv

LEMMA TimeoutInv == ASSUME CallInv, Timeout PROVE CallInv'
<1>1. steps = <<>> /\ power = "on" /\ UNCHANGED <<power, image, safe, todo, once>>
  BY DEF Timeout, Loops, Free, lifeVars
<1>2. PICK s \in Switch : InterlockTimeout(s)
  BY DEF Timeout
<1> DEFINE timers == [timer EXCEPT ![s] = NoTimer]
<1>3. write_state(s, "on", <<>>, timers) /\ UNCHANGED <<nvs, prefs, offset, pinVars>> /\ timer[s] = 0
  BY <1>2 DEF InterlockTimeout
<1>4. timer \in [Switch -> 0 .. WaitTime \cup {NoTimer}]
  BY DEF CallInv, SwitchInv, SwitchTypes
<1>5. timers \in [Switch -> 0 .. WaitTime \cup {NoTimer}]
      /\ \A o \in Switch : timers[o] \in {timer[o], NoTimer}
  BY <1>4
<1>6. s \in there
  BY <1>3 DEF CallInv, SwitchInv, Waits, NoTimer
<1>7. "on" \in Position
  BY DEF Position
<1> HIDE DEF timers
<1>8. QED
  BY <1>1, <1>3, <1>5, <1>6, <1>7, BeginInv

-----------------------------------------------------------------------------
(***************************************************************************)
(* Setup goes on to the next component.                                    *)
(***************************************************************************)
LEMMA Orders ==
    ASSUME image \in Image
    PROVE  \E P \in Seq(Switch) :
              /\ P = (IF safe THEN <<>> ELSE Layout[image])
              /\ Order \in Seq(Switch \cup {"wifi", "ota"}) /\ Len(Order) = Len(P) + 2
              /\ \A i \in 1 .. Len(P) : Order[i] = P[i]
              /\ Order[Len(P) + 1] = "wifi" /\ Order[Len(P) + 2] = "ota"
              /\ \A i, j \in 1 .. Len(P) : P[i] = P[j] => i = j
<1> DEFINE P == IF safe THEN <<>> ELSE Layout[image]
           W == <<"wifi", "ota">>
<1>1. P \in Seq(Switch) /\ \A i, j \in 1 .. Len(P) : P[i] = P[j] => i = j
  BY Layouts
<1>2. Order = P \o W
  BY DEF Order, Components
<1> HIDE DEF P
<1>3. Len(P) \in Nat /\ P \in Seq(Switch \cup {"wifi", "ota"}) /\ \A i \in 1 .. Len(P) : P[i] \in Switch
  BY <1>1
<1> DEFINE T == Switch \cup {"wifi", "ota"}
<1>4. W \in Seq(T) /\ Len(W) = 2 /\ W[1] = "wifi" /\ W[2] = "ota"
  OBVIOUS
<1> HIDE DEF W, T
<1>5. /\ Order \in Seq(T) /\ Len(Order) = Len(P) + 2
      /\ \A i \in 1 .. Len(P) : Order[i] = P[i]
      /\ Order[Len(P) + 1] = W[1] /\ Order[Len(P) + 2] = W[2]
  <2>1. P \in Seq(T)
    BY <1>3 DEF T
  <2>2. \A u, v \in Seq(T) : /\ u \o v \in Seq(T) /\ Len(u \o v) = Len(u) + Len(v)
                             /\ \A i \in 1 .. Len(u) : (u \o v)[i] = u[i]
                             /\ \A i \in 1 .. Len(v) : (u \o v)[Len(u) + i] = v[i]
    OBVIOUS
  <2>3. 1 \in 1 .. Len(W) /\ 2 \in 1 .. Len(W)
    BY <1>4
  <2>4. /\ Order \in Seq(T) /\ Len(Order) = Len(P) + Len(W)
        /\ \A i \in 1 .. Len(P) : Order[i] = P[i]
        /\ \A i \in 1 .. Len(W) : Order[Len(P) + i] = W[i]
    BY <1>2, <1>4, <2>1, <2>2
  <2>5. QED
    BY <1>4, <2>3, <2>4
<1>6. QED
  BY <1>1, <1>4, <1>5 DEF P, T

LEMMA NextUp ==
    ASSUME SetUpOrder, power = "on", image \in Image, todo # <<>>
    PROVE  LET c == todo[1]
           IN  /\ c \in Switch \cup {"wifi", "ota"} /\ Len(todo) \in Nat /\ Len(todo) >= 1
               /\ c = Order[Done + 1] /\ Done \in Nat
               /\ c \in Switch <=> Len(todo) >= 3
               /\ c = "wifi" <=> Len(todo) = 2
               /\ c = "ota" <=> Len(todo) = 1
               /\ c \in Switch => /\ c \notin there
                                  /\ UpTo(c) = {o \in there \cup {c} : Restores(o)}
<1> DEFINE c == todo[1]
<1>1. PICK P \in Seq(Switch) :
              /\ P = (IF safe THEN <<>> ELSE Layout[image])
              /\ Order \in Seq(Switch \cup {"wifi", "ota"}) /\ Len(Order) = Len(P) + 2
              /\ \A i \in 1 .. Len(P) : Order[i] = P[i]
              /\ Order[Len(P) + 1] = "wifi" /\ Order[Len(P) + 2] = "ota"
              /\ \A i, j \in 1 .. Len(P) : P[i] = P[j] => i = j
  BY Orders
<1>2. /\ todo \in Seq(Switch \cup {"wifi", "ota"}) /\ Len(todo) <= Len(Order)
      /\ \A i \in DOMAIN todo : todo[i] = Order[Done + i]
      /\ there = {s \in Switch : \E i \in 1 .. Done : Order[i] = s}
  BY DEF SetUpOrder
<1>3. Len(todo) \in Nat /\ Len(todo) >= 1 /\ 1 \in DOMAIN todo /\ c \in Switch \cup {"wifi", "ota"}
  BY <1>2
<1>4. Len(P) \in Nat /\ Done \in Nat /\ Done = Len(P) + 2 - Len(todo) /\ c = Order[Done + 1]
  BY <1>1, <1>2, <1>3 DEF Done
<1>5. \A i \in 1 .. Len(P) : P[i] \in Switch
  BY <1>1
<1> DEFINE m == Len(todo)
<1>0. m \in Nat /\ m >= 1
  BY <1>3
<1> HIDE DEF m
<1>6. /\ m >= 3 => Done + 1 \in 1 .. Len(P) /\ c = P[Done + 1] /\ c \in Switch
      /\ m = 2 => c = "wifi"
      /\ m = 1 => c = "ota"
  <2> HIDE DEF c
  <2>1. Done = Len(P) + 2 - m
    BY <1>4 DEF m
  <2>2. m >= 3 => Done + 1 \in 1 .. Len(P)
    BY <1>0, <1>4, <2>1
  <2>3. m >= 3 => c = P[Done + 1] /\ c \in Switch
    BY <1>1, <1>4, <1>5, <2>2
  <2>4. m = 2 => Done + 1 = Len(P) + 1
    BY <1>4, <2>1
  <2>5. m = 1 => Done + 1 = Len(P) + 2
    BY <1>4, <2>1
  <2>6. QED
    BY <1>1, <1>4, <2>2, <2>3, <2>4, <2>5
<1>7. m = 1 \/ m = 2 \/ m >= 3
  BY <1>0
<1> HIDE DEF c
<1>8. /\ c \in Switch <=> m >= 3
      /\ c = "wifi" <=> m = 2
      /\ c = "ota" <=> m = 1
  BY <1>0, <1>3, <1>6, <1>7, Names
<1>9. ASSUME c \in Switch
      PROVE  c \notin there /\ UpTo(c) = {o \in there \cup {c} : Restores(o)}
  <2> DEFINE n == Done + 1
  <2>1. n \in 1 .. Len(P) /\ c = P[n] /\ Done = n - 1 /\ P = Layout[image]
    <3>1. n \in 1 .. Len(P) /\ c = P[n] /\ Done = n - 1
      BY <1>4, <1>6, <1>8, <1>9
    <3>2. P # <<>>
      BY <3>1
    <3>3. QED
      BY <1>1, <3>1, <3>2
  <2> HIDE DEF n
  <2>2. \A i \in 1 .. n : i \in 1 .. Len(P) /\ Order[i] = P[i]
    BY <1>1, <1>4, <2>1
  <2>3. \A o \in Switch : o \in there <=> \E i \in 1 .. n - 1 : P[i] = o
    <3>1. \A i \in 1 .. n - 1 : Order[i] = P[i]
      BY <1>4, <2>1, <2>2
    <3>2. there = {s \in Switch : \E i \in 1 .. n - 1 : Order[i] = s}
      BY <1>2, <2>1
    <3>3. QED
      BY <3>1, <3>2
  <2>4. c \notin there
    <3> SUFFICES ASSUME c \in there PROVE FALSE
      OBVIOUS
    <3>1. PICK i \in 1 .. n - 1 : P[i] = c
      BY <1>9, <2>3
    <3>2. i \in 1 .. Len(P) /\ i # n
      BY <1>4, <2>1
    <3>3. QED
      BY <1>1, <2>1, <3>1, <3>2
  <2>5. \A o \in Switch : (\E i \in 1 .. n : P[i] = o) <=> o \in there \cup {c}
    <3> SUFFICES ASSUME NEW o \in Switch
                 PROVE  (\E i \in 1 .. n : P[i] = o) <=> o \in there \cup {c}
      OBVIOUS
    <3>1. \A i \in 1 .. n : i = n \/ i \in 1 .. n - 1
      BY <1>4, <2>1
    <3>2. n \in 1 .. n /\ \A i \in 1 .. n - 1 : i \in 1 .. n
      BY <1>4, <2>1
    <3>3. QED
      BY <2>1, <2>3, <3>1, <3>2
  <2>6. DOMAIN P = 1 .. Len(P)
    BY <1>1
  <2>7. \A o \in Switch : (\E j \in DOMAIN P : P[j] = c /\ \E i \in 1 .. j : P[i] = o)
                          <=> o \in there \cup {c}
    BY <1>1, <2>1, <2>5, <2>6
  <2>8. UpTo(c) = {o \in Switch : Restores(o) /\ o \in there \cup {c}}
    BY <2>1, <2>7 DEF UpTo
  <2>9. there \cup {c} \subseteq Switch
    BY <1>2, <1>9
  <2>10. QED
    BY <2>4, <2>8, <2>9
<1>10. QED
  BY <1>3, <1>4, <1>8, <1>9 DEF c, m

\* A preference that is made gets the next key.
LEMMA MakeNumbered ==
    ASSUME prefs \in [Switch \cup {"wifi"} -> Keys \cup {0}], offset \in 1 .. Cardinality(Switch) + 2,
           Numbered, power = "on", power' = power, image' = image,
           NEW c \in Switch \cup {"wifi"}, prefs[c] = 0, make_preference(c),
           c \in Switch => offset = KeyOf(c)
    PROVE  /\ Numbered' /\ offset' \in 1 .. Cardinality(Switch) + 2
           /\ prefs' \in [Switch \cup {"wifi"} -> Keys \cup {0}]
           /\ prefs' = [prefs EXCEPT ![c] = offset] /\ offset # 0
<1> DEFINE All == Switch \cup {"wifi"}
<1>1. prefs' = [prefs EXCEPT ![c] = offset] /\ offset' = offset + 1
  BY DEF make_preference
<1>2. /\ offset = Cardinality(Made) + 1
      /\ \A o \in Made : prefs[o] < offset
      /\ \A o, p \in Made : prefs[o] = prefs[p] => o = p
      /\ \A s \in Switch : prefs[s] # 0 => prefs[s] = KeyOf(s)
  BY DEF Numbered
<1>3. /\ IsFiniteSet(All) /\ Cardinality(All) = Cardinality(Switch) + 1 /\ Cardinality(Switch) \in Nat
      /\ IsFiniteSet(Switch)
  BY Names, FS_AddElement
<1>4. Made' = Made \cup {c} /\ c \notin Made /\ Made \subseteq All
  BY <1>1 DEF Made
<1>5. IsFiniteSet(Made) /\ Cardinality(Made) \in Nat
  BY <1>3, <1>4, FS_Subset, FS_CardinalityType
<1>6. Cardinality(Made') = Cardinality(Made) + 1
  BY <1>4, <1>5, FS_AddElement
<1>7. Cardinality(Made') <= Cardinality(All)
  <2>1. Made' \subseteq All
    BY <1>4
  <2>2. QED
    BY <1>3, <2>1, FS_Subset
<1>8. offset \in Keys /\ offset' \in 1 .. Cardinality(Switch) + 2
  BY <1>1, <1>2, <1>3, <1>5, <1>6, <1>7 DEF Keys
<1>9. prefs' \in [Switch \cup {"wifi"} -> Keys \cup {0}]
  BY <1>1, <1>8
<1>10. \A o \in Made : o # c /\ prefs'[o] = prefs[o] /\ prefs[o] \in Int
  BY <1>1, <1>4, <1>3 DEF Made, Keys
<1>11. prefs'[c] = offset /\ offset \in Int
  BY <1>1
<1>12. Numbered'
  <2>1. \A o \in Made' : prefs'[o] < offset'
    BY <1>1, <1>2, <1>4, <1>10, <1>11
  <2>2. \A o, p \in Made' : prefs'[o] = prefs'[p] => o = p
    BY <1>2, <1>4, <1>10, <1>11
  <2>3. \A s \in Switch : KeyOf(s)' = KeyOf(s)
    BY DEF KeyOf, UpTo
  <2>4. \A s \in Switch : prefs'[s] # 0 => prefs'[s] = KeyOf(s)
    BY <1>1, <1>2
  <2>5. \A s \in Switch : prefs'[s] # 0 => prefs'[s] = KeyOf(s)'
    BY <2>3, <2>4
  <2>6. offset' = Cardinality(Made') + 1
    BY <1>1, <1>2, <1>6
  <2>7. QED
    BY <2>1, <2>2, <2>5, <2>6 DEF Numbered
<1>13. QED
  BY <1>1, <1>8, <1>9, <1>12, <1>11

LEMMA OrderNext ==
    ASSUME SetUpOrder, power = "on", image \in Image, todo # <<>>, todo' = Tail(todo),
           UNCHANGED <<power, image, safe, shown>>,
           there' = there \cup ({todo[1]} \cap Switch),
           \A s \in Switch : prefs'[s] # 0 <=> prefs[s] # 0 \/ (s = todo[1] /\ Restores(s)),
           prefs'["wifi"] # 0 <=> prefs["wifi"] # 0 \/ todo[1] = "wifi",
           \A s \in there : shown[s] # "none"
    PROVE  SetUpOrder'
<1> DEFINE c == todo[1]
<1>1. /\ Len(todo) \in Nat /\ Len(todo) >= 1 /\ c \in Switch \cup {"wifi", "ota"}
      /\ c = Order[Done + 1] /\ Done \in Nat
      /\ c \in Switch <=> Len(todo) >= 3
      /\ c = "wifi" <=> Len(todo) = 2
      /\ c = "ota" <=> Len(todo) = 1
  BY NextUp
<1>2. /\ todo \in Seq(Switch \cup {"wifi", "ota"}) /\ Len(todo) <= Len(Order)
      /\ \A i \in DOMAIN todo : todo[i] = Order[Done + i]
      /\ there = {s \in Switch : \E i \in 1 .. Done : Order[i] = s}
      /\ \A s \in Switch : prefs[s] # 0 <=> s \in there /\ Restores(s)
      /\ prefs["wifi"] # 0 <=> Len(todo) <= 1
  BY DEF SetUpOrder
<1> DEFINE T == Switch \cup {"wifi", "ota"}
<1>3. todo' \in Seq(T) /\ Len(todo') = Len(todo) - 1
      /\ \A i \in 1 .. Len(todo') : todo'[i] = todo[i + 1] /\ i + 1 \in DOMAIN todo
  <2> HIDE DEF T
  <2>1. todo \in Seq(T)
    BY <1>2 DEF T
  <2>2. QED
    BY <2>1
<1> HIDE DEF T
<1>4. Order' = Order
  BY DEF Order
<1>5. Len(Order) \in Nat
  <2>1. PICK P \in Seq(Switch) : Len(Order) = Len(P) + 2
    BY Orders
  <2>2. QED
    BY <2>1
<1>6. Done' = Done + 1 /\ Done = Len(Order) - Len(todo)
  BY <1>1, <1>3, <1>4, <1>5 DEF Done
<1> HIDE DEF c
<1>7. Len(todo') <= Len(Order)
  BY <1>1, <1>2, <1>3, <1>5
<1>8. \A i \in 1 .. Len(todo') : todo'[i] = Order[Done' + i]
  <2> SUFFICES ASSUME NEW i \in 1 .. Len(todo') PROVE todo'[i] = Order[Done' + i]
    OBVIOUS
  <2>1. Done + (i + 1) = (Done + 1) + i
    BY <1>1
  <2>2. QED
    BY <1>2, <1>3, <1>6, <2>1
<1>9. there' = {s \in Switch : \E i \in 1 .. Done + 1 : Order[i] = s}
  <2>1. \A i \in 1 .. Done + 1 : i \in 1 .. Done \/ i = Done + 1
    BY <1>1
  <2>2. Done + 1 \in 1 .. Done + 1 /\ \A i \in 1 .. Done : i \in 1 .. Done + 1
    BY <1>1
  <2>3. there' = there \cup ({c} \cap Switch)
    BY DEF c
  <2>4. QED
    BY <1>1, <1>2, <2>1, <2>2, <2>3
<1>10. \A s \in Switch : prefs'[s] # 0 <=> s \in there' /\ Restores(s)
  BY <1>2
<1>11. prefs'["wifi"] # 0 <=> Len(todo') <= 1
  BY <1>1, <1>2, <1>3 DEF c
<1>12. \A s \in there' : shown[s] = "none" => Len(todo') >= 2
  <2>1. \A s \in there' : shown[s] = "none" => c \in Switch
    BY DEF c
  <2>2. QED
    BY <1>1, <1>3, <2>1
<1>13. DOMAIN todo' = 1 .. Len(todo')
  BY <1>3
<1>14. Len(todo') <= Len(Order') /\ \A i \in DOMAIN todo' : todo'[i] = Order'[Done' + i]
  BY <1>4, <1>7, <1>8, <1>13
<1>15. there' = {s \in Switch : \E i \in 1 .. Done' : Order'[i] = s}
  BY <1>4, <1>6, <1>9
<1>16. todo' \in Seq(Switch \cup {"wifi", "ota"})
  BY <1>3 DEF T
<1>17. QED
  BY <1>10, <1>11, <1>12, <1>14, <1>15, <1>16 DEF SetUpOrder

LEMMA InitialPosition ==
    ASSUME NEW s \in Switch, NEW d \in Position \cup {"none"}
    PROVE  /\ initial_state(s, d) \in Position
           /\ Begins[s][IF d = "none" THEN "absent" ELSE d] =
                 initial_state(s, IF Restores(s) THEN d ELSE "none")
           /\ ~Restores(s) => initial_state(s, d) = initial_state(s, "none")
<1>1. RestoreMode[s] \in {"RESTORE_DEFAULT_OFF", "RESTORE_DEFAULT_ON",
         "RESTORE_INVERTED_DEFAULT_OFF", "RESTORE_INVERTED_DEFAULT_ON", "ALWAYS_OFF", "ALWAYS_ON"}
  BY InterlockAssumption
<1>2. initial_state(s, d) \in Position
  BY <1>1 DEF initial_state, Position, Flip
<1>3. ~Restores(s) => initial_state(s, d) = initial_state(s, "none")
  BY <1>1 DEF initial_state, Restores
<1>4. \A k \in Position \cup {"absent"} :
         Begins[s][k] = initial_state(s, IF k = "absent" \/ ~Restores(s) THEN "none" ELSE k)
  BY DEF Begins
<1> DEFINE k == IF d = "none" THEN "absent" ELSE d
<1>5. k \in Position \cup {"absent"} /\ (k = "absent" <=> d = "none") /\ (d # "none" => k = d)
  BY DEF Position
<1> HIDE DEF k
<1>6. Begins[s][k] = initial_state(s, IF Restores(s) THEN d ELSE "none")
  BY <1>4, <1>5
<1>7. QED
  BY <1>2, <1>3, <1>6 DEF k

\* Between two calls everything set up has been published.
LEMMA AllShown == ASSUME SwitchInv, steps = <<>> PROVE \A s \in there : shown[s] # "none"
<1>1. \A s \in there : s \in Switch
  BY DEF SwitchInv, SwitchTypes
<1>2. QED
  BY <1>1 DEF SwitchInv, Agree

LEMMA NextKey ==
    ASSUME SwitchTypes, SetUpOrder, Numbered, power = "on", image \in Image, todo # <<>>,
           NEW c \in Switch, c = todo[1], Restores(c)
    PROVE  KeyOf(c) = offset
<1>1. c \notin there /\ UpTo(c) = {o \in there \cup {c} : Restores(o)} /\ Len(todo) >= 3
      /\ Len(todo) \in Nat
  BY NextUp
<1>2. prefs["wifi"] = 0 /\ there \subseteq Switch
      /\ \A s \in Switch : prefs[s] # 0 <=> s \in there /\ Restores(s)
  BY <1>1 DEF SetUpOrder, SwitchTypes
<1>3. Made = {o \in there : Restores(o)}
  BY <1>2 DEF Made
<1>4. UpTo(c) = Made \cup {c} /\ c \notin Made
  BY <1>1, <1>3
<1>5. IsFiniteSet(Made)
  BY <1>2, <1>3, Names, FS_Subset
<1>6. Cardinality(UpTo(c)) = Cardinality(Made) + 1
  BY <1>4, <1>5, FS_AddElement
<1>7. QED
  BY <1>6 DEF KeyOf, Numbered

LEMMA SwitchSetUp ==
    ASSUME CallInv, power = "on", image \in Image, todo # <<>>, todo' = Tail(todo), steps = <<>>,
           UNCHANGED <<power, image, safe, once>>, NEW c \in Switch, c = todo[1], setup(c, image)
    PROVE  CallInv'
<1> DEFINE key == IF Restores(c) THEN offset ELSE 0
           p == initial_state(c, load(c, image, key))
           then == <<Again(c, p)>>
<1>1. /\ IF Restores(c) THEN make_preference(c) ELSE UNCHANGED <<prefs, offset>>
      /\ there' = there \cup {c} /\ write_state(c, p, then, timer)
      /\ UNCHANGED <<nvs, level, state, shown, unsaved>>
  BY DEF setup
<1>2. SwitchInv /\ SwitchTypes /\ Agree /\ Waits /\ Exclusive /\ SetUpOrder /\ Numbered
      /\ OnceKept /\ Kept
  BY DEF CallInv, SwitchInv, KeptInv
<1>3. c \notin there
  BY <1>2, NextUp
<1>4. \A s \in there : shown[s] # "none"
  BY <1>2, AllShown
<1>5. /\ there \subseteq Switch /\ state \in [Switch -> Position] /\ nvs \in [Keys -> Blob]
      /\ prefs \in [Switch \cup {"wifi"} -> Keys \cup {0}]
      /\ offset \in 1 .. Cardinality(Switch) + 2
      /\ timer \in [Switch -> 0 .. WaitTime \cup {NoTimer}]
  BY <1>2 DEF SwitchTypes
<1>6. shown[c] = "none" /\ prefs[c] = 0
  BY <1>2, <1>3 DEF Agree, SetUpOrder
<1>7. key = KeyOf(c)
  BY <1>2, NextKey DEF KeyOf
\* Its first position is the one kept for it.
<1> DEFINE d == load(c, image, KeyOf(c))
<1>8. Stored(c) = (IF d = "none" THEN "absent" ELSE d) /\ d \in Position \cup {"none"}
  BY <1>5, StoredType DEF Stored
<1> HIDE DEF key, d
<1>9. p = initial_state(c, d)
  BY <1>7 DEF d
<1>10. ~Restores(c) => d = "none"
  BY <1>7 DEF d, key, load
<1> HIDE DEF p
<1>11. p \in Position /\ p = Begins[c][Stored(c)]
  BY <1>8, <1>9, <1>10, InitialPosition
<1> HIDE DEF then
<1>12. then = <<Again(c, p)>> /\ then # <<>> /\ write_state(c, p, then, timer) /\ state' = state
  BY <1>1 DEF then
<1>13. /\ steps' \in Seq(Action) /\ OffFirst'
       /\ \A i \in DOMAIN steps' :
             /\ steps'[i].s \in Rivals(c) \cup {c} /\ (steps'[i].s = c => steps'[i].p = p)
             /\ steps'[i].op # "save" /\ (steps'[i].op = "again" => i = Len(steps'))
       /\ \E i \in DOMAIN steps' : steps'[i].op \in {"write", "again"} /\ steps'[i].s = c
  <2>1. PICK t : t = then
    OBVIOUS
  <2>2. t = <<>> \/ t = <<Again(c, p)>>
    BY <1>12, <2>1
  <2>3. write_state(c, p, t, timer) /\ t # <<>>
    BY <1>12, <2>1
  <2>4. state \in [Switch -> Position] /\ state' = state
    BY <1>5, <1>12
  <2>5. QED
    BY <1>11, <2>2, <2>3, <2>4, CallBegins
<1>14. timer' \in [Switch -> 0 .. WaitTime \cup {NoTimer}] /\ asked' \in [Switch -> Position] /\ Waits'
  BY <1>1, <1>2, <1>5, <1>11, WaitsAfter
<1>15. \A o \in Rivals(c) : o \in Switch /\ shown[o] # "none" /\ o \in there
  BY <1>2, Names DEF Rivals, Agree
<1>16. /\ Numbered' /\ offset' \in 1 .. Cardinality(Switch) + 2
       /\ prefs' \in [Switch \cup {"wifi"} -> Keys \cup {0}]
       /\ prefs' = IF Restores(c) THEN [prefs EXCEPT ![c] = offset] ELSE prefs
       /\ offset # 0
  <2>1. CASE Restores(c)
    BY <1>1, <1>2, <1>5, <1>6, <1>7, <2>1, MakeNumbered DEF key
  <2>2. CASE ~Restores(c)
    BY <1>1, <1>2, <1>5, <2>2, NumberedSame
  <2>3. QED
    BY <2>1, <2>2
<1>17. /\ \A s \in Switch : prefs'[s] # 0 <=> prefs[s] # 0 \/ (s = c /\ Restores(s))
       /\ prefs'["wifi"] = prefs["wifi"] /\ \A s \in Switch : s # c => prefs'[s] = prefs[s]
  BY <1>5, <1>6, <1>16, Names
<1>18. SetUpOrder'
  <2>1. there' = there \cup ({todo[1]} \cap Switch) /\ todo[1] # "wifi"
    BY <1>1, Names
  <2>2. QED
    BY <1>1, <1>2, <1>4, <1>17, <2>1, OrderNext
<1>19. SwitchTypes'
  BY <1>1, <1>2, <1>5, <1>13, <1>14, <1>16 DEF SwitchTypes
<1>20. StepsFit'
  BY <1>1, <1>13, <1>15 DEF StepsFit
<1>21. Agree' /\ Exclusive'
  <2>1. Exclusive'
    BY <1>1, <1>2 DEF Exclusive, Rivals
  <2>2. Agree'
    BY <1>1, <1>2, <1>4, <1>13 DEF Agree
  <2>3. QED
    BY <2>1, <2>2
<1>22. OnceKept' /\ Fresh'
  BY <1>1, <1>2, OnceSame, FreshOn
<1>23. Kept'
  <2> SUFFICES ASSUME NEW o \in there' \ unsaved, prefs'[o] # 0, shown[o] # "none"
               PROVE  nvs[prefs'[o]] = [words |-> 1, crc |-> o, data |-> state[o]]
    BY <1>1 DEF Kept
  <2>1. o \in there /\ o # c
    BY <1>1, <1>6
  <2>2. prefs'[o] = prefs[o]
    BY <1>5, <1>17, <2>1
  <2>3. QED
    BY <1>2, <2>1, <2>2 DEF Kept
<1>24. BeginsRight'
  <2> SUFFICES ASSUME NEW i \in DOMAIN steps', shown[steps'[i].s] = "none"
               PROVE  steps'[i].p = Begins[steps'[i].s][Stored(steps'[i].s)]
    BY <1>1, StoredSame DEF BeginsRight
  <2>1. steps'[i].s = c /\ steps'[i].p = p
    BY <1>13, <1>15
  <2>2. QED
    BY <1>11, <2>1
<1>25. QED
  BY <1>13, <1>14, <1>16, <1>18, <1>19, <1>20, <1>21, <1>22, <1>23, <1>24
  DEF CallInv, SwitchInv, KeptInv

LEMMA SetUpInv == ASSUME CallInv, LifeTypes, SetUp PROVE CallInv'
<1> DEFINE c == todo[1]
<1>1. /\ power = "on" /\ steps = <<>> /\ todo # <<>> /\ todo' = Tail(todo) /\ image \in Image
      /\ UNCHANGED <<power, image, safe, once>>
  BY DEF SetUp, Free, LifeTypes
<1>2. /\ SwitchInv /\ SwitchTypes /\ StepsFit /\ OffFirst /\ Exclusive /\ Agree /\ Waits
      /\ SetUpOrder /\ Numbered /\ OnceKept /\ Kept /\ BeginsRight
  BY DEF CallInv, SwitchInv, KeptInv
<1>3. \A s \in there : shown[s] # "none"
  BY <1>1, <1>2, AllShown
<1>4. CASE c \in Switch /\ setup(c, image)
  BY <1>1, <1>4, SwitchSetUp
<1>5. CASE c = "wifi" /\ make_preference(c) /\ UNCHANGED <<nvs, pinVars, timer, steps, asked>>
  <2>1. UNCHANGED <<there, level, state, shown, unsaved>>
    BY <1>5 DEF pinVars
  <2>2. prefs["wifi"] = 0
    <3>1. Len(todo) = 2
      BY <1>1, <1>2, <1>5, NextUp
    <3>2. QED
      BY <1>1, <1>2, <3>1 DEF SetUpOrder
  <2>3. /\ Numbered' /\ offset' \in 1 .. Cardinality(Switch) + 2
        /\ prefs' \in [Switch \cup {"wifi"} -> Keys \cup {0}]
        /\ prefs' = [prefs EXCEPT !["wifi"] = offset] /\ offset # 0
    BY <1>1, <1>2, <1>5, <2>2, Names, MakeNumbered DEF SwitchTypes
  <2>4. prefs'["wifi"] # 0 /\ \A s \in Switch : prefs'[s] = prefs[s]
    BY <1>2, <2>3, Names DEF SwitchTypes
  <2>5. SetUpOrder'
    <3>1. there' = there \cup ({todo[1]} \cap Switch)
          /\ \A s \in Switch : s # todo[1]
      BY <1>5, <2>1, Names
    <3>2. QED
      BY <1>1, <1>2, <1>3, <1>5, <2>1, <2>4, <3>1, OrderNext
  <2>6. SwitchTypes'
    BY <1>2, <1>5, <2>1, <2>3 DEF SwitchTypes
  <2>7. StepsFit' /\ OffFirst' /\ Exclusive' /\ Agree' /\ Waits'
    BY <1>1, <1>2, <1>5, <2>1 DEF StepsFit, OffFirst, Exclusive, Rivals, Agree, Waits
  <2>8. OnceKept' /\ Fresh' /\ BeginsRight'
    BY <1>1, <1>2, <1>5, OnceSame, FreshOn DEF BeginsRight
  <2>9. Kept'
    <3>1. \A s \in there : s \in Switch /\ prefs'[s] = prefs[s]
      BY <1>2, <2>4 DEF SwitchTypes
    <3>2. QED
      BY <1>2, <1>5, <2>1, <3>1 DEF Kept
  <2>10. QED
    BY <2>3, <2>5, <2>6, <2>7, <2>8, <2>9 DEF CallInv, SwitchInv, KeptInv
<1>6. CASE c = "ota" /\ UNCHANGED switchVars
  <2>1. UNCHANGED <<nvs, prefs, offset, there, level, state, shown, unsaved, timer, steps, asked>>
    BY <1>6 DEF switchVars, pinVars
  <2>2. SetUpOrder'
    <3>1. there' = there \cup ({todo[1]} \cap Switch) /\ \A s \in Switch : s # todo[1]
      BY <1>6, <2>1, Names
    <3>2. QED
      BY <1>1, <1>2, <1>3, <1>6, <2>1, <3>1, OrderNext
  <2>3. SwitchTypes' /\ StepsFit' /\ OffFirst' /\ Exclusive' /\ Agree' /\ Waits'
    BY <1>1, <1>2, <2>1 DEF SwitchTypes, StepsFit, OffFirst, Exclusive, Rivals, Agree, Waits
  <2>4. OnceKept' /\ Fresh' /\ BeginsRight' /\ Kept' /\ Numbered'
    BY <1>1, <1>2, <2>1, OnceSame, FreshOn, NumberedSame DEF BeginsRight, Kept
  <2>5. QED
    BY <2>2, <2>3, <2>4 DEF CallInv, SwitchInv, KeptInv
<1>7. QED
  BY <1>4, <1>5, <1>6 DEF SetUp

-----------------------------------------------------------------------------
(***************************************************************************)
(* Everything else.                                                        *)
(***************************************************************************)
\* What leaves the switches alone, but for the time.
LEMMA CallSame ==
    ASSUME CallInv, UNCHANGED <<nvs, prefs, offset, pinVars, steps, asked, power, image, safe, todo, once>>,
           timer' \in [Switch -> 0 .. WaitTime \cup {NoTimer}],
           \A s \in Switch : timer'[s] # NoTimer => timer[s] # NoTimer
    PROVE  CallInv'
<1>1. /\ SwitchTypes /\ StepsFit /\ OffFirst /\ Exclusive /\ Agree /\ Waits
      /\ SetUpOrder /\ Numbered /\ OnceKept /\ Kept /\ BeginsRight /\ Fresh
  BY DEF CallInv, SwitchInv, KeptInv
<1>2. UNCHANGED <<there, level, state, shown, unsaved>>
  BY DEF pinVars
<1>3. SwitchTypes' /\ StepsFit' /\ OffFirst' /\ Exclusive' /\ Agree' /\ Waits'
  BY <1>1, <1>2 DEF SwitchTypes, StepsFit, OffFirst, Exclusive, Rivals, Agree, Waits
<1>4. OnceKept' /\ Kept' /\ Numbered' /\ SetUpOrder' /\ Fresh'
  BY <1>1, <1>2, OnceSame, NumberedSame, OrderSame DEF Kept, Fresh
<1>5. BeginsRight'
  BY <1>1, <1>2, StoredSame DEF BeginsRight
<1>6. QED
  BY <1>3, <1>4, <1>5 DEF CallInv, SwitchInv, KeptInv

LEMMA CallKept ==
    ASSUME CallInv, UNCHANGED <<switchVars, power, image, safe, todo, once>>
    PROVE  CallInv'
<1>1. timer \in [Switch -> 0 .. WaitTime \cup {NoTimer}]
  BY DEF CallInv, SwitchInv, SwitchTypes
<1>2. QED
  BY <1>1, CallSame DEF switchVars

\* The settings are nobody's state.
LEMMA PortalInv == ASSUME CallInv, LifeTypes, PortalSaves PROVE CallInv'
<1> DEFINE k == prefs["wifi"]
           blob == [words |-> 25, crc |-> image, data |-> "set"]
<1>1. /\ power = "on" /\ k # 0 /\ nvs' = Saved("wifi", image, "set")
      /\ UNCHANGED <<prefs, offset, there, level, state, shown, unsaved, timer, steps, asked,
                     power, image, safe, todo, once>> /\ image \in Image
  BY DEF PortalSaves, lifeVars, pinVars, LifeTypes
<1>2. /\ SwitchTypes /\ StepsFit /\ OffFirst /\ Exclusive /\ Agree /\ Waits
      /\ SetUpOrder /\ Numbered /\ OnceKept /\ Kept /\ BeginsRight /\ Fresh
  BY DEF CallInv, SwitchInv, KeptInv
<1>3. /\ nvs \in [Keys -> Blob] /\ prefs \in [Switch \cup {"wifi"} -> Keys \cup {0}] /\ k \in Keys
      /\ steps \in Seq(Action) /\ there \subseteq Switch
  BY <1>1, <1>2 DEF SwitchTypes
<1>4. nvs' = [nvs EXCEPT ![k] = blob]
  BY <1>1 DEF Saved, Words, Type
<1>5. blob \in Blob
  BY <1>1 DEF Blob
<1>6. \A s \in Switch : prefs[s] # 0 => prefs[s] # k
  BY <1>1, Names DEF Numbered, Made, CallInv
<1> HIDE DEF k, blob
<1>7. nvs' \in [Keys -> Blob]
  BY <1>3, <1>4, <1>5
<1>8. SwitchTypes' /\ StepsFit' /\ OffFirst' /\ Exclusive' /\ Agree' /\ Waits'
  BY <1>1, <1>2, <1>7 DEF SwitchTypes, StepsFit, OffFirst, Exclusive, Rivals, Agree, Waits
<1>9. OnceKept'
  BY <1>1, <1>2, <1>3, <1>4, Names DEF OnceKept, blob
<1>10. Numbered' /\ SetUpOrder' /\ Fresh'
  BY <1>1, <1>2, NumberedSame, OrderSame, FreshOn
<1>11. Kept'
  <2>1. \A s \in there : prefs[s] # 0 => nvs'[prefs[s]] = nvs[prefs[s]]
    BY <1>3, <1>4, <1>6
  <2>2. QED
    BY <1>1, <1>2, <2>1 DEF Kept
\* Its preference is made when every switch is set up.
<1>12. \A s \in there : shown[s] # "none"
  <2>1. todo \in Seq(Switch \cup {"wifi", "ota"}) /\ Len(todo) <= 1
        /\ \A s \in there : shown[s] = "none" => Len(todo) >= 2
    BY <1>1, <1>2 DEF SetUpOrder, k
  <2>2. Len(todo) \in Nat
    BY <2>1
  <2>3. QED
    BY <2>1, <2>2
<1>13. BeginsRight'
  <2>1. \A i \in DOMAIN steps : steps[i].s \in there
    BY <1>2 DEF StepsFit
  <2>2. QED
    BY <1>1, <1>12, <2>1 DEF BeginsRight
<1>14. QED
  BY <1>8, <1>9, <1>10, <1>11, <1>13 DEF CallInv, SwitchInv, KeptInv

\* Of the device that is off only NVS is left.
LEMMA OffInv ==
    ASSUME CallInv, LifeTypes, OtaTypes, Off, UNCHANGED <<nvs, prefs, offset, once>>
    PROVE  CallInv'
<1>1. /\ there' = {} /\ level' = [s \in Switch |-> "float"]
      /\ state' = [s \in Switch |-> "off"] /\ shown' = [s \in Switch |-> "none"]
      /\ timer' = [s \in Switch |-> NoTimer] /\ steps' = <<>>
      /\ asked' = [s \in Switch |-> "off"] /\ unsaved' = {} /\ power' = "off"
  BY DEF Off, SwitchesOff
<1>2. SwitchTypes /\ OnceKept
  BY DEF CallInv, SwitchInv, KeptInv
<1>3. steps' \in Seq(Action) /\ DOMAIN steps' = {}
  BY <1>1
<1>4. SwitchTypes'
  BY <1>1, <1>2, <1>3 DEF SwitchTypes, Position
<1>5. \A s \in Switch : level'[s] # Raw(s, "on")
  BY <1>1 DEF Raw, Flip
<1>6. StepsFit' /\ OffFirst' /\ Exclusive' /\ Agree' /\ Waits'
  BY <1>1, <1>3, <1>5 DEF StepsFit, OffFirst, Exclusive, Rivals, Agree, Waits
<1>7. SetUpOrder' /\ Numbered' /\ Fresh'
  BY <1>1 DEF SetUpOrder, Numbered, Fresh
<1>8. OnceKept' /\ Kept' /\ BeginsRight'
  BY <1>1, <1>2, <1>3, OnceSame DEF Kept, BeginsRight
<1>9. QED
  BY <1>4, <1>6, <1>7, <1>8 DEF CallInv, SwitchInv, KeptInv

\* A start finds NVS as it was, or cannot open it.
LEMMA PowerOnInv == ASSUME CallInv, PowerOn PROVE CallInv'
<1>1. PICK broken \in BOOLEAN : begin(broken)
  BY DEF PowerOn
<1>2. /\ power = "off" /\ power' = "start" /\ prefs' = [o \in Switch \cup {"wifi"} |-> 0]
      /\ offset' = 1 /\ nvs' = IF broken THEN [k \in Keys |-> NoBlob] ELSE nvs
      /\ UNCHANGED <<there, level, state, shown, unsaved, timer, steps, asked, once, image>>
  BY <1>1 DEF PowerOn, begin, pinVars
<1>3. SwitchInv /\ SwitchTypes /\ StepsFit /\ OffFirst /\ Exclusive /\ Agree /\ Waits /\ OnceKept /\ Fresh
  BY DEF CallInv, SwitchInv, KeptInv
<1>4. there = {} /\ steps = <<>> /\ \A s \in Switch : shown[s] = "none"
  BY <1>2, <1>3 DEF Fresh
<1>5. nvs' \in [Keys -> Blob]
  BY <1>2, <1>3 DEF SwitchTypes, Blob
<1>6. SwitchTypes'
  <2>1. offset' \in 1 .. Cardinality(Switch) + 2
    BY <1>2, Names
  <2>2. QED
    BY <1>2, <1>3, <1>5, <2>1 DEF SwitchTypes
<1>7. StepsFit' /\ OffFirst' /\ Exclusive' /\ Agree' /\ Waits'
  BY <1>2, <1>3, <1>4 DEF StepsFit, OffFirst, Exclusive, Rivals, Agree, Waits
<1>8. SetUpOrder' /\ Numbered' /\ Fresh'
  BY <1>2, <1>4 DEF SetUpOrder, Numbered, Fresh
<1>9. OnceKept' /\ Kept' /\ BeginsRight'
  <2>1. OnceKept'
    BY <1>2, <1>3, Names DEF OnceKept, NoBlob
  <2>2. QED
    BY <1>2, <1>4, <2>1 DEF Kept, BeginsRight
<1>10. QED
  BY <1>6, <1>7, <1>8, <1>9 DEF CallInv, SwitchInv, KeptInv

LEMMA ComponentsType ==
    ASSUME NEW img \in Image, NEW isSafe
    PROVE  /\ Components(img, isSafe) \in Seq(Switch \cup {"wifi", "ota"})
           /\ Len(Components(img, isSafe)) \in Nat /\ Len(Components(img, isSafe)) >= 2
<1> DEFINE P == IF isSafe THEN <<>> ELSE Layout[img]
           W == <<"wifi", "ota">>
           T == Switch \cup {"wifi", "ota"}
<1>1. P \in Seq(Switch)
  BY PreferencesAssumption
<1>2. \A i \in 1 .. Len(P) : P[i] \in Switch
  BY <1>1
<1>3. W \in Seq(T) /\ Len(W) = 2
  OBVIOUS
<1>4. Components(img, isSafe) = P \o W
  BY DEF Components
<1> HIDE DEF P, W
<1>5. P \in Seq(T) /\ Len(P) \in Nat
  BY <1>1, <1>2
<1> HIDE DEF T
<1>6. \A u, v \in Seq(T) : u \o v \in Seq(T) /\ Len(u \o v) = Len(u) + Len(v)
  OBVIOUS
<1>7. P \o W \in Seq(T) /\ Len(P \o W) = Len(P) + 2
  BY <1>3, <1>5, <1>6
<1>8. QED
  BY <1>4, <1>5, <1>7 DEF T

\* Setup begins.
LEMMA EnterInv == ASSUME CallInv, LifeTypes, should_enter_safe_mode PROVE CallInv'
<1>1. /\ power = "start" /\ power' = "on" /\ todo' = Components(image, safe') /\ image' = image
      /\ safe' = SafeModeDue /\ once' = once
      /\ UNCHANGED <<nvs, prefs, offset, there, level, state, shown, unsaved, timer, steps, asked>>
  BY DEF should_enter_safe_mode, switchVars, pinVars
<1>2. /\ SwitchInv /\ SwitchTypes /\ StepsFit /\ OffFirst /\ Exclusive /\ Agree /\ Waits
      /\ OnceKept /\ Fresh /\ image \in Image
  BY DEF CallInv, SwitchInv, KeptInv, LifeTypes
<1>3. there = {} /\ steps = <<>> /\ \A o \in Switch \cup {"wifi"} : prefs[o] = 0
      /\ offset = 1
  BY <1>1, <1>2 DEF Fresh
<1>4. SwitchTypes' /\ StepsFit' /\ OffFirst' /\ Exclusive' /\ Agree' /\ Waits'
  BY <1>1, <1>2 DEF SwitchTypes, StepsFit, OffFirst, Exclusive, Rivals, Agree, Waits
<1>5. SetUpOrder'
  <2>1. Order' = todo'
    BY <1>1 DEF Order
  <2>2. Len(todo') \in Nat /\ Len(todo') >= 2 /\ todo' \in Seq(Switch \cup {"wifi", "ota"})
    BY <1>1, <1>2, ComponentsType
  <2>3. Done' = 0
    BY <2>1, <2>2 DEF Done
  <2> DEFINE w == "wifi"
  <2>4. prefs'[w] = 0 /\ \A s \in Switch : prefs'[s] = 0
    BY <1>1, <1>3
  <2>5. \A i \in DOMAIN todo' : todo'[i] = Order'[Done' + i]
    BY <2>1, <2>2, <2>3
  <2>6. {s \in Switch : \E i \in 1 .. Done' : Order'[i] = s} = {}
    BY <2>3
  <2>7. QED
    BY <1>1, <1>3, <2>1, <2>2, <2>4, <2>5, <2>6 DEF SetUpOrder
<1>6. Numbered'
  <2>1. Made' = {}
    BY <1>1, <1>3 DEF Made
  <2>2. Cardinality({}) = 0
    BY FS_EmptySet
  <2>3. QED
    BY <1>1, <1>3, <2>1, <2>2 DEF Numbered
<1>7. Fresh' /\ OnceKept' /\ Kept' /\ BeginsRight'
  BY <1>1, <1>2, <1>3, OnceSame, FreshOn DEF Kept, BeginsRight
<1>8. QED
  BY <1>4, <1>5, <1>6, <1>7 DEF CallInv, SwitchInv, KeptInv

-----------------------------------------------------------------------------
(***************************************************************************)
(* Updates.                                                                *)
(***************************************************************************)
LEMMA OtaSame == ASSUME OtaInv, UNCHANGED otaVars PROVE OtaInv'
BY DEF OtaInv, OtaTypes, TellInv, ToldIsBooted, Whose, OtaAboutToTell, WebAboutToTell, Uploading,
       otaVars

LEMMA PlayImages == ASSUME LifeTypes PROVE play.images \subseteq Image
BY PlaysAssumption DEF LifeTypes

\* Update keeps its types, and whose it is while it runs.
LEMMA UpdateTypes ==
    ASSUME OtaTypes
    PROVE  /\ upd \in UpdateRun /\ NotRunning \in UpdateRun /\ ~NotRunning.run
           /\ \A who \in Client : UpdateBegin(who) => /\ upd' \in UpdateRun /\ upd'.run
                                                      /\ upd'.owner = who
<1>1. upd \in UpdateRun /\ NotRunning \in UpdateRun /\ ~NotRunning.run
  BY OtaAssumption DEF OtaTypes, NotRunning, UpdateRun, Client
<1>2. ASSUME NEW who \in Client, UpdateBegin(who)
      PROVE  upd' \in UpdateRun /\ upd'.run /\ upd'.owner = who
  <2>1. upd' = [run |-> TRUE, owner |-> who, ota |-> 0, web |-> 0]
    BY <1>2 DEF UpdateBegin, NotRunning
  <2>2. QED
    BY <2>1, OtaAssumption DEF UpdateRun
<1>3. QED
  BY <1>1, <1>2

LEMMA WriteTypes ==
    ASSUME OtaTypes, NEW side, NEW running, UpdateWrite(side, running),
           IF side = "ota" THEN upd.ota < Chunks ELSE upd.web < Chunks
    PROVE  upd' \in UpdateRun /\ upd'.run /\ upd'.owner = upd.owner
<1>1. upd \in UpdateRun /\ upd.run
  BY DEF OtaTypes, UpdateWrite
<1>2. upd.ota \in 0 .. Chunks /\ upd.web \in 0 .. Chunks /\ Chunks \in Nat
  BY <1>1, OtaAssumption DEF UpdateRun
<1>3. CASE side = "ota"
  BY <1>1, <1>2, <1>3 DEF UpdateWrite, UpdateRun
<1>4. CASE side # "ota"
  BY <1>1, <1>2, <1>4 DEF UpdateWrite, UpdateRun
<1>5. QED
  BY <1>3, <1>4

LEMMA FailInv == ASSUME OtaInv, NEW failed, error => failed, Fail(failed) PROVE OtaInv'
<1>1. OtaTypes /\ TellInv
  BY DEF OtaInv
<1>2. ota' = "listen" /\ gift' = "none" /\ UNCHANGED <<tries, has_safe, web, answer, boot, begun, told>>
  BY DEF Fail, UpdateAbort, rtcVars, webVars
<1>3. (upd' = upd /\ (error => error')) \/ (upd' = NotRunning /\ error')
  <2>1. CASE started
    BY <2>1 DEF Fail, UpdateAbort
  <2>2. CASE ~started
    BY <2>2 DEF Fail
  <2>3. QED
    BY <2>1, <2>2
<1>4. OtaTypes'
  BY <1>1, <1>2, <1>3, UpdateTypes DEF OtaTypes, Stages
<1>5. ~NotRunning.run
  BY <1>1, UpdateTypes
<1>6. TellInv'
  BY <1>1, <1>2, <1>3, <1>5
  DEF TellInv, ToldIsBooted, Whose, OtaAboutToTell, WebAboutToTell, Uploading
<1>7. QED
  BY <1>4, <1>6 DEF OtaInv

LEMMA OtaHandlesInv == ASSUME OtaInv, LifeTypes, OtaSteps PROVE OtaInv'
<1>1. OtaTypes /\ TellInv /\ image \in Image
  BY DEF OtaInv, LifeTypes
<1>2. ota \in Stages => gift \in Image
  BY <1>1 DEF OtaTypes
<1>3. CASE OtaTimeout \/ OtaRefuses \/ OtaClosed
  <2>1. PICK failed \in {error, error \/ ~upd.run} : Fail(failed)
    BY <1>3 DEF OtaTimeout, OtaRefuses, OtaClosed
  <2>2. error => failed
    BY <2>1
  <2>3. QED
    BY <2>1, <2>2, FailInv
<1>4. CASE OtaReceive
  <2>1. /\ ota \in Stages /\ ota' \in Stages /\ ota' # "ok"
        /\ UNCHANGED <<tries, has_safe, gift, web, answer>>
    BY <1>4 DEF OtaReceive, After, Stages, rtcVars, webVars
  <2>2. CASE ota = "size"
    <3>1. UpdateBegin("ota") /\ "ota" \in Client /\ ~upd.run
      BY <1>4, <2>2 DEF OtaReceive, Client
    <3>2. /\ upd' \in UpdateRun /\ upd'.run /\ upd'.owner = "ota" /\ begun' = "ota"
          /\ told' = NotTold /\ boot' = boot
      BY <1>1, <3>1, UpdateTypes DEF UpdateBegin
    <3>3. OtaTypes'
      BY <1>1, <2>1, <3>2 DEF OtaTypes, NotTold, Client
    <3>4. TellInv'
      BY <1>1, <2>1, <3>2
      DEF TellInv, ToldIsBooted, Whose, OtaAboutToTell, WebAboutToTell, Uploading, NotTold
    <3>5. QED
      BY <3>3, <3>4 DEF OtaInv
  <2>3. CASE ota # "size"
    <3>1. UNCHANGED updateVars
      BY <1>4, <2>3 DEF OtaReceive
    <3>2. QED
      BY <1>1, <2>1, <3>1 DEF OtaInv, OtaTypes, TellInv, ToldIsBooted, Whose, OtaAboutToTell,
                              WebAboutToTell, Uploading, updateVars
  <2>4. QED
    BY <2>2, <2>3
<1>5. CASE OtaPart
  BY <1>1, <1>5 DEF OtaPart, OtaInv, OtaTypes, TellInv, ToldIsBooted, Whose, OtaAboutToTell,
                    WebAboutToTell, Uploading, rtcVars, updateVars, webVars
<1>6. CASE OtaData(image)
  <2>1. UpdateWrite("ota", image) /\ "ota" \in Client /\ upd.run /\ upd.ota < Chunks
    BY <1>6 DEF OtaData, UpdateWrite, Client
  <2>2. upd' \in UpdateRun /\ upd'.run /\ upd'.owner = upd.owner
    BY <1>1, <2>1, WriteTypes
  <2>3. /\ ota = "data" /\ ota' \in {"data", "end"} /\ boot' = image
        /\ UNCHANGED <<tries, has_safe, gift, web, answer, error, begun, told>>
    BY <1>6 DEF OtaData, UpdateWrite, rtcVars, webVars
  <2>4. OtaTypes'
    BY <1>1, <2>2, <2>3 DEF OtaTypes, Stages
  <2>5. TellInv'
    BY <1>1, <2>1, <2>2, <2>3
    DEF TellInv, ToldIsBooted, Whose, OtaAboutToTell, WebAboutToTell, Uploading
  <2>6. QED
    BY <2>4, <2>5 DEF OtaInv
<1>7. CASE OtaEnd
  <2>1. /\ upd.run /\ upd.owner = "ota" /\ upd' = NotRunning /\ boot' = gift
        /\ ota = "end" /\ ota' = "ok"
        /\ UNCHANGED <<tries, has_safe, gift, web, answer, error, begun, told>>
    BY <1>7 DEF OtaEnd, UpdateEnd, UpdateWhole, rtcVars, webVars
  <2>2. OtaTypes'
    BY <1>1, <1>2, <2>1, UpdateTypes DEF OtaTypes, Stages
  <2>3. ~upd'.run
    BY <1>1, <2>1, UpdateTypes
  <2>4. TellInv'
    BY <1>1, <2>1, <2>3
    DEF TellInv, ToldIsBooted, Whose, OtaAboutToTell, WebAboutToTell, Uploading
  <2>5. QED
    BY <2>2, <2>4 DEF OtaInv
<1>8. CASE OtaTells
  <2>1. /\ ota = "ok" /\ ota' = "ack" /\ told' = [by |-> "ota", image |-> gift]
        /\ UNCHANGED <<tries, has_safe, gift, web, answer, upd, error, boot, begun>>
    BY <1>8 DEF OtaTells, Tell, rtcVars, webVars
  <2>2. OtaTypes'
    BY <1>1, <1>2, <2>1 DEF OtaTypes, Stages, Client
  <2>3. TellInv'
    BY <1>1, <2>1 DEF TellInv, ToldIsBooted, Whose, OtaAboutToTell, WebAboutToTell, Uploading
  <2>4. QED
    BY <2>2, <2>3 DEF OtaInv
<1>9. QED
  BY <1>3, <1>4, <1>5, <1>6, <1>7, <1>8 DEF OtaSteps

LEMMA WebInv == ASSUME OtaInv, LifeTypes, WebUploads PROVE OtaInv'
<1>1. OtaTypes /\ TellInv /\ image \in Image /\ play.images \subseteq Image
  BY PlayImages DEF OtaInv, LifeTypes
<1>2. "web" \in Client
  BY DEF Client
<1>3. CASE WebBegins(play.images)
  <2>1. /\ web = "none" /\ web' \in Image /\ UpdateBegin("web")
        /\ UNCHANGED <<tries, has_safe, ota, gift, answer>>
    BY <1>1, <1>3 DEF WebBegins, rtcVars, handlerVars
  <2>2. /\ upd' \in UpdateRun /\ upd'.run /\ upd'.owner = "web" /\ begun' = "web"
        /\ told' = NotTold /\ boot' = boot
    BY <1>1, <1>2, <2>1, UpdateTypes DEF UpdateBegin
  <2>3. OtaTypes'
    BY <1>1, <2>1, <2>2 DEF OtaTypes, NotTold, Client
  <2>4. TellInv'
    BY <1>1, <2>1, <2>2, Names
    DEF TellInv, ToldIsBooted, Whose, OtaAboutToTell, WebAboutToTell, Uploading, NotTold
  <2>5. QED
    BY <2>3, <2>4 DEF OtaInv
<1>4. CASE WebWrites(image)
  <2>1. /\ UpdateWrite("web", image) /\ upd.run /\ upd.web < Chunks /\ boot' = image
        /\ UNCHANGED <<tries, has_safe, ota, gift, web, answer, error, begun, told>>
    BY <1>4 DEF WebWrites, UpdateWrite, rtcVars, handlerVars, webVars
  <2>2. upd' \in UpdateRun /\ upd'.run /\ upd'.owner = upd.owner
    BY <1>1, <2>1, WriteTypes
  <2>3. OtaTypes'
    BY <1>1, <2>1, <2>2 DEF OtaTypes
  <2>4. TellInv'
    BY <1>1, <2>1, <2>2
    DEF TellInv, ToldIsBooted, Whose, OtaAboutToTell, WebAboutToTell, Uploading
  <2>5. QED
    BY <2>3, <2>4 DEF OtaInv
<1>5. CASE WebEnds
  <2>1. /\ Uploading /\ upd.run /\ upd.owner = "web" /\ upd' = NotRunning /\ boot' = web
        /\ answer' = TRUE /\ UNCHANGED <<tries, has_safe, ota, gift, web, error, begun, told>>
    BY <1>5 DEF WebEnds, UpdateEnd, UpdateWhole, rtcVars, handlerVars
  <2>2. ~upd'.run /\ web \in Image
    BY <1>1, <2>1, UpdateTypes DEF Uploading, OtaTypes
  <2>3. OtaTypes'
    BY <1>1, <2>1, <2>2, UpdateTypes DEF OtaTypes
  <2>4. TellInv'
    BY <1>1, <2>1, <2>2
    DEF TellInv, ToldIsBooted, Whose, OtaAboutToTell, WebAboutToTell, Uploading
  <2>5. QED
    BY <2>3, <2>4 DEF OtaInv
<1>6. CASE WebRefused
  <2>1. /\ Uploading /\ upd' = NotRunning /\ error' = TRUE /\ answer' = TRUE
        /\ UNCHANGED <<tries, has_safe, ota, gift, web, boot, begun, told>>
    BY <1>6 DEF WebRefused, UpdateAbort, rtcVars, handlerVars
  <2>2. ~upd'.run
    BY <1>1, <2>1, UpdateTypes
  <2>3. OtaTypes'
    BY <1>1, <2>1, UpdateTypes DEF OtaTypes
  <2>4. TellInv'
    BY <1>1, <2>1, <2>2
    DEF TellInv, ToldIsBooted, Whose, OtaAboutToTell, WebAboutToTell, Uploading
  <2>5. QED
    BY <2>3, <2>4 DEF OtaInv
<1>7. CASE WebIgnored
  <2>1. /\ Uploading /\ ~upd.run /\ answer' = TRUE
        /\ UNCHANGED <<tries, has_safe, ota, gift, web, upd, error, boot, begun, told>>
    BY <1>7 DEF WebIgnored, rtcVars, handlerVars, updateVars
  <2>2. OtaTypes'
    BY <1>1, <2>1 DEF OtaTypes
  <2>3. TellInv'
    BY <1>1, <2>1 DEF TellInv, ToldIsBooted, Whose, OtaAboutToTell, WebAboutToTell, Uploading
  <2>4. QED
    BY <2>2, <2>3 DEF OtaInv
<1>8. CASE handleRequest
  <2>1. /\ answer /\ web' = "none" /\ answer' = FALSE
        /\ told' = told \/ (~error /\ told' = [by |-> "web", image |-> web])
        /\ UNCHANGED <<tries, has_safe, ota, gift, upd, error, boot, begun>>
    <3>1. CASE error
      BY <1>8, <3>1 DEF handleRequest, rtcVars, handlerVars, updateVars
    <3>2. CASE ~error
      BY <1>8, <3>2 DEF handleRequest, Tell, rtcVars, handlerVars
    <3>3. QED
      BY <3>1, <3>2
  <2>2. OtaTypes'
    BY <1>1, <1>2, <2>1 DEF OtaTypes
  <2>3. TellInv'
    BY <1>1, <2>1 DEF TellInv, ToldIsBooted, Whose, OtaAboutToTell, WebAboutToTell, Uploading
  <2>4. QED
    BY <2>2, <2>3 DEF OtaInv
<1>9. CASE WebLeaves
  <2>1. /\ web' = "none" /\ answer' = FALSE
        /\ UNCHANGED <<tries, has_safe, ota, gift, upd, error, boot, begun, told>>
    BY <1>9 DEF WebLeaves, rtcVars, handlerVars, updateVars
  <2>2. OtaTypes'
    BY <1>1, <2>1 DEF OtaTypes
  <2>3. TellInv'
    BY <1>1, <2>1 DEF TellInv, ToldIsBooted, Whose, OtaAboutToTell, WebAboutToTell, Uploading
  <2>4. QED
    BY <2>2, <2>3 DEF OtaInv
<1>10. QED
  BY <1>3, <1>4, <1>5, <1>6, <1>7, <1>8, <1>9 DEF WebUploads

LEMMA OtaOffInv ==
    ASSUME OtaInv, OtaOff, UNCHANGED <<boot, begun, told>>, tries' \in {tries, 0} PROVE OtaInv'
<1>1. OtaTypes /\ TellInv
  BY DEF OtaInv
<1>2. upd' = NotRunning /\ ota' = "none" /\ web' = "none" /\ answer' = FALSE /\ gift' = "none"
      /\ has_safe' = FALSE
  BY DEF OtaOff
<1>3. ~upd'.run /\ upd' \in UpdateRun
  BY <1>1, <1>2, UpdateTypes
<1>4. OtaTypes'
  <2>1. tries' \in 0 .. NumAttempts
    BY <1>1, OtaAssumption DEF OtaTypes
  <2>2. ota' \in Stages \cup {"none", "listen"} /\ ota' \notin Stages
    BY <1>2 DEF Stages
  <2>3. QED
    BY <1>1, <1>2, <1>3, <2>1, <2>2 DEF OtaTypes
<1>5. TellInv'
  BY <1>1, <1>2, <1>3 DEF TellInv, ToldIsBooted, Whose, OtaAboutToTell, WebAboutToTell, Uploading
<1>6. QED
  BY <1>4, <1>5 DEF OtaInv

\* The counter keeps its type, whatever is saved of it.
LEMMA CounterKept ==
    ASSUME OtaInv, UNCHANGED <<handlerVars, updateVars, webVars>>, tries' \in 0 .. NumAttempts,
           has_safe' \in BOOLEAN
    PROVE  OtaInv'
BY DEF OtaInv, OtaTypes, TellInv, ToldIsBooted, Whose, OtaAboutToTell, WebAboutToTell, Uploading,
       handlerVars, updateVars, webVars

\* Ways to stop.
Stops == Crash \/ UnservedReboot \/ SafeModeReboot \/ SafeReboot \/ WebReboot \/ OtaReboot

LEMMA StopsIs ==
    ASSUME Stops
    PROVE  /\ Off /\ UNCHANGED <<nvs, prefs, offset, boot, begun, told, play, once>>
           /\ tries' \in {tries, 0}
           /\ \/ UNCHANGED <<tries, uncleared, starts>> /\ power # "off"
              \/ safe_reboot /\ power = "on"
<1>1. Crash \/ UnservedReboot \/ SafeModeReboot =>
          Off /\ power # "off" /\ UNCHANGED <<nvs, prefs, offset, tries, uncleared, boot, begun, told,
                                              starts, play, once>>
  BY DEF Crash, UnservedReboot, SafeModeReboot, reboot, Loops, Free, Lasting, rtcVars
<1>2. SafeReboot \/ WebReboot \/ OtaReboot => safe_reboot /\ power = "on"
  BY DEF SafeReboot, WebReboot, OtaReboot, Loops, Free
<1>3. safe_reboot => /\ Off /\ UNCHANGED <<nvs, prefs, offset, boot, begun, told, play, once>>
                     /\ tries' \in {tries, 0}
  BY DEF safe_reboot, clean_rtc, write_rtc, rtcVars
<1>4. QED
  BY <1>1, <1>2, <1>3 DEF Stops

\* The update and the boot counter.
LEMMA OtaStepInv == ASSUME OtaInv, LifeTypes, Next PROVE OtaInv'
<1>0. /\ tries \in 0 .. NumAttempts /\ has_safe \in BOOLEAN /\ NumAttempts \in Nat
      /\ 0 \in 0 .. NumAttempts
  BY OtaAssumption DEF OtaInv, OtaTypes
<1>1. CASE PowerOn
  BY <1>0, <1>1, CounterKept DEF PowerOn
<1>2. CASE should_enter_safe_mode
  <2>1. tries' \in {0, tries} \/ (~SafeModeDue /\ tries' = Counted)
    BY <1>2 DEF should_enter_safe_mode, clean_rtc, write_rtc
  <2>2. tries' \in 0 .. NumAttempts
    BY <1>0, <2>1 DEF Counted, SafeModeDue
  <2>3. QED
    BY <1>2, <2>2, CounterKept DEF should_enter_safe_mode
<1>3. CASE SetUp
  <2>1. UNCHANGED otaVars \/ (ota' = "listen" /\ UNCHANGED <<tries, has_safe, gift, updateVars, webVars>>)
    BY <1>3 DEF SetUp, rtcVars
  <2>2. QED
    BY <2>1, OtaSame DEF OtaInv, OtaTypes, TellInv, ToldIsBooted, Whose, OtaAboutToTell,
                         WebAboutToTell, Uploading, updateVars, webVars, Stages
<1>4. CASE Proceed \/ Step \/ Turn \/ Timeout \/ PortalSaves \/ Tick
  BY <1>4, OtaSame DEF Proceed, Step, Turn, Timeout, PortalSaves, Tick
<1>5. CASE OtaHandles
  BY <1>5, OtaHandlesInv DEF OtaHandles
<1>6. CASE OtaStarts
  <2>1. ota' = "magic" /\ gift' \in Image /\ UNCHANGED <<tries, has_safe, updateVars, webVars>>
    BY <1>6, PlayImages DEF OtaStarts, OtaAccept, rtcVars
  <2>2. QED
    BY <2>1 DEF OtaInv, OtaTypes, TellInv, ToldIsBooted, Whose, OtaAboutToTell,
                WebAboutToTell, Uploading, updateVars, webVars, Stages
<1>7. CASE WebUploads
  BY <1>7, WebInv
<1>8. CASE CleanRtc
  <2>1. tries' \in 0 .. NumAttempts /\ has_safe' \in BOOLEAN
        /\ UNCHANGED <<handlerVars, updateVars, webVars>>
    BY <1>0, <1>8 DEF CleanRtc, BootSeemsSuccessful, clean_rtc, write_rtc
  <2>2. QED
    BY <2>1, CounterKept
<1>9. CASE Stops
  BY <1>9, StopsIs, OtaOffInv DEF Off
<1>10. QED
  BY <1>1, <1>2, <1>3, <1>4, <1>5, <1>6, <1>7, <1>8, <1>9 DEF Next, Stops

-----------------------------------------------------------------------------
(***************************************************************************)
(* The invariant.                                                          *)
(***************************************************************************)
LEMMA CallStepInv ==
    ASSUME IInv, Next
    PROVE  CallInv' /\ once' \in [Switch -> SUBSET Position]
<1>1. CallInv /\ LifeTypes /\ OtaTypes /\ once \in [Switch -> SUBSET Position]
  BY DEF IInv, OtaInv, LifeTypes
<1>2. CASE Step
  BY <1>1, <1>2, StepInv
<1>3. CASE ~Step
  <2>1. once' = once
    BY <1>3 DEF Next, PowerOn, should_enter_safe_mode, SetUp, Proceed, Turn, Timeout, PortalSaves,
                OtaStarts, OtaHandles, WebUploads, CleanRtc, Crash, UnservedReboot, SafeModeReboot,
                SafeReboot, WebReboot, OtaReboot, reboot, safe_reboot, Tick, lifeVars, Lasting
  <2>2. CASE Proceed \/ OtaStarts \/ OtaHandles \/ WebUploads \/ CleanRtc
    <3>1. UNCHANGED <<switchVars, power, image, safe, todo, once>>
      BY <2>2 DEF Proceed, OtaStarts, OtaHandles, WebUploads, CleanRtc, lifeVars
    <3>2. QED
      BY <1>1, <2>1, <3>1, CallKept
  <2>3. CASE Tick
    <3>1. timer \in [Switch -> 0 .. WaitTime \cup {NoTimer}]
      BY <1>1 DEF CallInv, SwitchInv, SwitchTypes
    <3>2. timer' = [s \in Switch |-> IF timer[s] \in {NoTimer, 0} THEN timer[s] ELSE timer[s] - 1]
          /\ UNCHANGED <<nvs, prefs, offset, pinVars, steps, asked, power, image, safe, todo, once>>
      BY <2>3 DEF Tick
    <3>3. \A s \in Switch : /\ timer'[s] \in 0 .. WaitTime \cup {NoTimer}
                            /\ timer'[s] # NoTimer => timer[s] # NoTimer
      <4> SUFFICES ASSUME NEW s \in Switch
                   PROVE  /\ timer'[s] \in 0 .. WaitTime \cup {NoTimer}
                          /\ timer'[s] # NoTimer => timer[s] # NoTimer
        OBVIOUS
      <4>1. timer[s] \in 0 .. WaitTime \cup {NoTimer}
            /\ timer'[s] = IF timer[s] \in {NoTimer, 0} THEN timer[s] ELSE timer[s] - 1
        BY <3>1, <3>2
      <4>2. QED
        BY <4>1, Names
    <3>4. timer' \in [Switch -> 0 .. WaitTime \cup {NoTimer}]
      BY <3>2, <3>3
    <3>5. QED
      BY <1>1, <2>1, <3>2, <3>3, <3>4, CallSame
  <2>4. CASE Stops
    BY <1>1, <2>1, <2>4, StopsIs, OffInv
  <2>5. QED
    BY <1>1, <1>3, <2>1, <2>2, <2>3, <2>4, SetUpInv, TurnInv, TimeoutInv, PortalInv, PowerOnInv,
       EnterInv DEF Next, Stops
<1>4. QED
  BY <1>2, <1>3

LEMMA LifeStepInv ==
    ASSUME IInv, Next, once' \in [Switch -> SUBSET Position]
    PROVE  LifeTypes'
<1>1. LifeTypes /\ boot \in Image
  BY DEF IInv, OtaInv, OtaTypes
<1>2. 0 \in 0 .. UpCap /\ 0 \in 0 .. StartsCap /\ 1 \in 0 .. StartsCap /\ UpCap \in Nat /\ StartsCap \in Nat
  BY OtaAssumption DEF UpCap, StartsCap
<1>3. CASE PowerOn
  <2>1. UNCHANGED <<image, safe, up, play>> /\ power' = "start"
        /\ (starts' = 1 \/ starts' = IF starts < StartsCap THEN starts + 1 ELSE starts)
    BY <1>3 DEF PowerOn
  <2>2. starts' \in 0 .. StartsCap
    BY <1>1, <1>2, <2>1 DEF LifeTypes
  <2>3. QED
    BY <1>1, <2>1, <2>2 DEF LifeTypes
<1>4. CASE should_enter_safe_mode
  <2>1. power' = "on" /\ safe' \in BOOLEAN /\ starts' \in {0, starts} /\ UNCHANGED <<image, up, play>>
    BY <1>4 DEF should_enter_safe_mode, SafeModeDue
  <2>2. QED
    BY <1>1, <1>2, <2>1 DEF LifeTypes
<1>5. CASE Tick
  <2>1. up' = (IF up < UpCap THEN up + 1 ELSE up) /\ UNCHANGED <<power, image, safe, starts, play>>
    BY <1>5 DEF Tick
  <2>2. up' \in 0 .. UpCap
    BY <1>1, <1>2, <2>1 DEF LifeTypes
  <2>3. QED
    BY <1>1, <2>1, <2>2 DEF LifeTypes
<1>6. CASE CleanRtc
  BY <1>1, <1>2, <1>6 DEF CleanRtc, LifeTypes
<1>7. CASE Stops
  <2>1. power' = "off" /\ image' = boot /\ safe' = FALSE /\ up' = 0 /\ starts' \in {0, starts} /\ play' = play
    BY <1>7, StopsIs DEF Off, safe_reboot
  <2>2. QED
    BY <1>1, <1>2, <2>1 DEF LifeTypes
<1>8. CASE SetUp \/ Proceed \/ Step \/ Turn \/ Timeout \/ PortalSaves \/ OtaStarts \/ OtaHandles \/ WebUploads
  <2>1. UNCHANGED <<power, image, safe, up, starts, play>>
    BY <1>8 DEF SetUp, Proceed, Step, Turn, Timeout, PortalSaves, OtaStarts, OtaHandles,
                WebUploads, lifeVars
  <2>2. QED
    BY <1>1, <2>1 DEF LifeTypes
<1>9. QED
  BY <1>3, <1>4, <1>5, <1>6, <1>7, <1>8 DEF Next, Stops

LEMMA Stutters == ASSUME IInv, UNCHANGED vars PROVE IInv'
<1>1. UNCHANGED <<switchVars, power, image, safe, todo, once>> /\ UNCHANGED otaVars
      /\ UNCHANGED <<up, starts, play>>
  BY DEF vars, lifeVars
<1>2. CallInv' /\ OtaInv'
  BY <1>1, CallKept, OtaSame DEF IInv
<1>3. LifeTypes'
  BY <1>1 DEF IInv, LifeTypes
<1>4. QED
  BY <1>2, <1>3 DEF IInv

LEMMA Starts == ASSUME Init PROVE IInv /\ Counting
<1>1. /\ nvs = [k \in Keys |-> NoBlob] /\ prefs = [o \in Switch \cup {"wifi"} |-> 0] /\ offset = 1
      /\ there = {} /\ level = [s \in Switch |-> "float"] /\ state = [s \in Switch |-> "off"]
      /\ shown = [s \in Switch |-> "none"] /\ timer = [s \in Switch |-> NoTimer] /\ steps = <<>>
      /\ asked = [s \in Switch |-> "off"] /\ unsaved = {} /\ power = "off"
      /\ once = [s \in Switch |-> {}] /\ play \in Plays /\ boot \in play.images /\ image = boot
  BY DEF Init
<1>2. steps \in Seq(Action) /\ DOMAIN steps = {}
  BY <1>1
<1>3. offset \in 1 .. Cardinality(Switch) + 2
  BY <1>1, Names
<1>4. SwitchTypes
  BY <1>1, <1>2, <1>3 DEF SwitchTypes, Blob, Position
<1>5. \A s \in Switch : level[s] # Raw(s, "on")
  BY <1>1 DEF Raw, Flip
<1>6. StepsFit /\ OffFirst /\ Exclusive /\ Agree /\ Waits
  BY <1>1, <1>2, <1>5 DEF StepsFit, OffFirst, Exclusive, Rivals, Agree, Waits
<1>7. SetUpOrder /\ Numbered /\ Fresh
  BY <1>1 DEF SetUpOrder, Numbered, Fresh
<1>8. OnceKept /\ Kept /\ BeginsRight
  BY <1>1, <1>2, Names DEF OnceKept, NoBlob, Kept, BeginsRight
<1>9. boot \in Image
  BY <1>1, PlaysAssumption
<1>10. LifeTypes
  <2>1. 0 \in 0 .. UpCap /\ 0 \in 0 .. StartsCap
    BY OtaAssumption DEF UpCap, StartsCap
  <2>2. up = 0 /\ starts = 0 /\ safe = FALSE
    BY DEF Init
  <2>3. QED
    BY <1>1, <1>9, <2>1, <2>2 DEF LifeTypes
<1>11. OtaTypes
  <2>1. NotRunning \in UpdateRun /\ 0 \in 0 .. NumAttempts
    BY OtaAssumption DEF NotRunning, UpdateRun, Client
  <2>2. tries = 0 /\ has_safe = FALSE /\ ota = "none" /\ gift = "none" /\ upd = NotRunning
        /\ web = "none" /\ begun = "none" /\ told = NotTold
    BY DEF Init
  <2>3. NotTold \in [by : Client, image : Image \cup {"none"}] /\ "none" \in Client
    BY DEF NotTold, Client
  <2>4. QED
    BY <1>9, <2>1, <2>2, <2>3 DEF OtaTypes, Stages
<1>12. TellInv /\ Counting
  BY DEF Init, TellInv, ToldIsBooted, Whose, OtaAboutToTell, WebAboutToTell, Uploading, NotRunning,
         NotTold, Counting
<1>13. QED
  BY <1>4, <1>6, <1>7, <1>8, <1>10, <1>11, <1>12 DEF IInv, OtaInv, CallInv, SwitchInv, KeptInv

LEMMA Invariance == Spec => []IInv
<1>1. Init => IInv
  BY Starts
<1>2. IInv /\ [Next]_vars => IInv'
  <2>1. ASSUME IInv, Next PROVE IInv'
    <3>1. CallInv' /\ once' \in [Switch -> SUBSET Position]
      BY <2>1, CallStepInv
    <3>2. LifeTypes' /\ OtaInv'
      BY <2>1, <3>1, LifeStepInv, OtaStepInv DEF IInv
    <3>3. QED
      BY <3>1, <3>2 DEF IInv
  <2>2. QED
    BY <2>1, Stutters
<1>3. QED
  BY <1>1, <1>2, PTL DEF Spec

\* Every variable keeps its type, switches that exclude each other are never both on, a switch
\* that is turned off is not turned on by its wait, and between calls what is kept of each
\* switch is its state (gpio_switch.cpp, switch.cpp).
THEOREM RestartsAreSound == Spec => []RestartsInv
<1>1. IInv => RestartsInv
  <2> SUFFICES ASSUME IInv PROVE RestartsInv
    OBVIOUS
  <2>1. /\ SwitchTypes /\ Exclusive /\ Agree /\ Waits /\ Kept /\ OtaTypes /\ LifeTypes
        /\ SwitchInv
    BY DEF IInv, OtaInv, CallInv, SwitchInv, KeptInv
  <2>2. TypeOK
    <3>1. /\ told.image \in Image \cup {"none"} /\ told.by \in Client /\ begun \in Client
          /\ upd.ota \in 0 .. Chunks /\ upd.web \in 0 .. Chunks
      BY <2>1 DEF OtaTypes, UpdateRun
    <3>2. {web, gift, told.image} \subseteq Image \cup {"none"} /\ {boot, image} \subseteq Image
      BY <2>1, <3>1 DEF OtaTypes, LifeTypes
    <3>3. {begun, told.by} \subseteq {"none", "ota", "web"}
      BY <3>1 DEF Client
    <3>4. QED
      BY <2>1, <3>1, <3>2, <3>3 DEF TypeOK, SwitchTypes, OtaTypes, LifeTypes
  <2>3. Interlocked
    BY <2>1, Names DEF Interlocked, Agree, Exclusive, Rivals
  <2>4. OffStaysOff
    BY <2>1 DEF OffStaysOff, Waits
  <2>5. SettledIsKept
    <3> SUFFICES ASSUME steps = <<>>, NEW s \in there \ unsaved, prefs[s] # 0
                 PROVE  load(s, image, prefs[s]) = state[s]
      BY DEF SettledIsKept
    <3>1. s \in Switch /\ shown[s] # "none"
      BY <2>1, AllShown DEF SwitchTypes
    <3>2. DOMAIN steps = {}
      OBVIOUS
    <3>3. nvs[prefs[s]] = [words |-> 1, crc |-> s, data |-> state[s]]
      BY <2>1, <3>1, <3>2 DEF Kept
    <3>4. QED
      BY <3>1, <3>3, Names DEF load, load_valid, Words, Type
  <2>6. QED
    BY <2>2, <2>3, <2>4, <2>5 DEF RestartsInv
<1>2. QED
  BY <1>1, Invariance, PTL

\* The firmware that a client was told is in place is the one the next start runs, if it was
\* that client who began an update last (ota_component.cpp:258-264, web_server_base.cpp:24-87):
\* whoever else wrote in between.
THEOREM WhatIsToldIsBooted == Spec => []ToldIsBooted
<1>1. IInv => ToldIsBooted
  BY DEF IInv, OtaInv, TellInv
<1>2. QED
  BY <1>1, Invariance, PTL

-----------------------------------------------------------------------------
(***************************************************************************)
(* Safe mode.                                                              *)
(***************************************************************************)
\* Who clears the counter says whether it was cleared.
LEMMA Cleared == ASSUME NEW refusable, clean_rtc(refusable), ~uncleared' PROVE tries' = 0
BY DEF clean_rtc

LEMMA CountingStep ==
    ASSUME IInv, Counting, Next
    PROVE  Counting' /\ (safe' /\ ~safe => starts > NumAttempts \/ uncleared)
<1>1. tries \in 0 .. NumAttempts /\ starts \in 0 .. StartsCap
  BY DEF IInv, OtaInv, OtaTypes, LifeTypes
<1>2. NumAttempts \in Nat /\ tries \in Int /\ starts \in Int /\ tries >= 0
  BY <1>1, OtaAssumption DEF StartsCap
<1>3. CASE PowerOn
  <2>1. /\ power' = "start" /\ safe' = safe
        /\ \/ tries' = 0 /\ starts' = 1
           \/ /\ tries' = tries /\ starts' = IF starts < StartsCap THEN starts + 1 ELSE starts
              /\ uncleared' <=> uncleared
    <3>1. PICK broken \in BOOLEAN :
             /\ tries' = (IF broken THEN 0 ELSE tries) /\ uncleared' = (uncleared /\ ~broken)
             /\ starts' = IF broken THEN 1 ELSE IF starts < StartsCap THEN starts + 1 ELSE starts
      BY <1>3 DEF PowerOn
    <3>2. CASE broken
      BY <1>3, <3>1, <3>2 DEF PowerOn
    <3>3. CASE ~broken
      <4>1. uncleared' <=> uncleared
        BY <3>1, <3>3
      <4>2. QED
        BY <1>3, <3>1, <3>3, <4>1 DEF PowerOn
    <3>4. QED
      BY <3>2, <3>3
  <2>2. ~uncleared' => starts' > tries' /\ starts' >= tries'
    <3>1. CASE tries' = 0 /\ starts' = 1
      BY <3>1
    <3>2. CASE tries' = tries /\ starts' = (IF starts < StartsCap THEN starts + 1 ELSE starts)
               /\ (uncleared' <=> uncleared)
      <4>1. ~uncleared => starts >= tries
        BY DEF Counting
      <4>2. QED
        BY <1>1, <1>2, <3>2, <4>1 DEF StartsCap
    <3>3. QED
      BY <2>1, <3>1, <3>2
  <2>3. QED
    BY <2>1, <2>2 DEF Counting
<1>4. CASE should_enter_safe_mode
  <2>1. /\ ~uncleared => starts > tries
        /\ (safe' <=> SafeModeDue) /\ power' = "on" /\ has_safe' = TRUE
        /\ starts' = (IF safe' THEN 0 ELSE starts)
    BY <1>4 DEF should_enter_safe_mode, Counting
  <2>2. CASE SafeModeDue
    <3>1. clean_rtc(MayRefuse) /\ starts' = 0 /\ tries >= NumAttempts
      BY <1>4, <2>1, <2>2 DEF should_enter_safe_mode, SafeModeDue
    <3>2. ~uncleared' => tries' = 0
      BY <3>1, Cleared
    <3>3. ~uncleared => starts > NumAttempts
      BY <1>2, <2>1, <3>1
    <3>4. QED
      BY <2>1, <3>1, <3>2, <3>3 DEF Counting
  <2>3. CASE ~SafeModeDue
    <3>1. ~safe' /\ tries' \in {tries + 1, tries} /\ starts' = starts /\ uncleared' = uncleared
      BY <1>4, <2>1, <2>3 DEF should_enter_safe_mode, write_rtc, Counted
    <3>2. ~uncleared => starts' >= tries'
      BY <1>2, <2>1, <3>1
    <3>3. QED
      BY <2>1, <3>1, <3>2 DEF Counting
  <2>4. QED
    BY <2>2, <2>3
<1>5. CASE CleanRtc
  <2>1. clean_rtc(MayRefuse) /\ starts' = 0 /\ safe' = safe
    BY <1>5 DEF CleanRtc, BootSeemsSuccessful
  <2>2. ~uncleared' => tries' = 0
    BY <2>1, Cleared
  <2>3. power' = "on"
    BY <1>5 DEF CleanRtc, Loops, Free
  <2>4. QED
    BY <2>1, <2>2, <2>3 DEF Counting
<1>6. CASE Stops
  <2>1. power' = "off" /\ safe' = FALSE
    BY <1>6, StopsIs DEF Off
  <2>2. ~uncleared' => starts' >= tries'
    <3>1. CASE UNCHANGED <<tries, uncleared, starts>>
      BY <3>1 DEF Counting
    <3>2. CASE safe_reboot /\ power = "on"
      <4>1. starts' = 0 /\ (has_safe => clean_rtc(MayRefuse)) /\ (~has_safe => UNCHANGED rtcVars)
        BY <3>2 DEF safe_reboot
      <4>2. ~uncleared' => tries' = 0
        BY <3>2, <4>1, Cleared DEF rtcVars, Counting
      <4>3. QED
        BY <4>1, <4>2
    <3>3. QED
      BY <1>6, <3>1, <3>2, StopsIs
  <2>3. QED
    BY <2>1, <2>2 DEF Counting
<1>7. CASE SetUp \/ Proceed \/ Step \/ Turn \/ Timeout \/ PortalSaves \/ OtaStarts \/ OtaHandles
           \/ WebUploads \/ Tick
  <2>1. UNCHANGED <<power, safe, starts>>
    BY <1>7 DEF SetUp, Proceed, Step, Turn, Timeout, PortalSaves, OtaStarts, OtaHandles,
                WebUploads, Tick, lifeVars
  <2>2. UNCHANGED <<rtcVars, has_safe>>
    <3>1. CASE SetUp \/ Proceed \/ Step \/ Turn \/ Timeout \/ PortalSaves \/ Tick
      BY <3>1 DEF SetUp, Proceed, Step, Turn, Timeout, PortalSaves, Tick, otaVars, rtcVars
    <3>2. CASE OtaStarts \/ OtaHandles
      BY <3>2 DEF OtaStarts, OtaHandles, OtaSteps, OtaReceive, OtaData, OtaEnd, OtaTells,
                  OtaTimeout, OtaRefuses, OtaClosed, OtaPart, Fail, OtaAccept
    <3>3. CASE WebUploads
      BY <3>3 DEF WebUploads, WebBegins, WebWrites, WebEnds, WebRefused, WebIgnored,
                  handleRequest, WebLeaves
    <3>4. QED
      BY <1>7, <3>1, <3>2, <3>3
  <2>3. QED
    BY <2>1, <2>2 DEF Counting, rtcVars
<1>8. QED
  BY <1>3, <1>4, <1>5, <1>6, <1>7 DEF Next, Stops

\* Safe mode comes after at least as many starts as there may be attempts, none of which
\* lasted or ended on purpose, unless the counter could not be cleared when it was to be
\* (ota_component.cpp:378-413).
THEOREM SafeModeNeedsBadStarts == Spec => SafeModeIsEarned
<1>1. Init => Counting
  BY Starts
<1>2. IInv /\ Counting /\ [Next]_vars
      => Counting' /\ [safe' /\ ~safe => starts > NumAttempts \/ uncleared]_vars
  <2>1. ASSUME IInv, Counting, Next
        PROVE  Counting' /\ (safe' /\ ~safe => starts > NumAttempts \/ uncleared)
    BY <2>1, CountingStep
  <2>2. ASSUME Counting, UNCHANGED vars PROVE Counting'
    BY <2>2 DEF vars, otaVars, lifeVars, Counting
  <2>3. QED
    BY <2>1, <2>2
<1>3. QED
  BY <1>1, <1>2, Invariance, PTL DEF Spec, SafeModeIsEarned

-----------------------------------------------------------------------------
(***************************************************************************)
(* The switches keep the promise of SwitchMemory.                          *)
(***************************************************************************)
Now == [s \in Switch |-> IF shown[s] = "none" THEN "absent" ELSE state[s]]
KeptIs == [s \in Switch |-> Stored(s)]

\* What is kept of a switch was once its state.
FromOnce == \A s \in Switch : /\ Stored(s) \in Position \cup {"absent"}
                              /\ Stored(s) \in once[s] \cup {"absent"}
LEMMA KeptOnce == IInv => FromOnce
<1> SUFFICES ASSUME IInv, NEW s \in Switch
             PROVE  /\ Stored(s) \in Position \cup {"absent"}
                    /\ Stored(s) \in once[s] \cup {"absent"}
  BY DEF FromOnce
<1>1. nvs \in [Keys -> Blob] /\ OnceKept
  BY DEF IInv, CallInv, SwitchInv, SwitchTypes, KeptInv
<1>2. Stored(s) \in Position \cup {"absent"}
  BY <1>1, StoredType
<1> DEFINE k == KeyOf(s)
<1>3. CASE k # 0 /\ nvs[k].words = 1 /\ nvs[k].crc = s
  <2>1. nvs[k].data \in once[s]
    BY <1>1, <1>3, KeyRange DEF OnceKept
  <2>2. QED
    BY <1>2, <2>1 DEF Stored, load
<1>4. CASE ~(k # 0 /\ nvs[k].words = 1 /\ nvs[k].crc = s)
  BY <1>2, <1>4, Names DEF Stored, load, load_valid, Words, Type
<1>5. QED
  BY <1>2, <1>3, <1>4

LEMMA KeptOnceNext == IInv' => FromOnce'
BY KeptOnce, PTL

LEMMA MapSame ==
    ASSUME UNCHANGED <<nvs, image, shown, state, once>>
    PROVE  UNCHANGED Memory!vars
<1>1. Now' = Now
  BY DEF Now
<1>2. \A s \in Switch : Stored(s)' = Stored(s)
  BY StoredSame
<1>3. KeptIs' = KeptIs
  BY <1>2 DEF KeptIs
<1>4. QED
  BY <1>1, <1>3 DEF Memory!vars, Now, KeptIs, Stored

LEMMA MapWrite ==
    ASSUME CallInv, DoWrite, UNCHANGED <<image, once>>
    PROVE  \E s \in Switch : Memory!Start(s) \/ Memory!Turn(s)
<1> SUFFICES ASSUME NEW s, NEW p, s = steps[1].s, p = steps[1].p
             PROVE  \E x \in Switch : Memory!Start(x) \/ Memory!Turn(x)
  OBVIOUS
<1>1. SwitchTypes /\ StepsFit /\ BeginsRight
  BY DEF CallInv, SwitchInv, KeptInv
<1>2. /\ s \in Switch /\ p \in Position /\ shown' = [shown EXCEPT ![s] = p]
      /\ state' = [state EXCEPT ![s] = p]
  BY <1>1, DoWriteIs
<1>3. steps[1].op = "write" /\ nvs' = nvs /\ 1 \in DOMAIN steps
  BY <1>1 DEF DoWrite, SwitchTypes
<1>4. shown \in [Switch -> Position \cup {"none"}] /\ state \in [Switch -> Position]
  BY <1>1 DEF SwitchTypes
<1>5. shown[s] = "none" => p = Begins[s][Stored(s)]
  BY <1>1, <1>3 DEF BeginsRight
<1>6. \A x \in Switch : Stored(x)' = Stored(x)
  BY <1>3, StoredSame
<1>7. KeptIs' = KeptIs
  BY <1>6 DEF KeptIs
<1>8. Now' = [Now EXCEPT ![s] = p]
  BY <1>2, <1>4 DEF Now, Position
<1>9. Now[s] = "absent" <=> shown[s] = "none"
  BY <1>2, <1>4 DEF Now, Position
<1>10. KeptIs[s] = Stored(s)
  BY <1>2 DEF KeptIs
<1>11. CASE shown[s] = "none"
  <2>1. Now[s] = "absent" /\ Now' = [Now EXCEPT ![s] = Begins[s][KeptIs[s]]]
    BY <1>5, <1>8, <1>9, <1>10, <1>11
  <2>2. Memory!Start(s)
    BY <1>7, <2>1 DEF Memory!Start, Memory!Absent, Now, KeptIs, Stored
  <2>3. QED
    BY <1>2, <2>2
<1>12. CASE shown[s] # "none"
  <2>1. Now[s] # "absent" /\ p \in {"on", "off"}
    BY <1>2, <1>9, <1>12 DEF Position
  <2>2. Memory!Turn(s)
    BY <1>7, <1>8, <2>1 DEF Memory!Turn, Memory!Absent, Memory!Position, Now, KeptIs, Stored
  <2>3. QED
    BY <1>2, <2>2
<1>13. QED
  BY <1>11, <1>12

LEMMA MapSave ==
    ASSUME CallInv, LifeTypes, power = "on", NEW mayFail, DoSave(image, mayFail), Remembers,
           image' = image
    PROVE  UNCHANGED Memory!vars \/ \E s \in Switch : Memory!Keep(s)
<1> SUFFICES ASSUME NEW s, s = steps[1].s
             PROVE  UNCHANGED Memory!vars \/ \E x \in Switch : Memory!Keep(x)
  OBVIOUS
<1>1. SwitchTypes /\ StepsFit /\ Agree /\ OnceKept /\ image \in Image
      /\ once \in [Switch -> SUBSET Position]
  BY DEF CallInv, SwitchInv, KeptInv, LifeTypes
<1>2. UNCHANGED <<state, shown>>
  BY DEF DoSave
<1>3. /\ s \in Switch /\ shown[s] # "none" /\ prefs[s] # 0
      /\ \/ nvs' = [nvs EXCEPT ![prefs[s]] = [words |-> 1, crc |-> s, data |-> state[s]]]
         \/ nvs' = nvs
  BY <1>1, SaveIs
<1>4. CASE nvs' = nvs
  <2>1. once' = once
    BY <1>1, <1>4, OnceStays
  <2>2. QED
    BY <1>2, <1>4, <2>1, MapSame
<1>5. CASE nvs' = [nvs EXCEPT ![prefs[s]] = [words |-> 1, crc |-> s, data |-> state[s]]]
  <2>1. PICK p : p = state[s]
    OBVIOUS
  <2>2. p \in Position /\ nvs \in [Keys -> Blob] /\ prefs[s] = KeyOf(s)
    BY <1>1, <1>3, <2>1 DEF SwitchTypes, CallInv, Numbered
  <2>3. KeyOf(s) # 0 /\ KeyOf(s) \in Keys
        /\ nvs' = [nvs EXCEPT ![KeyOf(s)] = [words |-> 1, crc |-> s, data |-> p]]
    BY <1>3, <1>5, <2>1, <2>2, KeyRange
  <2>4. \A x \in Switch : Stored(x)' = IF x = s THEN p ELSE Stored(x)
    BY <1>1, <1>3, <2>2, <2>3, StoredKeeps
  <2>5. KeptIs' = [KeptIs EXCEPT ![s] = p]
    BY <1>3, <2>4 DEF KeptIs
  <2>6. Now' = Now /\ Now[s] = p /\ p # "absent"
    BY <1>2, <1>3, <2>1, <2>2 DEF Now, Position
  <2>7. once' = [once EXCEPT ![s] = @ \cup {p}]
    <3> DEFINE D(x) == {nvs'[k].data : k \in {k \in Keys : nvs'[k].crc = x}}
    <3>1. once' = [x \in Switch |-> once[x] \cup D(x)]
      BY DEF Remembers
    <3>2. p \in D(s)
      BY <2>2, <2>3
    <3>3. \A x \in Switch : D(x) \subseteq IF x = s THEN once[s] \cup {p} ELSE once[x]
      <4> SUFFICES ASSUME NEW x \in Switch, NEW k \in Keys, nvs'[k].crc = x
                   PROVE  nvs'[k].data \in IF x = s THEN once[s] \cup {p} ELSE once[x]
        OBVIOUS
      <4>1. CASE k = KeyOf(s)
        BY <2>2, <2>3, <4>1
      <4>2. CASE k # KeyOf(s)
        BY <1>1, <2>2, <2>3, <4>2 DEF OnceKept
      <4>3. QED
        BY <4>1, <4>2
    <3> HIDE DEF D
    <3>4. \A x \in Switch : once[x] \cup D(x) = IF x = s THEN once[s] \cup {p} ELSE once[x]
      BY <3>2, <3>3
    <3>5. QED
      BY <1>1, <3>1, <3>4
  <2>8. Memory!Keep(s)
    BY <1>3, <2>5, <2>6, <2>7 DEF Memory!Keep, Memory!Absent, Now, KeptIs, Stored
  <2>9. QED
    BY <1>3, <2>8
<1>6. QED
  BY <1>3, <1>4, <1>5

\* What is kept is lost, or written over by settings.
LEMMA MapForget ==
    ASSUME FromOnce', UNCHANGED <<image, shown, state, once>>,
           \A s \in Switch : Stored(s)' \in {Stored(s), "absent"}
    PROVE  Memory!Forget
<1>1. Now' = Now
  BY DEF Now
<1>2. KeptIs' \in [Switch -> {"on", "off"} \cup {"absent"}]
      /\ \A s \in Switch : KeptIs'[s] \in {KeptIs[s], "absent"}
  BY DEF FromOnce, KeptIs, Position
<1>3. QED
  BY <1>1, <1>2 DEF Memory!Forget, Memory!Absent, Memory!Position, Now, KeptIs, Stored

LEMMA MapPortal == ASSUME CallInv, LifeTypes, FromOnce', PortalSaves PROVE Memory!Forget
<1> DEFINE k == prefs["wifi"]
           blob == [words |-> 25, crc |-> image, data |-> "set"]
<1>1. UNCHANGED <<image, shown, state, once>> /\ k # 0 /\ nvs' = [nvs EXCEPT ![k] = blob]
  BY DEF PortalSaves, Saved, Words, Type, lifeVars, pinVars
<1>2. nvs \in [Keys -> Blob] /\ k \in Keys
  BY <1>1 DEF CallInv, SwitchInv, SwitchTypes
<1> HIDE DEF k
<1>3. ASSUME NEW s \in Switch PROVE Stored(s)' \in {Stored(s), "absent"}
  <2>1. KeyOf(s)' = KeyOf(s)
    BY <1>1 DEF KeyOf, UpTo
  <2>2. CASE KeyOf(s) = k
    <3>1. nvs'[k].words = 25 /\ Words(s) = 1
      BY <1>2, <1>1, Names DEF Words
    <3>2. load(s, image, KeyOf(s))' = "none"
      BY <2>1, <2>2, <3>1 DEF load, load_valid
    <3>3. QED
      BY <3>2 DEF Stored
  <2>3. CASE KeyOf(s) # k
    <3>1. KeyOf(s) # 0 => nvs'[KeyOf(s)] = nvs[KeyOf(s)]
      BY <1>1, <1>2, <2>3, KeyRange
    <3>2. load(s, image, KeyOf(s))' = load(s, image, KeyOf(s))
      BY <1>1, <2>1, <3>1 DEF load, load_valid
    <3>3. QED
      BY <3>2 DEF Stored
  <2>4. QED
    BY <2>2, <2>3
<1>4. QED
  BY <1>1, <1>3, MapForget

LEMMA MapPowerOn ==
    ASSUME CallInv, FromOnce', PowerOn PROVE UNCHANGED Memory!vars \/ Memory!Forget
<1>1. PICK broken \in BOOLEAN : begin(broken)
  BY DEF PowerOn
<1>2. UNCHANGED <<image, shown, state, once>>
      /\ nvs' = IF broken THEN [k \in Keys |-> NoBlob] ELSE nvs
  BY <1>1 DEF PowerOn, begin, pinVars
<1>3. CASE nvs' = nvs
  BY <1>2, <1>3, MapSame
<1>4. CASE nvs' = [k \in Keys |-> NoBlob]
  <2>1. ASSUME NEW s \in Switch PROVE Stored(s)' = "absent"
    <3>1. KeyOf(s)' = KeyOf(s)
      BY <1>2 DEF KeyOf, UpTo
    <3>2. KeyOf(s) # 0 => nvs'[KeyOf(s)].words = 0
      BY <1>4, KeyRange DEF NoBlob
    <3>3. load(s, image, KeyOf(s))' = "none"
      BY <3>1, <3>2, Names DEF load, load_valid, Words
    <3>4. QED
      BY <3>3 DEF Stored
  <2>2. QED
    BY <1>2, <2>1, MapForget
<1>5. QED
  BY <1>2, <1>3, <1>4

LEMMA MapStops ==
    ASSUME Stops, FromOnce', boot \in Image PROVE Memory!Restart
<1>1. /\ image' = boot /\ shown' = [s \in Switch |-> "none"] /\ UNCHANGED <<nvs, once>>
  BY StopsIs DEF Off, SwitchesOff
<1>2. Now' = [s \in Switch |-> "absent"]
  BY <1>1 DEF Now
<1>3. \A s \in Switch : image' = image => Stored(s)' = Stored(s)
  BY <1>1, StoredSame
<1>4. KeptIs' \in [Switch -> {"on", "off"} \cup {"absent"}]
  BY DEF FromOnce, KeptIs, Position
<1>5. \A s \in Switch : KeptIs'[s] \in IF image' = image THEN {KeptIs[s]} ELSE once[s] \cup {"absent"}
  BY <1>1, <1>3 DEF FromOnce, KeptIs
<1>6. QED
  BY <1>1, <1>2, <1>4, <1>5
  DEF Memory!Restart, Memory!Absent, Memory!Gone, Memory!Position, Now, KeptIs, Stored

LEMMA MapInit == Init => Memory!Init
<1> SUFFICES ASSUME Init PROVE Memory!Init
  OBVIOUS
<1>1. nvs = [k \in Keys |-> NoBlob] /\ shown = [s \in Switch |-> "none"]
      /\ once = [s \in Switch |-> {}]
  BY DEF Init
<1>2. image \in Image
  BY Starts DEF IInv, LifeTypes
<1>3. Now = [s \in Switch |-> "absent"]
  BY <1>1 DEF Now
<1>4. \A s \in Switch : Stored(s) = "absent"
  BY <1>1, KeyRange, Names DEF Stored, load, load_valid, Words, NoBlob
<1>5. KeptIs = [s \in Switch |-> "absent"]
  BY <1>4 DEF KeptIs
<1>6. QED
  BY <1>1, <1>2, <1>3, <1>5 DEF Memory!Init, Memory!Gone, Memory!Absent, Now, KeptIs, Stored

LEMMA MapStep == ASSUME IInv, FromOnce', Next PROVE [Memory!Next]_(Memory!vars)
<1>1. CallInv /\ LifeTypes /\ boot \in Image
  BY DEF IInv, OtaInv, OtaTypes
<1>2. CASE PowerOn
  BY <1>1, <1>2, MapPowerOn DEF Memory!Next
<1>3. CASE Step
  <2>1. power = "on" /\ image' = image /\ Remembers
    BY <1>3 DEF Step, Remembers
  <2>2. CASE DoWrite
    <3>1. once' = once
      BY <1>1, <2>1, <2>2, OnceStays DEF DoWrite, CallInv, KeptInv, LifeTypes
    <3>2. QED
      BY <1>1, <2>1, <2>2, <3>1, MapWrite DEF Memory!Next
  <2>3. CASE DoSave(image, "refused" \in play.may)
    BY <1>1, <2>1, <2>3, MapSave DEF Memory!Next
  <2>4. CASE DoAgain
    <3>1. UNCHANGED <<nvs, shown, state>>
      BY <2>4 DEF DoAgain, pinVars
    <3>2. once' = once
      BY <1>1, <2>1, <3>1, OnceStays DEF CallInv, KeptInv, LifeTypes
    <3>3. QED
      BY <2>1, <3>1, <3>2, MapSame
  <2>5. QED
    BY <1>3, <2>2, <2>3, <2>4 DEF Step
<1>4. CASE PortalSaves
  BY <1>1, <1>4, MapPortal DEF Memory!Next
<1>5. CASE Stops
  BY <1>1, <1>5, MapStops DEF Memory!Next
<1>6. CASE should_enter_safe_mode \/ SetUp \/ Proceed \/ Turn \/ Timeout \/ OtaStarts \/ OtaHandles
           \/ WebUploads \/ CleanRtc \/ Tick
  <2>1. UNCHANGED <<nvs, image, shown, state, once>>
    BY <1>6 DEF should_enter_safe_mode, SetUp, setup, Proceed, Turn, turn, Timeout, InterlockTimeout,
                OtaStarts, OtaHandles, WebUploads, CleanRtc, Tick, switchVars, pinVars, lifeVars
  <2>2. QED
    BY <2>1, MapSame
<1>7. QED
  BY <1>2, <1>3, <1>4, <1>5, <1>6 DEF Next, Stops

\* After a restart of the same firmware each switch begins as its restore mode has it for
\* the state that was last kept, or for none; never for another switch's (gpio_switch.cpp:9-70,
\* switch.cpp:39-54, preferences.cpp).
THEOREM SwitchesRemember == Spec => MemoryKept
<1>1. Init => Memory!Init
  BY MapInit
<1>2. IInv /\ FromOnce' /\ [Next]_vars => [Memory!Next]_(Memory!vars)
  <2>1. ASSUME UNCHANGED vars PROVE UNCHANGED Memory!vars
    <3>1. UNCHANGED <<nvs, image, shown, state, once>>
      BY <2>1 DEF vars, switchVars, pinVars, lifeVars
    <3>2. QED
      BY <3>1, MapSame
  <2>2. QED
    BY <2>1, MapStep
<1>3. QED
  BY <1>1, <1>2, Invariance, KeptOnce, PTL DEF Spec, MemoryKept, Memory!Spec
==========
