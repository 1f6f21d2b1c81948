------------------------------ MODULE Restarts ------------------------------
(***************************************************************************)
(* What lasts over restarts and crashes: the switches' states, the boot    *)
(* counter and the firmware.  One life of the device is a start (begin of  *)
(* the preferences, should_enter_safe_mode, Application::setup), the loop, *)
(* and power lost or a restart; the modules extended here have the parts.  *)
(***************************************************************************)
EXTENDS Interlock, Ota

CONSTANT Plays  \* each with the firmwares there are and what may happen: turns, refused
                \* (saves of a state), uncounted (those of the counter), broken (NVS), portal
                \* (settings), ota, page (uploads)
ASSUME PlaysAssumption == \A p \in Plays : p.images \subseteq Image

VARIABLES
    power,    \* off, start or on
    image,    \* the firmware
    safe,     \* it is safe mode
    todo,     \* components still to be set up
    waiting,  \* the one set up last cannot proceed
    up,       \* ticks since the start
    starts,   \* starts since safe mode, a good one or a restart on purpose
    play,     \* one of them
    once      \* what was ever saved of each switch

lifeVars == <<power, image, safe, todo, waiting, up, starts, play, once>>
vars == <<switchVars, otaVars, lifeVars>>

UpCap == EnableTime + 1
StartsCap == NumAttempts + 1

\* Components in the order of their setup priorities.
Components(img, isSafe) == (IF isSafe THEN <<>> ELSE Layout[img]) \o <<"wifi", "ota">>

Init ==
    /\ play \in Plays
    /\ nvs = [k \in Keys |-> NoBlob] /\ prefs = [o \in Switch \cup {"wifi"} |-> 0] /\ offset = 1
    /\ there = {} /\ level = [s \in Switch |-> "float"] /\ state = [s \in Switch |-> "off"]
    /\ shown = [s \in Switch |-> "none"] /\ timer = [s \in Switch |-> NoTimer] /\ steps = <<>>
    /\ asked = [s \in Switch |-> "off"] /\ unsaved = {}
    /\ tries = 0 /\ has_safe = FALSE /\ ota = "none" /\ gift = "none" /\ stuck = FALSE
    /\ started = FALSE /\ upd = NotRunning /\ error = FALSE
    /\ web = "none" /\ answer = FALSE /\ due = FALSE
    /\ boot \in play.images /\ begun = "none" /\ told = NotTold /\ uncleared = FALSE
    /\ power = "off" /\ image = boot /\ safe = FALSE /\ todo = <<>> /\ waiting = FALSE
    /\ up = 0 /\ starts = 0
    /\ once = [s \in Switch |-> {}]

-----------------------------------------------------------------------------
\* Nothing of the device is left but NVS and the flash.
Off ==
    /\ SwitchesOff /\ OtaOff
    /\ power' = "off" /\ image' = boot /\ safe' = FALSE /\ todo' = <<>> /\ waiting' = FALSE
    /\ up' = 0

\* A broken NVS is erased, and the counter with it.
PowerOn ==
    /\ power = "off" /\ power' = "start"
    /\ \E broken \in {FALSE} \cup {p = "broken" : p \in play.may} :
          /\ begin(broken)
          /\ tries' = IF broken THEN 0 ELSE tries
          /\ uncleared' = (uncleared /\ ~broken)
          /\ starts' = IF broken THEN 1 ELSE IF starts < StartsCap THEN starts + 1 ELSE starts
    /\ UNCHANGED <<pinVars, timer, steps, asked, has_safe, handlerVars, updateVars, webVars,
                   image, safe, todo, waiting, up, play, once>>

\* NVS may refuse to save the counter, each time anew.
MayRefuse == "uncounted" \in play.may

should_enter_safe_mode ==
    /\ power = "start" /\ power' = "on"
    /\ safe' = SafeModeDue
    /\ IF SafeModeDue THEN clean_rtc(MayRefuse)
       ELSE write_rtc(Counted, MayRefuse) /\ UNCHANGED uncleared
    /\ has_safe' = TRUE /\ todo' = Components(image, safe')
    /\ starts' = IF safe' THEN 0 ELSE starts
    /\ UNCHANGED <<switchVars, handlerVars, updateVars, webVars, image, waiting, up, play, once>>

\* Between two of its calls the loop task is busy neither with a switch nor an update.
Free == power = "on" /\ steps = <<>> /\ ota \in {"none", "listen"}
\* Application::loop, and the loop in setup while a component cannot proceed.
Loops == Free /\ (todo = <<>> \/ waiting)

\* What Scheduler::call has to do, which comes first in each of their rounds.
SafeModeOver == safe /\ up >= EnableTime
Due == SafeModeOver \/ due \/ \E s \in Switch : timer[s] = 0

SetUp ==
    /\ Free /\ todo # <<>> /\ ~waiting
    /\ todo' = Tail(todo)
    /\ LET c == todo[1]
       IN  \/ /\ c \in Switch /\ setup(c, image)
              /\ UNCHANGED <<otaVars, waiting>>
           \/ /\ c = "wifi" /\ make_preference(c) /\ waiting' = TRUE
              /\ UNCHANGED <<nvs, pinVars, timer, steps, asked, otaVars>>
           \/ /\ c = "ota" /\ ota' = "listen"
              /\ UNCHANGED <<switchVars, rtcVars, has_safe, gift, stuck, started, updateVars,
                             webVars, waiting>>
    /\ UNCHANGED <<power, image, safe, up, starts, play, once>>

\* WiFiComponent::can_proceed: connected at last.
Proceed ==
    /\ Free /\ waiting /\ waiting' = FALSE
    /\ UNCHANGED <<switchVars, otaVars, power, image, safe, todo, up, starts, play, once>>

Step ==
    /\ power = "on"
    /\ DoWrite \/ DoSave(image, "refused" \in play.may) \/ DoAgain
    /\ once' = [s \in Switch |-> once[s] \cup {nvs'[k].data : k \in {k \in Keys : nvs'[k].crc = s}}]
    /\ UNCHANGED <<otaVars, power, image, safe, todo, waiting, up, starts, play>>

Turn ==
    /\ "turns" \in play.may /\ Loops /\ ~Due
    /\ \E s \in Switch, p \in Position : turn(s, p)
    /\ UNCHANGED <<otaVars, lifeVars>>

Timeout ==
    /\ Loops /\ \E s \in Switch : InterlockTimeout(s)
    /\ UNCHANGED <<otaVars, lifeVars>>

\* save_wifi_sta, on the web server's task; settings in full or not at all.
PortalSaves ==
    /\ "portal" \in play.may /\ power = "on" /\ prefs["wifi"] # 0
    /\ nvs' = Saved("wifi", image, "set")
    /\ UNCHANGED <<prefs, offset, pinVars, timer, steps, asked, otaVars, lifeVars>>

-----------------------------------------------------------------------------
OtaSteps ==
    \/ OtaReceive \/ OtaPart \/ OtaData(image) \/ OtaEnd \/ OtaTells
    \/ OtaTimeout \/ OtaRefuses \/ OtaClosed
OtaHandles ==
    /\ power = "on" /\ OtaSteps
    /\ UNCHANGED <<switchVars, lifeVars>>
OtaStarts ==
    /\ "ota" \in play.may /\ Loops /\ todo = <<>> /\ ~Due /\ OtaAccept(play.images)
    /\ UNCHANGED <<switchVars, lifeVars>>
\* The page is there while the portal is, on its own task.
WebUploads ==
    /\ "page" \in play.may /\ power = "on" /\ prefs["wifi"] # 0
    /\ \/ WebBegins(play.images) \/ WebWrites(image) \/ WebEnds \/ WebRefused \/ WebIgnored
       \/ handleRequest \/ WebLeaves
    /\ UNCHANGED <<switchVars, lifeVars>>

CleanRtc ==
    /\ Loops /\ BootSeemsSuccessful(up, MayRefuse)
    /\ starts' = 0
    /\ UNCHANGED <<switchVars, power, image, safe, todo, waiting, up, play, once>>

-----------------------------------------------------------------------------
\* What a restart without a word leaves.
Lasting == <<nvs, prefs, offset, rtcVars, boot, begun, told, starts, play, once>>

\* Power is lost, or the program crashes.
Crash == power # "off" /\ Off /\ UNCHANGED Lasting

\* Application::reboot, for want of a network or a client ...
reboot == Off /\ UNCHANGED Lasting
UnservedReboot == Loops /\ reboot
\* ... or of an update in safe mode.
\* Mutant: it waits until the setup is over.
SafeModeReboot_SetUp == Free /\ todo = <<>> /\ SafeModeOver /\ reboot
SafeModeReboot == Loops /\ SafeModeOver /\ reboot

\* Mutant: a restart on purpose counts as one that failed.
safe_reboot_Counted ==
    /\ Off /\ starts' = 0
    /\ UNCHANGED <<nvs, prefs, offset, rtcVars, boot, begun, told, play, once>>
\* Application::safe_reboot: on_safe_shutdown clears the counter.
safe_reboot ==
    /\ Off /\ starts' = 0
    /\ IF has_safe THEN clean_rtc(MayRefuse) ELSE UNCHANGED rtcVars
    /\ UNCHANGED <<nvs, prefs, offset, boot, begun, told, play, once>>
\* A restart switch, or the end of an upload.
SafeReboot == Loops /\ safe_reboot
WebReboot == Loops /\ due /\ safe_reboot
OtaReboot == power = "on" /\ ota = "ack" /\ safe_reboot

\* Between two rounds, or while an update keeps the loop.
Tick ==
    /\ (Loops /\ ~Due) \/ ota \in Stages
    /\ up' = IF up < UpCap THEN up + 1 ELSE up
    /\ timer' = [s \in Switch |-> IF timer[s] \in {NoTimer, 0} THEN timer[s] ELSE timer[s] - 1]
    /\ UNCHANGED <<nvs, prefs, offset, pinVars, steps, asked, otaVars, power, image, safe, todo,
                   waiting, starts, play, once>>

Next == \/ PowerOn \/ should_enter_safe_mode \/ SetUp \/ Proceed \/ Step \/ Turn \/ Timeout
        \/ PortalSaves \/ OtaStarts \/ OtaHandles \/ WebUploads \/ CleanRtc
        \/ Crash \/ UnservedReboot \/ SafeModeReboot \/ SafeReboot \/ WebReboot \/ OtaReboot \/ Tick
Spec == Init /\ [][Next]_vars

\* The loop task goes on and time passes; nothing is asked of the network, the clients,
\* the user and the supply.
OtaAnswers == power = "on" /\ (OtaTimeout \/ OtaRefuses \/ OtaEnd \/ OtaTells)
              /\ UNCHANGED <<switchVars, lifeVars>>
Fairness ==
    /\ WF_vars(should_enter_safe_mode) /\ WF_vars(SetUp) /\ WF_vars(Step)
    /\ WF_vars(Timeout) /\ WF_vars(SafeModeReboot) /\ WF_vars(WebReboot)
    /\ WF_vars(OtaAnswers) /\ WF_vars(OtaReboot) /\ SF_vars(Tick)
FairSpec == Spec /\ Fairness
-----------------------------------------------------------------------------
(***************************************************************************)
(* Properties.                                                             *)
(***************************************************************************)
\* Every variable keeps its type.
Blob == {NoBlob} \cup [words : {1}, crc : Switch, data : Position]
                 \cup [words : {25}, crc : Image, data : {"set"}]
TypeOK ==
    /\ nvs \in [Keys -> Blob] /\ offset \in 1 .. Cardinality(Switch) + 2
    /\ prefs \in [Switch \cup {"wifi"} -> Keys \cup {0}]
    /\ there \subseteq Switch /\ unsaved \subseteq Switch
    /\ level \in [Switch -> Position \cup {"float"}] /\ state \in [Switch -> Position]
    /\ timer \in [Switch -> 0 .. WaitTime \cup {NoTimer}]
    /\ tries \in 0 .. NumAttempts /\ ota \in Stages \cup {"none", "listen"}
    /\ {web, gift, told.image} \subseteq Image \cup {"none"} /\ {boot, image} \subseteq Image
    /\ {begun, told.by} \subseteq {"none", "ota", "web"}
    /\ upd.ota \in 0 .. Chunks /\ upd.web \in 0 .. Chunks
    /\ power \in {"off", "start", "on"} /\ up \in 0 .. UpCap /\ starts \in 0 .. StartsCap

\* Of switches that exclude each other never two are on, at start-up, in the wait and when
\* power fails between any two writes (gpio_switch.cpp:81-111).
Interlocked ==
    \A s \in Switch : \A o \in Group[s] \ {s} :
        ~(level[s] = Raw(s, "on") /\ level[o] = Raw(o, "on"))

\* A switch turned off while it waits is not turned on by its wait
\* (gpio_switch.cpp:103-107).
OffStaysOff == \A s \in Switch : timer[s] # NoTimer => asked[s] = "on"

\* Between calls NVS has the state of each switch, unless it refused it: publish_dedup_
\* never suppresses the one that would have to be saved (switch.cpp:39-47).
SettledIsKept ==
    steps = <<>> => \A s \in there \ unsaved : prefs[s] # 0 => load(s, image, prefs[s]) = state[s]

\* The firmware a client was told is in place is the one the next start runs, until
\* another upload begins: of the client whose update began last (ota_component.cpp:258-264,
\* web_server_base.cpp:75-78).  The page tells others that of somebody else's.
ToldIsBooted == told.by # "none" /\ told.by = begun => boot = told.image

\* Safe mode comes after NumAttempts starts at least that neither lasted nor ended
\* on purpose (ota_component.cpp:378-400), or the counter's clearing was refused.
SafeModeIsEarned == [][safe' /\ ~safe => starts > NumAttempts \/ uncleared]_vars

\* And comes if starts go on like that (crash loops), and go on being counted.
GoodStart == CleanRtc \/ SafeReboot \/ WebReboot \/ OtaReboot \/ (PowerOn /\ tries' < tries)
NotCounted == MayRefuse /\ should_enter_safe_mode /\ ~safe' /\ tries' = tries
CaughtBy == should_enter_safe_mode /\ safe'
CrashLoopIsCaught ==
    []<><<should_enter_safe_mode>>_vars => []<><<CaughtBy \/ GoodStart \/ NotCounted>>_vars

\* Safe mode ends by itself, unless a client of handle_ holds the loop with a part
\* of a block (ota_component.cpp:386-390).
SafeModeEnds == safe ~> ~safe \/ stuck

\* An update begun comes to an end, with that exception (ota_component.cpp:317-339).
HandlerEnds == ota \in Stages ~> ota \notin Stages \/ stuck

\* A wait ends, unless a rival is turned on in it.
WaitEnds ==
    \A s \in Switch : timer[s] # NoTimer ~> timer[s] = NoTimer \/ Rivals(s) # {} \/ stuck

\* The switches keep the promise of SwitchMemory.
Begins == [s \in Switch |-> [k \in Position \cup {"absent"} |->
              initial_state(s, IF k = "absent" \/ ~Restores(s) THEN "none" ELSE k)]]
\* The key that a switch gets is how many preferences have been made when its own is.
UpTo(s) ==
    {o \in Switch : /\ Restores(o)
                    /\ \E j \in DOMAIN Layout[image] :
                          Layout[image][j] = s /\ \E i \in 1 .. j : Layout[image][i] = o}
KeyOf(s) == IF Restores(s) THEN Cardinality(UpTo(s)) ELSE 0
Memory == INSTANCE SwitchMemory WITH
    Begin <- Begins,
    now <- [s \in Switch |-> IF shown[s] = "none" THEN "absent" ELSE state[s]],
    kept <- [s \in Switch |-> LET d == load(s, image, KeyOf(s))
                              IN  IF d = "none" THEN "absent" ELSE d]
MemoryKept == Memory!Spec

\* What holds in every state: of the outlets, and of what is kept about them.
RestartsInv == TypeOK /\ Interlocked /\ OffStaysOff /\ SettledIsKept

\* Safe mode, updates and waits come to an end.
ComesToAnEnd == SafeModeEnds /\ HandlerEnds /\ WaitEnds
=============================================================================
