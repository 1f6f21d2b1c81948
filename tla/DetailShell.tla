----------------------------- MODULE DetailShell -----------------------------
(***************************************************************************)
(* The detail screen of SmartAPS (src/fw/src/shell_detail.cpp): three      *)
(* actors on one core.                                                     *)
(*                                                                         *)
(*   - the Arduino loop task runs DetailShell::enter, loop and leave;      *)
(*   - the sampling task sampling_fn, one priority above it, reads the     *)
(*     INA226 of the selected channel and appends to sample_buffer;        *)
(*   - the hardware timer's interrupt on_sampling_timer notifies the       *)
(*     sampling task every Period.                                         *)
(*                                                                         *)
(* Time is counted in ticks.  An age is the time since a timestamp, taken  *)
(* at the `now' of the running loop; every age, and the time not yet       *)
(* metered, stops growing at a named cap.                                  *)
(***************************************************************************)
EXTENDS Integers, Sequences, FiniteSets

CONSTANTS
    TaskId,         \* blocks of heap a FreeRTOS task control block can occupy
    NoTask,         \* the NULL handle
    Garbage,        \* what an INA226 read that failed leaves in s and b
    Period,         \* the timer's alarm, 10 ms
    JoinDelay,      \* delay(20) of stop_sampling
    ReadTime,       \* the most ticks one INA226 read takes
    SneakFrames,    \* 500: every so many frames all three channels are read
    BufLen,         \* sample_buffer_length
    Group,          \* reads per buffered sample at each frame rate
    AccuPeriod,     \* the 1000 ms of the other channels' metering
    BackTimer,      \* BACK_TO_OVERVIEW_TIMER
    Metered,        \* the channel whose metered time `owed' follows
    OwedCap,        \* where `owed' stops growing
    ReadMayFail,    \* the I2C bus may fail
    CreateMayFail   \* xTaskCreatePinnedToCore may fail

Channel == {"USB", "PORT_A", "PORT_B"}
Fps == {"FPS_100", "FPS_10", "FPS_1"}
Notification == {"SAMPLE_BIT", "STOP_BIT"}

ASSUME TaskAssumption ==
    /\ IsFiniteSet(TaskId) /\ TaskId # {}
    /\ NoTask \notin TaskId
    /\ Garbage \notin Channel
ASSUME TimeAssumption ==
    /\ Period \in Nat \ {0}
    /\ JoinDelay \in Nat \ {0}
    /\ ReadTime \in Nat
    /\ AccuPeriod \in Nat
    /\ BackTimer \in Nat
ASSUME SizeAssumption ==
    /\ SneakFrames \in Nat \ {0}
    /\ BufLen \in Nat \ {0}
    /\ Group \in [Fps -> Nat \ {0}]
    /\ Group["FPS_100"] = 1
ASSUME ModeAssumption ==
    /\ Metered \in Channel
    /\ OwedCap \in Nat
    /\ ReadMayFail \in BOOLEAN
    /\ CreateMayFail \in BOOLEAN

VARIABLES
    pc,             \* where the loop task is
    channel,        \* _channel
    fps,            \* _fps
    timer,          \* sampling_timer: none, idle (alarm disabled) or armed
    counter,        \* ticks the timer has counted since its last alarm
    task,           \* the sampling tasks by control block
    handle,         \* sampling_task_handle
    sample_buffer,  \* where each buffered sample came from
    delay,          \* what is left of stop_sampling's delay
    lag,            \* age of the running loop's now
    secAge,         \* now - _timestamp_per_1s
    backAge,        \* now - _timestamp_back_to_overview
    owed            \* time in this shell minus the time charged to Metered

vars == <<pc, channel, fps, timer, counter, task, handle, sample_buffer,
          delay, lag, secAge, backAge, owed>>
clocks == <<lag, secAge, backAge, owed>>

AtMost(n, cap) == IF n > cap THEN cap ELSE n
LagCap == (IF AccuPeriod > BackTimer THEN AccuPeriod ELSE BackTimer) + 1

(***************************************************************************)
(* The sampling task.  st is "free" when the control block is not a task,  *)
(* "wait" in xTaskNotifyWait and "read" on the I2C bus, `left' ticks from  *)
(* the end of its reads; got is the channel s and b were read from, accu   *)
(* and from are the count and the channels of the samples accumulated.     *)
(***************************************************************************)
Origin == Channel \cup {Garbage}
TaskRecord == [st : {"free", "wait", "read"}, notify : SUBSET Notification,
               frame : 0 .. SneakFrames - 1, accu : Nat,
               from : SUBSET Origin, got : Origin, left : 0 .. 3 * ReadTime]
FreeTask == [st |-> "free", notify |-> {}, frame |-> 0, accu |-> 0,
             from |-> {}, got |-> Garbage, left |-> 0]
NewTask == [FreeTask EXCEPT !.st = "wait"]

Live == {t \in TaskId : task[t].st # "free"}
Runnable(t) == \/ task[t].st = "wait" /\ task[t].notify # {}
               \/ task[t].st = "read" /\ task[t].left = 0
Preempted == \E t \in TaskId : Runnable(t)  \* the loop task has lower priority
AlarmDue == timer = "armed" /\ counter >= Period

Sample == [from : SUBSET Origin, fps : Fps]
\* Mutant: the check against sample_buffer_length is missing.
Append64_NoBound(buf, sample) == Append(buf, sample)

Append64(buf, sample) ==    \* a full buffer drops the sample
    IF Len(buf) < BufLen THEN Append(buf, sample) ELSE buf

Notified(t, bit) ==
    [task EXCEPT ![t].notify = IF task[t].st = "free" THEN @ ELSE @ \cup {bit}]

\* xTaskNotifyWait returned with STOP_BIT: the task deletes itself, and the
\* statement after vTaskDelete that would clear the handle is never reached.
SamplerStop(t) ==
    /\ task[t].st = "wait"
    /\ "STOP_BIT" \in task[t].notify
    /\ task' = [task EXCEPT ![t] = FreeTask]
    /\ UNCHANGED <<pc, channel, fps, timer, counter, handle, sample_buffer,
                   delay, clocks>>

\* ... with SAMPLE_BIT alone: the reads of one frame start.
SamplerRead(t) ==
    /\ task[t].st = "wait"
    /\ task[t].notify = {"SAMPLE_BIT"}
    /\ LET sneak == task[t].frame + 1 >= SneakFrames
       IN  \E got \in {channel} \cup (IF ReadMayFail THEN {Garbage} ELSE {}),
              left \in 0 .. (IF sneak THEN 3 ELSE 1) * ReadTime :
             task' = [task EXCEPT ![t] =
                        [task[t] EXCEPT !.st = "read", !.notify = {},
                           !.frame = IF sneak THEN 0 ELSE task[t].frame + 1,
                           !.got = got, !.left = left]]
    /\ UNCHANGED <<pc, channel, fps, timer, counter, handle, sample_buffer,
                   delay, clocks>>

\* The reads ended: the sample is buffered, or accumulated into the one that
\* completes the group of the frame rate.
SamplerStore(t) ==
    /\ task[t].st = "read"
    /\ task[t].left = 0
    /\ LET from == task[t].from \cup {task[t].got}
           full == task[t].accu + 1 >= Group[fps]
       IN  \/ /\ fps = "FPS_100"
              /\ sample_buffer' = Append64(sample_buffer,
                                    [from |-> {task[t].got}, fps |-> fps])
              /\ task' = [task EXCEPT ![t].st = "wait"]
           \/ /\ fps # "FPS_100" /\ full
              /\ sample_buffer' = Append64(sample_buffer,
                                    [from |-> from, fps |-> fps])
              /\ task' = [task EXCEPT ![t] = [task[t] EXCEPT !.st = "wait",
                                             !.accu = 0, !.from = {}]]
           \/ /\ fps # "FPS_100" /\ ~full
              /\ task' = [task EXCEPT ![t] = [task[t] EXCEPT !.st = "wait",
                                             !.accu = task[t].accu + 1, !.from = from]]
              /\ UNCHANGED sample_buffer
    /\ UNCHANGED <<pc, channel, fps, timer, counter, handle, delay, clocks>>

sampling_fn(t) == SamplerStop(t) \/ SamplerRead(t) \/ SamplerStore(t)

\* The interrupt: the alarm reloads the counter and the task is notified.
on_sampling_timer ==
    /\ AlarmDue
    /\ counter' = 0
    /\ task' = IF handle = NoTask THEN task ELSE Notified(handle, "SAMPLE_BIT")
    /\ UNCHANGED <<pc, channel, fps, timer, handle, sample_buffer, delay, clocks>>
-----------------------------------------------------------------------------
(***************************************************************************)
(* The loop task.  It runs only while no sampling task can: a wait for the *)
(* bus, for a notification or in delay() gives it the core.                *)
(***************************************************************************)
\* Mutant: the task does not start with sample_count = 0.
start_sampling_KeepsBuffer ==
    /\ timer' = "armed"
    /\ \E t \in TaskId \ Live :
          task' = [task EXCEPT ![t] = NewTask] /\ handle' = t
    /\ UNCHANGED sample_buffer

\* Mutant: the alarm is not enabled again.
start_sampling_NoAlarm ==
    /\ timer' = "idle"
    /\ \E t \in TaskId \ Live :
          task' = [task EXCEPT ![t] = NewTask] /\ handle' = t
    /\ sample_buffer' = <<>>

\* The new task preempts its creator, empties the buffer and blocks.  When the
\* creation fails the handle keeps its value; the alarm is enabled anyway.
start_sampling ==
    /\ timer' = "armed"
    /\ \/ \E t \in TaskId \ Live :
            /\ task' = [task EXCEPT ![t] = NewTask]
            /\ handle' = t
            /\ sample_buffer' = <<>>
       \/ /\ CreateMayFail \/ TaskId = Live
          /\ UNCHANGED <<task, handle, sample_buffer>>

\* Mutants: the task is not notified; the alarm stays on.
stop_sampling_NoStop ==
    timer' = "idle" /\ delay' = JoinDelay /\ UNCHANGED task
stop_sampling_AlarmOn ==
    /\ UNCHANGED timer
    /\ delay' = JoinDelay
    /\ task' = Notified(handle, "STOP_BIT")

stop_sampling ==
    /\ timer' = "idle"
    /\ \/ /\ handle = NoTask
          /\ delay' = 0
          /\ UNCHANGED task
       \/ /\ handle # NoTask
          /\ delay' = JoinDelay
          /\ task' = Notified(handle, "STOP_BIT")

\* Mutant: _timestamp_per_1s keeps the value it had for the other channel.
enter_KeepsSecond ==
    fps' = "FPS_100" /\ counter' = 0 /\ backAge' = 0 /\ UNCHANGED secAge
    /\ start_sampling

\* enter once the channel is set: both timestamps are the caller's now.
enter ==
    /\ fps' = "FPS_100"
    /\ counter' = 0
    /\ secAge' = 0
    /\ backAge' = 0
    /\ start_sampling

\* SmartAPS::loop switches to this shell and goes on to its loop.
EnterShell ==
    /\ pc = "out" /\ ~Preempted
    /\ pc' = "sw1"
    /\ enter
    /\ lag' = 0
    /\ owed' = 0
    /\ UNCHANGED <<channel, delay>>

\* The next call of loop: now is read afresh.
LoopStart ==
    /\ pc = "idle" /\ ~Preempted
    /\ pc' = "sw1"
    /\ lag' = 0
    /\ secAge' = AtMost(secAge + lag, AccuPeriod + 1)
    /\ backAge' = AtMost(backAge + lag, BackTimer + 1)
    /\ UNCHANGED <<channel, fps, timer, counter, task, handle, sample_buffer,
                   delay, owed>>

\* No sw1 click in this loop.
Sw1None ==
    /\ pc = "sw1" /\ ~Preempted
    /\ pc' = "sw3"
    /\ UNCHANGED <<channel, fps, timer, counter, task, handle, sample_buffer,
                   delay, clocks>>

\* sw1 click on USB or port A: leave(now) waits for the sampling task.
Sw1Next ==
    /\ pc = "sw1" /\ ~Preempted
    /\ channel # "PORT_B"
    /\ pc' = "joinSwitch"
    /\ stop_sampling
    /\ UNCHANGED <<channel, fps, counter, handle, sample_buffer, clocks>>

\* ... the rest of leave, the next channel, and enter(now) with the now read
\* before the wait.
SwitchChannel ==
    /\ pc = "joinSwitch" /\ delay = 0 /\ ~Preempted
    /\ pc' = "sw3"
    /\ channel' = IF channel = "USB" THEN "PORT_A" ELSE "PORT_B"
    /\ enter
    /\ UNCHANGED <<delay, lag, owed>>

\* sw1 click on port B: back to the overview; sampling goes on, of USB now,
\* until SmartAPS::loop calls leave.
Sw1Back ==
    /\ pc = "sw1" /\ ~Preempted
    /\ channel = "PORT_B"
    /\ pc' = "exit"
    /\ channel' = "USB"
    /\ UNCHANGED <<fps, timer, counter, task, handle, sample_buffer, delay, clocks>>

Sw3None ==
    /\ pc = "sw3" /\ ~Preempted
    /\ pc' = "sw2"
    /\ UNCHANGED <<channel, fps, timer, counter, task, handle, sample_buffer,
                   delay, clocks>>

\* sw3 click: stop, next frame rate, start.
Sw3Click ==
    /\ pc = "sw3" /\ ~Preempted
    /\ pc' = "joinFps"
    /\ stop_sampling
    /\ UNCHANGED <<channel, fps, counter, handle, sample_buffer, clocks>>

NextFps == [f \in Fps |-> CASE f = "FPS_100" -> "FPS_10"
                            [] f = "FPS_10"  -> "FPS_1"
                            [] OTHER         -> "FPS_100"]

SwitchFps ==
    /\ pc = "joinFps" /\ delay = 0 /\ ~Preempted
    /\ pc' = "sw2"
    /\ fps' = NextFps[fps]
    /\ start_sampling
    /\ backAge' = 0
    /\ UNCHANGED <<channel, counter, delay, lag, secAge, owed>>

\* sw2 click toggles the output, sw2 hold clears its AH and WH; either restarts
\* the back timer, which therefore cannot have expired.
Sw2Event ==
    /\ pc = "sw2" /\ ~Preempted
    /\ pc' = "process"
    /\ backAge' = 0
    /\ UNCHANGED <<channel, fps, timer, counter, task, handle, sample_buffer,
                   delay, lag, secAge, owed>>

Sw2None ==
    /\ pc = "sw2" /\ ~Preempted
    /\ backAge <= BackTimer
    /\ pc' = "process"
    /\ UNCHANGED <<channel, fps, timer, counter, task, handle, sample_buffer,
                   delay, clocks>>

BackToOverview ==
    /\ pc = "sw2" /\ ~Preempted
    /\ backAge > BackTimer
    /\ pc' = "exit"
    /\ channel' = "USB"
    /\ UNCHANGED <<fps, timer, counter, task, handle, sample_buffer, delay, clocks>>

\* Time charged to Metered for the buffered samples, all taken to be of the
\* present channel and frame rate, and for the second since the last one.
BufferCharge ==
    IF channel = Metered THEN Len(sample_buffer) * Group[fps] * Period ELSE 0
SecondCharge ==
    IF channel # Metered /\ secAge > AccuPeriod THEN AccuPeriod ELSE 0

Process ==
    /\ pc = "process" /\ ~Preempted
    /\ pc' = "idle"
    /\ sample_buffer' = <<>>
    /\ secAge' = IF secAge > AccuPeriod THEN 0 ELSE secAge
    /\ owed' = owed - BufferCharge - SecondCharge
    /\ UNCHANGED <<channel, fps, timer, counter, task, handle, delay, lag, backAge>>

\* The next SmartAPS::loop finds another shell and calls leave.
LeaveShell ==
    /\ pc = "exit" /\ ~Preempted
    /\ pc' = "joinExit"
    /\ stop_sampling
    /\ UNCHANGED <<channel, fps, counter, handle, sample_buffer, clocks>>

Left ==
    /\ pc = "joinExit" /\ delay = 0 /\ ~Preempted
    /\ pc' = "out"
    /\ timer' = "none"
    /\ UNCHANGED <<channel, fps, counter, task, handle, sample_buffer, delay, clocks>>

Press == Sw1Next \/ Sw1Back \/ Sw3Click \/ Sw2Event
Main == \/ EnterShell \/ LoopStart \/ Sw1None \/ SwitchChannel
        \/ Sw3None \/ SwitchFps \/ Sw2None \/ BackToOverview
        \/ Process \/ LeaveShell \/ Left \/ Press
-----------------------------------------------------------------------------
\* Time passes only when no interrupt is due and no sampling task can run.
Tick ==
    /\ ~AlarmDue /\ ~Preempted
    /\ counter' = IF timer = "none" THEN 0 ELSE AtMost(counter + 1, Period)
    /\ delay' = IF delay = 0 THEN 0 ELSE delay - 1
    /\ task' = [t \in TaskId |->
                  IF task[t].st = "read"
                  THEN [task[t] EXCEPT !.left = task[t].left - 1] ELSE task[t]]
    /\ lag' = IF pc = "out" THEN 0 ELSE AtMost(lag + 1, LagCap)
    /\ owed' = IF pc = "out" THEN 0 ELSE AtMost(owed + 1, OwedCap)
    /\ UNCHANGED <<pc, channel, fps, timer, handle, sample_buffer, secAge, backAge>>

Init ==
    /\ pc = "out"
    /\ channel = "USB"
    /\ fps = "FPS_100"
    /\ timer = "none"
    /\ counter = 0
    /\ task = [t \in TaskId |-> FreeTask]
    /\ handle = NoTask
    /\ sample_buffer = <<>>
    /\ delay = 0
    /\ lag = 0 /\ secAge = 0 /\ backAge = 0
    /\ owed = 0

Sampler == \E t \in TaskId : sampling_fn(t)
Next == Main \/ Sampler \/ on_sampling_timer \/ Tick
Spec == Init /\ [][Next]_vars

(***************************************************************************)
(* Fairness.  The interrupt and the sampling task have the core when they  *)
(* want it, time passes, and the loop task gets the core again and again,  *)
(* because the reads of a frame end before the next alarm: strong fairness *)
(* where the sampling task preempts it in between.                         *)
(***************************************************************************)
Fairness == /\ WF_vars(Tick) /\ WF_vars(on_sampling_timer)
            /\ WF_vars(Sampler) /\ SF_vars(Main)
FairSpec == Spec /\ Fairness
-----------------------------------------------------------------------------
(***************************************************************************)
(* Properties.                                                             *)
(***************************************************************************)
PC == {"out", "sw1", "joinSwitch", "sw3", "joinFps", "sw2", "process", "idle",
       "exit", "joinExit"}
Joining == pc \in {"joinSwitch", "joinFps", "joinExit"}

\* Every variable keeps its type: no age, delay or read runs below zero, the
\* buffer never exceeds its array.
TypeOK ==
    /\ pc \in PC
    /\ channel \in Channel
    /\ fps \in Fps
    /\ timer \in {"none", "idle", "armed"}
    /\ counter \in 0 .. Period
    /\ task \in [TaskId -> TaskRecord]
    /\ handle \in TaskId \cup {NoTask}
    /\ sample_buffer \in Seq(Sample) /\ Len(sample_buffer) <= BufLen
    /\ delay \in 0 .. JoinDelay
    /\ lag \in Nat /\ secAge \in Nat /\ backAge \in Nat
    /\ owed \in Int

\* stop_sampling's delay is a join: when it has run out and the loop task goes
\* on, to reconfigure the INA226s or to start the next task, the old task has
\* ended (shell_detail.cpp:526-535).
SamplerJoined == (Joining /\ delay = 0 /\ ~Preempted) => Live = {}

\* However the channel and the frame rate are switched, two sampling tasks never
\* run at once, and none outlives the shell (start_sampling and stop_sampling).
OneSampler == Cardinality(Live) <= 1 /\ (pc = "out" => Live = {})

\* Samples carry no mark of the channel and the frame rate they were taken at:
\* loop charges them to the present ones, so none of others may be left when it
\* does (shell_detail.cpp:371-454).
CurrentAttribution ==
    pc = "process" =>
        \A i \in 1 .. Len(sample_buffer) :
            /\ sample_buffer[i].from \subseteq {channel, Garbage}
            /\ sample_buffer[i].fps = fps

\* Neither the interrupt nor stop_sampling ever notifies a deleted task, though
\* sampling_task_handle is not cleared when the task ends: whenever the alarm is
\* enabled a handle that is set is the live task's (shell_detail.cpp:188-199, 526-535).
NoDeadHandle == timer = "armed" => handle \in Live \cup {NoTask}

\* No channel is ever charged for more time than has passed: not twice for a
\* second, not at another frame rate's weight, whatever is switched and when
\* (shell_detail.cpp:371-513).
NeverOvercharged == owed >= 0

\* No switch of channel or of frame rate leaves sampling stopped: while the
\* shell stays and the switches end, samples keep coming.
SamplingGoesOn ==
    []<>(pc = "out") \/ []<>Joining \/ []<>(sample_buffer # <<>>)

\* A user who leaves the switches alone finds the overview again
\* (shell_detail.cpp:365-370).
IdleShellLeaves == []<>(pc = "out") \/ []<><<Press>>_vars

\* In the detail screen sampling goes on, and the screen is left when idle.
DetailGoesOn == SamplingGoesOn /\ IdleShellLeaves
-----------------------------------------------------------------------------
(***************************************************************************)
(* The inductive invariant behind the four sampling properties.  It holds  *)
(* when the reads of one frame fit in the delay and tasks can be created.  *)
(***************************************************************************)
TimelyBus == 3 * ReadTime <= JoinDelay

Sampling == {"sw1", "sw3", "sw2", "process", "idle", "exit"}

\* Between a start and the next stop, the handle is the only live task's, and
\* nothing has told it to stop.
Started ==
    pc \in Sampling => /\ timer = "armed"
                      /\ handle \in TaskId /\ Live = {handle}
                      /\ "STOP_BIT" \notin task[handle].notify

\* In the delay the old task is told to stop, gets no sample notification any
\* more, and is off the bus before the delay ends.
Stopping ==
    Joining => /\ timer = "idle"
               /\ Live \subseteq {handle}
               /\ \A t \in Live : /\ "STOP_BIT" \in task[t].notify
                                  /\ task[t].st = "read" => task[t].left <= delay

Outside == pc = "out" => timer # "armed" /\ Live = {}

\* What is buffered, accumulated or just read belongs to the present channel, and
\* what is buffered to the present frame rate, while loop can still process it.
Attributed ==
    pc \in Sampling \ {"exit"} =>
        /\ \A i \in 1 .. Len(sample_buffer) :
              /\ sample_buffer[i].from \subseteq {channel, Garbage}
              /\ sample_buffer[i].fps = fps
        /\ \A t \in Live : /\ task[t].from \subseteq {channel, Garbage}
                           /\ task[t].got \in {channel, Garbage}

SamplerInv == TypeOK /\ Started /\ Stopping /\ Outside /\ Attributed
-----------------------------------------------------------------------------
(***************************************************************************)
(* The inductive invariant behind the metering: what may yet be charged is *)
(* owed.  The cap of owed must not be felt.                                *)
(***************************************************************************)
CapIsWide ==
    /\ AccuPeriod + 1 + LagCap <= OwedCap
    /\ \A f \in Fps : (BufLen * Group[f] + Group[f] + 2) * Period <= OwedCap

\* The frames that are buffered, accumulated, being read or notified.
Buffered == Len(sample_buffer) * Group[fps]
Pending(r) == r.accu + (IF r.st = "read" THEN 1 ELSE 0)
                     + (IF "SAMPLE_BIT" \in r.notify THEN 1 ELSE 0)
Frames(t) == Buffered + Pending(task[t])

\* Where loop may come to process what there is.
Metering == pc \in (Sampling \ {"exit"}) \cup {"joinSwitch", "joinFps"}

Grouped == \A t \in Live : task[t].accu < Group[fps]

FramesOwed == channel = Metered /\ Metering =>
    /\ Buffered * Period + counter <= owed
    /\ \A t \in Live : Frames(t) * Period + counter <= owed

\* A second counts from the now of the loop that switched.
SecondOwed == Metering =>
    /\ channel # Metered => secAge + lag <= owed
    /\ pc \in {"sw1", "joinSwitch"} => lag <= owed

MeterInv == /\ NeverOvercharged /\ Grouped /\ FramesOwed /\ SecondOwed
            /\ secAge <= AccuPeriod + 1 /\ lag <= LagCap
=============================================================================
