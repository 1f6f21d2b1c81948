------------------------- MODULE DetailShell_proofs -------------------------
(***************************************************************************)
(* What holds of the detail shell for every number of control blocks, every *)
(* period, delay, read time, buffer length and group size.                 *)
(***************************************************************************)
EXTENDS DetailShell, TLAPS, FiniteSetTheorems

\* The task record's fields, for the provers.
LEMMA TaskTypes ==
    ASSUME TypeOK, NEW t \in TaskId
    PROVE  /\ task[t].st \in {"free", "wait", "read"}
           /\ task[t].notify \in SUBSET Notification
           /\ task[t].frame \in 0 .. SneakFrames - 1
           /\ task[t].accu \in Nat
           /\ task[t].from \in SUBSET Origin
           /\ task[t].got \in Origin
           /\ task[t].left \in 0 .. 3 * ReadTime
           /\ task[t] \in TaskRecord
BY DEF TypeOK, TaskRecord

\* The control blocks' initial contents are task records.
LEMMA NewTaskType == FreeTask \in TaskRecord /\ NewTask \in TaskRecord
BY SizeAssumption, TimeAssumption
   DEF TaskRecord, FreeTask, NewTask, Origin, Notification

\* A notification leaves task records task records.
LEMMA NotifiedType ==
    ASSUME TypeOK, NEW t \in TaskId, NEW bit \in Notification
    PROVE  Notified(t, bit) \in [TaskId -> TaskRecord]
<1>1. task[t].notify \cup {bit} \in SUBSET Notification
  BY TaskTypes
<1>2. QED
  BY <1>1, TaskTypes DEF Notified, TypeOK, TaskRecord

\* Appending to the buffer keeps its type and its bound.
LEMMA AppendType ==
    ASSUME NEW buf \in Seq(Sample), Len(buf) <= BufLen, NEW s \in Sample
    PROVE  Append64(buf, s) \in Seq(Sample) /\ Len(Append64(buf, s)) <= BufLen
BY SizeAssumption DEF Append64

\* What start_sampling writes is well typed.
LEMMA StartType ==
    ASSUME TypeOK, start_sampling
    PROVE  /\ timer' = "armed"
           /\ task' \in [TaskId -> TaskRecord]
           /\ handle' \in TaskId \cup {NoTask}
           /\ sample_buffer' \in Seq(Sample) /\ Len(sample_buffer') <= BufLen
<1>1. CASE \E t \in TaskId \ Live : /\ task' = [task EXCEPT ![t] = NewTask]
                                    /\ handle' = t
                                    /\ sample_buffer' = <<>>
  BY <1>1, NewTaskType, SizeAssumption DEF TypeOK, start_sampling
<1>2. CASE UNCHANGED <<task, handle, sample_buffer>>
  BY <1>2 DEF TypeOK, start_sampling
<1>3. QED
  BY <1>1, <1>2 DEF start_sampling

\* What stop_sampling writes is well typed.
LEMMA StopType ==
    ASSUME TypeOK, stop_sampling
    PROVE  /\ timer' = "idle"
           /\ task' \in [TaskId -> TaskRecord]
           /\ delay' \in 0 .. JoinDelay
<1>1. CASE handle = NoTask
  BY <1>1, TimeAssumption DEF TypeOK, stop_sampling
<1>2. CASE handle # NoTask
  <2>1. handle \in TaskId /\ "STOP_BIT" \in Notification
    BY <1>2 DEF TypeOK, Notification
  <2>2. QED
    BY <1>2, <2>1, NotifiedType, TimeAssumption DEF stop_sampling
<1>3. QED
  BY <1>1, <1>2

\* A step of a sampling task is well typed.
LEMMA SamplerType ==
    ASSUME TypeOK, NEW t \in TaskId, sampling_fn(t)
    PROVE  TypeOK'
<1>1. CASE SamplerStop(t)
  BY <1>1, NewTaskType DEF SamplerStop, TypeOK, clocks, PC
<1>2. CASE SamplerRead(t)
  <2> DEFINE sneak == task[t].frame + 1 >= SneakFrames
  <2>1. PICK got \in {channel} \cup (IF ReadMayFail THEN {Garbage} ELSE {}),
             left \in 0 .. (IF sneak THEN 3 ELSE 1) * ReadTime :
             task' = [task EXCEPT ![t] =
                        [task[t] EXCEPT !.st = "read", !.notify = {},
                                  !.frame = IF sneak THEN 0 ELSE task[t].frame + 1,
                                  !.got = got, !.left = left]]
    BY <1>2 DEF SamplerRead
  <2>2. got \in Origin
    BY DEF Origin, TypeOK
  <2>3. left \in 0 .. 3 * ReadTime
    BY TimeAssumption
  <2>4. (IF sneak THEN 0 ELSE task[t].frame + 1) \in 0 .. SneakFrames - 1
    BY TaskTypes, SizeAssumption
  <2> DEFINE frame == IF sneak THEN 0 ELSE task[t].frame + 1
             read == [task[t] EXCEPT !.st = "read", !.notify = {},
                                     !.frame = frame, !.got = got, !.left = left]
  <2>5. task' \in [TaskId -> TaskRecord]
    <3>1. task' = [task EXCEPT ![t] = read]
      BY <2>1
    <3> HIDE DEF frame
    <3>2. read \in TaskRecord
      BY <2>2, <2>3, <2>4, TaskTypes DEF TaskRecord, frame
    <3> HIDE DEF read
    <3>3. QED
      BY <3>1, <3>2 DEF TypeOK
  <2>6. QED
    BY <1>2, <2>5 DEF SamplerRead, TypeOK, clocks
<1>3. CASE SamplerStore(t)
  <2> DEFINE from == task[t].from \cup {task[t].got}
             full == task[t].accu + 1 >= Group[fps]
  <2>1. from \in SUBSET Origin /\ {task[t].got} \in SUBSET Origin
    BY TaskTypes
  <2>2. CASE /\ sample_buffer' = Append64(sample_buffer,
                                    [from |-> {task[t].got}, fps |-> fps])
             /\ task' = [task EXCEPT ![t].st = "wait"]
    <3>1. [from |-> {task[t].got}, fps |-> fps] \in Sample
      BY <2>1 DEF TypeOK, Sample
    <3>2. task' \in [TaskId -> TaskRecord]
      BY <2>2, TaskTypes DEF TypeOK, TaskRecord
    <3>3. QED
      BY <1>3, <2>2, <3>1, <3>2, AppendType DEF SamplerStore, TypeOK, clocks
  <2>3. CASE /\ sample_buffer' = Append64(sample_buffer,
                                    [from |-> from, fps |-> fps])
             /\ task' = [task EXCEPT ![t] = [task[t] EXCEPT !.st = "wait",
                                       !.accu = 0, !.from = {}]]
    <3>1. [from |-> from, fps |-> fps] \in Sample
      BY <2>1 DEF TypeOK, Sample
    <3>2. task' \in [TaskId -> TaskRecord]
      BY <2>3, TaskTypes DEF TypeOK, TaskRecord
    <3>3. QED
      BY <1>3, <2>3, <3>1, <3>2, AppendType DEF SamplerStore, TypeOK, clocks
  <2>4. CASE /\ task' = [task EXCEPT ![t] = [task[t] EXCEPT !.st = "wait",
                                       !.accu = task[t].accu + 1, !.from = from]]
             /\ UNCHANGED sample_buffer
    <3> DEFINE accu == task[t].accu + 1
               more == [task[t] EXCEPT !.st = "wait", !.accu = accu, !.from = from]
    <3>1. task' \in [TaskId -> TaskRecord]
      <4>1. accu \in Nat
        BY TaskTypes
      <4>2. task' = [task EXCEPT ![t] = more]
        BY <2>4
      <4> HIDE DEF accu, from
      <4>3. more \in TaskRecord
        BY <2>1, <4>1, TaskTypes DEF TaskRecord
      <4> HIDE DEF more
      <4>4. QED
        BY <4>2, <4>3 DEF TypeOK
    <3>2. QED
      BY <1>3, <2>4, <3>1 DEF SamplerStore, TypeOK, clocks
  <2>5. QED
    BY <1>3, <2>2, <2>3, <2>4 DEF SamplerStore
<1>4. QED
  BY <1>1, <1>2, <1>3 DEF sampling_fn

\* No read or delay runs below zero when time passes.
LEMMA TickType ==
    ASSUME TypeOK, Tick
    PROVE  TypeOK'
<1>1. ASSUME NEW t \in TaskId, task[t].st = "read"
      PROVE  [task[t] EXCEPT !.left = task[t].left - 1] \in TaskRecord
  <2>1. task[t].left # 0
    BY <1>1 DEF Tick, Preempted, Runnable
  <2> DEFINE left == task[t].left - 1
  <2>2. left \in 0 .. 3 * ReadTime
    BY <2>1, TaskTypes, TimeAssumption
  <2> HIDE DEF left
  <2>3. [task[t] EXCEPT !.left = left] \in TaskRecord
    BY <2>2, TaskTypes DEF TaskRecord
  <2>4. QED
    BY <2>3 DEF left
<1>2. task' \in [TaskId -> TaskRecord]
  BY <1>1, TaskTypes DEF Tick
<1>3. counter' \in 0 .. Period /\ delay' \in 0 .. JoinDelay
  <2>1. Period \in Nat /\ JoinDelay \in Nat /\ counter \in 0 .. Period /\ delay \in 0 .. JoinDelay
    BY TimeAssumption DEF TypeOK
  <2>2. counter' = 0 \/ counter' = AtMost(counter + 1, Period)
    BY DEF Tick
  <2>3. delay' = IF delay = 0 THEN 0 ELSE delay - 1
    BY DEF Tick
  <2>4. counter' \in 0 .. Period
    BY <2>1, <2>2 DEF AtMost
  <2>5. QED
    BY <2>1, <2>3, <2>4
<1>4. lag' \in Nat
  <2>1. LagCap \in Nat /\ lag \in Nat
    BY TimeAssumption DEF LagCap, TypeOK
  <2>2. lag' = 0 \/ lag' = AtMost(lag + 1, LagCap)
    BY DEF Tick
  <2>3. QED
    BY <2>1, <2>2 DEF AtMost
<1>5. owed' \in Int
  <2>1. OwedCap \in Int /\ owed \in Int
    BY ModeAssumption DEF TypeOK
  <2>2. owed' = 0 \/ owed' = AtMost(owed + 1, OwedCap)
    BY DEF Tick
  <2>3. QED
    BY <2>1, <2>2 DEF AtMost
<1>6. UNCHANGED <<pc, channel, fps, timer, handle, sample_buffer, secAge, backAge>>
  BY DEF Tick
<1>7. QED
  BY <1>2, <1>3, <1>4, <1>5, <1>6 DEF TypeOK

\* A step of the loop task is well typed.
LEMMA MainType ==
    ASSUME TypeOK, Main
    PROVE  TypeOK'
<1>1. CASE EnterShell
  BY <1>1, StartType, TimeAssumption DEF EnterShell, enter, TypeOK, PC, Fps
<1>2. CASE LoopStart
  BY <1>2, TimeAssumption DEF LoopStart, TypeOK, PC, AtMost
<1>3. CASE Sw1None \/ Sw3None \/ Sw2None \/ Sw2Event \/ Left
  BY <1>3 DEF Sw1None, Sw3None, Sw2None, Sw2Event, Left, TypeOK, PC, clocks
<1>4. CASE Sw1Next \/ Sw3Click \/ LeaveShell
  <2>1. stop_sampling
    BY <1>4 DEF Sw1Next, Sw3Click, LeaveShell
  <2>2. QED
    BY <1>4, <2>1, StopType DEF Sw1Next, Sw3Click, LeaveShell, TypeOK, PC, clocks
<1>5. CASE SwitchChannel
  BY <1>5, StartType, TimeAssumption
     DEF SwitchChannel, enter, TypeOK, PC, Fps, Channel
<1>6. CASE Sw1Back \/ BackToOverview
  BY <1>6 DEF Sw1Back, BackToOverview, TypeOK, PC, Channel, clocks
<1>7. CASE SwitchFps
  <2>1. NextFps[fps] \in Fps
    BY DEF TypeOK, NextFps, Fps
  <2>2. QED
    BY <1>7, <2>1, StartType DEF SwitchFps, TypeOK, PC
<1>8. CASE Process
  <2>1. SecondCharge \in Int
    BY TimeAssumption DEF SecondCharge
  <2>2. Group[fps] \in Nat /\ Len(sample_buffer) \in Nat
    BY SizeAssumption DEF TypeOK
  <2>3. Len(sample_buffer) * Group[fps] * Period \in Int
    BY <2>2, TimeAssumption
  <2>4. BufferCharge \in Int
    BY <2>3 DEF BufferCharge
  <2>5. owed' \in Int
    BY <1>8, <2>1, <2>4 DEF Process, TypeOK
  <2>6. sample_buffer' \in Seq(Sample) /\ Len(sample_buffer') <= BufLen
    BY <1>8, SizeAssumption DEF Process
  <2>7. secAge' \in Nat
    BY <1>8 DEF Process, TypeOK
  <2>8. QED
    BY <1>8, <2>5, <2>6, <2>7 DEF Process, TypeOK, PC
<1>9. QED
  BY <1>1, <1>2, <1>3, <1>4, <1>5, <1>6, <1>7, <1>8 DEF Main, Press

\* Every step keeps every variable in its type.
LEMMA TypeStep == TypeOK /\ [Next]_vars => TypeOK'
<1> SUFFICES ASSUME TypeOK, [Next]_vars
             PROVE  TypeOK'
  OBVIOUS
<1>1. CASE Main
  BY <1>1, MainType
<1>2. CASE Sampler
  BY <1>2, SamplerType DEF Sampler
<1>3. CASE on_sampling_timer
  <2>1. task' \in [TaskId -> TaskRecord]
    <3>1. "SAMPLE_BIT" \in Notification
      BY DEF Notification
    <3>2. QED
      BY <1>3, <3>1, NotifiedType DEF on_sampling_timer, TypeOK
  <2>2. counter' \in 0 .. Period
    BY <1>3, TimeAssumption DEF on_sampling_timer
  <2>3. QED
    BY <1>3, <2>1, <2>2 DEF on_sampling_timer, TypeOK, clocks
<1>4. CASE Tick
  BY <1>4, TickType
<1>5. CASE UNCHANGED vars
  BY <1>5 DEF vars, TypeOK
<1>6. QED
  BY <1>1, <1>2, <1>3, <1>4, <1>5 DEF Next

\* Type correctness of the detail shell: in particular the sample buffer stays
\* within its array.
THEOREM Typing == Spec => []TypeOK
<1>1. Init => TypeOK
  BY NewTaskType, TimeAssumption, SizeAssumption
     DEF Init, TypeOK, PC, Channel, Fps
<1>2. QED
  BY <1>1, TypeStep, PTL DEF Spec
-----------------------------------------------------------------------------
(***************************************************************************)
(* The sampling invariant.  The delay is a join because the bus is timely; *)
(* a start then finds no live task, so the new one is the only one, with   *)
(* an empty buffer; and until the next stop the handle names it.           *)
(***************************************************************************)

\* A start that finds no task leaves exactly one, whose handle is known, and an
\* empty buffer.
LEMMA StartSampling ==
    ASSUME TypeOK, Live = {}, CreateMayFail = FALSE, start_sampling
    PROVE  /\ timer' = "armed"
           /\ sample_buffer' = <<>>
           /\ handle' \in TaskId
           /\ Live' = {handle'}
           /\ task'[handle'] = NewTask
<1>1. TaskId # Live
  BY TaskAssumption
<1>2. PICK t \in TaskId \ Live : /\ task' = [task EXCEPT ![t] = NewTask]
                                 /\ handle' = t
                                 /\ sample_buffer' = <<>>
  BY <1>1 DEF start_sampling
<1>3. task'[t] = NewTask /\ \A u \in TaskId \ {t} : task'[u] = task[u]
  BY <1>2 DEF TypeOK
<1>4. NewTask.st # "free"
  BY DEF NewTask, FreeTask
<1>5. \A u \in TaskId : task[u].st = "free"
  BY DEF Live
<1>6. Live' = {t}
  BY <1>3, <1>4, <1>5 DEF Live
<1>7. QED
  BY <1>2, <1>3, <1>6 DEF start_sampling

\* ... and establishes the invariant.
LEMMA Restarted ==
    ASSUME TypeOK, Live = {}, CreateMayFail = FALSE, start_sampling, TypeOK',
           pc' \in Sampling \ {"exit"}
    PROVE  SamplerInv'
<1>1. /\ timer' = "armed" /\ sample_buffer' = <<>>
      /\ handle' \in TaskId /\ Live' = {handle'} /\ task'[handle'] = NewTask
  BY StartSampling
<1>2. NewTask.notify = {} /\ NewTask.from = {} /\ NewTask.got = Garbage
  BY DEF NewTask, FreeTask
<1>3. Started'
  BY <1>1, <1>2 DEF Started
<1>4. Stopping' /\ Outside'
  BY DEF Stopping, Outside, Joining, Sampling
<1>5. Attributed'
  <2>1. \A t \in Live' : task'[t].from = {} /\ task'[t].got = Garbage
    BY <1>1, <1>2
  <2>2. 1 .. Len(sample_buffer') = {}
    BY <1>1
  <2>3. QED
    BY <2>1, <2>2 DEF Attributed
<1>6. QED
  BY <1>3, <1>4, <1>5 DEF SamplerInv

\* A stop marks the live task, whose reads then fit in the delay.
LEMMA StopSampling ==
    ASSUME TypeOK, TimelyBus, handle \in TaskId, Live = {handle}, stop_sampling
    PROVE  /\ timer' = "idle"
           /\ Live' = {handle}
           /\ "STOP_BIT" \in task'[handle].notify
           /\ task'[handle].left <= delay'
<1>1. handle # NoTask
  BY TaskAssumption
<1>2. timer' = "idle" /\ delay' = JoinDelay /\ task' = Notified(handle, "STOP_BIT")
  BY <1>1 DEF stop_sampling
<1>3. task[handle].st # "free"
  BY DEF Live
<1>4. task' = [task EXCEPT ![handle].notify = @ \cup {"STOP_BIT"}]
  BY <1>2, <1>3 DEF Notified
<1>5. /\ task'[handle] = [task[handle] EXCEPT !.notify = @ \cup {"STOP_BIT"}]
      /\ \A u \in TaskId \ {handle} : task'[u] = task[u]
  BY <1>4 DEF TypeOK
<1>6. /\ task'[handle].st = task[handle].st
      /\ task'[handle].left = task[handle].left
      /\ "STOP_BIT" \in task'[handle].notify
  BY <1>5, TaskTypes DEF TaskRecord
<1>7. Live' = {handle}
  BY <1>5, <1>6 DEF Live
<1>8. task'[handle].left <= JoinDelay
  <2>1. task[handle].left \in 0 .. 3 * ReadTime
    BY TaskTypes
  <2>2. 3 * ReadTime \in Nat /\ JoinDelay \in Nat
    BY TimeAssumption
  <2>3. QED
    BY <1>6, <2>1, <2>2 DEF TimelyBus
<1>9. QED
  BY <1>2, <1>6, <1>7, <1>8

\* When the delay has run out and no task can run, none is left.
LEMMA Joined ==
    ASSUME TypeOK, Stopping
    PROVE  SamplerJoined
<1>1. SUFFICES ASSUME Joining, delay = 0, ~Preempted, NEW t \in Live
               PROVE  FALSE
  BY DEF SamplerJoined
<1>2. t \in TaskId /\ task[t].st \in {"wait", "read"}
  BY TaskTypes DEF Live
<1>3. "STOP_BIT" \in task[t].notify /\ (task[t].st = "read" => task[t].left <= 0)
  BY <1>1 DEF Stopping
<1>4. task[t].left \in Nat
  <2>1. 3 * ReadTime \in Nat
    BY TimeAssumption
  <2>2. QED
    BY <2>1, <1>2, TaskTypes
<1>5. Runnable(t)
  <2>1. CASE task[t].st = "wait"
    BY <1>3, <2>1 DEF Runnable
  <2>2. CASE task[t].st = "read"
    BY <1>3, <1>4, <2>2 DEF Runnable
  <2>3. QED
    BY <1>2, <2>1, <2>2
<1>6. QED
  BY <1>1, <1>2, <1>5 DEF Preempted

\* The loop task's steps keep the invariant.
LEMMA MainInv ==
    ASSUME SamplerInv, TimelyBus, CreateMayFail = FALSE, Main, TypeOK'
    PROVE  SamplerInv'
<1> USE DEF SamplerInv
<1>1. CASE EnterShell
  <2>1. Live = {}
    BY <1>1 DEF EnterShell, Outside
  <2>2. start_sampling /\ pc' = "sw1"
    BY <1>1 DEF EnterShell, enter
  <2>3. QED
    BY <2>1, <2>2, Restarted DEF Sampling
<1>2. CASE SwitchChannel
  <2>1. Live = {}
    BY <1>2, Joined DEF SwitchChannel, SamplerJoined, Joining
  <2>2. start_sampling /\ pc' = "sw3"
    BY <1>2 DEF SwitchChannel, enter
  <2>3. QED
    BY <2>1, <2>2, Restarted DEF Sampling
<1>3. CASE SwitchFps
  <2>1. Live = {}
    BY <1>3, Joined DEF SwitchFps, SamplerJoined, Joining
  <2>2. start_sampling /\ pc' = "sw2"
    BY <1>3 DEF SwitchFps
  <2>3. QED
    BY <2>1, <2>2, Restarted DEF Sampling
<1>4. CASE Sw1Next \/ Sw3Click \/ LeaveShell
  <2>1. /\ handle \in TaskId /\ Live = {handle}
        /\ stop_sampling /\ handle' = handle /\ Joining'
    BY <1>4 DEF Sw1Next, Sw3Click, LeaveShell, Started, Sampling, Joining
  <2>2. /\ timer' = "idle" /\ Live' = {handle}
        /\ "STOP_BIT" \in task'[handle].notify
        /\ task'[handle].left <= delay'
    BY <2>1, StopSampling
  <2>3. QED
    BY <2>1, <2>2 DEF Started, Stopping, Outside, Attributed, Sampling, Joining
<1>5. CASE Left
  <2>1. Live = {}
    BY <1>5, Joined DEF Left, SamplerJoined, Joining
  <2>2. Live' = {} /\ timer' = "none" /\ pc' = "out"
    BY <1>5, <2>1 DEF Left, Live
  <2>3. QED
    BY <2>2 DEF Started, Stopping, Outside, Attributed, Sampling, Joining
<1>6. CASE LoopStart \/ Sw1None \/ Sw3None \/ Sw2None \/ Sw2Event
  <2>1. UNCHANGED <<channel, fps, timer, task, handle, sample_buffer>>
        /\ pc \in Sampling \ {"exit"} /\ pc' \in Sampling \ {"exit"}
    BY <1>6 DEF LoopStart, Sw1None, Sw3None, Sw2None, Sw2Event, Sampling, clocks
  <2>2. Live' = Live
    BY <2>1 DEF Live
  <2>3. QED
    BY <2>1, <2>2 DEF Started, Stopping, Outside, Attributed, Sampling, Joining
<1>7. CASE Sw1Back \/ BackToOverview
  <2>1. UNCHANGED <<timer, task, handle>> /\ pc \in Sampling /\ pc' = "exit"
    BY <1>7 DEF Sw1Back, BackToOverview, Sampling
  <2>2. Live' = Live
    BY <2>1 DEF Live
  <2>3. QED
    BY <2>1, <2>2 DEF Started, Stopping, Outside, Attributed, Sampling, Joining
<1>8. CASE Process
  <2>1. /\ UNCHANGED <<channel, timer, task, handle>>
        /\ sample_buffer' = <<>> /\ pc = "process" /\ pc' = "idle"
    BY <1>8 DEF Process
  <2>2. Live' = Live
    BY <2>1 DEF Live
  <2>3. QED
    BY <2>1, <2>2 DEF Started, Stopping, Outside, Attributed, Sampling, Joining
<1>9. QED
  BY <1>1, <1>2, <1>3, <1>4, <1>5, <1>6, <1>7, <1>8 DEF Main, Press

\* The interrupt and time keep it.
LEMMA ClockInv ==
    ASSUME SamplerInv, on_sampling_timer \/ Tick, TypeOK'
    PROVE  SamplerInv'
<1> USE DEF SamplerInv
<1>1. UNCHANGED <<pc, channel, fps, timer, handle, sample_buffer>>
  BY DEF on_sampling_timer, Tick
<1>2. \A t \in TaskId : /\ task'[t].st = task[t].st
                        /\ task[t].notify \subseteq task'[t].notify
                        /\ task'[t].notify \subseteq task[t].notify \cup {"SAMPLE_BIT"}
                        /\ task'[t].from = task[t].from
                        /\ task'[t].got = task[t].got
  <2>1. CASE on_sampling_timer
    <3>1. CASE handle = NoTask
      BY <2>1, <3>1 DEF on_sampling_timer
    <3>2. CASE handle # NoTask
      BY <2>1, <3>2, TaskTypes DEF on_sampling_timer, Notified, TypeOK, TaskRecord
    <3>3. QED
      BY <3>1, <3>2
  <2>2. CASE Tick
    <3> SUFFICES ASSUME NEW t \in TaskId
                 PROVE  /\ task'[t].st = task[t].st
                        /\ task[t].notify \subseteq task'[t].notify
                        /\ task'[t].notify \subseteq task[t].notify \cup {"SAMPLE_BIT"}
                        /\ task'[t].from = task[t].from
                        /\ task'[t].got = task[t].got
      OBVIOUS
    <3>1. task'[t] = IF task[t].st = "read"
                     THEN [task[t] EXCEPT !.left = task[t].left - 1] ELSE task[t]
      BY <2>2 DEF Tick
    <3>2. QED
      BY <3>1, TaskTypes DEF TaskRecord
  <2>3. QED
    BY <2>1, <2>2
<1>3. Live' = Live
  BY <1>2 DEF Live
<1>4. Started' /\ Outside' /\ Attributed'
  BY <1>1, <1>2, <1>3 DEF Started, Outside, Attributed, Live
<1>5. Stopping'
  <2> SUFFICES ASSUME Joining, NEW t \in Live, task[t].st = "read"
               PROVE  task'[t].left <= delay'
    BY <1>1, <1>2, <1>3 DEF Stopping, Joining, Live
  <2>1. t \in TaskId /\ timer = "idle" /\ task[t].left <= delay
    BY DEF Stopping, Live
  <2>2. CASE on_sampling_timer
    BY <2>1, <2>2 DEF on_sampling_timer, AlarmDue
  <2>3. CASE Tick
    <3>1. ~Runnable(t)
      BY <2>1, <2>3 DEF Tick, Preempted
    <3>2. task[t].left # 0
      BY <3>1 DEF Runnable
    <3> DEFINE left == task[t].left - 1
    <3>3. task'[t] = [task[t] EXCEPT !.left = left]
      BY <2>1, <2>3 DEF Tick
    <3>4. task'[t].left = left
      BY <2>1, <3>3, TaskTypes DEF TaskRecord
    <3>5. task[t].left \in Nat /\ delay \in Nat
      <4>1. 3 * ReadTime \in Nat /\ JoinDelay \in Nat
        BY TimeAssumption
      <4>2. QED
        BY <4>1, <2>1, TaskTypes DEF TypeOK
    <3>6. delay' = IF delay = 0 THEN 0 ELSE delay - 1
      BY <2>3 DEF Tick
    <3>7. QED
      BY <2>1, <3>2, <3>4, <3>5, <3>6
  <2>4. QED
    BY <2>2, <2>3
<1>6. QED
  BY <1>4, <1>5

\* A sampling task's steps keep it.
LEMMA SamplerStepInv ==
    ASSUME SamplerInv, NEW t \in TaskId, sampling_fn(t), TypeOK'
    PROVE  SamplerInv'
<1> USE DEF SamplerInv
<1>1. UNCHANGED <<pc, channel, fps, timer, handle, delay>>
  BY DEF sampling_fn, SamplerStop, SamplerRead, SamplerStore
<1>2. t \in Live
  BY DEF sampling_fn, SamplerStop, SamplerRead, SamplerStore, Live
<1>3. \A u \in TaskId \ {t} : task'[u] = task[u]
  BY DEF sampling_fn, SamplerStop, SamplerRead, SamplerStore, TypeOK
<1>4. CASE SamplerStop(t)
  <2>1. task'[t].st = "free" /\ UNCHANGED sample_buffer
    BY <1>4 DEF SamplerStop, FreeTask, TypeOK
  <2>2. Live' = Live \ {t}
    BY <1>3, <2>1 DEF Live
  <2>3. pc \notin Sampling
    BY <1>2, <1>4 DEF SamplerStop, Started
  <2>4. QED
    BY <1>1, <1>3, <2>1, <2>2, <2>3
       DEF Started, Stopping, Outside, Attributed, Joining, Live
<1>5. CASE SamplerRead(t)
  <2> DEFINE Read(r) == /\ r.st = "read" /\ r.notify = {}
                        /\ r.from = task[t].from
                        /\ r.got \in {channel, Garbage}
  <2>1. Read(task'[t]) /\ UNCHANGED sample_buffer
    BY <1>5, TaskTypes DEF SamplerRead, TypeOK, TaskRecord
  <2>2. Live' = Live
    BY <1>2, <1>3, <2>1 DEF Live
  <2>3. ~Joining
    BY <1>2, <1>5 DEF SamplerRead, Stopping
  <2>4. QED
    BY <1>1, <1>2, <1>3, <2>1, <2>2, <2>3
       DEF Started, Stopping, Outside, Attributed, Joining, Live
<1>6. CASE SamplerStore(t)
  <2> DEFINE from == task[t].from \cup {task[t].got}
             Stored(g) == \/ UNCHANGED sample_buffer
                          \/ /\ g \subseteq from
                             /\ [from |-> g, fps |-> fps] \in Sample
                             /\ sample_buffer' = Append64(sample_buffer,
                                                   [from |-> g, fps |-> fps])
  <2>0. from \in SUBSET Origin /\ {task[t].got} \in SUBSET Origin /\ fps \in Fps
    BY TaskTypes DEF TypeOK
  <2>1. /\ task'[t].st = "wait" /\ task'[t].notify = task[t].notify
        /\ task'[t].from \subseteq from
        /\ task'[t].got = task[t].got
        /\ \E g \in SUBSET Origin : Stored(g)
    <3>1. CASE /\ sample_buffer' = Append64(sample_buffer,
                                     [from |-> {task[t].got}, fps |-> fps])
               /\ task' = [task EXCEPT ![t].st = "wait"]
      <4>1. task'[t] = [task[t] EXCEPT !.st = "wait"]
        BY <3>1 DEF TypeOK
      <4>2. Stored({task[t].got})
        BY <2>0, <3>1 DEF Sample
      <4>3. QED
        BY <2>0, <4>1, <4>2, TaskTypes DEF TaskRecord
    <3>2. CASE /\ sample_buffer' = Append64(sample_buffer,
                                     [from |-> from, fps |-> fps])
               /\ task' = [task EXCEPT ![t] = [task[t] EXCEPT !.st = "wait",
                                                 !.accu = 0, !.from = {}]]
      <4>1. task'[t] = [task[t] EXCEPT !.st = "wait", !.accu = 0, !.from = {}]
        BY <3>2 DEF TypeOK
      <4>2. Stored(from)
        BY <2>0, <3>2 DEF Sample
      <4>3. QED
        BY <2>0, <4>1, <4>2, TaskTypes DEF TaskRecord
    <3>3. CASE /\ task' = [task EXCEPT ![t] = [task[t] EXCEPT !.st = "wait",
                                      !.accu = task[t].accu + 1, !.from = from]]
               /\ UNCHANGED sample_buffer
      <4> DEFINE accu == task[t].accu + 1
      <4> HIDE DEF accu
      <4>1. task'[t] = [task[t] EXCEPT !.st = "wait", !.accu = accu, !.from = from]
        BY <3>3 DEF TypeOK, accu
      <4>2. Stored(from)
        BY <3>3
      <4>3. QED
        BY <2>0, <4>1, <4>2, TaskTypes DEF TaskRecord
    <3>4. QED
      BY <1>6, <3>1, <3>2, <3>3 DEF SamplerStore
  <2>2. Live' = Live
    BY <1>2, <1>3, <2>1 DEF Live
  <2>3. Started' /\ Stopping' /\ Outside'
    BY <1>1, <1>2, <1>3, <2>1, <2>2 DEF Started, Stopping, Outside, Joining, Live
  <2>4. Attributed'
    <3> SUFFICES ASSUME pc \in Sampling \ {"exit"}
                 PROVE  Attributed'
      BY <1>1 DEF Attributed
    <3>1. task[t].from \subseteq {channel, Garbage} /\ task[t].got \in {channel, Garbage}
      BY <1>2 DEF Attributed
    <3>2. \A u \in Live' : /\ task'[u].from \subseteq {channel', Garbage}
                           /\ task'[u].got \in {channel', Garbage}
      BY <1>1, <1>2, <1>3, <2>1, <2>2, <3>1 DEF Attributed, Live
    <3>3. \/ UNCHANGED sample_buffer
          \/ \E s \in Sample : /\ sample_buffer' = Append64(sample_buffer, s)
                               /\ s.from \subseteq {channel, Garbage} /\ s.fps = fps
      BY <2>1, <3>1
    <3>4. \A i \in 1 .. Len(sample_buffer') :
              /\ sample_buffer'[i].from \subseteq {channel, Garbage}
              /\ sample_buffer'[i].fps = fps
      <4> DEFINE Ours(s) == s.from \subseteq {channel, Garbage} /\ s.fps = fps
      <4>1. /\ sample_buffer \in Seq(Sample)
            /\ \A i \in 1 .. Len(sample_buffer) : Ours(sample_buffer[i])
        BY DEF Attributed, TypeOK
      <4>2. CASE UNCHANGED sample_buffer
        BY <4>1, <4>2
      <4>3. ASSUME NEW s \in Sample, Ours(s), sample_buffer' = Append(sample_buffer, s)
            PROVE  \A i \in 1 .. Len(sample_buffer') : Ours(sample_buffer'[i])
        <5> HIDE DEF Ours
        <5> QED
          BY <4>1, <4>3
      <4>4. QED
        BY <3>3, <4>2, <4>3 DEF Append64
    <3>5. QED
      BY <1>1, <3>2, <3>4 DEF Attributed
  <2>5. QED
    BY <2>3, <2>4
<1>7. QED
  BY <1>4, <1>5, <1>6 DEF sampling_fn

\* The sampling invariant is inductive when the bus is timely and tasks can be
\* created.
LEMMA SamplerInvariance ==
    ASSUME TimelyBus, CreateMayFail = FALSE
    PROVE  Spec => []SamplerInv
<1>1. Init => SamplerInv
  <2> SUFFICES ASSUME Init PROVE SamplerInv
    OBVIOUS
  <2>1. TypeOK
    BY NewTaskType, TimeAssumption, SizeAssumption DEF Init, TypeOK, PC, Channel, Fps
  <2>2. Live = {} /\ pc = "out" /\ timer = "none"
    BY DEF Init, Live, FreeTask
  <2>3. QED
    BY <2>1, <2>2
       DEF SamplerInv, Started, Stopping, Outside, Attributed, Sampling, Joining
<1>2. SamplerInv /\ [Next]_vars => SamplerInv'
  <2> SUFFICES ASSUME SamplerInv, [Next]_vars PROVE SamplerInv'
    OBVIOUS
  <2>1. TypeOK'
    BY TypeStep DEF SamplerInv
  <2>2. CASE Main
    BY <2>1, <2>2, MainInv
  <2>3. CASE Sampler
    BY <2>1, <2>3, SamplerStepInv DEF Sampler
  <2>4. CASE on_sampling_timer \/ Tick
    BY <2>1, <2>4, ClockInv
  <2>5. CASE UNCHANGED vars
    BY <2>1, <2>5 DEF SamplerInv, Started, Stopping, Outside, Attributed, Sampling,
                      Joining, Live, vars
  <2>6. QED
    BY <2>2, <2>3, <2>4, <2>5 DEF Next
<1>3. QED
  BY <1>1, <1>2, PTL DEF Spec

\* The delay of stop_sampling joins the task on every timely bus, whatever the
\* period, the buffer and the frame groups.
THEOREM SamplingTaskIsJoined ==
    ASSUME TimelyBus, CreateMayFail = FALSE
    PROVE  Spec => []SamplerJoined
<1>1. SamplerInv => SamplerJoined
  BY Joined DEF SamplerInv
<1>2. QED
  BY <1>1, SamplerInvariance, PTL

\* Two sampling tasks never run at once and none outlives the shell.
THEOREM AtMostOneSampler ==
    ASSUME TimelyBus, CreateMayFail = FALSE
    PROVE  Spec => []OneSampler
<1>1. SamplerInv => OneSampler
  <2> SUFFICES ASSUME SamplerInv PROVE OneSampler
    OBVIOUS
  <2>1. pc \in PC
    BY DEF SamplerInv, TypeOK
  <2>2. Live = {} \/ Live = {handle}
    BY <2>1 DEF SamplerInv, Started, Stopping, Outside, Sampling, Joining, PC
  <2>3. Cardinality({}) = 0 /\ Cardinality({handle}) = 1
    BY FS_EmptySet, FS_Singleton
  <2>4. Cardinality(Live) <= 1
    BY <2>2, <2>3
  <2>5. QED
    BY <2>4 DEF OneSampler, SamplerInv, Outside
<1>2. QED
  BY <1>1, SamplerInvariance, PTL

\* Every sample is charged to the channel and the frame rate it was taken at.
THEOREM SamplesAreAttributed ==
    ASSUME TimelyBus, CreateMayFail = FALSE
    PROVE  Spec => []CurrentAttribution
<1>1. SamplerInv => CurrentAttribution
  BY DEF SamplerInv, Attributed, CurrentAttribution, Sampling
<1>2. QED
  BY <1>1, SamplerInvariance, PTL

\* No notification goes to a deleted task.
THEOREM HandleIsLive ==
    ASSUME TimelyBus, CreateMayFail = FALSE
    PROVE  Spec => []NoDeadHandle
<1>1. SamplerInv => NoDeadHandle
  BY DEF SamplerInv, TypeOK, PC, Started, Stopping, Outside, NoDeadHandle, Sampling,
         Joining
<1>2. QED
  BY <1>1, SamplerInvariance, PTL
-----------------------------------------------------------------------------
(***************************************************************************)
(* The metering invariant.  Each frame that may yet be charged was opened  *)
(* by an alarm a Period after the one before, in this shell and with this  *)
(* channel; the counter holds the time since the last alarm.               *)
(***************************************************************************)

\* What a count of frames costs.
LEMMA FewerFrames ==
    ASSUME NEW u \in Nat, NEW v \in Nat, v <= u, NEW c \in Int, NEW o \in Int,
           u * Period + c <= o
    PROVE  v * Period + c <= o
<1>1. PICK d \in Nat : u = v + d
  <2>1. u - v \in Nat /\ u = v + (u - v)
    OBVIOUS
  <2>2. QED
    BY <2>1
<1>2. Period \in Nat
  BY TimeAssumption
<1>3. u * Period = v * Period + d * Period /\ d * Period \in Nat
      /\ v * Period \in Nat /\ u * Period \in Nat
  BY <1>1, <1>2
<1>4. QED
  BY <1>3

\* One frame more costs a period.
LEMMA OneFrameMore ==
    ASSUME NEW u \in Nat
    PROVE  (u + 1) * Period = u * Period + Period /\ u * Period \in Nat
BY TimeAssumption

\* No frame costs nothing.
LEMMA NoFrames ==
    ASSUME NEW c \in Int, NEW o \in Int, c <= o
    PROVE  0 * Period + c <= o
<1> DEFINE none == 0 * Period
<1>1. none = 0
  BY TimeAssumption
<1> HIDE DEF none
<1>2. none + c <= o
  BY <1>1
<1>3. QED
  BY <1>2 DEF none

\* What grows by one stays within what grew by one, and bounds add up.
LEMMA GrownByOne ==
    ASSUME NEW x \in Int, NEW y \in Int, NEW z \in Int, NEW o \in Int,
           z <= y + 1, x + y <= o
    PROVE  x + z \in Int /\ x + z <= o + 1
OBVIOUS

LEMMA BothBounded ==
    ASSUME NEW x \in Int, NEW y \in Int, NEW m \in Int, NEW n \in Int,
           NEW cap \in Int, x <= m, y <= n, m + n <= cap
    PROVE  x + y <= cap
OBVIOUS

\* The counts are counts.
LEMMA PendingType ==
    ASSUME NEW r \in TaskRecord
    PROVE  Pending(r) \in Nat /\ r.accu \in Nat /\ r.accu <= Pending(r)
                             /\ Pending(r) <= r.accu + 2
<1>1. r.accu \in Nat
  BY DEF TaskRecord
<1>2. QED
  BY <1>1 DEF Pending

LEMMA BufferedType ==
    ASSUME TypeOK
    PROVE  Buffered \in Nat /\ Group[fps] \in Nat \ {0} /\ Len(sample_buffer) \in Nat
<1>1. Group[fps] \in Nat \ {0} /\ Len(sample_buffer) \in Nat
  BY SizeAssumption DEF TypeOK
<1>2. QED
  BY <1>1 DEF Buffered

LEMMA FramesType ==
    ASSUME TypeOK, NEW t \in TaskId
    PROVE  Frames(t) \in Nat /\ Buffered <= Frames(t)
<1>1. task[t] \in TaskRecord
  BY TaskTypes
<1>2. Pending(task[t]) \in Nat
  BY <1>1, PendingType
<1>3. QED
  BY <1>2, BufferedType DEF Frames

\* A start leaves no frame to pay for.
LEMMA StartedAfresh ==
    ASSUME TypeOK, Live = {}, CreateMayFail = FALSE, start_sampling, TypeOK',
           channel' = Metered /\ Metering' => counter' <= owed'
    PROVE  Grouped' /\ FramesOwed'
<1>1. /\ sample_buffer' = <<>> /\ handle' \in TaskId
      /\ Live' = {handle'} /\ task'[handle'] = NewTask
  BY StartSampling
<1>2. NewTask.accu = 0 /\ NewTask.st = "wait" /\ NewTask.notify = {}
  BY DEF NewTask, FreeTask
<1>3. Pending(NewTask) = 0
  BY <1>2 DEF Pending
<1>4. Group[fps'] \in Nat \ {0} /\ fps' \in Fps
  BY SizeAssumption DEF TypeOK
<1>5. Len(<<>>) = 0
  OBVIOUS
<1>6. Buffered' = 0
  BY <1>1, <1>4, <1>5 DEF Buffered
<1>7. \A t \in Live' : Frames(t)' = 0 /\ task'[t].accu = 0
  BY <1>1, <1>2, <1>3, <1>6 DEF Frames
<1>8. Grouped'
  BY <1>4, <1>7 DEF Grouped
<1>9. PICK c \in Int, o \in Int : c = counter' /\ o = owed'
  BY TimeAssumption DEF TypeOK
<1>10. FramesOwed'
  <2> SUFFICES ASSUME channel' = Metered, Metering'
               PROVE  /\ Buffered' * Period + counter' <= owed'
                      /\ \A t \in Live' : Frames(t)' * Period + counter' <= owed'
    BY DEF FramesOwed
  <2>1. 0 * Period + counter' <= owed'
    <3>1. c <= o
      BY <1>9
    <3>2. 0 * Period + c <= o
      BY <3>1, NoFrames
    <3>3. QED
      BY <1>9, <3>2
  <2>2. QED
    BY <1>6, <1>7, <2>1
<1>11. QED
  BY <1>8, <1>10

\* No more frames and no less time: what is owed still pays.
LEMMA FramesStayPaid ==
    ASSUME TypeOK, TypeOK', FramesOwed, UNCHANGED <<channel, counter, owed>>,
           Metering' => Metering,
           Buffered' <= Buffered \/ (\E t \in Live : Buffered' <= Frames(t)),
           \A t \in Live' : t \in Live /\ Frames(t)' <= Frames(t)
    PROVE  FramesOwed'
<1> SUFFICES ASSUME channel = Metered, Metering
             PROVE  /\ Buffered' * Period + counter <= owed
                    /\ \A t \in Live' : Frames(t)' * Period + counter <= owed
  BY DEF FramesOwed
<1>1. /\ Buffered * Period + counter <= owed
      /\ \A t \in Live : Frames(t) * Period + counter <= owed
  BY DEF FramesOwed
<1>2. counter \in Int /\ owed \in Int /\ Live \subseteq TaskId /\ Live' \subseteq TaskId
  BY DEF TypeOK, Live
<1>3. Buffered' \in Nat
  <2>1. Group[fps'] \in Nat /\ Len(sample_buffer') \in Nat
    BY SizeAssumption DEF TypeOK
  <2>2. QED
    BY <2>1 DEF Buffered
<1>4. \A t \in Live' : Frames(t)' \in Nat
  <2> SUFFICES ASSUME NEW t \in Live' PROVE Frames(t)' \in Nat
    OBVIOUS
  <2>1. task'[t] \in TaskRecord
    BY <1>2 DEF TypeOK
  <2>2. Pending(task'[t]) \in Nat
    BY <2>1, PendingType
  <2>3. QED
    BY <1>3, <2>2 DEF Frames
<1>5. Buffered' * Period + counter <= owed
  <2>1. CASE Buffered' <= Buffered
    <3>1. Buffered \in Nat
      BY BufferedType
    <3>2. QED
      BY <1>1, <1>2, <1>3, <2>1, <3>1, FewerFrames
  <2>2. CASE \E t \in Live : Buffered' <= Frames(t)
    <3>1. PICK t \in Live : Buffered' <= Frames(t)
      BY <2>2
    <3>2. Frames(t) \in Nat
      BY <1>2, FramesType
    <3>3. QED
      BY <1>1, <1>2, <1>3, <3>1, <3>2, FewerFrames
  <2>3. QED
    BY <2>1, <2>2
<1>6. \A t \in Live' : Frames(t)' * Period + counter <= owed
  <2> SUFFICES ASSUME NEW t \in Live' PROVE Frames(t)' * Period + counter <= owed
    OBVIOUS
  <2>1. Frames(t) \in Nat /\ Frames(t)' \in Nat /\ Frames(t)' <= Frames(t)
        /\ Frames(t) * Period + counter <= owed
    BY <1>1, <1>2, <1>4, FramesType
  <2>2. QED
    BY <1>2, <2>1, FewerFrames
<1>7. QED
  BY <1>5, <1>6

\* Steps that touch neither the task nor what is metered by the frame.
LEMMA FramesUntouched ==
    ASSUME Grouped, FramesOwed, Metering' => Metering,
           UNCHANGED <<channel, fps, counter, task, sample_buffer, owed>>
    PROVE  Grouped' /\ FramesOwed'
<1>1. Live' = Live
  BY DEF Live
<1>2. Buffered' = Buffered /\ \A t \in TaskId : Frames(t)' = Frames(t)
  BY DEF Buffered, Frames
<1>3. QED
  BY <1>1, <1>2 DEF Grouped, FramesOwed, Live

\* A stop adds no frame.
LEMMA StopKeepsFrames ==
    ASSUME TypeOK, TypeOK', Grouped, FramesOwed, TimelyBus, handle \in TaskId,
           Live = {handle}, stop_sampling, Metering' => Metering,
           UNCHANGED <<channel, fps, counter, sample_buffer, owed>>
    PROVE  Grouped' /\ FramesOwed'
<1> DEFINE same(t) == /\ Pending(task'[t]) = Pending(task[t])
                      /\ task'[t].accu = task[t].accu
<1>1. Live' = {handle}
  BY StopSampling
<1>2. task' = [task EXCEPT ![handle].notify = @ \cup {"STOP_BIT"}]
  BY TaskAssumption DEF stop_sampling, Notified, Live
<1>3. task'[handle] = [task[handle] EXCEPT !.notify = @ \cup {"STOP_BIT"}]
  BY <1>2 DEF TypeOK
<1>4. /\ task'[handle].st = task[handle].st
      /\ task'[handle].accu = task[handle].accu
      /\ "SAMPLE_BIT" \in task'[handle].notify <=> "SAMPLE_BIT" \in task[handle].notify
  BY <1>3, TaskTypes DEF TaskRecord
<1>5. \A t \in Live : same(t)
  BY <1>4 DEF Pending
<1>6. Buffered' = Buffered
  BY DEF Buffered
<1>7. \A t \in Live : Frames(t)' = Frames(t) /\ task'[t].accu = task[t].accu
  BY <1>5, <1>6 DEF Frames
<1>8. Live' = Live
  BY <1>1
<1>9. QED
  BY <1>6, <1>7, <1>8 DEF Grouped, FramesOwed
\* The loop task never charges more than is owed.
LEMMA MainMeter ==
    ASSUME SamplerInv, MeterInv, TimelyBus, CreateMayFail = FALSE, Main, TypeOK'
    PROVE  MeterInv'
<1> USE DEF SamplerInv, MeterInv
<1>0. /\ lag \in Nat /\ secAge \in Nat /\ owed \in Int /\ counter \in Nat
      /\ AccuPeriod \in Nat /\ LagCap \in Nat /\ owed >= 0
  BY TimeAssumption DEF TypeOK, LagCap, NeverOvercharged
<1>1. CASE EnterShell
  <2>1. Live = {}
    BY <1>1 DEF EnterShell, Outside
  <2>2. /\ start_sampling /\ counter' = 0 /\ owed' = 0 /\ lag' = 0 /\ secAge' = 0
    BY <1>1 DEF EnterShell, enter
  <2>3. counter' <= owed'
    BY <2>2
  <2>4. Grouped' /\ FramesOwed'
    BY <2>1, <2>2, <2>3, StartedAfresh
  <2>5. QED
    BY <1>0, <2>2, <2>4 DEF SecondOwed, NeverOvercharged
<1>2. CASE SwitchChannel
  <2>1. Live = {}
    BY <1>2, Joined DEF SwitchChannel, SamplerJoined, Joining
  <2>2. /\ start_sampling /\ counter' = 0 /\ secAge' = 0 /\ UNCHANGED <<owed, lag>>
        /\ pc = "joinSwitch" /\ pc' = "sw3"
    BY <1>2 DEF SwitchChannel, enter
  <2>3. Grouped' /\ FramesOwed'
    BY <1>0, <2>1, <2>2, StartedAfresh
  <2>4. lag <= owed
    BY <2>2 DEF SecondOwed, Metering
  <2>5. QED
    BY <1>0, <2>2, <2>3, <2>4 DEF SecondOwed, NeverOvercharged
<1>3. CASE SwitchFps
  <2>1. Live = {}
    BY <1>3, Joined DEF SwitchFps, SamplerJoined, Joining
  <2>2. /\ start_sampling /\ UNCHANGED <<channel, counter, owed, lag, secAge>>
        /\ pc = "joinFps" /\ pc' = "sw2"
    BY <1>3 DEF SwitchFps
  <2>3. channel = Metered => counter <= owed
    <3> SUFFICES ASSUME channel = Metered PROVE counter <= owed
      OBVIOUS
    <3>1. Buffered * Period + counter <= owed
      BY <2>2 DEF FramesOwed, Metering
    <3>2. Buffered * Period \in Nat
      BY BufferedType, OneFrameMore
    <3> DEFINE paid == Buffered * Period
    <3> HIDE DEF paid
    <3>3. paid + counter <= owed /\ paid \in Nat
      BY <3>1, <3>2 DEF paid
    <3>4. QED
      BY <1>0, <3>3
  <2>4. Grouped' /\ FramesOwed'
    BY <2>1, <2>2, <2>3, StartedAfresh
  <2>5. QED
    BY <1>0, <2>2, <2>4 DEF SecondOwed, NeverOvercharged, Metering, Sampling
<1>4. CASE Sw1Next \/ Sw3Click \/ LeaveShell
  <2>1. /\ handle \in TaskId /\ Live = {handle} /\ stop_sampling
        /\ UNCHANGED <<channel, fps, counter, sample_buffer, owed, lag, secAge>>
    BY <1>4 DEF Sw1Next, Sw3Click, LeaveShell, Started, Sampling, clocks
  <2>2. /\ Metering' => Metering
        /\ pc' \in {"sw1", "joinSwitch"} => pc \in {"sw1", "joinSwitch"}
    BY <1>4 DEF Sw1Next, Sw3Click, LeaveShell, Metering, Sampling
  <2>3. Grouped' /\ FramesOwed'
    BY <2>1, <2>2, StopKeepsFrames
  <2>4. QED
    BY <2>1, <2>2, <2>3 DEF SecondOwed, NeverOvercharged
<1>5. CASE LoopStart
  <2>1. /\ pc = "idle" /\ pc' = "sw1" /\ lag' = 0
        /\ secAge' = AtMost(secAge + lag, AccuPeriod + 1)
        /\ UNCHANGED <<channel, fps, counter, task, sample_buffer, owed>>
    BY <1>5 DEF LoopStart
  <2>2. Metering
    BY <2>1 DEF Metering, Sampling
  <2>3. Grouped' /\ FramesOwed'
    BY <2>1, <2>2, FramesUntouched
  <2>4. /\ secAge' \in Nat /\ secAge' <= secAge + lag /\ secAge' <= AccuPeriod + 1
    BY <1>0, <2>1 DEF AtMost
  <2>5. SecondOwed'
    BY <1>0, <2>1, <2>2, <2>4 DEF SecondOwed
  <2>6. QED
    BY <1>0, <2>1, <2>3, <2>4, <2>5 DEF NeverOvercharged
<1>6. CASE Sw1None \/ Sw3None \/ Sw2None \/ Sw2Event \/ Sw1Back \/ BackToOverview \/ Left
  <2>1. UNCHANGED <<fps, counter, task, sample_buffer, owed, lag, secAge>>
    BY <1>6 DEF Sw1None, Sw3None, Sw2None, Sw2Event, Sw1Back, BackToOverview, Left, clocks
  <2>2. /\ Metering' => Metering /\ channel' = channel
        /\ pc' \notin {"sw1", "joinSwitch"}
    BY <1>6 DEF Sw1None, Sw3None, Sw2None, Sw2Event, Sw1Back, BackToOverview, Left,
                Metering, Sampling
  <2>3. Grouped' /\ FramesOwed'
    <3>1. Live' = Live
      BY <2>1 DEF Live
    <3>2. Buffered' = Buffered /\ \A t \in TaskId : Frames(t)' = Frames(t)
      BY <2>1 DEF Buffered, Frames
    <3>3. QED
      BY <2>1, <2>2, <3>1, <3>2 DEF Grouped, FramesOwed, Live
  <2>4. QED
    BY <2>1, <2>2, <2>3 DEF SecondOwed, NeverOvercharged
<1>7. CASE Process
  <2>1. /\ pc = "process" /\ pc' = "idle" /\ sample_buffer' = <<>>
        /\ secAge' = IF secAge > AccuPeriod THEN 0 ELSE secAge
        /\ owed' = owed - BufferCharge - SecondCharge
        /\ UNCHANGED <<channel, fps, counter, task, lag>>
    BY <1>7 DEF Process
  <2>2. Metering /\ pc' \notin {"sw1", "joinSwitch"}
    BY <2>1 DEF Metering, Sampling
  <2>3. secAge' <= AccuPeriod + 1 /\ lag' <= LagCap
    BY <1>0, <2>1
  <2>4. Grouped'
    BY <2>1 DEF Grouped, Live
  <2>5. CASE channel # Metered
    <3>1. BufferCharge = 0 /\ SecondCharge = IF secAge > AccuPeriod THEN AccuPeriod ELSE 0
      BY <2>5 DEF BufferCharge, SecondCharge
    <3>2. secAge + lag <= owed
      BY <2>2, <2>5 DEF SecondOwed
    <3>3. owed' >= 0 /\ secAge' + lag <= owed'
      BY <1>0, <2>1, <3>1, <3>2
    <3>4. SecondOwed'
      BY <2>1, <2>2, <3>3 DEF SecondOwed
    <3>5. FramesOwed'
      BY <2>1, <2>5 DEF FramesOwed
    <3>6. QED
      BY <2>3, <2>4, <3>3, <3>4, <3>5 DEF NeverOvercharged
  <2>6. CASE channel = Metered
    <3> DEFINE charge == Buffered * Period
    <3>1. SecondCharge = 0 /\ BufferCharge = charge
      BY <2>6 DEF BufferCharge, SecondCharge, Buffered
    <3>2. charge \in Nat /\ charge + counter <= owed
      BY <2>2, <2>6, BufferedType, OneFrameMore DEF FramesOwed
    <3>3. owed' = owed - charge
      <4> HIDE DEF charge
      <4>1. QED
        BY <1>0, <2>1, <3>1, <3>2
    <3>4. owed' >= 0 /\ counter <= owed' /\ owed' \in Int
      <4> HIDE DEF charge
      <4>1. QED
        BY <1>0, <3>2, <3>3
    <3>5. SecondOwed'
      BY <2>1, <2>2, <2>6 DEF SecondOwed
    <3>6. Buffered' = 0
      <4>1. Len(<<>>) = 0 /\ Group[fps] \in Nat
        BY BufferedType
      <4>2. QED
        BY <2>1, <4>1 DEF Buffered
    <3>7. Live' = Live
      BY <2>1 DEF Live
    <3>8. \A t \in Live : Frames(t)' * Period + counter <= owed'
      <4> SUFFICES ASSUME NEW t \in Live
                   PROVE  Frames(t)' * Period + counter <= owed'
        OBVIOUS
      <4> DEFINE p == Pending(task[t])
      <4>1. p \in Nat /\ Buffered \in Nat /\ Period \in Nat
        BY TaskTypes, PendingType, BufferedType, TimeAssumption DEF Live
      <4>2. Frames(t) = Buffered + p /\ Frames(t)' = p
        <5>1. Frames(t)' = 0 + p
          BY <2>1, <3>6 DEF Frames
        <5> HIDE DEF p
        <5>2. 0 + p = p
          BY <4>1
        <5>3. Frames(t) = Buffered + p
          BY DEF Frames, p
        <5>4. QED
          BY <5>1, <5>2, <5>3
      <4>3. Frames(t) * Period + counter <= owed
        BY <2>2, <2>6 DEF FramesOwed
      <4> HIDE DEF p, charge
      <4> DEFINE rest == p * Period
      <4>4. (Buffered + p) * Period = charge + rest /\ rest \in Nat
        BY <4>1 DEF charge
      <4>5. charge + rest + counter <= owed
        BY <4>2, <4>3, <4>4
      <4> HIDE DEF rest
      <4>6. rest + counter <= owed'
        BY <1>0, <3>2, <3>3, <4>4, <4>5
      <4>7. QED
        BY <4>2, <4>6 DEF rest
    <3>9. FramesOwed'
      <4>1. Buffered' * Period + counter' <= owed'
        <5>1. 0 * Period + counter <= owed'
          BY <1>0, <3>4, NoFrames
        <5>2. QED
          BY <2>1, <3>6, <5>1
      <4>2. QED
        BY <2>1, <3>7, <3>8, <4>1 DEF FramesOwed
    <3>10. QED
      BY <2>3, <2>4, <3>4, <3>5, <3>9 DEF NeverOvercharged
  <2>7. QED
    BY <2>5, <2>6
<1>8. QED
  BY <1>1, <1>2, <1>3, <1>4, <1>5, <1>6, <1>7 DEF Main, Press

\* A sampling task's steps turn one pending frame into another, and a whole
\* group of them into a sample.
LEMMA SamplerMeter ==
    ASSUME SamplerInv, MeterInv, NEW t \in TaskId, sampling_fn(t), TypeOK'
    PROVE  MeterInv'
<1> USE DEF SamplerInv, MeterInv
<1>1. UNCHANGED <<pc, channel, fps, counter, secAge, lag, owed>>
  BY DEF sampling_fn, SamplerStop, SamplerRead, SamplerStore, clocks
<1>2. t \in Live /\ \A u \in TaskId \ {t} : task'[u] = task[u]
  BY DEF sampling_fn, SamplerStop, SamplerRead, SamplerStore, Live, TypeOK
<1>3. NeverOvercharged' /\ SecondOwed' /\ secAge' <= AccuPeriod + 1 /\ lag' <= LagCap
  BY <1>1 DEF NeverOvercharged, SecondOwed, Metering
<1>4. task[t] \in TaskRecord /\ task'[t] \in TaskRecord
  BY TaskTypes DEF TypeOK
<1>5. /\ Buffered \in Nat /\ Group[fps] \in Nat \ {0} /\ Len(sample_buffer) \in Nat
      /\ task[t].accu \in Nat /\ task[t].accu < Group[fps]
  BY <1>2, <1>4, BufferedType, PendingType DEF Grouped
<1>6. CASE SamplerStop(t)
  <2>1. task'[t].st = "free" /\ UNCHANGED sample_buffer
    BY <1>6 DEF SamplerStop, FreeTask, TypeOK
  <2>2. Live' = Live \ {t}
    BY <1>2, <2>1 DEF Live
  <2>3. Buffered' = Buffered
    BY <1>1, <2>1 DEF Buffered
  <2>4. \A u \in Live' : Frames(u)' = Frames(u) /\ task'[u] = task[u]
    BY <1>2, <2>2, <2>3 DEF Frames, Live
  <2>5. Grouped' /\ FramesOwed'
    BY <1>1, <2>2, <2>3, <2>4 DEF Grouped, FramesOwed, Metering
  <2>6. QED
    BY <1>3, <2>5
<1>7. ASSUME task'[t].st \in {"wait", "read"}, task'[t].accu < Group[fps],
             Buffered' + Pending(task'[t]) <= Frames(t), Buffered' <= Frames(t),
             \A u \in TaskId \ {t} : Buffered' + Pending(task[u]) <= Frames(u)
                                    \/ u \notin Live
      PROVE  MeterInv'
  <2>1. Live' = Live
    BY <1>2, <1>7 DEF Live
  <2>2. \A u \in Live' : Frames(u)' <= Frames(u)
    BY <1>2, <1>7, <2>1 DEF Frames, Live
  <2>3. Metering' => Metering
    BY <1>1 DEF Metering
  <2>4. FramesOwed'
    BY <1>1, <1>2, <1>7, <2>1, <2>2, <2>3, FramesStayPaid
  <2>5. Grouped'
    BY <1>1, <1>2, <1>7, <2>1 DEF Grouped, Live
  <2>6. QED
    BY <1>3, <2>4, <2>5
<1>8. Live = {t}
  BY <1>2 DEF Started, Stopping, Outside, Sampling, Joining, TypeOK, PC
<1>9. \A u \in TaskId \ {t} : u \notin Live
  BY <1>8
<1>10. Frames(t) = Buffered + Pending(task[t])
  BY DEF Frames
<1>11. CASE SamplerRead(t)
  <2>1. /\ task[t].st = "wait" /\ task[t].notify = {"SAMPLE_BIT"}
        /\ task'[t].st = "read" /\ task'[t].notify = {}
        /\ task'[t].accu = task[t].accu /\ UNCHANGED sample_buffer
    BY <1>4, <1>11 DEF SamplerRead, TypeOK, TaskRecord
  <2>2. Pending(task[t]) = task[t].accu + 1 /\ Pending(task'[t]) = task[t].accu + 1
    BY <1>5, <2>1 DEF Pending
  <2>3. Buffered' = Buffered
    BY <1>1, <2>1 DEF Buffered
  <2>4. Buffered' + Pending(task'[t]) <= Frames(t) /\ Buffered' <= Frames(t)
    BY <1>5, <1>10, <2>2, <2>3
  <2>5. QED
    BY <1>5, <1>7, <1>9, <2>1, <2>4
<1>12. CASE SamplerStore(t)
  <2> DEFINE told == IF "SAMPLE_BIT" \in task[t].notify THEN 1 ELSE 0
             a == task[t].accu
             b == task'[t].accu
             g == Group[fps]
  <2>1. task[t].st = "read"
    BY <1>12 DEF SamplerStore
  <2>2. Frames(t) = Buffered + a + 1 + told /\ told \in {0, 1}
    <3>1. Pending(task[t]) = a + 1 + told
      BY <2>1 DEF Pending
    <3>2. QED
      BY <1>5, <1>10, <3>1
  <2>3. ASSUME task'[t].st = "wait", task'[t].notify = task[t].notify,
               b \in Nat, b < g, Buffered' \in Nat, Buffered' + b <= Buffered + a + 1
        PROVE  MeterInv'
    <3>1. Pending(task'[t]) = b + told
      BY <2>3 DEF Pending
    <3> HIDE DEF a, b, g, told
    <3>2. a \in Nat
      BY <1>5 DEF a
    <3>3. Buffered' + Pending(task'[t]) <= Frames(t) /\ Buffered' <= Frames(t)
      <4>1. PICK p \in Nat, q \in Nat : p = Buffered /\ q = Buffered'
        BY <1>5, <2>3
      <4>2. b \in Nat /\ q + b <= p + a + 1
        BY <2>3, <4>1
      <4>3. Frames(t) = p + a + 1 + told /\ told \in {0, 1}
        BY <2>2, <4>1
      <4>4. q + (b + told) <= p + a + 1 + told /\ q <= p + a + 1 + told
        BY <3>2, <4>2, <4>3
      <4>5. QED
        BY <3>1, <4>1, <4>3, <4>4
    <3>4. QED
      BY <1>7, <1>9, <2>3, <3>3 DEF b, g
  <2>4. ASSUME NEW s \in Sample, sample_buffer' = Append64(sample_buffer, s)
        PROVE  Buffered' \in Nat /\ Buffered' <= Buffered + g
    <3>1. Len(sample_buffer') \in {Len(sample_buffer), Len(sample_buffer) + 1}
      BY <2>4 DEF Append64, TypeOK
    <3> DEFINE n == Len(sample_buffer)
    <3>2. n \in Nat /\ g \in Nat
      BY <1>5
    <3>3. Buffered = n * g /\ (Buffered' = n * g \/ Buffered' = (n + 1) * g)
      BY <1>1, <3>1 DEF Buffered
    <3> HIDE DEF n, g
    <3>4. (n + 1) * g = n * g + g /\ n * g \in Nat
      BY <3>2
    <3>5. QED
      BY <3>2, <3>3, <3>4
  <2>5. /\ [from |-> {task[t].got}, fps |-> fps] \in Sample
        /\ [from |-> task[t].from \cup {task[t].got}, fps |-> fps] \in Sample
    <3>1. {task[t].got} \in SUBSET Origin
          /\ task[t].from \cup {task[t].got} \in SUBSET Origin /\ fps \in Fps
      BY TaskTypes DEF TypeOK
    <3>2. QED
      BY <3>1 DEF Sample
  <2>6. CASE /\ fps = "FPS_100"
             /\ sample_buffer' = Append64(sample_buffer,
                                   [from |-> {task[t].got}, fps |-> fps])
             /\ task' = [task EXCEPT ![t].st = "wait"]
    <3>1. task'[t] = [task[t] EXCEPT !.st = "wait"]
      BY <2>6 DEF TypeOK
    <3>2. /\ task'[t].st = "wait" /\ task'[t].notify = task[t].notify /\ b = a
      BY <1>4, <3>1 DEF TaskRecord
    <3>3. g = 1
      BY <2>6, SizeAssumption
    <3>4. Buffered' \in Nat /\ Buffered' <= Buffered + g
      BY <2>4, <2>5, <2>6
    <3>5. Buffered' + b <= Buffered + a + 1
      BY <1>5, <3>2, <3>3, <3>4
    <3>6. QED
      BY <1>5, <2>3, <3>2, <3>4, <3>5
  <2>7. CASE /\ a + 1 >= g
             /\ sample_buffer' = Append64(sample_buffer,
                  [from |-> task[t].from \cup {task[t].got}, fps |-> fps])
             /\ task' = [task EXCEPT ![t] = [task[t] EXCEPT !.st = "wait",
                                               !.accu = 0, !.from = {}]]
    <3>1. task'[t] = [task[t] EXCEPT !.st = "wait", !.accu = 0, !.from = {}]
      BY <2>7 DEF TypeOK
    <3>2. /\ task'[t].st = "wait" /\ task'[t].notify = task[t].notify /\ b = 0
      BY <1>4, <3>1 DEF TaskRecord
    <3>3. Buffered' \in Nat /\ Buffered' <= Buffered + g
      BY <2>4, <2>5, <2>7
    <3>4. Buffered' + b <= Buffered + a + 1
      BY <1>5, <2>7, <3>2, <3>3
    <3>5. QED
      BY <1>5, <2>3, <3>2, <3>3, <3>4
  <2>8. CASE /\ ~(a + 1 >= g)
             /\ task' = [task EXCEPT ![t] = [task[t] EXCEPT !.st = "wait",
                          !.accu = a + 1, !.from = task[t].from \cup {task[t].got}]]
             /\ UNCHANGED sample_buffer
    <3> DEFINE more == a + 1
    <3>1. b = more /\ task'[t].st = "wait" /\ task'[t].notify = task[t].notify
      <4>1. task'[t] = [task[t] EXCEPT !.st = "wait", !.accu = more,
                                       !.from = task[t].from \cup {task[t].got}]
        BY <2>8 DEF TypeOK
      <4> HIDE DEF more
      <4>2. QED
        BY <1>4, <4>1 DEF TaskRecord
    <3>2. Buffered' = Buffered
      BY <1>1, <2>8 DEF Buffered
    <3>3. b \in Nat /\ b < g /\ Buffered' + b <= Buffered + a + 1
      BY <1>5, <2>8, <3>1, <3>2
    <3>4. QED
      BY <1>5, <2>3, <3>1, <3>2, <3>3
  <2>9. QED
    BY <1>12, <2>6, <2>7, <2>8 DEF SamplerStore
<1>13. QED
  BY <1>6, <1>11, <1>12 DEF sampling_fn

\* The alarm opens a frame and takes its Period from the counter.
LEMMA AlarmMeter ==
    ASSUME SamplerInv, MeterInv, on_sampling_timer, TypeOK'
    PROVE  MeterInv'
<1> USE DEF SamplerInv, MeterInv
<1>1. /\ UNCHANGED <<pc, channel, fps, timer, handle, sample_buffer, secAge, lag, owed>>
      /\ timer = "armed" /\ counter' = 0
      /\ task' = IF handle = NoTask THEN task ELSE Notified(handle, "SAMPLE_BIT")
  BY DEF on_sampling_timer, AlarmDue, clocks
<1>2. counter = Period /\ Period \in Nat
  BY TimeAssumption DEF on_sampling_timer, AlarmDue, TypeOK
<1>3. PICK h \in TaskId : h = handle /\ Live = {h}
  BY <1>1 DEF Started, Stopping, Outside, Sampling, Joining, TypeOK, PC
<1>4. task' = [task EXCEPT ![h].notify = @ \cup {"SAMPLE_BIT"}]
  BY <1>1, <1>3, TaskAssumption DEF Notified, Live
<1>5. task'[h] = [task[h] EXCEPT !.notify = @ \cup {"SAMPLE_BIT"}]
      /\ \A u \in TaskId \ {h} : task'[u] = task[u]
  BY <1>4 DEF TypeOK
<1>6. task[h] \in TaskRecord /\ task'[h] \in TaskRecord
  BY TaskTypes DEF TypeOK
<1>7. task'[h].st = task[h].st /\ task'[h].accu = task[h].accu
  BY <1>5, <1>6 DEF TaskRecord
<1>8. Live' = {h}
  BY <1>3, <1>5, <1>7 DEF Live
<1>9. Grouped'
  BY <1>1, <1>3, <1>7, <1>8 DEF Grouped
<1>10. Pending(task'[h]) <= Pending(task[h]) + 1
       /\ Pending(task'[h]) \in Nat /\ Pending(task[h]) \in Nat
  <2>1. task[h].accu \in Nat
    BY <1>6, PendingType
  <2>2. Pending(task'[h]) <= Pending(task[h]) + 1
    BY <1>7, <2>1 DEF Pending
  <2>3. QED
    BY <1>6, <2>2, PendingType
<1>11. Buffered' = Buffered /\ Buffered \in Nat
  BY <1>1, BufferedType DEF Buffered
<1>12. FramesOwed'
  <2> SUFFICES ASSUME channel = Metered, Metering
               PROVE  /\ Buffered * Period + 0 <= owed
                      /\ Frames(h)' * Period + 0 <= owed
    BY <1>1, <1>8, <1>11 DEF FramesOwed, Metering
  <2> DEFINE f == Frames(h)
             paid == f * Period
             k == Frames(h)'
  <2>1. f = Buffered + Pending(task[h]) /\ k = Buffered + Pending(task'[h])
    BY <1>11 DEF Frames
  <2>2. f \in Nat /\ k \in Nat /\ k <= f + 1 /\ f + 1 \in Nat /\ Buffered <= f + 1
    <3> HIDE DEF f, k
    <3>1. QED
      BY <1>10, <1>11, <2>1
  <2>3. paid + Period <= owed /\ owed \in Int
    BY <1>2, <1>3 DEF FramesOwed, TypeOK
  <2>4. (f + 1) * Period = paid + Period /\ paid \in Nat
    BY <2>2, OneFrameMore
  <2> HIDE DEF f, k
  <2>5. (f + 1) * Period + 0 <= owed
    <3> HIDE DEF paid
    <3>1. QED
      BY <1>2, <2>3, <2>4
  <2>6. k * Period + 0 <= owed /\ Buffered * Period + 0 <= owed
    BY <1>11, <2>2, <2>3, <2>5, FewerFrames
  <2>7. QED
    BY <2>6 DEF k
<1>13. QED
  BY <1>1, <1>9, <1>12 DEF NeverOvercharged, SecondOwed, Metering

\* As time passes what is owed grows with what may be charged; its cap is wide
\* enough for a full buffer and a group.
LEMMA TickMeter ==
    ASSUME SamplerInv, MeterInv, CapIsWide, Tick, TypeOK'
    PROVE  MeterInv'
<1>0. /\ TypeOK
      /\ NeverOvercharged /\ Grouped /\ FramesOwed /\ SecondOwed
      /\ secAge <= AccuPeriod + 1 /\ lag <= LagCap
  BY DEF SamplerInv, MeterInv
<1>1. /\ UNCHANGED <<pc, channel, fps, timer, handle, sample_buffer, secAge>>
      /\ counter' = (IF timer = "none" THEN 0 ELSE AtMost(counter + 1, Period))
      /\ lag' = (IF pc = "out" THEN 0 ELSE AtMost(lag + 1, LagCap))
      /\ owed' = (IF pc = "out" THEN 0 ELSE AtMost(owed + 1, OwedCap))
  BY DEF Tick
<1>2. /\ lag \in Nat /\ secAge \in Nat /\ owed \in Int /\ counter \in Nat
      /\ AccuPeriod \in Nat /\ LagCap \in Nat /\ owed >= 0
      /\ Period \in Nat /\ OwedCap \in Nat
  BY <1>0, TimeAssumption, ModeAssumption DEF TypeOK, LagCap, NeverOvercharged
<1>3. /\ counter' \in Nat /\ counter' <= counter + 1 /\ counter' <= Period
  BY <1>1, <1>2 DEF AtMost
<1>4. /\ lag' \in Nat /\ lag' <= lag + 1 /\ lag' <= LagCap
  BY <1>1, <1>2 DEF AtMost
<1>5. owed' \in Nat
  BY <1>1, <1>2 DEF AtMost
<1>6. ASSUME pc # "out", NEW x \in Int, x <= owed + 1, x <= OwedCap
      PROVE  x <= owed'
  <2>1. owed' = IF owed + 1 > OwedCap THEN OwedCap ELSE owed + 1
    BY <1>1, <1>6 DEF AtMost
  <2>2. QED
    BY <1>2, <1>6, <2>1
<1>7. \A t \in TaskId : /\ task'[t].st = task[t].st
                        /\ task'[t].notify = task[t].notify
                        /\ task'[t].accu = task[t].accu
  <2> SUFFICES ASSUME NEW t \in TaskId
               PROVE  /\ task'[t].st = task[t].st
                      /\ task'[t].notify = task[t].notify
                      /\ task'[t].accu = task[t].accu
    OBVIOUS
  <2>1. task'[t] = IF task[t].st = "read"
                   THEN [task[t] EXCEPT !.left = task[t].left - 1] ELSE task[t]
    BY DEF Tick
  <2>2. QED
    BY <1>0, <2>1, TaskTypes DEF TaskRecord
<1>8. Live' = Live
  BY <1>7 DEF Live
<1>9. Buffered' = Buffered /\ \A t \in Live : Frames(t)' = Frames(t)
  BY <1>1, <1>7 DEF Buffered, Frames, Live, Pending
<1>10. Grouped'
  BY <1>0, <1>1, <1>7, <1>8 DEF Grouped, Live
<1>11. SecondOwed'
  <2> SUFFICES ASSUME Metering
               PROVE  /\ channel # Metered => secAge + lag' <= owed'
                      /\ pc \in {"sw1", "joinSwitch"} => lag' <= owed'
    BY <1>1 DEF SecondOwed, Metering
  <2>1. pc # "out"
    BY DEF Metering, Sampling
  <2>2. AccuPeriod + 1 + LagCap <= OwedCap
    BY DEF CapIsWide
  <2>3. ASSUME channel # Metered PROVE secAge + lag' <= owed'
    <3>1. secAge + lag <= owed /\ secAge <= AccuPeriod + 1
      BY <1>0, <2>3 DEF SecondOwed
    <3>2. /\ secAge + lag' \in Int /\ secAge + lag' <= owed + 1
          /\ secAge + lag' <= OwedCap
      <4>1. AccuPeriod + 1 \in Int /\ secAge \in Int /\ lag \in Int /\ lag' \in Int
            /\ LagCap \in Int /\ OwedCap \in Int
        BY <1>2, <1>4
      <4>2. QED
        BY <1>2, <1>4, <2>2, <3>1, <4>1, GrownByOne, BothBounded
    <3>3. QED
      BY <1>6, <2>1, <3>2
  <2>4. ASSUME pc \in {"sw1", "joinSwitch"} PROVE lag' <= owed'
    <3>1. lag <= owed
      BY <1>0, <2>4 DEF SecondOwed
    <3>2. lag' \in Int /\ lag' <= owed + 1 /\ lag' <= OwedCap
      BY <1>2, <1>4, <2>2, <3>1
    <3>3. QED
      BY <1>6, <2>1, <3>2
  <2>5. QED
    BY <2>3, <2>4
<1>12. FramesOwed'
  <2> SUFFICES ASSUME channel = Metered, Metering
               PROVE  /\ Buffered * Period + counter' <= owed'
                      /\ \A t \in Live : Frames(t) * Period + counter' <= owed'
    BY <1>1, <1>8, <1>9 DEF FramesOwed, Metering
  <2>1. pc # "out"
    BY DEF Metering, Sampling
  <2> DEFINE most == BufLen * Group[fps] + Group[fps] + 1
  <2>2. most \in Nat /\ (most + 1) * Period <= OwedCap
    <3>1. BufLen \in Nat /\ Group[fps] \in Nat /\ fps \in Fps
      BY <1>0, SizeAssumption DEF TypeOK
    <3> DEFINE full == BufLen * Group[fps]
    <3>2. full \in Nat
      BY <3>1
    <3>3. (full + Group[fps] + 2) * Period <= OwedCap
      BY <3>1 DEF CapIsWide
    <3> HIDE DEF full
    <3>4. most \in Nat /\ most + 1 = full + Group[fps] + 2
      BY <3>1, <3>2 DEF full
    <3> HIDE DEF most
    <3>5. QED
      BY <3>3, <3>4
  <2>3. Buffered \in Nat /\ Buffered <= BufLen * Group[fps]
    <3> DEFINE n == Len(sample_buffer)
               g == Group[fps]
    <3>1. n \in Nat /\ n <= BufLen /\ BufLen \in Nat /\ g \in Nat
      BY <1>0, SizeAssumption DEF TypeOK
    <3>2. Buffered = n * g
      BY DEF Buffered
    <3> HIDE DEF n, g
    <3>3. n * g \in Nat /\ n * g <= BufLen * g
      <4>1. PICK d \in Nat : BufLen = n + d
        <5>1. BufLen - n \in Nat /\ BufLen = n + (BufLen - n)
          BY <3>1
        <5>2. QED
          BY <5>1
      <4>2. BufLen * g = n * g + d * g /\ n * g \in Nat /\ d * g \in Nat
        BY <3>1, <4>1
      <4>3. QED
        BY <4>2
    <3>4. QED
      BY <3>2, <3>3 DEF g
  <2>4. ASSUME NEW u \in Nat, u <= most, u * Period + counter <= owed
        PROVE  u * Period + counter' <= owed'
    <3> HIDE DEF most
    <3> DEFINE all == most * Period
               x == u * Period
    <3>1. PICK c \in Int : c = counter' /\ c <= Period /\ c <= counter + 1
      BY <1>3
    <3>2. all + Period <= OwedCap /\ all \in Nat
      BY <2>2, OneFrameMore
    <3>3. most * Period + c <= OwedCap
      <4> HIDE DEF all
      <4>1. all \in Int /\ Period \in Int /\ OwedCap \in Int /\ all <= all
        BY <1>2, <3>2
      <4>2. all + c <= OwedCap
        BY <3>1, <3>2, <4>1, BothBounded
      <4>3. QED
        BY <4>2 DEF all
    <3>4. x \in Nat /\ x + counter <= owed /\ x + c <= OwedCap
      <4>1. x + c <= OwedCap
        <5>1. OwedCap \in Int
          BY <1>2
        <5>2. QED
          BY <2>2, <2>4, <3>1, <3>3, <5>1, FewerFrames
      <4>2. QED
        BY <2>4, <4>1, OneFrameMore
    <3> HIDE DEF x
    <3>5. x + c \in Int /\ x + c <= owed + 1
      <4>1. x \in Int /\ counter \in Int /\ owed \in Int
        BY <1>2, <3>4
      <4>2. QED
        BY <3>1, <3>4, <4>1, GrownByOne
    <3>6. x + c <= owed'
      BY <1>6, <2>1, <3>4, <3>5
    <3>7. QED
      BY <3>1, <3>6 DEF x
  <2>5. Buffered * Period + counter' <= owed'
    <3>1. Buffered <= most
      <4>1. Group[fps] \in Nat /\ BufLen * Group[fps] \in Nat
        BY <1>0, BufferedType, SizeAssumption
      <4>2. QED
        BY <2>3, <4>1
    <3>2. Buffered * Period + counter <= owed
      BY <1>0 DEF FramesOwed
    <3>3. QED
      BY <2>3, <2>4, <3>1, <3>2
  <2>6. ASSUME NEW t \in Live PROVE Frames(t) * Period + counter' <= owed'
    <3>1. t \in TaskId /\ task[t] \in TaskRecord
      BY <1>0, TaskTypes DEF Live
    <3>2. Frames(t) \in Nat /\ Frames(t) = Buffered + Pending(task[t])
      BY <1>0, <3>1, FramesType DEF Frames
    <3>3. /\ Pending(task[t]) \in Nat /\ task[t].accu \in Nat
          /\ Pending(task[t]) <= task[t].accu + 2 /\ task[t].accu < Group[fps]
      BY <1>0, <3>1, PendingType DEF Grouped
    <3>4. Frames(t) <= most
      <4>1. Group[fps] \in Nat /\ BufLen * Group[fps] \in Nat
        BY <1>0, BufferedType, SizeAssumption
      <4>2. QED
        BY <2>3, <3>2, <3>3, <4>1
    <3>5. Frames(t) * Period + counter <= owed
      BY <1>0 DEF FramesOwed
    <3>6. QED
      BY <2>4, <3>2, <3>4, <3>5
  <2>7. QED
    BY <2>5, <2>6
<1>13. QED
  BY <1>0, <1>1, <1>4, <1>5, <1>10, <1>11, <1>12 DEF NeverOvercharged, MeterInv

\* No channel is ever charged for more time than has passed, whatever the
\* period, the groups, the buffer and the reads of a timely bus; the bound on
\* the time followed is the model's own and is wide enough not to be felt.
THEOREM NoTimeIsChargedTwice ==
    ASSUME TimelyBus, CreateMayFail = FALSE, CapIsWide
    PROVE  Spec => []NeverOvercharged
<1>1. Init => MeterInv
  <2> SUFFICES ASSUME Init PROVE MeterInv
    OBVIOUS
  <2>1. Live = {}
    BY DEF Init, Live, FreeTask
  <2>2. ~Metering
    BY DEF Init, Metering, Sampling
  <2>3. lag = 0 /\ secAge = 0 /\ owed = 0 /\ AccuPeriod \in Nat /\ LagCap \in Nat
    BY TimeAssumption DEF Init, LagCap
  <2>4. QED
    BY <2>1, <2>2, <2>3
       DEF MeterInv, NeverOvercharged, Grouped, FramesOwed, SecondOwed
<1>2. SamplerInv /\ SamplerInv' /\ MeterInv /\ [Next]_vars => MeterInv'
  <2> SUFFICES ASSUME SamplerInv, TypeOK', MeterInv, [Next]_vars PROVE MeterInv'
    BY DEF SamplerInv
  <2>1. CASE Main
    BY <2>1, MainMeter
  <2>2. CASE Sampler
    BY <2>2, SamplerMeter DEF Sampler
  <2>3. CASE on_sampling_timer
    BY <2>3, AlarmMeter
  <2>4. CASE Tick
    BY <2>4, TickMeter
  <2>5. CASE UNCHANGED vars
    BY <2>5 DEF MeterInv, NeverOvercharged, Grouped, FramesOwed, SecondOwed, Frames,
                Buffered, Metering, Live, vars
  <2>6. QED
    BY <2>1, <2>2, <2>3, <2>4, <2>5 DEF Next
<1>3. MeterInv => NeverOvercharged
  BY DEF MeterInv
<1>4. QED
  BY <1>1, <1>2, <1>3, SamplerInvariance, PTL DEF Spec

=============================================================================
