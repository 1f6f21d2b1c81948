# SmartAPS: a TLA+ verification project

SmartAPS is a bench power distribution box: an ESP32 that switches a USB port and
two DC ports, measures each with an INA226 current sensor, shows the readings on an
OLED panel, beeps, and publishes to Home Assistant through a trimmed copy of
ESPHome. The firmware is `src/fw/src`; `smartaps.cpp` and its neighbours are the
application, `esphome/` the framework it runs in, `src/hw` the board.

This directory models the firmware's control in TLA+, checks small instances with
TLC and proves with TLAPS what must hold for every instance of eight of its parts:
the detail screen, where two tasks and an interrupt meet, the other shells, the
beeper, the button, the scheduler, the switches and updates over restarts and crashes,
the API's connections and the WiFi component. A reader needs only the repository and these files.

- [The system](#the-system): its parts, their state, how they interact
- [Modules](#modules): which module models what, and how it corresponds to the code
- [Runs](#runs): what each shows, its bounds and its fairness
- [Proofs](#proofs)
- [What the models found in the code](#what-the-models-found-in-the-code)
- [Not modelled](#not-modelled) and the [plan](#plan)

## The system

### Tasks and how they interact

| Task or context | Runs | Talks to the others by |
|---|---|---|
| Arduino loop task, priority 1 | `Application::loop`: the scheduler's items, then every component's `loop`, `SmartAPS::loop` among them; then it sleeps | calls; `xTaskNotify` and `sampling_timer` to the sampling task |
| sampling task, priority 2, same core, alive only in the detail screen | `sampling_fn`: waits for a notification, reads the INA226s over I2C, appends to `sample_buffer` | `sample_buffer` and `sample_count` under a port critical section |
| hardware timer interrupt, every 10 ms while the alarm is enabled | `on_sampling_timer` | notifies `sampling_task_handle` |
| WiFi event task | `wifi_event_callback_` | `error_from_callback_`, `scan_done_`, `scan_result_`, unlocked |
| lwIP task | `APIServer`'s `onClient`, `APIConnection`'s `on_data_`, `on_disconnect_`, `on_timeout_` | `clients_`, `recv_buffer_`, `remove_`, unlocked |
| web server task | the portal's `handle_wifisave`, the page's `handleUpload` and `handleRequest` | `sta_`, the preferences and the `Update` object, unlocked |

The application itself shares data between tasks only in the detail screen's
sampling; the framework does in WiFi, the API server and the two ways of uploading.

### Components

| Component | State it keeps | Operations | Hard behaviour | What makes it correct |
|---|---|---|---|---|
| main loop and shells (`smartaps.cpp`, `shell_overview.cpp`, `shell_screensaver.cpp`) | current and next shell; per shell `_display_on`, last outputs, last readings, six timestamps | `loop` (leave, enter, loop), a shell's `enter`, `leave`, `loop` | six timers restarted by different causes, per-shell flags for one panel, external toggles | a click in the dark only lights the panel; panel and screen saver follow their documented causes and delays; no second is charged twice |
| detail shell (`shell_detail.cpp`) | `_channel`, `_fps`, timer, task handle, `sample_buffer` | enter, leave, loop, `start_sampling`, `stop_sampling`, `sampling_fn`, the interrupt | three actors; a join by a fixed delay; buffered samples without a mark of origin | one sampler at a time, joined before the next; samples charged to their own channel; sampling never stays stopped |
| beeper and sequencer (`beeper.cpp`, `sequencer.cpp`) | pattern, position, cycle, start time, high frequency request | `beep1..3`, `stop`, `loop` | a beep over a beep, tones timed by a loop that may sleep | no tone sticks, none runs late, no request leaks |
| button (`button.cpp`) | state, `_time_down`, `_time_up` | `begin`, `update` | bouncing contact, uneven polling, wrap of `millis()` | well-formed, debounced events |
| scheduler (`esphome/core/scheduler.cpp`) | heap, `to_add_`, `to_remove_`, `last_millis_`, `millis_major_` | set, cancel, `call`, `next_schedule_in` | items that set and cancel items while they run, two wrapping clocks | nothing lost, doubled, early or forgotten |
| application and component life cycle (`application.cpp`, `component.cpp`, `helpers.cpp`) | component states, `loop_interval_`, high frequency count | `setup`, `loop`, `mark_failed`, `reboot`, `safe_reboot` | a component that may not proceed holds the setup of the rest; restarts in the middle of it | the loop's pace; failed components stop; only what ran counts as a good start |
| GPIO switches (`gpio_switch.cpp`, `switch.cpp`, `restart_switch.cpp`) | pin, `state`, `publish_dedup_`, interlock timeout | turn on and off, setup with a restore mode, publish | the interlock's wait racing another turn; power lost between two writes | two interlocked outputs never on together; an output turned off stays off |
| preferences (`preferences.cpp`) | NVS under numbered keys, `current_offset_` | `begin`, `make_preference`, `load`, `save` | refused saves; a broken NVS; another order of keys in safe mode and in another firmware | a switch begins with its own state, or none |
| OTA and safe mode (`ota_component.cpp`), upload page (`web_server_base.cpp`) | boot counter, `has_safe_mode_`, the update under way, one shared `Update` | `should_enter_safe_mode`, `handle_`, `wait_receive_`, `clean_rtc`, `handleUpload`, `handleRequest` | crashes before the counter is cleared; a counter that NVS refuses to save; two uploads at once; clients that stop in the middle | a crash loop ends in safe mode and only that; who began last and is told "OK" has his image booted; updates end |
| WiFi (`wifi_component*.cpp`), captive portal, web server base | `state_`, retries, priorities, `ap_setup_`, callback flags; `active_`; the server's users | setup, loop, scan, `start_connecting`, `check_connecting_finished`, `retry_connect`, `setup_ap_config_`, `save_wifi_sta`; `start`, `end` | events that come late or twice, five timers, settings saved in the middle | every access point has its turn; the adapter is restarted; fallback or restart come; the server runs as long as the portal |
| native API server (`api_server.cpp`, `api_connection.cpp`, `util.cpp`) | `clients_`; per connection its state, buffers, keep-alive, two iterators | accept, loop, `parse_recv_buffer_`, `read_message`, `advance`, publish, `on_shutdown` | a full send buffer at any moment, states that change during the initial iteration, silent and dead peers | connections die after their last use only; lists and states arrive whole; dead ones go and live ones stay |
| API protobuf code (`proto.h`, `api_pb2*.cpp`, `user_services.*`) | messages | `encode`, `decode`, `send_message_`, service calls | lengths, signs and widths; defaults left out; pieces of any size | what one side sends the other finds |
| sensors and filters (`sensor.cpp`, `filter.cpp`) | windows, sums, timers, last values | `input` of each filter, `publish_state` | windows half full, NaN, late answers within chains | each filter does what it is for; the client shows the state there is |
| logger, time | one transmit buffer; cron state | log; trigger | the buffer shared by two tasks; calendar edges | - |
| drivers (`ina226`, `temt6000`, `ssd1322`), `ringbuf.h`, fonts | device registers, a ring of readings | read, write | the bus may fail or be slow | - |

`PROJECT.json` lists every component with its sources and status, and under
"hazards" what in this code is hard to test, at its line, with the properties that
cover it.

## Modules

| Module | Models | Extends | Checked through |
|---|---|---|---|
| `DetailShell` | `shell_detail.cpp`: loop task, sampling task, interrupt | - | `MCDetailShell` |
| `Shells` | `SmartAPS::loop`, overview and screen saver whole, the detail shell as its neighbours see it | - | `MCShells` |
| `Button` | `button.cpp` | - | itself |
| `Beeper` | `beeper.cpp`, `sequencer.cpp`, `HighFrequencyLoopRequester`, the pace of `Application::loop` | - | `MCBeeper` |
| `Scheduler` | `scheduler.cpp` | - | itself |
| `Timers` | what a scheduler promises of named timeouts and intervals, which `Scheduler` implements | - | `Scheduler` |
| `WiFi` | `wifi_component.cpp` over the ESP32 driver, captive portal, the web server's users | - | `MCWiFi` |
| `Api` | `api_server.cpp`, `api_connection.cpp`, the iterators of `util.cpp` | - | `MCApi` |
| `Api_Tasks` | the same with other tasks let in while connections are removed | `Api` | `MCApi` |
| `Proto` | `proto.h`, `proto.cpp`: fields to bytes and back | - | `MCReports` |
| `Messages` | `api_pb2.cpp`: which fields each message has and how they are coded | `Proto` | `MCReports` |
| `Wire` | frames, `recv_buffer_`, dispatch, `user_services` | `Messages` | `MCReports` |
| `Filters` | `filter.cpp` | - | `MCReports` |
| `Reports` | `sensor.cpp` with filters in front and the API behind it | `Wire`, `Filters` | `MCReports` |
| `Preferences` | `preferences.cpp` of the ESP32 | - | `MCRestarts` |
| `Interlock` | `gpio_switch.cpp`, `switch.cpp` | `Preferences` | `MCRestarts` |
| `Ota` | `ota_component.cpp`, the upload of `web_server_base.cpp` | `Preferences` | `MCRestarts` |
| `Restarts` | `Application::setup`, `reboot`, `safe_reboot`, power and crashes | `Interlock`, `Ota` | `MCRestarts` |
| `SwitchMemory` | what switches with preferences promise, which `Restarts` implements | - | `MCRestarts` |
| `DetailShell_proofs`, `Shells_proofs`, `Beeper_proofs`, `Button_proofs`, `Scheduler_proofs`, `Restarts_proofs`, `Api_proofs`, `WiFi_proofs` | theorems about the module named | that module | tlapm |

Every definition that stands for code is listed in `PROJECT.json` under "map" with
its file, lines and symbol. Operators whose comment says *Mutant* are not part of a
model: each is a plausible bug, listed under "mutants" with the property it breaks.

Throughout, time is counted in ticks; a timestamp `_timestamp_x` that code only uses
as `now - _timestamp_x` is an *age*, which stops growing once past every limit it is
compared with. Where wrap-around matters (`Button`, `Scheduler`) clocks are kept as
the code keeps them, modulo a `Wrap` that stands for 2^32.

### DetailShell

`pc` is where the loop task is within `SmartAPS::loop` and `DetailShell::loop`:
`sw1`, `sw3`, `sw2` the three buttons in the code's order, `process` the buffer and
the metering, `joinSwitch`, `joinFps`, `joinExit` the delay in `stop_sampling`,
`exit` the return of another shell, `out` any other shell. FreeRTOS is modelled by
what the code relies on: a task is a control block in `task` that is free, waiting
in `xTaskNotifyWait` or reading the bus; `Preempted` says a sampling task can run,
and since its priority is higher no loop-task action is enabled then. `Tick` passes
time only when no interrupt is due and no sampling task can run, which is when the
core idles in `delay` or the bus is waited for.

- A frame's reads take any time up to `ReadTime` each, one or (a *sneak* frame)
  three of them; what they return is the channel they were read from or, if the bus
  may fail, `Garbage`.
- `sample_buffer` keeps of each sample where it came from and at which rate, which
  the code does not: the two tags exist to ask whether the code may do without.
- Metering is modelled as time: `owed` is the time spent in this screen minus the
  time for which `Metered` was charged.
- `enter(now)` uses the `now` read before `stop_sampling`'s wait; `lag` is how old
  that `now` is.
- The critical section makes the append atomic with respect to the loop task. The
  test of `sample_count` outside it is part of `Process`: the sampling task can only
  add samples in between, and then the copy takes them too.

### Shells

One loop is a few atomic steps (`pc`): buttons, measurement, light, accounting.
They are atomic because no other task writes what they read; external toggles,
loads, light and time change between loops, where ESPHome's other components run.
`touched` are the outputs not in the state the shell last noted, `moved` those whose
current differs by 200 mA from the last reading; two values suffice because code
compares with the last noted one only. `lightAge = NotCounting` is
`_timestamp_light_off = 0`. The detail shell appears as `DetailLoop` and
`DetailBack`, and what they assume of its metering is `DetailShell`'s
`NeverOvercharged`.

### Button, Beeper, Scheduler

`Button` has one operator per state of `update`, a loop that reads `now` and some
time later calls `update(now)`, and `begin` where the code calls it: `begin(false)` in `setup`, once and before
any loop (`smartaps.cpp:125-127`), and either kind from a shell's `enter`, within a loop. There the panel
has just been reset with two `delay(1)` (`ssd1322.cpp:289-291`), so that `millis()` is ahead of the loop's
`now`, always. `late` remembers that the press under way is one that such a `begin` found and that nobody
has looked at since; `DownIsDebounced` excepts the `DOWN` which that very loop's `update` then
gives (finding 8), and nothing else.

`Beeper` has the turn of `Application::loop` as its frame: components act while
`awake`, `loop` is called once, and the sleep is at most `FastGap` or `SlowGap`
depending on `is_high_frequency` when the turn ended.

`Scheduler` keeps `items_` as a set: the heap's array is abstracted to what `front()`
may be, any item `cmp` puts after no other. Items carry `wait`, their real time
to go, which the code does not have, so that early and late are defined apart from
the code's own arithmetic. `call` is `CallStart`, then heads one at a time
(`CleanupHead`, `RunFailed`, `RunItem`, `ItemDone`), then `CallEnd`; while an item
runs (`pc = "f"`) it, like any component between calls, may set and cancel.

`Timers` is the abstract promise: per name at most one timer with its time to go and
its period, which `Run` takes no earlier than it is due, `Set` replaces and `Cancel` ends, at
any moment, within its own function too; an interval is due again whole periods later.
`TimersKept` is the refinement `T!Spec`. A name's timer is mapped to its one item that
will run (`Live`): heap, `to_add_`, flags, counts and clocks disappear. Items without a
name, which callers cannot tell apart, are not timers. What `Timers` leaves open, which of those due runs
first and how soon, is what `NothingDueLeft` and `WantedRuns` are about.

### WiFi

`pc` is where the loop task is: `boot` before `setup`, `idle` between loops, `retry`
and `clear` within `retry_connect` (which delays while the driver's events come),
`tail` the part of `loop` after the switch over the states: fallback access point and restart by
the age of `last_connected_`. The driver is what `wifi_component_esp32.cpp` calls and
is called back by: `link`, the configuration it was given last (`wanted`), `status`
as `WiFi.status()` reports it, and `events`, a queue delivered one by one by the event
task. Access points are records in `Ap`; `air` says what each does now: off, refuse, or
accept, constant for long enough or changing. `selected_ap_` is kept because it is
what a second attempt, a save and a stale error act upon. `portal` holds
`CaptivePortal::active_` with the web server's users and handlers.

### Api and Api_Tasks

`APIServer::loop` is `LoopStart` (partition), `LogDisconnects`, `Delete` one by one,
`Erase`, then for each of `clients_` `Serve` (the first tests of `APIConnection::loop`),
`ParseOne` per message, `ParseDone`, `Advance` (both iterators and the ping), and
`LoopEnd`. lwIP's task accepts, appends and closes between any two of these steps. `conn`
are a connection's members, `peer` its client with what it has been told; a send is a
choice whether there is `Room`. A message is a word (`Word`), `vocab` the words a client has left to
say, each once except switching on and off. `freed` records whether a deleted
connection was read. In `Api` nobody else is let in while connections are removed
(`Window`); `Api_Tasks` adds just that, and breaks.

`recv_buffer_` is written by lwIP's task and shifted by the loop task without a lock.
Below the level of messages that is a race without a defined outcome; `Api` has what
the code intends, a queue.

### Proto, Messages, Wire

`Proto` translates each `encode_*`, each case of `ProtoMessage::decode` and the casts
between them; values are integers and sequences of bytes. `Messages` lists, for each of
the API's messages and their parts, the fields in the order `encode` writes them with the function it
writes them by, and the fields its `decode_*` functions read: a schema instead of
4000 lines of generated code. `Wire` adds `send_buffer`'s frame, TCP's pieces,
`parse_recv_buffer_` and `read_message`'s dispatch by number, and user services with
typed arguments, with clients before and since the field `legacy_int` was replaced. The client
is no part of the repository: it writes as protocol buffers have it, may know a
field or a type of message the device does not, and reads as the device does.

### Filters, Reports

A filter is a record of its kind and parameters, its members a record that is the same for all
kinds; `input(chain, members, k, x, now)` runs a value through the chain from filter
`k` on and returns members and outputs, as `Filter::input` and `output` do. `Reports` publishes,
lets timers run out, and sends what comes out to a subscribed client by way of `Wire`.
`given` records what each filter of the chain, and after the last one the sensor, was given, when, and after
how many values given to the filter before: what one filter gave the next is thus known at every
place of a chain. `Filtered` says of each filter, wherever it is, what it owes for all it was given
so far, without its members: those that answer at once (`AtOnce`: windows, exponential, polynomial,
throttle, delta, filter_out, and an `OrFilter` of these), and those that answer by timer (`DebounceRight`,
`HeartbeatRight`), whose answers must arrive at the filter behind them. Floats are integers, and a mean is
rounded down; the exponential average, with an alpha of a half, is exact for the values used.

### Preferences, Interlock, Ota, Restarts, SwitchMemory

`Preferences` has NVS under the numbers `make_preference` gives out, blobs with their
length and with the type that goes into the checksum. `Interlock` keeps the call under way as
`steps`, a list of writes and saves, so that power can fail between any two;
`write_state` translates turning rivals off, the wait and its cancellation; `setup` writes
twice, as the code does. `Ota` has the stages of `handle_`; `stuck` is a
client that sent a part of a block and stopped; both uploads write into `upd`, the one
`Update` object, whose `error` stays until the next `begin`. `Update` is a library: the module has of it
what the code relies on. `handle_` tells its client at `OTA_RESPONSE_UPDATE_END_OK` (`OtaTells`), the page tells
its own in `handleRequest`, after the last piece (`answer`), and says "Update Successful!" whenever `Update` has no error,
also when the pieces wrote nothing (`WebIgnored`). `told` is who was told of which image, `begun` who began an
update last. Any save of the boot counter may be refused where a play says so (`uncounted`): `write_rtc_` does not
look. `uncleared` remembers that the last clear was. `Restarts` composes them in a life of the device: power on,
`should_enter_safe_mode`, setup in order (OTA behind WiFi, which may not proceed), the loop, and a crash at
any step. What generated code's `main` does (the order of components, the order in which
`make_preference` is called) is not in the repository: it is marked external and a
constant (`Layout`). `SwitchMemory` is the abstract promise; `MemoryKept` is the
refinement `Memory!Spec`, with a switch's position mapped to `now` and what the
next start would load to `kept`.

## Runs

"pass" runs finish without error. A "violation" run states what a comment or a page of the
code says and shows the code doing otherwise (see
[findings](#what-the-models-found-in-the-code)).

| Run | Config | Shows |
|---|---|---|
| `detail_join` | `MCDetailShell_join` | every interleaving of loop task, task and interrupt through channel and rate switches, with failing and slow reads: the delay joins the task, one sampler at a time, samples attributed to their channel and rate, no dead task notified |
| `detail_meter` | `MCDetailShell_meter` | no time is charged twice to port A; sampling never stays stopped; the idle screen is left |
| `shells` | `MCShells` | panel, screen saver, metering and publishing under clicks, toggles, loads, light |
| `button` | `MCButton` | debounce but for the press a begin finds within a loop, event order, awaited release, hold and readiness across the wrap |
| `beeper` | `MCBeeper` | silence, requests, tone ends, whole patterns, final silence |
| `scheduler` | `MCScheduler` | removals counted, one item per wanted name, none early, none left over, each runs; what callers see is a set of timers (refinement of `Timers`) |
| `wifi` | `MCWiFi` | portal and server agree; a lost link is noticed; every access point that takes us has its turn; the adapter is restarted; fallback and reboot come |
| `wifi_saved` | `MCWiFi_saved`, violation | a network saved on a device without networks is not tried |
| `api` | `MCApi` | nothing deleted is used, lists arrive whole and in order, subscribers know the state there is, who answers is kept, who is dead goes, iterations end, the device without clients restarts |
| `api_tasks` | `MCApi_tasks`, violation | the same with other tasks let in while connections are removed |
| `reports` | `MCReports` | every message both ways in pieces with unknown ones between them, calls with typed arguments, every filter alone and at any place of a chain, what a client shows |
| `restarts` | `MCRestarts` | outlets exclude each other through crashes; states are kept (refinement of `SwitchMemory`); crash loops that are counted, and nothing else but a counter that could not be cleared, lead to safe mode; who began an update last is told of it rightly |

Several properties are conjunctions of named parts that belong to one question
(`OutageIsMet`, `ComesToAnEnd`, `Unattended`, `Events`, `Answers`): each part is
defined and commented in its module.

### Bounds and why they are enough

- **detail_join**: two control blocks, so that a second task can exist next to one
  that did not end; a period of 2 ticks and a delay of 4, the code's 10 and 20 ms at
  5 ms a tick; reads of up to a tick, three of which (a sneak frame, every second
  frame here, every 500th in the code) still end within the delay but not within the
  period, so notifications arrive during reads; a buffer of 2 that does overflow;
  groups of 1, 2 and 3 reads so that switching with a part-filled group happens.
  Ages are capped at 0, which makes timers expire at any loop.
- **detail_meter**: one control block (a second is never used when the join holds,
  which the other run and the proof show), every frame a sneak frame, `AccuPeriod`
  and `BackTimer` of 1. `OwedCap` = 16 is more than what can be buffered,
  grouped and pending together; a smaller cap would forget time that was rightly
  still owed and fail at once, so the bound cannot hide a violation. `CapIsWide`
  says how much is enough; 16 is.
- **shells**: all timers but the screen saver's are 1 and that is 2, so each can
  expire before, with and after each other; ages stop one past their limit.
  Three outputs: two with a button and one without. `OwedCap` = 2 exceeds one
  accumulation period and is one more than the metering interval.
- **button**: `Wrap` = 16 with `Debounce` 1, `Hold` 3, polling gaps up to 2, the
  loop's lag up to 2, so that a begin in a loop can be followed by more of it: the longest difference the code takes is less than half of a
  round, as in the code (2^32 ms against 1 s); every start of `millis()` is
  initial.
- **beeper**: patterns with the shapes of `beep1` and of `beep2` and `beep3`; once and
  twice; one other requester; gaps of 1 and 3 ticks against tones of 3.
- **scheduler**: one timeout and one interval, three items at once (a live, a
  removed and a re-set one), `Wrap` = 6 and `Majors` = 3, so that both counters wrap;
  a timeout of 1, and of `SCHEDULER_DONT_RUN`; an interval of 3, the largest half
  round; a purge after one removed item. In the code two rounds of 49 days and 256
  majors play these parts. `MaxGap` = 1 is the assumption that `call` runs far more
  often than once in half a round.
- **wifi**: two access points of one network, of which the stronger refuses, so that priorities
  decide; both may come to refuse. Three configurations: one network, scanned for, with
  restarts and no access point of its own; no network, only an access point; a network pinned
  to one access point with `fast_connect` and the fallback. `MaxRetry` 0 (one attempt before the adapter is
  restarted; 5 in the code) and `RetryWrap` 2 (a `uint8_t` in the code) keep the
  counter's two roles; timers of 1 tick can expire before and after each other.
  `PrioSpan` = 1: one lost turn suffices here to choose the weaker one.
- **api**: six vocabularies for one client, which together say everything a client may say,
  and two silent clients that come and go; one entity of each sort: a
  public switch, an internal sensor, a service, on three platforms; one message buffered;
  any send may find no room. `KeepAlive` 1 makes `Patience` 2, as 60 s make 150.
- **reports**: `Quarter` = 16 and `Mod64` = 2^28 scale the widths: 32-bit values take 2^16
  values and 64-bit ones 2^28, within TLC's integers, so that each width ends
  in another byte of a varint and signs behave alike; fields take values at the edges of a byte, a varint
  and the sign, one at a time away from their defaults. Four inputs, times to 4, values 0, 16 and
  NaN. Fourteen chains (`MCChains`): windows of 2 and 3 with `send_every` less than, equal to and more than the
  window and each `send_first_at`, every other filter, and the two with timers in front of,
  between and behind others, so that a late answer has both filters to pass and filters to leave out.
- **restarts**: two outlets that exclude each other, five firmwares: two with the outlets in
  different order, one with one of them, two without; scenarios (`Plays`) say what may happen in one behaviour:
  turns with refused saves; all the faults of NVS together (states and counts refused, NVS broken, settings saved), with
  one outlet; a change of firmware with turns; both uploads at once, without outlets. Two attempts until safe
  mode, images of two pieces. The page has one upload at a time.

### Fairness

`DetailShell!Fairness`: time passes and the interrupt and the sampling task run when
they may (weak); the loop task has *strong* fairness, because the sampling task
preempts it over and over but FreeRTOS runs the loop task whenever that waits, and
its reads end before the next alarm. Presses are inside `Main` and are never forced
one by one: fairness is of the disjunction. `Shells`, `Button`, `Beeper` and
`Scheduler` assume that the main loop runs for ever and that time passes between
loops (strong for `Tick`, which the loop's steps disable and enable again). Nothing is
assumed of users, components, loads or the light.

- `WiFi`: the loop runs (weak), time passes, the event task delivers what is queued, scans start and
  succeed again and again, and a join in reach succeeds if it is tried again and again
  (strong: each is disabled by the next attempt). Nothing is assumed of access
  points: properties name the air they need.
- `Api`: the loop runs (weak); strong for time, for a client's answer to a ping, for
  `ParseDone` (nobody talks for ever faster than the loop reads; with a flood the
  loop over messages, `parse_recv_buffer_`, does not end) and for an iterator that finds room
  now and then.
- `Restarts`: the loop task goes on, including `handle_`'s refusals and timeouts, and time
  passes. Nothing is assumed of network, clients, users and power. Crashes are never forced and never
  excluded.
- `Reports` needs none: that all is read is an invariant.

Liveness properties say for themselves what else they need: sampling goes on unless
switches go on for ever, an idle shell is left unless someone presses, a held button is
reported unless `begin` is called again and again, the panel goes off if the room
stays dark and is left alone, safe mode ends unless a client holds `handle_`.

## Proofs

Eight modules hold theorems, each about every instance of the module it extends: for
all values of the constants that satisfy its `ASSUME`s, which TLC evaluates on each run.
Nothing else is assumed but what the tables name. On the instances of the runs
TLC finds none of the inductive invariants below violated. (`Scheduler`'s `TimesTold` and
`InRound` quantify over all integers, which TLC cannot; it checked `InRound` with rounds
from -3 to 3, more than the instances reach.)

Of the runs' invariants, action properties and refinements all are proved but four:
`Conveyed`, `CalledAsAsked`, `Filtered` and `ClientKnows`, which are about recursion over messages
and sequences. Of the temporal properties those that need fairness are not.

### DetailShell_proofs

For any number of control blocks, any period, delay, read time, buffer length and group
sizes:

| Theorem | States | Assumes |
|---|---|---|
| `Typing` | `Spec => []TypeOK`; the buffer never exceeds its array, no time runs below zero | nothing |
| `SamplingTaskIsJoined` | `[]SamplerJoined` | `TimelyBus`, creation succeeds |
| `AtMostOneSampler` | `[]OneSampler` | the same |
| `SamplesAreAttributed` | `[]CurrentAttribution` | the same |
| `HandleIsLive` | `[]NoDeadHandle` | the same |
| `NoTimeIsChargedTwice` | `[]NeverOvercharged` | the same, and `CapIsWide` |

`TimelyBus` is `3 * ReadTime <= JoinDelay`: the reads of a frame end within the
delay. Neither assumption can be dropped: with `ReadTime` such that three reads outlast the
delay TLC refutes `SamplerJoined`, with `CreateMayFail = TRUE` it refutes `NoDeadHandle`.
The bus may fail to read in all of them.

None of the four is inductive: that the delay joins the task needs to know that the
task was told to stop and how long its reads have left. `SamplerInv` adds:

- `Started`: from `start_sampling` to the next stop, the handle names the only live
  task and nobody told it to stop;
- `Stopping`: during the delay the alarm is off, the old task has `STOP_BIT`
  pending, and `left <= delay` while it is on the bus. When `delay` is 0 it is thus
  off the bus, can run, and being of higher priority has run: `Joined`;
- `Outside`: out of the screen no task is live;
- `Attributed`: what is buffered, accumulated or just read is of the present channel
  and rate, which each restart re-establishes by emptying the buffer.

`StartSampling`, `Restarted`, `StopSampling` and `Joined` are lemmas about these two
functions; `MainInv`, `SamplerStepInv` and `ClockInv` go through the actions;
`SamplerInvariance` puts them together, and each theorem follows from it.

That no time is charged twice needs to know what may yet be charged. `MeterInv`, defined beside the
model, counts in frames: those in the buffer, in the group being accumulated, in a read
under way and in a notification that is pending, each worth a period, together with
the timer's own `counter`, are no more than what is owed (`FramesOwed`); and the seconds
of the other channels count from a `now` that is at most `lag` old (`SecondOwed`). A loop
that takes the buffer pays for its frames and removes them; the interrupt turns a full
`counter` into a notification, a read that ends turns one frame into another. `CapIsWide` is about the
model only: its `OwedCap`, which bounds `owed`, must exceed what can wait, or the cap would
forget what is owed; the code keeps no such number.

### Beeper_proofs

For all patterns that end with the tone off (as `beep1`, `beep2` and `beep3` do,
`PatternAssumption`), all cycles, any finite number of other requesters and any pace of the
loop:

| Theorem | States |
|---|---|
| `NothingIsHeld` | `[]NothingHeld`: who stopped leaves no tone sounding; requests last as long as patterns, and the shared count agrees |
| `TonesEnd` | `[]BeepsOnTime`: types, and no tone longer than its duration and one fast turn |
| `PatternsArePlayed` | `PlayedWhole`: who ends by itself was played whole, as often as asked |

Silence alone is not inductive: when a pattern ends nothing silences the channel, the
last action has. `BeeperInv` therefore says that the channel plays the current
action (`Playing`), and that `_highfreq_requested`, `started_` and `_running` agree
(`Requesting`). Each action has its lemma; `BeginPlays` serves the three that begin a
pattern's action, `StartCounts` and `StopCounts` are about the shared count.

`Pace` and `Count` add time: a tone sounds only under a request, made before the loop
task next goes to sleep, so that the sleep is a short one, and the turn that
follows looks at the tone once; and what was played is `cur_cycle` whole patterns and
`cur_action + 1` actions. `LongestTone` bounds the tones (`ToneAssumption`), and the
model's counter of what was played is wide enough for each pattern
that ends (`CapAssumption`).

### Button_proofs

For every `Wrap` larger than hold time, gap and lag together, and whatever the contact does:

| Theorem | States | Assumes |
|---|---|---|
| `EventsAreDebounced` | `[]ButtonInv`: types, and neither DOWN nor CLICK nor HOLD_END of an unsteady contact, but for the DOWN of a press that a begin found within the same loop | - |
| `ReleasesAreDebounced` | `[]ReleaseIsDebounced`: CLICK and HOLD_END, without an exception | - |
| `EventsMakeSense` | `Events`: the order of events, none while a release is awaited | - |

The exception in the first cannot be dropped: without it TLC finds finding 8. The theorems show how far that
finding reaches: one `DOWN`, and no other event. A state's level was seen by the last update (`Levels`), and it
was seen since `_time_down` or `_time_up` at least, unless it was for long enough anyway (`SeenSince`):
that exception is what the wrap costs, since the time stamp then may be more than a round
ago. A press that a `begin` found within a loop has a time stamp ahead of the loop's `now`; until that loop's `update`
it is `LateSince` instead (`TickKeepsLate`), which then reports it or, if the time did not wrap, waits on as for any
other press: `late` is then cleared, and from the next loop on the stamp is behind `now` (`PressStep`). `SinceIs` and `NextIs` are the
arithmetic modulo `Wrap`; `Clock` says that the loop's `now` is behind `millis()` by the time waited.

### Scheduler_proofs

| Theorem | States | Assumes |
|---|---|---|
| `SchedulerIsSound` | `[]SchedulerInv`: types, `to_remove_` counts, each name that was set has one item that will run, none runs early | - |
| `TimersAreKept` | `TimersKept`: `Scheduler` implements `Timers` | - |
| `NothingDueIsLeft` | `NothingDueLeft`: a call leaves nothing that was due when it read the clock | `Timely` |

For any names, delays up to a whole round of the clock, purge sizes, and any pauses between readings
of `millis()`: that `call` runs often enough is needed only for items to run in
time, not for the first two. The invariant adds that only the item that runs
may stay although it was cancelled (`OneLive` leaves a running timeout out), and `TimesTold`: the time an item really waited and
the difference of clock readings are the same modulo `Wrap`. A difference modulo
`Wrap` never exceeds what has really passed (`SubBelow`), so a deadline by the code's arithmetic is
never early, however many rounds are missed.

For the refinement `TimerIs` and `TimerWillBe` read the mapping off a live item. `TimersStay`, `TimerGoes`
and `TimerComes` say what the timers become when no item, the item of one name, or a new
one is concerned, and each action is one of the three. The purge, `cleanup_` and
`process_to_add` touch removed items only and stutter (`MapDrops`). `ItemDone` is `Return`: that an item whose
function runs was found due (`RunsDue`, an invariant of its own, since the item may meanwhile
have been cancelled and time has passed) makes the interval move on by
one period at least and none too many (`StepIsPeriods`), whatever round the clock is in.

`NothingDueLeft` compares the order of the heap, by wrapping deadlines and wrapping
majors, with the order of time. `Timely` says when the two agree: there are at least three majors, the
clock is read more than once a round, a delay with half of another (a first offset) and a pause fits in
a round, as half a delay with two pauses does, and no interval is 0. In the code, with rounds of
49 days and pauses of milliseconds, all but the last hold for delays up to 32 days; delays of
`SCHEDULER_DONT_RUN` are never added. The last cannot be dropped (finding 7). The invariant
`DueInv` adds to `IInv`:

- `ClockSeen`: `last_millis_` is the clock's reading `gap` ticks ago or later, so that the
  round the code would count now (`Round`) is the real one, modulo `Majors`;
- `InRound`: an item's last execution and its major are those of one moment, `Elapsed` ticks ago;
  setting (`SetStarts`, with `OffsetBack` for a first offset that reaches into the round
  before), `Advanced` (`MovesOn`) and time (`TickMoves`) keep it;
- `Prompt`: no item is later than its first offset and the pauses explain. It is what bounds how far
  apart two items' deadlines lie, and it is itself a consequence of calls
  leaving nothing that is due, by one induction for both (`EndsWithNoneDue`).

From these `LaterIsTold` has a later deadline told from an earlier one by major and reading,
`HeapOrder` the heap's head due no later than the rest, and `DueIsSeen` that what is due passes
both tests of `call`. `ModUnique` and `ModAgain` are the facts about `%` all this rests on.

### Restarts_proofs

For any finite number of switches and images, any wait time, number of attempts and image
size, and any faults in `Plays`; interlock groups are mutual (`Group` is symmetric), a firmware
creates each switch once (`Layout`), and switches, images and the other components have different names:

| Theorem | States |
|---|---|
| `RestartsAreSound` | `[]RestartsInv`: types, rivals never on together, no wait turns on who was turned off, what is kept between calls is the state |
| `WhatIsToldIsBooted` | `[]ToldIsBooted`: who is told that his update is in place, and whose update began last, has his image booted |
| `SafeModeNeedsBadStarts` | `SafeModeIsEarned`: safe mode comes after more than `NumAttempts` starts that neither lasted nor ended on purpose, unless the last clear of the counter was refused |
| `SwitchesRemember` | `MemoryKept`: `Restarts` implements `SwitchMemory` |

`set_interlock` gives each switch a list of its own; with lists that are not mutual TLC refutes
`RestartsInv`. The invariant `IInv` has a part for each component:

- of the call under way: `StepsFit`, and `OffFirst`: who is to be turned on comes after the last of its rivals has
  been turned off, and nobody else is turned on in between. Power that fails between two
  steps thus leaves the rivals off. `Agree` ties pin, state and what was published together;
  `Waits` says that a wait is that of a switch last told to be on;
- of setup: `SetUpOrder` and `Numbered` say which components have had their turn and that keys
  are given out in order, so that a switch of this firmware always gets its own
  (`KeyOf`), also in safe mode, where fewer components ask;
- of what is kept: `Kept` says that what was published is saved, about to be, or was
  refused; `BeginsRight` that a switch begins as the blob under its key has it, if its checksum is of its type;
- of updates, `TellInv`: while an update runs its owner is who began last, and has not been told (`Whose`);
  between the end of the one and the word to its client (`OtaAboutToTell`), or the request that is whole and not
  answered (`WebAboutToTell`), the image that will be told is the one to boot, if nobody has begun since
  and, for the page, `Update` has no error;
- `Counting`, for safe mode: there were at least as many starts as the counter says, unless it
  could not be cleared (`uncleared`); refused counts only make it less.

For the refinement `MapInit` maps the initial states, and each action of `Restarts` is shown to
be a step of `SwitchMemory` or to leave its variables alone.

### Shells_proofs

For all timers, any outputs beyond the three, and whatever users, components, loads and
light do:

| Theorem | States | Assumes |
|---|---|---|
| `NothingIsChargedTwice` | `[]ShellsInv`: types, and `owed >= 0` | - |
| `DarkClicksSwitchNothing` | `NoBlindToggle` | - |
| `LitPanelStaysLit` | `WakeHolds` | - |
| `SaverAndPanelHaveCauses` | `Causes` | reads do not fail |

The last assumption is needed: with `ReadMayFail = TRUE` TLC finds a panel woken by a read
that failed. The invariant `IInv` behind them:

- `Places`: which steps belong to which shell, and that only the end of a loop sets `next`;
- `Metering`: what the second's timestamp counts (`secAge`) is within what is owed, except in the
  screen saver that has just charged a second and hands over, which is why handing
  over must restart it;
- `SharedPanel`: each shell's `_display_on` is the panel's state, and the detail
  shell, which has no such flag, runs with the panel on;
- `LightBehind`, `ExitBehind`: the two counters began no earlier than what last
  lit or used the panel, so that they cannot run out before that time has passed; and only the
  screen saver's counter leads to the screen saver;
- `Seen`: who toggles sees the panel, until the loop is over.

There is a lemma for each of the invariant's parts (`TypeStep`, `PlacesStep`,
`MeteringStep`, `PanelStep`) that goes through the actions. The action properties follow
from the invariant before a step.

### Api_proofs

For any number of connections, any platforms and entities, and whatever clients say:

| Theorem | States |
|---|---|
| `NothingFreedIsEverRead` | `[]ApiInv`: types, no use of a deleted connection, none deleted that was not removed, none forgotten |
| `SubscribersAreCurrent` | `[]SubscriberIsCurrent`: what a subscriber was told of an entity the iterator has passed is its state, unless a message found no room |
| `ListsArriveWhole` | `[]ListedWhole`: a client told that the list is done has every public entity, each once and in order |
| `ResponsiveAreKept` | `ResponsiveIsKept`: the keepalive cuts off nobody who answers, but for a ping that found no room |

The invariant `Alive` adds that a deleted connection is in `clients_` only while the rest
is being deleted, and then among `doomed`; that what is deleted was removed, and what was
removed stays so. Typing rests on `Advances`: an iterator stays within its platform.
The theorem is about `Spec`, in which only the loop writes `clients_` while it removes;
`api_tasks` shows that it fails as soon as another task does.

`SubscriberIsCurrent` is about an iterator that walks the entities while they change. It is almost
inductive by itself; `SubInv` adds only that a connection not yet accepted is not subscribed. The work is
in its lemmas: the iterator passes an entity only when its message was sent
(`PassedWhenSent`), all are ahead of one that begins (`AllAhead`), and a change is published to
every subscriber or found no room (`Published`).

`ListedWhole` says that what was listed are the entities at the public places, in order: a bijection
instead of a concatenation, which would be recursive. Its invariant `ListInv` says the same
of the places the iterator has passed so far (`Passed`, `Delivers`): a send that finds no room leaves the iterator
where it was, one that finds room appends the next place's entity (`AppendInOrder`), and
a step over a platform's end or an internal entity passes no public place
(`PassesNothing`), so that after the last platform all are passed.

`ResponsiveIsKept` compares two clocks: the client's silence and the ping. `PingInv` says of each
client that is there and has lost no ping (`Minds`) that once it was asked its answer is on its
way, since a ping is answered before time passes; that its silence is at most one
tick longer than `KeepAlive`; and that the loop, when it has been through it since the last tick, has asked it
if it was silent that long. `PatienceLasts` is then what keeps it: 2.5 times `KeepAlive` is more.

### WiFi_proofs

For any access points, networks and configurations, whatever the driver delays or fails:

| Theorem | States | Assumes |
|---|---|---|
| `PortalHasItsServer` | `[]WiFiInv`: types, and the web server's users are the portal's | `~ApMayFail` |
| `Typing` | `[]TypeOK` | - |

Two calls start the portal, in `setup` and in `loop`, and `start` does not look at `active_`; the server is asked
for once because the access point comes up once: `Once` says that the portal is shown only
if `ap_setup_`, and that this is not set before `setup`. If the access point may fail to
start, `ap_setup_` stays unset and each loop starts the portal again: TLC refutes
`ServerMatchesPortal` with `ApMayFail = TRUE`. Types are not trivial here: a priority is lowered, and then
taken relative to the highest (`RelativeType`, by way of `Highest`), the first match is a network because
a set of positions has a least one (`Lowest`, from the well-foundedness of the naturals), and
the queue of events never holds more than a change of the link and our own
leaving (`Queues`, `Posted`).

### Only model-checked

All liveness (`DetailGoesOn`, `Unattended`, `Answers`, `FallsSilent`, `WantedRuns`, `TurnComes`,
`AdapterIsRestarted`, `OutageIsMet`, `CrashLoopIsCaught` and `ComesToAnEnd`): TLAPS
does not reason about fairness and ENABLED here. What `Proto`, `Wire` and `Filters` compute is defined by
recursion over messages and sequences: induction over data is beyond the prover, and TLC evaluates
`Conveyed`, `CalledAsAsked`, `Filtered` and `ClientKnows` for the samples.
`ApiInv` is proved for `Api` only, since it is false of `Api_Tasks`.

## What the models found in the code

Runs that show a violation:

1. `wifi_component.cpp:130` (`wifi_saved`): a device without networks starts in state AP,
   in which `loop` does nothing; the network saved in its portal is not tried until the next
   start, though the page says "The ESP will now try to connect to the network".
2. `api_server.cpp:35` (`api_tasks`): lwIP's task pushes into `clients_` while the loop
   task removes. What is accepted between `partition` and the last `delete` is deleted
   though nobody removed it, and who logs in between walks deleted connections, which
   the comment at line 65 means to exclude.

Found by changing a constant of a run, and outside its bounds as checked:

3. `shell_detail.cpp:533` (`ReadTime` = 2 in `detail_join`): `delay(20)` is taken for a join. If a
   frame's reads take longer (one transaction on a stuck bus times out after 50 ms)
   the INA226s are reset and a second task started while the first one still reads.
4. `shell_detail.cpp:184` (`CreateMayFail = TRUE`): the assignment after `vTaskDelete(NULL)` is never
   reached. If the next creation fails, the enabled alarm notifies a deleted task.
5. `shell_overview.cpp:238`: `_timestamp_light_off` is not cleared when the
   room turns bright with the display on, so that a later moment of dark turns it off
   at once, not "30 seconds after room go dark". `WakeHolds` therefore speaks of the time since
   the panel was lit or used, not of the time in the dark.
6. `shell_overview.cpp:157` (`ReadMayFail = TRUE` in `shells`): an INA226 read's result is ignored;
   after a failure uninitialised values are compared and wake the display.
7. `scheduler.cpp:140` (`Intervals` = {0}, `Wrap` = 4, `Majors` = 5 in `scheduler`): an interval of 0,
   which `set_interval` and `call` provide for (lines 54 and 176), never advances its
   `last_execution_major`. Once `millis()` has wrapped twice, after 50 to 99 days, `millis_major_ - major`
   exceeds 1 and `call` stops at it: neither it nor anything behind it in the heap runs any more,
   though `component.h:138` has `f` called "every interval ms". TLC refutes `NothingDueLeft`.

Met while modelling, and in the models as the code has them:

8. `button.cpp:77`: `ScreenSaverShell::enter` calls `begin(false)` with a `millis()` newer than
   the loop's `now`, always, since it has reset the panel in between. If a button is pressed just then,
   `now - _time_down` wraps in that loop's `update` (line 116), and DOWN is reported without a debounce.
   `late` names this case, and `DownIsDebounced` excepts it. The shells act on CLICK and HOLDING only,
   which a bounce does not give (`ReleasesAreDebounced`).
9. WiFi: `ap_setup_` is set when the fallback comes up (`wifi_component.cpp:135`) and never cleared
   where it is taken down (line 523), so that a second outage has no fallback, and
   `FallbackComes` holds the first time only. `last_connected_` is not refreshed while
   connecting, so that the loop that finds the connection may still start the
   fallback, or restart the device. Events of an attempt that was given up fail the
   next (`error_from_callback_` is not cleared by `start_connecting`); with the portal
   shown the adapter is not restarted, and a stale FAILED status fails every attempt at once.
10. API: an update that finds no room is dropped and not repeated; a ping that finds
    none is not sent again, and its client is cut off after 150 s (`ResponsiveIsKept` excepts
    it); `HelloRequest` takes back an authentication.
11. Protocol: what `encode` loses is named in `Kept`: empty strings, false and zero in
    repeated fields. The comment "negative int32 is always 10 byte long" (`proto.h:207`)
    is wrong (5 bytes), harmlessly for readers of an int32; a 64-bit field ends the decoding of a message.
12. Filters: a window of NaNs only gives 0.0; `throttle` takes a first input at 0 ms for
    none; `delta` never passes NaN on, so that an outage is not reported. `clear_filters` leaves the timers of
   the filters it takes out running, and their answers still arrive; nothing in the repository sets filters a
   second time.
13. OTA: `wait_receive_` times out only when nothing is available at all; a part of a block
    holds the loop task without end, in safe mode too. The counter is cleared in the OTA component's
    `loop`, which runs only once WiFi may proceed: without network no start counts
    as good, and restarts for want of a network lead to safe mode. In safe mode WiFi's settings have the
    key of the first switch: what is saved in the portal then is lost.
14. Interlock: a second `turn_on` during the wait finds no rival on and bypasses the wait, as does the second
    write of `setup` (`gpio_switch.cpp:35-45`); exclusion holds all the same, the pause
    between the two does not. A save that NVS refused is not repeated, since the state counts as published.
15. Safe mode: `write_rtc_` (`ota_component.cpp:402`) does not look whether the counter was saved. If a clear is
    refused, safe mode comes after fewer bad starts, or again right after it has ended; if counts are refused, or
    NVS cannot be opened at all (`preferences.cpp:284-286`), a crash loop is never caught. `SafeModeIsEarned` and
    `CrashLoopIsCaught` name these saves (`uncleared`, `NotCounted`); without the two exceptions TLC refutes both.
16. Uploads: `handleRequest` (`web_server_base.cpp:77`) answers from the error of whatever update was begun
    last. An update over the air begins, the page's begins, the first fails and aborts it, another one over the air
    begins and ends: the page's pieces write nothing, and its client reads "Update Successful!" while the other image
    is booted. The same goes for an update over the air that begins between the page's last piece and
    the answer. `ToldIsBooted` is therefore about who began last; without `told.by = begun` TLC refutes it.

Comments that merely disagree:

- `shell_screensaver.cpp:32` says readings are published every 5 seconds; the code (line 211) does
  so every 60, as the overview.
- `filter.h:52`, `82` and `112` say that the median, min and max are "of the last <send_every> values"; the code
  (`filter.cpp:47-138`) takes them of the last `window_size` numbers and only sends every `send_every`, as the
  constructors' comments have it. `Filtered` states the code's window, with windows larger and smaller than
  `send_every`.

## Not modelled

- Values: currents, hours, waveforms, fonts, drawing and log texts. Metering is
  modelled by the time it charges. The int16 difference at `shell_overview.cpp:158` can
  only overflow on currents the outputs cannot carry.
- Two samples merged by a lost notification: a notification that arrives while one is
  pending is absorbed, in the model as in FreeRTOS; time then goes unmetered, which
  `NeverOvercharged` allows and the code accepts.
- Races below the granularity of messages and events: `recv_buffer_`, `clients_`' storage and
  `scan_result_` are reallocated by one task while another reads them. What then happens is
  undefined; the models have the orders of whole operations.
- The ESP8266's halves of WiFi and preferences, which this board does not build.
- Parts of the API no component of this device uses: camera images, Home Assistant
  states, log forwarding as messages (their encodings are in `Messages`).
- `LambdaFilter` (any code), `expected_interval`, timed filters within an `OrFilter`, filters set anew
  (finding 12). The median, minimum, maximum and sum of numbers are the same operators in the
  filters and in what they promise.
- An NVS that cannot be opened even after it was erased is a device whose saves are all refused; that the erase
  itself works is assumed. What `save_wifi_sta` saves is saved or not asked for.
- A second upload of the page begun before the first has been answered.
- The logger, whose one buffer two tasks may fill; time and cron triggers; helpers that wrap the
  platform; `ringbuf.h`; generated `main`, third-party libraries, the board.

## Plan

1. `EnergyMeter`, an abstract specification of metering (charged time never exceeds
   passed time) that `DetailShell` and `Shells` implement; `RingBuffer`, which
   implements a bounded sequence; the uptime counter over the wrap of `millis()`
   (`smartaps.cpp:82`); cron and calendar.
2. Proofs: both implementations of `EnergyMeter`; what `Preferences` promises for any two
   firmwares, apart from `Restarts`.
3. The logger between two tasks, under the critical section of the sampling task.

Runs are kept few: a new property joins the run whose instance already makes its case
happen, and a run is added for a new component only.
