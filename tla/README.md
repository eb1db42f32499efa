# Formal models of the VAMeter firmware

TLA+ models of the VAMeter-Edu firmware (ESP32-S3, FreeRTOS): modules, TLC instances and
machine-checked proofs. All paths are relative to the repository. `C/` stands for
`src/platforms/vameter/main/hal_vameter/components/`, `L/` for `src/app/libs/`.

* [1 The system](#1-the-system)
* [2 Modules and how they correspond to the code](#2-modules-and-how-they-correspond-to-the-code)
* [3 Runs, bounds and what they show](#3-runs-bounds-and-what-they-show)
* [4 Fairness](#4-fairness)
* [5 Proofs](#5-proofs)
* [6 Findings](#6-findings)
* [7 Not modelled](#7-not-modelled)
* [8 Plan](#8-plan)

Run a model with `tlc -config <cfg> <MC module>.tla`, the proofs with `tlapm <module>.tla`.

## 1 The system

The meter samples voltage and current every 35 ms, shows them, records them to a FAT partition,
and serves them over its own soft AP: as a live WebSocket stream ("D2B") with a browser viewer
("Live View"), as a download of one recorded CSV, or next to a configuration page.

### Tasks

| task | code | does |
|---|---|---|
| application | `src/app/apps`, `C/hal_web_server.cpp`, `C/hal_network.cpp` | pages, buttons, starts and stops servers, creates and destroys the recorder |
| HTTPD | `C/d2b_esp_transport.cpp`, `C/viewer_http_routes.cpp`, routes of `C/hal_web_server.cpp` | connections, WebSocket messages, and the work queued to it (`PumpWork`, `LocalStopWork`, session closes) |
| PMD, the sampler | `C/hal_power_monitor.cpp`, `C/d2b_vi_producer.cpp` | one sample per tick, tapped into the acquisition ring |
| encoder | `C/d2b_vi_pipeline.cpp` `EncoderTask` | moves samples to the output ring |
| TX | `C/d2b_vi_pipeline.cpp` `TxTask` | asks HTTPD to run the send pump, at latest every 100 ms |
| recorder | `C/hal_va_recorder.cpp` `recorderTask` | one recording, then it ends |
| drain (qualification builds) | `C/signed_current_observation_device.cpp` | logs the signed currents the sampler has published |
| interrupt handlers | `C/hal_power_monitor.cpp` | switch between the two current sensors |

### Components, state, operations and what makes them correct

**Stream pipeline** (`C/d2b_vi_pipeline.cpp`, `C/d2b_vi_producer.cpp`, `L/d2b_vi/d2b_acquisition.cpp`,
`d2b_output_ring.cpp`, `d2b_frame_writer.cpp`, `d2b_httpd_send_pump_state.cpp`, `d2b_httpd_lifecycle_state.cpp`).
State: two drop-oldest rings, the producer's stream and next sequence number, the pipeline's owner,
stream, stop flag and expected sequence, the send pump's tokens, the HTTPD lifecycle, one
mutex for sends and one spin lock per part. Operations: `Tap`; encoder claim, pop, push, release;
TX latch and pump request; the pump callback with its frames, `StreamEnd`, `stream_stopped` and
completion; open, close, start and stop by the transport; commit, stop, failed stop and join of the
server by the application. Hard: every pair of these interleaves, each is several critical sections
long, and a ring may overflow, the work queue refuse, a send fail, the server refuse to stop.
Correct when the client can tell every loss, an orderly end really is the end, nothing is sent to the
wrong owner or after a stop, and a requested stop ends.

**Transport and control session** (`C/d2b_esp_transport.cpp`, `L/d2b_vi/d2b_session.cpp`,
`d2b_control.cpp`, `C/origin_admission_esp.cpp`). State: the one WebSocket owner, its session phase and
violation count, the gate of a local stop, and five atomics through which the application asks
the HTTPD task to end the owner's stream. Operations: connect, handshake, the message kinds, leaving
and closing, `RequestLocalStop`, `PollLocalStop`, `LocalStopWork`. Hard: the atomics are read and
written one at a time by two tasks, work may be refused and asked for again, and the client may close,
fail or send at any moment. Correct when there is one work item per request, its verdict is true and
is not taken back, and a stopped owner never streams again.

**Server, AP and Live Share lifecycle** (`C/hal_web_server.cpp`, `C/hal_network.cpp`,
`L/web_server_owner`, `L/live_share_session`, `L/live_share_controller`, `L/live_share_safety`,
`L/local_fault`, `src/app/apps/app_waveform`, settings network page, download page, launcher, power
monitor). State: AP operation, server wrapper with owner and generation, registered routes and QR
data, selected record, admission, relay, Live Share session, page. Operations: three kinds of start with
roll-back, stops, retries, termination by a measurement fault, acknowledgement. Hard: every driver call
may fail or leave things unknown; a server that would not stop lives on and constrains everything later.
Correct when what runs, what is offered and what the user is told agree.

**Recorder and records** (`C/hal_va_recorder.cpp`, `C/hal_fs.cpp`, `L/recorder_lifecycle`, `L/local_csv_download`,
`src/app/apps/app_waveform/view/recorder.cpp`, `src/app/apps/app_files`, download handler of `C/hal_web_server.cpp`).
State: the shared recorder object (state, error, trigger and its phase, stop request), the last creation
error, the task, its temporary directory, the record directory, the waveform view, the Files page with its list, the
download selection and the download under way. Operations: creation with the choice of a name, the task's steps,
destruction with its 5 s limit, the view's polling, the page after a recording, listing and deleting, the chunk loop. Hard: any file operation may fail, also in the
clean-up of an earlier failure; the view sees only samples of the state; a destroy may time out and leave the task at work next to
the Files pages; power may be cut.
Correct when the task never loses what it uses, success means a whole record and failure leaves none, no record is lost but
to its user, and a download that ends is the whole record.

**Range switching** (`C/hal_power_monitor.cpp`). State: two sensors' registers, the shunt pin, the flag that says which sensor
to read, alert edges, the daemon's pass. Operations: the start, the pass, which may jump from one sensor to the other, and two interrupt
handlers. Hard: flag and pin are two writes of up to three writers; alerts are edges; registers are older than the load, and the two sensors may disagree about it. Correct when flag and pin agree, a pass ends, and a load that rests is measured in its range.

**Client input** (`L/origin_admission`, `C/origin_admission_esp.cpp`, `L/d2b_vi/d2b_message_buffer.cpp`,
`d2b_control.cpp`). State: the scanner of a socket's request heads, the message being put together, the parser's fixed arrays.
Operations: a received block, a frame, a token, the validation of a document. Hard: cuts and joins at any byte, several requests on a socket, limits in bytes, nodes, members,
items and depth that interact. Correct when a verdict does not depend on the cuts, the arrays suffice, and the answer names what is wrong with the message.

**Settings store** (`C/hal_fs.cpp`, settings pages, `/api/set_syscfg`). State: `_config`, the settings file, its copy,
and the display's brightness, which a save reads. Operations: load at start, save (copy the file, truncate it,
write it), factory reset. Hard: power may be cut between any two file operations, results of writes are not looked at,
and the same save runs during start-up, when the display does not show the setting yet. Correct when the last
complete save is always on the storage and is what a start loads.

**Signed-current observation** (`L/signed_current_observation`, `C/signed_current_observation_device.cpp`, a build for
qualification). State: a ring without a lock, its indexes, the sequence number, the drop counter, the notification of the drain
task. Operations: `Publish` by the daemon, `Pop` and the line by the drain task. Hard: two tasks on different cores share the ring with
atomics only, the counter is read without order, the indexes wrap. Correct when no slot is read while it is written, order is kept, every
missing record is counted, and what is in the ring is logged.

**Others**: other diagnostics, drawing, menus, drivers. `PROJECT.json` lists every one, with its status.

### Interactions

```
 sensor IRQs -> PMD --Tap--> acquisition ring --EncoderTask--> output ring
                                                                |
 application --start/stop--> server, AP, lifecycle              | TxTask: httpd_queue_work
      |  |                        |                             v
      |  +--RequestLocalStop--> HTTPD task: transport, session, PumpWork --> client
      +--create/destroy/poll--> recorder task --> FAT
```

## 2 Modules and how they correspond to the code

`PROJECT.json`, "map", gives the lines of each definition; only the decisions are here.

### `D2BPipeline` with `SendPump`, `HttpdLifecycle`, `D2BFrames`

`SendPump` and `HttpdLifecycle` are the two classes of the same names as operators on a record: a
guard and a result per method. `D2BFrames` has the two rings and the preparation of a frame.
`D2BPipeline` has one action per critical section: a section guarded by one spin lock is one step, and a
function that enters two of them (`StopServer`, `Close`, `FailStream`, `StartStream`) is several, with a
`pc` for each task. `_send_mutex` is the variable `mutex`, held over steps.

* `CompleteOrderlyStop` is one step: its three sections run when the producer is frozen and the
  rings are empty, so no other task can change what they read.
* `httpd_queue_work` is called inside `_send_mutex`, so a request and its enqueueing are one step.
* The TX notification only shortens a 100 ms wait: `TxLatch` is always possible.
* A server handle and its generation are one number. The stale-callback token keeps a
  finite width (`TokenMax`), so its wrap happens.
* `PrepareOutputFrame` makes samples canonical, so the encoder's write never fails; evidence
  logging is left out.
* `wire` and `lost` are history: what the client was sent since the start, what each ring dropped.

### `StreamContract`

The abstract specification of one stream: frames with rising sequence numbers, every hole flagged,
closed by one end frame that counts every sample and one `stream_stopped`, or cut off. `D2BPipeline`
implements it (`ImplementsContract`, `Contract == INSTANCE StreamContract WITH ...`).

### `D2BTransport`

The atomics `request id`, `target`, `status`, `work token` and the polling of the application, one load or
store per step, against the HTTPD task's handlers, one step per function that holds the task. The pipeline
appears as the transport sees it (owner, stream none / live / draining), one step per call, which
D2BPipeline's invariants justify.

* One server is up at a time; target and generation are merged, so a stop's target is "the server that is
  up" or none.
* What a message contains is a choice of kind and session match; a message that cannot be
  parsed or reassembled is `BadMessage`, a failing receive is `ClientGone`.
* `httpd_stop` discards queued work; each server run gets one local stop, as the controller asks for one.
* `LocalStop` is what the application may rely on, and what `TransportStops` of `SystemLive` assumes: phases of a stop, one client with its
  stream, and a verdict that is true. `D2BTransport` implements it (`ImplementsLocalStop`): the visible verdict is a function of the
  application's step and of the status it would load, since before the request is published the status is an older one's.
* A socket gets its context when it connects, whether or not a client is there, and admission is not looked at again when it
  hand-shakes. `pre` counts the sockets that were admitted and are no client yet (`SocketMax`, the server's sockets); after admission was
  closed each of them may become the owner, one after another.

### `SystemLive`

The application task between button presses. A start, a stop or a termination is a job of several
steps, each one driver call that may fail; when none runs the user chooses. `srv.runs` is the live
server, `srv.retained` its failed stop, `site` what is registered and offered, `ap` the AP's real state next to
the believed one, `share` the Live Share session. A power cycle may come at any moment.

* The AP mode query may answer "unknown" and is otherwise truthful.
* Station mode is left out (no installed application connects).
* The stop deadline's 32-bit clock is the flag `late`; generations wrap at `GenMax`.
* The file manager's download page stands under the launcher.

### `Recorder` and `Records`

`Recorder` has the recorder task step by step, the application's `DestroyVaRecorder` and its five callers,
the view, and the directory it writes to. Each `snapshot()` of the shared object is its own step, because the view makes two per frame.
`Records` composes it with the Files pages (same task, so never open together with the waveform), the HTTPD task's download
handler, and power cuts.

* Only `Trigger_Manual` is installed, so nothing waits for a trigger and 5 s of recording do not
  rotate the chunk (the duration is checked before the rotation).
* Error causes are merged to "failed".
* `RecordingLasts`: a view that waits for the recording draws a frame within its 5 s.
* A frame of the view latches the wish to quit, polls, and then carries the quit out, so that a recording may be seen to end in
  between: the view is then destroyed while it shows the saving page.
* A record is nothing, being written (`partial`), `whole`, or left half-written for good (`scrap`), under its identifier; one record of
  the earlier `MO-` kind can be listed and deleted only.
* Every scan of the directory can overlook any record, whose `stat` fails: the choice of a name (`"name"` in `overlooked`, history), the
  list of the Files page, and the two scans for the newest record, one for the menu's title and one for its delete (`"menu"`).
* FatFs is built without file locks: a file may be removed while it is read or written. A reader may then read anything (`pulled`);
  a writer's file stays removed.
* The list of the Files page is read when it opens and after a delete, so it can be older than the directory.
* Start and stop of the download server are one step each here; `SystemLive` has their steps. A stop that fails keeps server and selection.
* Files that a PC changes in MSC mode are the initial directories.
* `left` is history: the temporary directory could not be removed.

### `CurrentRange`

One step per register read, per write of the flag and of the pin, and per interrupt entry; interrupts enter the tasks anywhere, not one another. The load changes
at any time; a sensor converts it some time later, and raises an edge when a conversion crosses its limit.

* The low range converts the load as it is; the high range makes of it any current of a set (`High`), so that the two can disagree. A read that
  fails returns 0 (bounded by `MaxFaults`).
* Currents are a few integers on both sides of each limit; calibration is an offset of the low range.
* `torn` and `hurried` are history: the last two switches overlapped; the load changed before it was shown.
* At `fatal` the start shows an error and waits for a button, then reboots.

### `ObservationRing` with `LossyLog`

One step per access of an atomic that the other task stores, and per copy of a record. `LossyLog` is what a reader of the log may rely
on: a queue that refuses only when it is full, and lines that count what was refused.

* A record is its sequence number; what else it carries moves with it.
* An acquire load that reads what a release store wrote sees everything before it. What this program can observe of that is the drop counter:
  `released` is its value at the last store of the tail, `known` the largest value the drain task must have seen. The relaxed load
  (`signed_current_observation.h:84-88`) returns any value between `known` and the present one.
* The two loads of `tryPush`, and the load and the comparison of `tryPop`, are one step: the index a task stores itself cannot change
  meanwhile, and the other one is loaded once.
* The drain task's wait has no time-out, so that only the notification ends it.

### `OriginScanner`, `D2BControl`, `ClientInput`

`OriginScanner` is the byte scanner as a function from state and byte to state; `ClientInput` feeds it the blocks of a socket and compares it with what a whole
request should get (`IsHandshake`, `IsWellFormed`). `D2BControl` is the message buffer and the parser, one step per token: the call stack of the recursive functions is the
variable `stack`, the document is its counters, and which token comes next is a choice.

* A byte is a symbol; each literal of the source is two or three symbols long. The limits are small constants.
* A frame that is neither text nor a continuation, binary ones included, is refused without an answer (`"other"`).
* Of a string only its decoded and raw length and its identity count; of a number only that it is one.
* What a document says (`Documents`) is chosen when it is judged: it is the set of documents that differ in something `ValidateDocument` looks at.
* A duplicate key is found among the keys that are stored. After an overrun (finding 3) the lists are no longer defined, and the model stops comparing.

### `ConfigStore`

One step per opening and per closing of a file, by whoever loads or saves; a restart may come at each of them.

* Two settings stand for all nine in the file: one that passes through (`option`) and the brightness, which is taken from the
  display (the orientation is too, and there agrees with memory).
* One task saves at a time: the application waits in the network page while the configuration server runs
  (`ConfigRelayOpen` of `SystemLive`).
* FatFs is external: a file open for writing is empty or partial after a cut (`Torn`). A file system that cannot be mounted is
  formatted by `fs_init`; the model does not break the file system itself.
* An allocation of a file's length may fail, and one of length 0 may return a null pointer as well (`NoMemory`).
* A file that cannot be opened for writing ends in `popFatalError`, that is, in a restart at that step. One that cannot be opened for reading
  is taken for missing: a load then writes the defaults, and a save goes on without a copy.
* `gone` says that the program itself gave up the last complete save: a start went on with the defaults, a write fell short, or a save truncated the file
  without having copied it.
* `saved`, `gone` and `why` are history.

## 3 Runs, bounds and what they show

| run | instance | distinct states | shows |
|---|---|---|---|
| `stream_data` | fair, rings of 1, burst 2, 3 samples, sequence limit 4, one server, owner and stream | 600 630 | every hole is flagged by its cause and an end leaves nothing behind (`WireIsHonest`), the stream contract is implemented, an accepted stop ends, no sample stays |
| `stream_owners` | sequence limit 1, burst 1, two servers, owners and streams | 3 090 457 | pump tokens have their callback, producer and pipeline agree, silence after a stop, sends go to their owner |
| `local_stop` | fair, 3 owner numbers, 2 admitted sockets, 2 requests, work queue of 2 | 529 689 | one work item, one verdict and a true one, a stopped owner stays stopped: the abstract stop is implemented; a polled stop needs no deadline |
| `system_live` | fair, 3 generations | 4 328 | what runs is owned, what is offered is there, outputs are safe, D2B follows its server; Stopping ends |
| `records` | fair, identifiers 0 and 1, one `MO-` record, records of two chunks | 1 395 026 | the task keeps what it uses, success means a whole CSV, records stay, downloads are whole; the view comes back |
| `recorder_failure` | identifiers 0 and 1 | | violated: finding 1 |
| `settings` | 3 options, 2 brightness levels | 20 373 | the last complete save is kept and loaded |
| `settings_lit` | the same | | violated: finding 2 |
| `range` | fair, loads on both sides of and between the limits, 2 changes, a load the high range sees on either side of a limit | 561 666 | flag and pin agree, a pass ends, the range follows the load and settles |
| `ring` | fair, 2 slots, indexes modulo 4, drop counter up to 2, 9 records | 162 381 | no slot is copied while it is written, every loss is counted, the ring is a lossy queue and empties itself |
| `client_input` | 1 or 2 requests out of some hundred, blocks of up to 7 bytes, messages of 14 bytes, depth 2 | 295 024 | the scanner agrees with a whole-request reference, a parsed document is sound, its verdict is the message's |
| `control_capacity` | arrays of 2 | | violated: finding 3 |

Why the bounds are enough. A ring of one element already overflows, with three samples twice, so that a
frame that carries a loss is itself lost; the burst of two reaches both a pump that drains and one
that must ask again. Three tokens wrap in one owner's life. The sequence limit of 4 lies beyond the samples (normal
end), the one of 1 is reached (exhaustion). Two servers, owners and streams give each stale callback a
successor to be confused with; a third adds no new pair. Two admitted sockets are two clients that come one after the other when the door is shut, the second of which would have the number of the one before the
stop, were there only two numbers. Two requests and a queue of two make
the stop's work item compete with a session close and with its own predecessor and fill the queue.
Three generations wrap, with 0 skipped; `SystemLive` has no other bound. Three options tell the
default, the last save and the one before apart; the theorems of section 5 hold for any number. Two identifiers can leave a gap, be
followed by a third that does not exist, and give the newest and an older record; two chunks are a full and a short read. Two changes
of the load reach each range from each other one, in reverse too, and from there the band between the limits (-5 and -3 mA, 30 and 50 mA), where either range may keep
it. Failed reads are left out of `range` (`MaxFaults` is 0): flag and pin do not depend on the values read, and the two
other properties are about transfers that succeed; the proofs include them. A block of 7 bytes cuts each literal at each place and
reaches over the end of a request; two requests are what one socket needs to carry something over. With depth 2 a container fills an array inside another. Two slots can be full while
one is being copied; nine records take the indexes twice around and leave room for more drops than the counter can count.

The type invariants that section 5 proves for `D2BPipeline`, `SystemLive`, `D2BTransport`, `Records`, `CurrentRange` and `ObservationRing` are not checked again by their runs.

What the properties are for: every entry of "hazards" in `PROJECT.json` names the line where something can
go wrong and the properties that would notice. Where several invariants are about one thing, a run checks their conjunction
(`WireIsHonest`, `OwnersAgree`, `WhatRunsIsOwned`, `WhatIsOfferedIsThere`, `OutputsAreSafe`, `TaskIsLeftAlone`, `RecordingIsKept`, `DocumentIsSound`); the parts keep
their names and comments in the modules. Each property has a mutant, a plausible slip in
one mapped definition, that TLC shows to violate it.

`CHECK_DEADLOCK FALSE` appears in the two pipeline instances, which stop when their bounds on samples,
owners and servers are used up, and in `ring`, which stops when the numbers are exhausted or its task could not be created.

## 4 Fairness

Weak fairness of a task's step means that FreeRTOS lets the task run and that its waits have a
time-out or a wake-up. No fairness is given to the user, the client or the sampler's clock.

* `D2BPipeline`: WF of the encoder, of the TX task (its wait ends after 100 ms), of HTTPD's callbacks
  and handlers, of a closing socket and of the steps of a stop that began. SF of
  `RequestPumpQueued`: the control socket's queue is emptied by a task that runs, so that it cannot refuse
  for ever.
* `D2BTransport`: WF of the application's request and poll steps, of a handler under way and of the stop's work;
  SF of taking the next work item (the HTTPD loop serves its control socket on each turn, whatever the sockets bring) and of the
  orderly end of a draining stream, which `stream_data` shows (`OrderlyStopEnds`). None for the deadline: that is the point of
  `StopNeedsNoDeadline`.
* `SystemLive`: WF of the running job, of the poll in the application loop, and of the 1000 ms deadline.
* `Recorder`, `Records`: WF of the recorder task without its write failures, of the view's polling and of the call under way. None for
  downloads, which wait for their client.
* `CurrentRange`: WF of the start, of the daemon's waking and of its pass (tasks that run), of the interrupts, and of the sensors'
  conversions, which are continuous. None for the load.

* `ObservationRing`: WF of a `Publish` that has begun, and of the drain task, which shares the lowest priority with the idle task, whose
  watchdog would bite if others left them no time. Nothing makes the daemon publish again, so that no later notification can stand in for a lost one.

## 5 Proofs

`D2BPipeline_proofs` proves, for all ring depths, bursts, token widths and bounds that satisfy
the assumptions named in the modules (`PipelineAssumption` and those of `D2BFrames` and `SendPump`):

| theorem | property |
|---|---|
| `TypeCorrect` | `TypeOK` |
| `OwnershipCorrect` | `OwnershipInv`, the inductive invariant |
| `PendingCorrect` | `PendingIsQueued` |
| `ProducerCorrect` | `ProducerFollowsPipeline` |
| `QuietCorrect` | `QuietAfterStopServer` |
| `SendsCorrect` | `SendsReachTheirOwner` (an action property) |
| `FlowCorrect` | `FlowInv`, the inductive invariant of the data |
| `WireHonest` | `WireIsHonest` |
| `ContractKept` | `ImplementsContract`, the refinement |

None of the properties is inductive. `QuietAfterStopServer` needs to know that no handler of HTTPD is half way
while the application holds the mutex, `PendingIsQueued` what a stream that is torn down does with its token,
`ProducerFollowsPipeline` where exactly, inside the mutex, the two sides differ. `OwnershipInv` says this
position by position: who holds the mutex at each `pc` (`MutexInv`), what phase the server is in
(`ServerInv`), what an owner, a stream and a stop imply of one another (`OwnerInv`), the same for the pump
(`PumpInv`), what a callback or handler under way still relies on (`StreamInv`) and the producer's state, with the
positions at which it has been aborted ahead of the pipeline (`ProducerInv`). The proof has one lemma per
task (`OwnershipStepEncoder`, `...Tx`, `...Pump`, `...Handlers`, `...App`) with one step per action, over `TypeInv`,
which is `TypeOK` strengthened by `EncoderInv`. `SendsCorrect` follows from it action by action.

`WireIsHonest` relates what a client has seen to what was lost in either ring, so that a proof must know where every sample of the stream is.
`FlowInv` says it in parts. `OrderInv`: from the next frame expected on the wire, through the output ring and the encoder's hand, to the acquisition
ring, numbers only rise, and the acquisition ring holds consecutive ones. `LossInv`: whatever is missing between two neighbours
of this row was lost in the acquisition ring alone, and the later one says so, or the ring's overflow flag will make the next one say so; only in front of the oldest frame can
frames be missing too, and its own flags and the pending ones together name exactly the causes (`HeadTells`). `StartInv` and `WireShape` tie this to
the start of a stream and to the shape of the wire, `EndInv` says that from the moment `ReadyForStreamEnd` answered yes, in spite of its early
snapshot of the producer, nothing is in either ring or in the encoder's hand. A frame taken along by a failed send ends the row, and with it the
promise, for good. `ContractKept` needs these facts about the next frame and the end frame, and that a stream once failed sends nothing.

`ConfigStore_proofs` proves, for any set of options and brightness levels, `SettingsTyped` (`TypeOK`), `SettingsKept`
(`LastSaveIsKept`) and `SettingsLoaded` (`LoadsTheLastSave`), all of its invariants. `LastSaveIsKept` alone is not inductive:
a save truncates the file, so one must know that by then the copy holds the last save (`CopyInv`), and copying
is harmless only because a whole file always is the last save (`FileIsSaved`).

`CurrentRange_proofs` proves, for any loads, calibrations and lengths of the start, `RangeTyped` (`TypeOK`) and `RangeMatches`
(`FlagMatchesPin`), whatever the sensors make of the load and however many reads fail. The latter needs to know, at each place between the two writes of a task or an interrupt, whether another writer came in between:
that is what the history `torn` must record, and the invariant ties it to the position.

`Records_proofs` proves, for any number of identifiers, the types and every safety property of the run `records` on the composition of
`Recorder` and `Records`:

| theorem | property |
|---|---|
| `RecordsTypeCorrect` | `RecordsTypeOK` |
| `TaskIsSafe` | `TaskIsLeftAlone` |
| `RecordingIsSafe` | `RecordingIsKept` |
| `MenuIsRight` | `MenuIsAboutIt` |
| `DownloadIsRight` | `DownloadIsWhole` |
| `RecordsAreKept` | `RecordsStay` (an action property) |

Its inductive invariant, `RecordsInv`, says what the shared object says at each step of the task (`TaskInv`), that a
recorder under a view that still polls it has been asked to stop by the quit of that view only (`ViewInv`), where a partial CSV may be and what the task has
written unless it was stopped (`FilesInv`), that the name of a recording is free until it is written and stays the newest, unless a scan overlooked a record (`NameInv`), that the menu has its title from its own scan (`TitleInv`),
and what the Files pages and the download hold (`PageInv`, `DownloadInv`). The newest name is a largest element of a set of identifiers; that there
is one comes from the well-foundedness of `<` on the naturals (`LargestExists`). The assumption is `MaxIdAssumption` only.

`D2BTransport_proofs` proves, for more owner identifiers than sockets and a work queue of any depth (`WidthAssumption`,
`SocketAssumption`, `QueueAssumption`), the types and every safety property of the run `local_stop`:

| theorem | property |
|---|---|
| `TransportTyped` | `TypeOK` |
| `OneWorkItem` | `OneWorkPerRequest` |
| `StoppedForGood` | `StopsForGood` |
| `OneOwner` | `OwnersAgree` |
| `ReportsAreReal` | `ReportedStopsAreReal` |
| `VerdictIsKept` | `VerdictStays` (an action property) |
| `TransportIsALocalStop` | `ImplementsLocalStop`, the refinement |

The inductive invariant `TransportInv` says what each phase of a stop may rely on (`PhaseInv`) and each handler of HTTPD that is half way
(`HandlerInv`), what gate, session, pipeline and owner imply of one another (`OwnerInv`), and that a status that can be read is true
(`StatusInv`). Identifiers wrap, so an old client's number could come back and pass for the present one; it cannot,
because after admission was closed only the sockets admitted before can become clients, one after another, and there are fewer of them than the counter has
values (`AskedInv`). The server has a handful of sockets and the code counts with 32 bits. With no more values than sockets the theorem is false.

`SystemLive_proofs` proves, for server generations of any width, 1 included (`GenAssumption`), the types and every safety property of the run `system_live`:

| theorem | property |
|---|---|
| `SystemTyped` | `TypeOK` |
| `RunningIsOwned` | `WhatRunsIsOwned` |
| `OfferedIsThere` | `WhatIsOfferedIsThere` |
| `OutputsSafe` | `OutputsAreSafe` |
| `LifecycleFollows` | `D2BFollowsServer` |

Most of these speak of a resting application only, so that a job in progress could break them unseen. The inductive invariant (`Invariant`)
says which steps a job has and where the user is meanwhile (`JobInv`), what there is of the server at each step (`StepInv`), what a
server brings with it and what is gone without one (`NetInv`), who knows of a server that runs and of an AP without one (`DebtInv`), and
what is served while the user is told so (`ServingInv`). What the ends of starts, stops and terminations share is proved
once (`StartFailed`, `JobEnded`, `StopGivenUp`, `FailedStartKeeps`, `StartBegins`) and cited by the steps.

`ObservationRing_proofs` proves, for any capacity and any range of the indexes that the capacity divides (`CapacityAssumption`), and any ends of
the counter and the sequence:

| theorem | property |
|---|---|
| `RingTyped` | `TypeOK` |
| `RingHasNoRace` | `NoDataRace` |
| `RingCountsLoss` | `LossIsCounted` |
| `RingIsAQueue` | `ImplementsLog`, the refinement |

The static assertions of the ring do not ask that the capacity divides the range of the indexes; with 32 slots it does, and without it the wrap
would send a record to a slot in use. The invariant says what each task knows at each place: a writer that there was a free slot (`DaemonInv`), a
reader that there was a record (`DrainInv`), and how the numbers in the slots, in hand and in the log account for the counter (`LossInv`). Slots in use
never meet because two indexes less than a capacity apart have different remainders (`SlotsDiffer`), across the wrap too (`AheadFollowing`).

`ClientInput_proofs` proves, for all limits of a document (`LimitAssumption`), a pool larger than a message (`PoolAssumption`), strings that take no
more of the pool than of the message (`StringAssumption`), any documents of known or unknown type (`DocumentAssumption`), all limits of a head
(`ScannerAssumption`) and any requests (`ClientAssumption`):

| theorem | property |
|---|---|
| `AnyDocumentIsSound` | `DocumentIsSound` |
| `AnyVerdictMatches` | `VerdictMatchesMessage` |
| `ClientTyped` | `TypeOK` |
| `ScanIsCutFree` | the scanner is where one pass over all bytes received brings it |
| `HeadIsJudged` | a framed request is refused exactly when it is not admissible |
| `ScannerIsRight` | `ScannerAgrees`, if `UnframedRefused` |

That the overrun of finding 3 stays below the nesting allowed is not inductive. The invariant (`ParserInv`) says where an array can be full
and a container still wait for a value: the more was stored past the end, the nearer to the root (`FullInv`). The pool suffices because
what is in it and what is still to be read never exceed a message together (`PoolInv`).

The scanner's theorems are about recursive functions: `Consume` folds a byte over a state, `Joined` concatenates texts. They are proved about
the tables of these functions' values. A least element of a set of naturals exists because `<` is well-founded (`LeastNatural`), which gives
induction for any given set (`InductionOnSet`); with it a table of a step function exists, is the only one and stays in its type (`TableExists`,
`OneTable`, `TableValues`), and `Consume` and `Joined` are such tables (`ConsumeIs`, `JoinedIs`). `ConsumeConcat` then says
that cuts do not matter, and `HeadInv` carries that along the socket's life.

What remains is about one request. `HeadRead` follows an admissible one through the scanner, part by part (`LineRead`, `NameEnds`, `ValueEnds`,
`FieldRead`, `FieldsRead`, `EndRead`): a handshake is accepted, any other request ends where the next one begins, and nothing is decided before
the last byte.

`HeadSound` is the converse: a request that is not refused is admissible. What is not refused was not refused before (`AliveSplit`), so a part can be
looked at byte by byte: were there a first byte out of place, the bytes before it would have been read as `HeadRead` has them,
and that byte would be refused there (`LiteralIs`, `TargetIs`, `NameFormed`, `KindIsFit`, `ValueFormed`, `ValueEndsFit`). Each part then fits, and with the parts before it known
the next one begins where it should (`LineSound`, `FieldSound`, `FieldsSound`, `EndSound`). This needs the parts to end where the text ends
them: `IsFramed` says that lines and the head end with CR LF, that name and value are parted by colon and space, and that no part holds the byte that
ends it. The two together are `HeadIsJudged`. `OneRequest` and `AllAgree` extend it to all requests of a socket.

Of the other requests `UnframedRefused` supposes that they are refused. Without it `ScannerAgrees` is false: a value that holds
the end of a head is two requests, and neither need be wrong. TLC evaluates it for the requests of the instance (`EachIsRefused` in `MCClientInput`), among
which are heads with a CR or LF missing or another separator; where all requests are framed it
holds at once.

Only model-checked: `UnframedRefused`, on the instance; and all liveness, which is out of the prover's reach, as is `ENABLED`: `OrderlyStopEnds`, `SamplesDrain`,
`StopNeedsNoDeadline`, `StoppingEnds`, `ViewComesBack`, `PassEnds`, `RangeFollowsLoad` and `QueuedIsWritten`.

## 6 Findings

1. `recorder_failure`: the saving page reads the recorder's error and then, in a second snapshot, whether it still
   saves (`view/recorder.cpp:318` and `:323`). A failure between the two is shown as a finished recording, whose menu then
   acts on the latest older record, its Delete included.
2. `settings_lit`: after a power cut in a save the next start finds the file broken, creates the display, whose brightness is 0
   until the start-up animation, waits for a button behind a dark screen and saves that 0. From the next start on the
   display is dark, although the page's range is "50 ~ 255" (`wave_progress_bar_page.cpp:238`).
3. `control_capacity`: the parser looks at the room in its arrays of members and items before it parses a value
   (`L/d2b_vi/d2b_control.cpp:234`, `:295`) and uses it afterwards (`:254`, `:302`). The containers a value is nested in, all
   of which found room, can be stored after the innermost one has filled the array.

Seen while modelling, without a run:

* When the buffer for the settings file cannot be allocated (for a file left empty by a cut, that may be the rule), the log says "try config backup"
  (`C/hal_fs.cpp:97`), and the copy is opened but never read. A null pointer is parsed, which fails; the save that follows copies
  the file, empty or not, over the copy and writes the defaults. `LastSaveIsKept` ends there (`gone`).
* A settings file that cannot be opened for a moment is taken for missing by the load (`C/hal_fs.cpp:74-80`), which saves the defaults over it and then copies
  them over the copy: both hold the defaults from then on. During a save the same failure only leaves out the copy
  (`C/hal_fs.cpp:199-204`), and the file is truncated all the same. `LastSaveIsKept` ends in both (`gone`).
* A second start of a stream is answered `InvalidState` (`L/d2b_vi/d2b_control.cpp:949`) while
  `docs/architecture/systemlive-lifecycle-and-ownership.md:45` defines `ErrorCode::Busy` for it; nothing produces `Busy`.
* A record whose `stat` fails is passed over when a new name is chosen (`C/hal_fs.cpp:361`): the new recording may get its name and truncates it.
* The menu after a recording looks for the newest record twice, for its title and for its delete (`src/app/apps/app_waveform/app_waveform.cpp:184`, `:210`), and
  each search passes over a record whose `stat` fails (`C/hal_fs.cpp:444-446`): what is deleted can be an older record than the one shown. `MenuIsAboutIt` and
  `RecordsStay` hold but for this.
* A wish to quit is latched at the start of a frame (`view/recorder.cpp:136-137`); the poll of that frame may move to saving (`:292-295`), and the view is
  destroyed all the same (`app_waveform.cpp:122-123`). `docs/ai/recorder-and-measurement-contracts.md:15` says that saving cannot exit the waveform. The recording is
  not lost: its samples had ended, and the task finishes saving it while the destroy waits (`FinishedIsSaved`).
* A half-written CSV that could not be removed, or that a power cut left, keeps its current name: it is listed, offered for download and sent as if whole.
  So is the file of a recorder that has not stopped in time.
* A download server that would not stop leaves its record selected and served although the page is left; the record can then be
  deleted under it. It also leads the next start into recovery, which refuses the wrong owner, until the power is cycled.
* Two switches that overlap leave flag and pin apart until the next switch that is alone. A failed read of the sensor is taken for 0, which ends
  the measuring of a reverse current. If the high range's reads kept failing under a reverse current, the pass would go round with the data mutex held.
* `resetPowerMonitorData` does not reset the averages.
* The probe mode page logs "Saved new probeMode" (`view/probe_mode.cpp:64`), but that field is neither written to
  the settings file nor read from it.
* Requests that arrive in one block with a refused one are never answered, also when they were good.
* A fault with cleanup debt cannot be acknowledged; that is by design.

## 7 Not modelled

Drawing, menus, texts, fonts, games and lessons hold no state that other parts depend on, and most of the repository's lines are theirs.
Drivers (sensor, display, flash, USB, Wi-Fi)
are the environment: their calls may fail where the code looks at the result. Formatting (CSV lines, status documents,
frame bytes) and the syntax inside a number or a string are abstracted to what they decide. Diagnostics never feed back; of them only the signed-current ring, which
works without a lock, is modelled. A PC that works on the
storage in MSC mode while a recorder that timed out still writes to it is outside the models, as is any use of the storage by two file systems at once. The triggers other than
the manual one, the reverse current detector and the wireless upgrade are code that no page reaches.

## 8 Plan

Order of the modules, the most important behaviour first; all of these are done.

1. `D2BPipeline` over `SendPump`, `HttpdLifecycle`, `D2BFrames`; abstract `StreamContract`; proofs.
2. `SystemLive` over `HttpdLifecycle`; proofs.
3. `D2BTransport`, which implements `LocalStop`; proofs.
4. `Recorder`, and `Records` around it; proofs.
5. `ConfigStore`; proofs.
6. `CurrentRange`; proofs.
7. `OriginScanner`, `D2BControl` and `ClientInput` around them; proofs about the parser and the scanner.
8. `ObservationRing`, which implements `LossyLog`; proofs.

Left for the provers is nothing that a run checks but liveness. More of the repository could be modelled: the wireless upgrade and the reverse current detector, once a page reaches them.
