# Formal models of the Push 3 / FLX4 aggregate audio device

The program makes one virtual audio device of two USB devices: Ableton's
Push 3, whose clock is the master, and a DDJ-FLX4, whose audio is resampled
to that clock. It consists of two processes. A helper daemon talks to the
hardware; a plugin, loaded into `coreaudiod` (the HAL), is the virtual
device. They share a region of memory that holds a header, a pair of clock
values and five ring buffers. A Mach message exchange hands the region from
the helper to the plugin.

There are no tests in the repository and hardly any locks. Correctness rests on
orders: of stores within a ring, of steps within `start()` and `stop()`, of
messages between processes that may die at any point. That is what the models
here are about. All paths below are relative to the source tree.

## 1. Inventory

| Component | Source | State | Operations |
|---|---|---|---|
| SPSC ring buffer (five) | `shared/include/SharedMemory.h` | `head`, `tail`, `data` | `init`, `availableRead`, `availableWrite`, `write`, `read`, `peek`, `clear` |
| Clock publication | `SharedMemory.h`, `plugin/src/PluginDevice.h`, `PluginEntry.cpp` | `pushClock.{sampleTime,hostTime,seed}`, the device's `shm_` | the store in `onPushIO`, `GetZeroTimeStampImpl`, `setSharedMemory` |
| Drift tracker (two) | `shared/include/DriftTracker.h` | rate, predicted time, integrator, update count | `update`, `reset`, `rate`, `isStable` |
| Audio engine | `helper/src/AudioEngine.cpp` | resamplers, trackers, `running_` | `start`, `stop`, `onPushIO`, `onFLX4IO`, the tap's callback |
| Hardware device (two) | `helper/src/HardwareDevice.cpp` | device id, IOProc id, `running_` | `open`, `start`, `stop`, getters |
| Process tap | `helper/src/ProcessTap.mm` | tap, aggregate device, IOProc, `running_` | `create`, `createAggregateDevice`, `start`, `stop` |
| Mach server | `helper/src/MachServer.cpp` | service port, memory entry, mapping, `stopRequested_` | `start`, `runMessageLoop`, `handleMessage`, `requestStop`, `stop` |
| Helper life cycle | `helper/src/main.cpp`, `com.pushflx4.helper.plist` | `gShouldQuit`, the mach thread | `main`, `signalHandler`, launchd's relaunch |
| Mach client | `plugin/src/MachClient.cpp` | `sharedMem_` | `connect`, `disconnect`, `isConnected` |
| Plugin handler | `plugin/src/PluginHandler.cpp` | none of its own | `OnStartIO`, `OnStopIO`, `OnReadClientInput`, `OnWriteMixedOutput` |
| Constants | `shared/include/Constants.h` | | |
| Build, install | CMake files, `scripts/` | | no run-time behaviour; `install.sh` restarts `coreaudiod` |

How they interact:

* The helper's main thread creates the region, takes the service port over
  from launchd, starts the engine, starts the mach thread, and then waits in a
  run loop for a signal. Shutdown goes the other way round.
* CoreAudio calls the three callbacks on threads of its own, from before
  `AudioDeviceStart` has returned. The FLX4's and the tap's callbacks read the
  Push's tracker, which the Push's callback writes. The resamplers belong to
  the main thread and are used by the callbacks.
* The HAL calls `OnStartIO` on a thread that may block, and the IO handlers on
  its real-time thread. `OnStartIO` connects if there is no mapping yet.
* Producer and consumer of a ring are in different processes. Three rings go
  from the helper to the plugin (Push input, FLX4 input, FLX4 cue), two go back.

What is hard about each part, and what makes it correct:

| Component | Hard behaviour | Correct when |
|---|---|---|
| Ring | a copy and an index store interleave with the other side; either process killed in mid-copy; full and empty look alike | it is a bounded FIFO stream, its two copies never meet in a cell, and left stays left |
| Clock | two values stored and loaded one by one; wiring of the pointer | each value is fresh and never goes back; the clock moves once connected |
| Tracker | integrator, division by the measured period, count of updates | the rate stays near nominal before anything relies on it |
| Engine | four threads, no locks; every CoreAudio call may fail; devices come and go | callbacks only use what is alive and ready; nothing is left behind; the published state is true |
| Handshake | kills and relaunches between any two steps, timeouts with late answers, lost wake-ups | what the plugin maps is fresh, ready and truthful; nobody waits for ever |
| Helper process | callbacks store into a region that `main()` unmaps; every call may fail; killed at any point | the region outlives the callbacks; an exit is clean |
| Streams | results of `write` and `read` ignored; fill levels nobody controls; IO restarted on a ring that was in use | a stream that goes on stops losing buffers |

`PROJECT.json` lists each of these hazards at its line.

## 2. Modules

| Module | Models | Uses |
|---|---|---|
| `BoundedFifo` | what a ring promises: an atomic bounded byte stream | |
| `SPSCRingBuffer` | the ring as the code implements it | `BoundedFifo` (refinement) |
| `Connection` | what the handshake promises: an attachment in one step | |
| `Handshake` | `main.cpp`, `MachServer`, `MachClient`, `OnStartIO`, launchd | `Connection` (refinement) |
| `AudioEngine` | `AudioEngine::start`/`stop`, `HardwareDevice`, `ProcessTap`, the callbacks' control flow | |
| `HelperProcess` | one helper process: `main()`, the mapping of the region, and the engine in it | `AudioEngine` (composed), `Connection` (refinement) |
| `PushClock` | the clock: `onPushIO`'s stores, `GetZeroTimeStamp`'s loads, the wiring | |
| `Stream` | the frames that periodic callbacks move through one ring | |
| `DriftTracker` | the loop of `update()` in fixed point | |
| `SPSCRingBufferProofs`, `HandshakeProofs`, `AudioEngineProofs`, `HelperProcessProofs`, `PushClockProofs`, `StreamProofs`, `DriftTrackerProofs` | theorems about the module of that name | |
| `RingHistory` | the ring with two history variables, and theorems about all calls together | `SPSCRingBufferProofs` |
| `MC...` | instances for TLC; the other modules are instantiated by their `.cfg` files alone | |

Each module also holds its mutants: operators that replace one definition by
a plausible mistake, to see that a property notices.

### 2.1 `SPSCRingBuffer`

Variables `head`, `tail`, `data` are the fields of the struct. A side inside
a call has a program counter (`wpc`, `rpc`) and what the call has on its
stack: `src`, `copied`, `want`, `dst`, `seen`.

| Code | Actions |
|---|---|
| `write`: room test | `BeginWrite`, `RefuseWrite` |
| `write`: both `memcpy`s, byte by byte | `CopyIn` |
| `write`: `head.store` | `FinishWrite` |
| `read` | `BeginRead`, `RefuseRead`, `CopyOut`, `FinishRead` |
| `availableRead` and a later `read` (`onFLX4IO`) | `Probe`, then a read or `GiveUp` |
| `clear`: load, then store | `BeginClear`, `FinishClear` |
| process killed during a call | `ProducerRestart`, `ConsumerRestart` |

Nothing in the program calls `clear()` or `peek()`. `clear()` is modelled because
it stores an index; `peek()` stores nothing and is left out. The capacity,
the frame size, the buffers and the lengths are constants.

Properties: `NoSharedCell` (the two copies never touch a common cell),
`ReadsOldest` (a read in progress has the oldest bytes), `SeenStillAvailable`
(what `availableRead` returned stays true: `onFLX4IO` relies on it and ignores the
result of `read`), `ChannelsAligned` (indices stay on frame boundaries through
wraps, refusals, clears and kills) and `ImplementsFifo`, the refinement of
`BoundedFifo` under the mapping that takes the bytes between `tail` and `head`
for the queue and the call's `src` for the buffer being put. `BoundedFifo` says that
exactly the accepted buffer joins the stream, whole and at one instant, that a
read takes the oldest bytes at one instant, and that a call refuses only when
the stream at that instant gives cause to.

### 2.2 `Handshake`

The n-th helper process allocates region n, so `gen`, `offer`, `mapped` and
`since` are all numbers of processes. A region lives on while somebody maps it,
which is why a killed helper's region keeps its last `status`.

| Code | State and actions |
|---|---|
| `main()` | `main` is its place; `AllocateRegion`, `CheckIn` (the two halves of `server.start()`), `StartEngine`, `SpawnMachThread`, `CheckQuit`, `EnterRunLoop`, `RunLoopTimeout`, `StopEngine`, `RequestStop`, `Join`, `TearDown`, `Exit` |
| `signalHandler` | `Signal`: sets `quit`, ends a sleep that has begun, is lost otherwise |
| launchd, kernel | `Launch`, `Kill` |
| `runMessageLoop`, `handleMessage` | `mach` is its place; `CheckStop`, `ReceiveRequest`, `ServerReceiveFails`, `HandleMessage` |
| `OnStartIO`, `connect` | `plug` is its place; `Reuse`, `LookUp`, `LookUpFails`, `Send`, `SendFails`, `ReceiveReply`, `UnexpectedReply`, `ReceiveFails`, `Map`, `CheckStatus` |
| the helper's end, `coreaudiod` killed | `ProcessGone` (in `Exit` and `Kill`), `PluginRestart` |

Every Mach call of the code may fail at any time, and then takes the branch the code has
for it: no region, no service, no port, a send or a receive that times out or fails at once, no
mapping. So may the send of the reply (`MachServer.cpp:178-188`), which
is only logged: the port is then *dropped*. The request is with nobody any more,
the helper keeps a reply right that it will never use, and the plugin waits for its 5 s timeout,
or for the notice that comes when the helper ends.

What Mach does is modelled from how the code uses it: a queue of bounded
length; a send right in each request; the kernel's notice when the holder of
the reply right dies; requests that stay queued for the next helper, since
launchd owns the receive right; reply ports that stay open after a timeout,
because `mach_port_deallocate` does not destroy a receive right.

`killed` and `since` are history variables: they only remember, nothing in
the model's guards depends on them.

Safety: `ServerOutlivesThread`, `ReadyBeforeOffered`, `CleanExitSaysOffline`,
`FreshRegion`, and `NoRequestVanishes`: while a call waits, its request has exactly one
holder, or has been answered or notified, or was dropped by a helper that still lives. That dropping
is the only way to wait for nobody is what the property has to say; `StartIOReturns` says that the wait
ends. Of steps: `AnsweredOnce` (a reply port has one
answer, though requests outlive calls and helpers), `MappingIsKept` (the plugin keeps
its first region) and `OkMeansRunningOrKilled` (a success is of a helper whose engine
runs, or of a killed one). The last two delimit the findings of section 6: the one is their
cause, the other their extent. Liveness: `QuitTerminates`, `StartIOReturns`. Refinement:
`ImplementsConnection`.

`Connection` is what the handshake promises, without ports, messages, threads
and timeouts. Helpers live one after the other; an attachment is one step that
maps the region of a helper which lived during the call and had come up; a call
succeeds only with a region that says, at that moment, that its helper runs. The mapping
groups the helper's places (`Phase`) and forgets everything else. That a killed
helper's region may still say so is part of the promise: `Kill` leaves `says`
as it is.

### 2.3 `AudioEngine`

`step` and `unit` are the place of the main thread in `start()` or `stop()`; the
units are the two devices and the tap. `proc`, `running`, `tapObject`, `resampler`
and `published` are what the calls leave in CoreAudio, in the objects and in
the shared memory. `io` is how far each callback is; `ready` is its local
`dllReady`; `using` is a resampler pointer that it has tested and will use. A
tracker is only its number of updates here.

| Code | Actions |
|---|---|
| `start`: resamplers, devices, tap, status | `NewResampler`, `Open`, `CreateIOProc`, `BeginIO`, `NoteRunning`, `CreateTap`, `CreateAggregate`, `Announce` |
| `stop` | `RequestStop`, then `BeginStop` and `FinishStop` for each unit, `DeleteResamplers`, `Withdraw` |
| `onPushIO` | `Call`, `Update`, `Pass` |
| `onFLX4IO` | `Call`, `Update`, `Test`, then for the input and for the output `Choose` and `Resample`, or `Bypass` |
| the tap's callback | `CallTap`, `Test`, `Cue` |
| USB | `Plug`, `Unplug` |

`start()` has a branch for every CoreAudio failure that the code has one for.
`BeginStop` and `FinishStop` are the two halves of `AudioDeviceStop`: no new
callback, and the wait for one in progress. `Plug` and `Unplug` may happen at any
time; an unplugged device stays dead for whoever had opened it. The tap's aggregate has no
physical device in it (`ProcessTap.mm:146`), so its IOProc goes on without the FLX4.

Safety: `ResamplerAlive`, `ReadyStays`, `NothingLeftBehind`, `PublishedTruly`. Of steps:
`DeletesUnused`, a resampler is deleted only when no callback is in progress or can
begin, which is more than that none has looked at the pointer. The devices' statements `RetriesOnHotPlug` and `PublishesUnplug` fail (section 6).

### 2.4 `HelperProcess`

Extends `AudioEngine` by `place`, where `main()` is, `region`, the server's mapping, and
`says`, the status in the region. Every step of the engine is a step here, interleaved
with the callbacks; `Allocate` and `Register` are the halves of `server.start()`,
`TearDown` is `server.stop()`, called at the end or run by a destructor when one of
the starts failed. A failed `main()` destroys the engine before the server, since it
is declared after it; a process may be killed at any point (`Kill`). The mach thread
is left to `Handshake`.

Safety: `RegionOutlivesCallbacks`, `ExitIsClean`, and the engine's four and `DeletesUnused`.
Liveness: `QuitCompletes`. Refinement: `ImplementsConnection`, with `engine.start()` and
`engine.stop()` in full where `Handshake` has one step for each: this is what justifies
taking them for one step there.

### 2.5 `PushClock`

A time is the number of the publication that stored it. `Publish` begins the two
relaxed stores, which `StoreArrives` performs in either order, since nothing orders
them; `BeginCall`, two `Load`s in either order and `FinishCall` are a call of
`GetZeroTimeStamp` on any of the `Readers`' threads. `SetSharedMemory` is the call
that nothing makes: `Attaches` says whether it is made. The wired clock is
examined with `Attaches = TRUE`, the clock as it is with `FALSE`.

`FreshParts` and `NeverBackwards` are what the device's user can rely on: a call that overlaps
no publication returns a published pair, and one that overlaps publications is wrong
by no more than those. A pair that was never published does occur, and a helper
killed between its two stores leaves one for good. Neither needs `SetSharedMemory` to be called, only
what it does if it is; nothing says that it will be. `ClockFollows`, that the clock moves once the
plugin is connected, is refuted for the clock as it is, and claimed of no other. (The module has no kill: such a
helper is one whose pending store never arrives, which `Spec` allows.)

### 2.6 `Stream`

One ring between two periodic callbacks, in frames: `WriterCallback` is a `write()`
whose result nobody looks at, `ReaderCallback` a `read()` that gives silence
when there is too little. `lead` bounds the jitter: how many frames the writer has
been called for beyond the reader. IO starts and stops at either end at any time and
leaves the ring as it is. `Surplus` is the number of frames onFLX4IO reads beyond those it
plays, 4 in the code, 0 for all other streams. For an input stream the writer is a
callback of the helper and the readers are the device's clients, for an output stream the
writer is the plugin.

`FewGlitches` bounds the silent and lost buffers between two starts or stops,
`SettlesDown` says that at last there are none, `LossEndsSilence` that after a
lost buffer no more silences come. All three are about a stream that a single reader is on
(`AllRun`), though others may have come and gone before. They rest on `StreamInv`: the *slack*, what
the fill would be without jitter, moves only with glitches, up by a buffer for a
silence and down by a buffer for a loss, and there is room between the two.

Two properties say what is wrong with it. `BacklogLasts`: what the ring held when IO last started or
stopped (`backlog`, a history variable) is still there at every later callback, less the jitter; neither
losses nor silences nor any code ever drain it. So a client that comes to a ring which an earlier one, or a
writer without a reader, left full is late by the whole ring as long as it runs (up to 170 ms at 48 kHz for
64 KiB). `Constants.h:35-36` names a target fill of about 1024 frames and reports a latency of
1088 frames to the host; no code brings a ring to that fill or keeps it there.
`ClientsStarve`: two clients that read the same input stream at once are silent again and again,
since each takes what the other should have had.

### 2.7 `DriftTracker`

The loop in fixed point (tenths of a microsecond), for a device whose callbacks
come at exactly its period, one buffer each. With fewer assumptions the loop can
only do worse. `StableMeansClose` fails; the bounds of the run are wide of
rounding, as the estimate is off by some 80 per cent. That `isStable()` only counts
(`StableIsACount`, section 4) is what allows `AudioEngine` to keep a saturated count for a
tracker; its `StableAfter` is 52 in the code.

## 3. Runs

| Run | Question | Bounds and why they are enough |
|---|---|---|
| `ring` | bounded FIFO, disjoint copies, frame boundaries; `RingInv`, the proofs' invariant | capacity 8, two-byte frames, so that three frames fill the ring and a spare frame's worth is left; buffers of 0 to 2 frames with their channels different; every start cell, every split of the two `memcpy`s |
| `handshake` | all safety, step and liveness properties, `HandshakeInv` and `RequestInv`, the refinement of `Connection` | 2 helpers, 3 connects, queue of 2: a request abandoned with one helper is answered by the next, before or after a later call has asked; a full queue needs two abandoned requests and a third. Three helpers are left to the theorems, which cover all of the run's properties but the two of liveness; with them the liveness check alone takes minutes |
| `helper_process` | all properties of engine and process, `HelperInv`, the refinement of `Connection` | 2 updates to be stable, so that a callback can see a tracker half-way; nothing else is bounded |
| `clock_wired` | freshness and monotonicity should the device be given the region; `ClockInv` | 2 readers, 3 publications: a call that overlaps two publications while another thread's call began before and ends in it |
| `stream_push` | `StreamInv`, `FewGlitches`, `BacklogLasts`, `LossEndsSilence`, `SettlesDown`, `ClientsStarve` | two clients, in turn and at once; buffers of 2 and 3 frames, so that sizes differ and do not divide one another; jitter of 4 frames, more than a buffer; room for 14 frames, 4 more than the least that `RunwayAssumption` allows, so that a backlog can exceed the jitter by 5 |
| `handshake_dead_helper`, `handshake_reattach`, `engine_hotplug`, `engine_unplug`, `clock_null`, `stream_flx4_out` | statements of comments that the code does not keep, section 6 | the smallest that show it |
| `drift_lock` | the same, of the tracker | 60 callbacks of 256 frames at 48 kHz, the first ones after `isStable()`; devices up to one in a thousand off |

Deadlock is checked in every run but `drift_lock`, which ends when its callbacks are
used up. `Handshake` cannot stop: `PluginRestart` is always possible; that threads do
not get stuck is what the liveness properties say. Devices may
always be plugged in and out; there it is `QuitCompletes` that matters. In `PushClock` the HAL
always asks again, in `Stream` IO may always start or stop.

`MaxLaunches` and `MaxAttempts` bound the number of processes and of reply ports
ever made, `MaxPublications` and `MaxUpdates` the callbacks; nothing in the code bounds
them. They stop `Launch`, `LookUp`, `Publish` and `Update` and nothing else.
`Count` lets `Stream`'s history of glitches saturate one beyond the bound it is checked against. The theorems hold
for all values.

Fairness.

* `Handshake!FairSpec` has weak fairness for each of the three threads: the scheduler
  runs what can run, and every call the threads block in has a timeout of its
  own (500 ms in `mach_msg` of the server, 1 s in the run loop, 2 s in the plugin's
  send, 5 s in its receive). No fairness is given to launches, signals, kills or
  restarts. `Join` waits for the mach thread and is weakly fair with the rest of
  the main thread.
* `HostRetries`, used only to refute, adds that the host asks for IO again and that
  launchd does relaunch: even that does not help.
* `HelperFairSpec` (and `AudioEngine!FairSpec`, used only to refute) has weak fairness
  for the main thread and for each callback that has begun; nothing in a callback
  blocks. Callbacks need not be called, devices need not come or go.
* `PushClock!FairSpec`: a publication that has begun is finished, and the HAL's threads go
  on asking for the time, as the HAL does while IO runs. Used only to refute `ClockFollows`.
  Nothing obliges the helper to publish, or anybody to call `setSharedMemory`.
* `Stream!FairSpec`: a callback of an end whose IO runs is called again. Starts and stops are
  not fair; `SettlesDown` and `ClientsStarve` are about streams that go on.

## 4. What is proved

TLAPS proves these for every value of the constants, from the assumptions
named in the modules (`RingAssumption`, `FrameAssumption`, `HandshakeAssumption`,
`StableAssumption`, `ClockAssumption`, `StreamAssumption`, `RunwayAssumption`).

**Ring** (`SPSCRingBufferProofs`). The inductive invariant `RingInv` has three
parts beyond the types and the properties themselves. `RoomReserved`: a
write in progress still has the room it found, since only the consumer moves
`tail`, and only forwards. `CopiedInPlace`: the bytes copied so far are at their
cells, which is what makes `FinishWrite` append `src`. `MarkInStream`: the head
that `clear()` loaded lies within the stream, so that storing it discards a
prefix. `CellsNeverShared`, `ReadsAreOldest` and `TypeCorrect` follow.
`ChannelsStayAligned` adds that every call in progress has whole frames. The
theorem `RingImplementsFifo` shows each step to be a step of `BoundedFifo` or a
stutter. `head.store` is `Put`, `tail.store` is `Take`, storing a clear's mark is
`Discard`; byte copies, probes and a killed reader are stutters. The lemmas on which all of this rests are about `Cell`
and `Advance`: a cell is in range, different offsets have different cells, and
advancing an index shifts the offsets.

**Ring, end to end** (`RingHistory`). What one call does to the queue, the refinement says.
The history variables `produced`, all the bytes of successful writes, and `position`, how
many of them the consumer is past, only record; each step of the ring has exactly one
with them (`HistoryOfRing`). With `RingInv` they keep the relation `HistoryInv`,
from which `NothingIsLost` (the ring holds `produced` from `position` on),
`ReadsFollowEachOther` (each read returns what follows the one before) and
`FramesStayIntact` (both ends are frame boundaries of the whole stream). The
histories grow for ever, so no run has them.

**Handshake** (`HandshakeProofs`). `HandshakeInv` strengthens the properties by:
`ProcessPhases`, which ties the helper's place to its region's status, to its
ports and to its mach thread; `RunningRegions`, that "running" is said
only by a helper with its engine on or by a killed one; `OffersExist`, that offers
come from helpers that exist and that unused reply ports have none; and
`CallsInProgress`, that the reply port in use was made during the call.
The last part is the heart of `RegionsAreFresh`: an answer that comes late goes to
the port of the call that gave up, never to the one in use. `RequestInv` is a second
inductive invariant, about the requests: none is in two places, those in the queue or
with the mach thread have ports that nobody has answered or dropped, a call that waits on an open port
has its request in one of the two, and a dropped port has a living helper. `RequestsNeverVanish`
follows from it (its property is `NoRequestVanishes`).
The other invariants are `ServerOutlives`, `OffersAreReady`, `ExitsAreClean`
and `TypeCorrect`. Three theorems are about steps. `AnswersAreFinal` needs that an open port has no
answer yet, the invariant of `OpenUnansweredInvariant`; `MappingsAreKept`
that `connect()` is only called without a mapping; `OkIsRunningOrKilled` that "running" is said only
by a helper between `StartEngine` and `StopEngine` or by a killed one. `HandshakeImplementsConnection` takes each step of `Handshake` to a step of
`Connection` or a stutter; `LookUp` and `Reuse` are the `Begin`, `Map` is the `Attach` and needs that
what is offered is ready and fresh, `CheckStatus` and every failure is a `Finish`.

**Engine** (`AudioEngineProofs`). `EngineInv` ties each unit's IOProc and `running_`
to the place of the main thread (`UnitPhase`), each callback to its IOProc
(`CallbackPhase`), and what is left and published to how far `start()` or `stop()` is.
`ResamplerAlive` is inductive only with these: a callback in progress means a
started or stopping IOProc, hence a main thread that has not come to `delete`.
`DeletesOnlyUnused` looks at that place itself: when the main thread is there, every
unit's IOProc is gone and its callback idle, whichever calls failed on the way.

**Process** (`HelperProcessProofs`). `HelperInv` keeps `EngineInv`, by the engine's
own lemmas, and adds where `main()` is (`StepAt`), what the region says
(`StatusAt`) and that it is mapped from `register` to `teardown`. A killed process is inert.
`RegionOutlives` follows since `main()` is within `engine.start()` and `engine.stop()` as
long as an IOProc may be called, `ExitsLeaveNothing` since it leaves them only
with the engine quiet. `DeletesUnusedInProcess` carries the engine's theorem over, kills
and failing exits included. `HelperImplementsConnection` is the refinement.

**Clock** (`PushClockProofs`). `ClockInv`: a part is the last publication begun
unless its store is under way, and what a call has loaded lies between what was complete, or had been
returned, when it began and what is there now. `PartsAreFresh` and
`TimeNeverGoesBack` follow, and `PartsNearlyMatch`: the two parts of an answer are no more
publications apart than overlap the call, none apart if none does. `UnwiredClockStandsStill` is the
clock as it is, with `Attaches` false: every answer is zero, for any number of
threads and publications.

**Stream** (`StreamProofs`). `StreamInvariant` and `GlitchesAreFew`, under
`NoSurplus`, which holds of every stream but the FLX4's output, for any set of readers, every capacity
with room for a buffer and twice the jitter. This is where it is seen that a silence and a loss cannot
alternate: a loss leaves a slack of at least the jitter, and then no read finds too little.
`LossesEndSilences` states that of steps. `BacklogsLast` needs that a loss only happens to a slack above
`Capacity - Window`, and so leaves at least `NearlyFull`, to which `backlog` is cut.

**Tracker** (`DriftTrackerProofs`). `StableIsACount`: `isStable()` holds exactly from the 52nd
callback on, whatever the rate has become. `StartsAPeriodOff`: the first error the loop sees is a whole
period, for every nominal and true period. Both are behind the finding of `drift_lock`.
How far the loop goes off after that is arithmetic with divisions, of which only TLC's
run says something.

## 5. What is only checked by TLC, and what is assumed

* The liveness properties; how far `DriftTracker` is off; `Stream` with several readers at once or with a surplus.
* The ring's steps are sequentially consistent. The producer loads `tail` with relaxed order
  (`SharedMemory.h:46`); its stores to `data` depend on a branch on that value,
  and arm64 and x86 do not perform stores ahead of such a branch. The consumer's
  load of `head` is an acquire, both index stores are releases. The clock's accesses
  are relaxed, and `PushClock` lets them go in either order.
* Mach calls may fail at any time, with two limits: a receive that fails takes no request out of the
  queue, and a reply that could not be sent leaves its right with the helper until that ends.
* Each ring has one producer and one consumer thread, as the header says; `Stream` alone
  looks at what several consumers do.
* `AudioDeviceStop` returns only after a callback in progress has, and no callback
  follows it. `stop()` is correct only if this is so.
* One `OnStartIO` at a time: libASPL serialises the control calls of a device.
* The tracker's update is one step. In the code it is a data race on plain
  `double`s with the threads that read the rate. `DriftTracker` does not follow zero, infinite or NaN rates.
* `Stream`: both ends run on one clock, or are resampled exactly to one, and are
  early or late by a bounded number of frames. (With the tracker as it is, the FLX4's are not: section 6.)
* Buffers have at most 4096 frames, the size of `tempIn`, `resampleBuf_` and
  `cueResampleBuf_` (`AudioEngine.h`), surplus included.
* `launchctl unload` is not modelled; it would stop `Launch` and `Send`.
  A signal that comes before the handler is installed is a `Kill`.

Not modelled: the sample arithmetic and `driftRatio`, which nothing loads; the property
getters; command line parsing; logging; the weak memory order beyond the clock; build and
install scripts.

## 6. Where the code departs from what its comments say

* `handshake_dead_helper`: `MachClient.h:21` says that `connect()` "Returns false
  if the helper is not running." With a mapping in hand it returns true at once, and
  a killed helper's region still says running; `OnStartIO` then succeeds with no
  helper in existence.
* `handshake_reattach`: `SharedMemory.h:7` says "Both processes map the same
  physical pages." Once launchd has relaunched the helper they never do again:
  the plugin keeps the old mapping until `coreaudiod` restarts.
* `engine_hotplug`: the messages at `AudioEngine.cpp:62` and `:77` say "will retry
  on hot-plug". Nothing listens for devices, and nothing calls `open()` again.
* `engine_unplug`: `Constants.h:63` calls the published value the "Device
  connection state". It stays at running when the device is unplugged.
* `clock_null`: `PluginEntry.cpp:34` says "Device reads clock from shared memory
  (nullptr until connected)." It stays `nullptr`: nothing calls `setSharedMemory`, and the
  device's time is 0 for ever.
* `drift_lock`: `DriftTracker.h:65` says "Stable after ~50 callbacks". The period that
  `update()` takes from `rate_` already has the integral in it, and line 46 adds the integral again; and
  the first prediction is off by a whole period (line 31). After 51 perfect callbacks of 256 frames
  at 48 kHz the estimate is above 80 kHz.
* `stream_flx4_out`: `AudioEngine.cpp:281` says "Read enough Push-clock-domain frames to produce
  outputFrames in FLX4-clock-domain after resampling." `onFLX4IO` reads four frames more than it plays
  in each callback once it resamples, and drops them (`input_frames_used` is not looked at), so whatever
  the fill, the output goes silent again and again.

Seen in the models, as properties that hold or without a run of their own: two clients of an input stream
starve each other (2.6, `ClientsStarve`); a backlog never drains, whatever the target fill of
`Constants.h:35-36` (2.6, `BacklogLasts`); a reply that could not be sent leaves the plugin to its timeout (2.2);
`PluginDevice.h:30` says "We just read whatever the helper last wrote", which may be a sample time of one
buffer and a host time of the next (2.5). `Constants.h:15` has the capacity at 370 ms; 65536 bytes are 8192
frames, 186 ms at 44.1 kHz.

## 7. Plan

Done: the ring and the handshake, each with its abstract specification, the engine
and the process around it, the clock, the streams, the tracker's loop; proofs of all
their invariants, step properties and refinements, and of what the ring's calls come to
together.

What could follow, in this order:

1. `System`: the handshake composed with two rings, an old region with one
   producer and a new one with another; silence and resumption after a relaunch.
2. The ring under an explicit weak memory: stores of `data` and `head` in a buffer of the
   producer's, ordered only by the release.
