---------------------------- MODULE AudioEngine ----------------------------
(***************************************************************************)
(* The helper's audio engine: start() and stop() on the main thread, and   *)
(* the three IOProcs CoreAudio calls on threads of its own while they run  *)
(* (helper/src/AudioEngine.cpp, HardwareDevice.cpp, ProcessTap.mm).        *)
(*                                                                         *)
(* Every CoreAudio call of start() may fail, in which case the code goes on*)
(* without the unit or gives up.  A callback reads the drift trackers and  *)
(* the resamplers without a lock; what keeps them valid is the order of    *)
(* start() and stop() alone.  The rings and the sample arithmetic are left *)
(* out here: SPSCRingBuffer has the rings.                                 *)
(***************************************************************************)
EXTENDS Integers

CONSTANT StableAfter   \* updates after which a tracker counts as stable

ASSUME StableAssumption == StableAfter \in Nat \ {0}

Devices    == {"push", "flx4"}
Units      == Devices \cup {"tap"}        \* everything that has an IOProc
Resamplers == {"in", "out", "cue"}

VARIABLES
  step,       \* the main thread's step of start() or stop(),
  unit,       \* and the unit, or resampler, it is at
  resampler,  \* resamplerIn_, resamplerOut_, resamplerCue_
  tapObject,  \* ProcessTap: "none", "tap", or "aggregate" (tap and device)
  proc,       \* each unit's IOProc: "none", "created" or "started"
  running,    \* running_ of each unit
  published,  \* pushState and flx4State in the shared memory
  tracker,    \* updates of pushDLL_ and flx4DLL_, saturated
  io,         \* each unit's callback: "idle", or how far it is
  ready,      \* dllReady of the callback in progress
  using,      \* the resampler it has looked up and will use, "none" if none
  present,    \* the devices that are plugged in
  valid       \* the devices opened and not unplugged since

mainVars  == <<step, unit, resampler, tapObject, running, published>>
trackVars == <<tracker, io, ready, using>>
deviceVars == <<present, valid>>
vars      == <<mainVars, proc, trackVars, deviceVars>>

At(s, u) == step = s /\ unit = u
Goto(s, u) == step' = s /\ unit' = u

Init == /\ At("resamplers", "in")
        /\ resampler = [r \in Resamplers |-> "null"]
        /\ tapObject = "none"
        /\ proc = [u \in Units |-> "none"]
        /\ running = [u \in Units |-> FALSE]
        /\ published = [d \in Devices |-> "disconnected"]
        /\ tracker = [d \in Devices |-> 0]
        /\ io = [u \in Units |-> "idle"]
        /\ ready = [u \in Units |-> FALSE]
        /\ using = [u \in Units |-> "none"]
        /\ present \in SUBSET Devices /\ valid = {}

(* Where start() goes on when it is done with a unit, well or badly.       *)
AfterUnit(u) == CASE u = "push" -> Goto("open", "flx4")
                  [] u = "flx4" -> Goto("createTap", "tap")
                  [] u = "tap"  -> Goto("announce", "tap")

(* A callback's own steps.                                                 *)
CallbackOnly == UNCHANGED <<mainVars, proc, deviceVars>>
Stay(u, to) == io' = [io EXCEPT ![u] = to] /\ UNCHANGED ready
Return(u) == /\ io' = [io EXCEPT ![u] = "idle"]
             /\ ready' = [ready EXCEPT ![u] = FALSE]

-----------------------------------------------------------------------------
(* Mutants: plausible mistakes, each of which breaks a property below.     *)

(* A callback that waits for the trackers.                                 *)
TestWaiting(u) == /\ io[u] = "test"
                  /\ \A d \in Devices : tracker[d] = StableAfter
                  /\ ready' = [ready EXCEPT ![u] = TRUE]
                  /\ io' = [io EXCEPT ![u] = IF u = "tap" THEN "cue" ELSE "in"]
                  /\ UNCHANGED <<tracker, using>> /\ CallbackOnly

(* open() reporting a device as running that is only connected.            *)
OpenAsRunning(d) == /\ At("open", d)
                    /\ tracker' = [tracker EXCEPT ![d] = 0]
                    /\ IF d \in present
                       THEN /\ valid' = valid \cup {d}
                            /\ published' = [published EXCEPT ![d] = "running"]
                            /\ Goto("create", d)
                       ELSE UNCHANGED <<published, valid>> /\ AfterUnit(d)
                    /\ UNCHANGED <<resampler, tapObject, proc, running, io,
                                   ready, using, present>>

(* The tracker assigned after the IOProc has been started.                 *)
NoteRunningLate(u) ==
  /\ At("started", u)
  /\ running' = [running EXCEPT ![u] = TRUE]
  /\ published' = [d \in Devices |-> IF d = u THEN "running" ELSE published[d]]
  /\ tracker' = [d \in Devices |-> IF d = u THEN 0 ELSE tracker[d]]
  /\ AfterUnit(u)
  /\ UNCHANGED <<resampler, tapObject, proc, io, ready, using, deviceVars>>

(* stop() deleting the resamplers first.                                   *)
RequestStopDeleting == /\ At("running", "push")
                       /\ Goto("delete", "push")
                       /\ UNCHANGED <<resampler, tapObject, proc, running,
                                      published, trackVars, deviceVars>>

(* ProcessTap::stop() doing nothing for a tap that does not run.           *)
FinishStopRunningOnly(u) ==
  /\ At("await", u)
  /\ io[u] = "idle"
  /\ proc' = IF running[u] THEN [proc EXCEPT ![u] = "none"] ELSE proc
  /\ running' = [running EXCEPT ![u] = FALSE]
  /\ tapObject' = IF u = "tap" /\ running[u] THEN "none" ELSE tapObject
  /\ CASE u = "tap"  -> Goto("stop", "push")
       [] u = "push" -> Goto("stop", "flx4")
       [] u = "flx4" -> Goto("delete", "push")
  /\ UNCHANGED <<resampler, published, trackVars, deviceVars>>

-----------------------------------------------------------------------------
(* start(): the resamplers.  The cue resampler is optional.                *)
NewResampler(r, nextStep, nextUnit) ==
  /\ At("resamplers", r)
  /\ \/ /\ resampler' = [resampler EXCEPT ![r] = "live"]
        /\ Goto(nextStep, nextUnit)
     \/ /\ resampler' = [q \in Resamplers |-> "null"]
        /\ r # "cue"
        /\ Goto("failed", "push")
     \/ /\ r = "cue"
        /\ UNCHANGED resampler
        /\ Goto(nextStep, nextUnit)
  /\ UNCHANGED <<tapObject, proc, running, published, trackVars,
                 deviceVars>>

NewResamplers == \/ NewResampler("in", "resamplers", "out")
                 \/ NewResampler("out", "resamplers", "cue")
                 \/ NewResampler("cue", "open", "push")

(* open(): a device that is not there is skipped, its tracker reset.       *)
Open(d) == /\ At("open", d)
           /\ tracker' = [tracker EXCEPT ![d] = 0]
           /\ IF d \in present
              THEN /\ valid' = valid \cup {d}
                   /\ published' = [published EXCEPT ![d] = "connected"]
                   /\ Goto("create", d)
              ELSE /\ UNCHANGED <<published, valid>>
                   /\ AfterUnit(d)
           /\ UNCHANGED <<resampler, tapObject, proc, running, io, ready,
                          using, present>>

(* The tap's aggregate has no physical device in it that could go away.    *)
HasDevice(u) == u = "tap" \/ u \in valid

(* AudioDeviceCreateIOProcID, for a device and for the tap's aggregate.    *)
CreateIOProc(u) == /\ At("create", u)
                   /\ \/ /\ HasDevice(u)
                         /\ proc' = [proc EXCEPT ![u] = "created"]
                         /\ Goto("begin", u)
                      \/ /\ UNCHANGED proc
                         /\ AfterUnit(u)
                   /\ UNCHANGED <<resampler, tapObject, running,
                                  published, trackVars, deviceVars>>

(* AudioDeviceStart: callbacks may come before it has returned.            *)
BeginIO(u) == /\ At("begin", u)
              /\ \/ /\ HasDevice(u)
                    /\ proc' = [proc EXCEPT ![u] = "started"]
                    /\ Goto("started", u)
                 \/ /\ proc' = [proc EXCEPT ![u] = "none"]
                    /\ AfterUnit(u)
              /\ UNCHANGED <<resampler, tapObject, running, published,
                             trackVars, deviceVars>>

(* running_, and with it the published device state.                       *)
NoteRunning(u) == /\ At("started", u)
                  /\ running' = [running EXCEPT ![u] = TRUE]
                  /\ published' = [d \in Devices |->
                                     IF d = u THEN "running" ELSE published[d]]
                  /\ AfterUnit(u)
                  /\ UNCHANGED <<resampler, tapObject, proc, trackVars,
                                 deviceVars>>

(* create(): djay may not run, or the tap be refused; then no cue.         *)
CreateTap == /\ At("createTap", "tap")
             /\ \/ /\ running["flx4"] /\ resampler["cue"] = "live"
                   /\ tapObject' = "tap"
                   /\ Goto("aggregate", "tap")
                \/ /\ UNCHANGED tapObject
                   /\ AfterUnit("tap")
             /\ UNCHANGED <<resampler, proc, running, published,
                            trackVars, deviceVars>>

CreateAggregate == /\ At("aggregate", "tap")
                   /\ \/ tapObject' = "aggregate" /\ Goto("create", "tap")
                      \/ tapObject' = "none" /\ AfterUnit("tap")
                   /\ UNCHANGED <<resampler, proc, running, published,
                                  trackVars, deviceVars>>

(* kHelperRunning and running_: start() returns true.                      *)
Announce == /\ At("announce", "tap")
            /\ Goto("running", "push")
            /\ UNCHANGED <<resampler, tapObject, proc, running,
                           published, trackVars, deviceVars>>

-----------------------------------------------------------------------------
(* stop(): the tap, the Push, the FLX4, the resamplers, the states.        *)
RequestStop == /\ At("running", "push")
               /\ Goto("stop", "tap")
               /\ UNCHANGED <<resampler, tapObject, proc, running,
                              published, trackVars, deviceVars>>

(* AudioDeviceStop: no new callback, and a wait for the one in progress.   *)
BeginStop(u) == /\ At("stop", u)
                /\ Goto("await", u)
                /\ proc' = IF running[u] THEN [proc EXCEPT ![u] = "stopping"]
                                         ELSE proc
                /\ UNCHANGED <<resampler, tapObject, running, published,
                               trackVars, deviceVars>>

(* The IOProc is destroyed; ProcessTap::stop() also destroys its aggregate *)
(* device and its tap, those of an unsuccessful start() included.          *)
FinishStop(u) == /\ At("await", u)
                 /\ io[u] = "idle"
                 /\ proc' = IF running[u] THEN [proc EXCEPT ![u] = "none"]
                                          ELSE proc
                 /\ running' = [running EXCEPT ![u] = FALSE]
                 /\ tapObject' = IF u = "tap" THEN "none" ELSE tapObject
                 /\ CASE u = "tap"  -> Goto("stop", "push")
                      [] u = "push" -> Goto("stop", "flx4")
                      [] u = "flx4" -> Goto("delete", "push")
                 /\ UNCHANGED <<resampler, published, trackVars, deviceVars>>

DeleteResamplers == /\ At("delete", "push")
                    /\ resampler' = [r \in Resamplers |-> "null"]
                    /\ Goto("withdraw", "push")
                    /\ UNCHANGED <<tapObject, proc, running, published,
                                   trackVars, deviceVars>>

Withdraw == /\ At("withdraw", "push")
            /\ published' = [d \in Devices |-> "disconnected"]
            /\ Goto("stopped", "push")
            /\ UNCHANGED <<resampler, tapObject, proc, running,
                           trackVars, deviceVars>>

-----------------------------------------------------------------------------
(* The callbacks.  "in", "out" and "cue" are the places of a callback where*)
(* it resamples, or copies the samples as they are.                        *)

(* CoreAudio calls a started IOProc again and again, while it has a device.*)
MayCall(u) == proc[u] = "started" /\ io[u] = "idle" /\ HasDevice(u)

Call(d) == /\ MayCall(d)
           /\ Stay(d, "update")
           /\ UNCHANGED <<tracker, using>> /\ CallbackOnly

(* The tap's callback looks at resamplerCue_ before anything else.         *)
CallTap == /\ MayCall("tap") /\ resampler["cue"] = "live"
           /\ using' = [using EXCEPT !["tap"] = "cue"]
           /\ Stay("tap", "test")
           /\ UNCHANGED tracker /\ CallbackOnly

(* DriftTracker::update(), skipped in a call that carries no host time.    *)
Update(d) == /\ io[d] = "update"
             /\ \/ /\ tracker[d] < StableAfter
                   /\ tracker' = [tracker EXCEPT ![d] = @ + 1]
                \/ UNCHANGED tracker
             /\ Stay(d, IF d = "push" THEN "pass" ELSE "test")
             /\ UNCHANGED using /\ CallbackOnly

(* onPushIO passes the audio through.                                      *)
Pass == /\ io["push"] = "pass"
        /\ Return("push")
        /\ UNCHANGED <<tracker, using>> /\ CallbackOnly

BothStable == \A d \in Devices : tracker[d] = StableAfter

(* dllReady, evaluated once per callback.                                  *)
Test(u) == /\ io[u] = "test"
           /\ ready' = [ready EXCEPT ![u] = BothStable]
           /\ io' = [io EXCEPT ![u] = IF u = "tap" THEN "cue" ELSE "in"]
           /\ UNCHANGED <<tracker, using>> /\ CallbackOnly

(* onFLX4IO has two halves, for its input and for its output.             *)
Leave == IF io["flx4"] = "in" THEN Stay("flx4", "out") ELSE Return("flx4")

(* The trackers are ready and the resampler is there: it will be used.     *)
Choose == /\ io["flx4"] \in {"in", "out"} /\ using["flx4"] = "none"
          /\ ready["flx4"] /\ resampler[io["flx4"]] = "live"
          /\ using' = [using EXCEPT !["flx4"] = io["flx4"]]
          /\ UNCHANGED <<tracker, io, ready>> /\ CallbackOnly

(* Otherwise, or when the call has no such buffers, the samples are copied *)
(* or there is nothing to do.                                              *)
Bypass == /\ io["flx4"] \in {"in", "out"} /\ using["flx4"] = "none"
          /\ Leave
          /\ UNCHANGED <<tracker, using>> /\ CallbackOnly

(* src_process(), with the tracker rates read again.                       *)
Resample == /\ io["flx4"] \in {"in", "out"} /\ using["flx4"] # "none"
            /\ using' = [using EXCEPT !["flx4"] = "none"]
            /\ Leave
            /\ UNCHANGED tracker /\ CallbackOnly

(* The tap's callback resamples or copies, into the cue ring, and returns. *)
Cue == /\ io["tap"] = "cue"
       /\ using' = [using EXCEPT !["tap"] = "none"]
       /\ Return("tap")
       /\ UNCHANGED tracker /\ CallbackOnly

(* Devices come and go.  An unplugged device that comes back is another    *)
(* AudioObject: what was opened stays dead.                                *)
Plug == /\ \E d \in Devices \ present : present' = present \cup {d}
        /\ UNCHANGED <<mainVars, proc, trackVars, valid>>
Unplug == /\ \E d \in present : /\ present' = present \ {d}
                                /\ valid' = valid \ {d}
          /\ UNCHANGED <<mainVars, proc, trackVars>>

-----------------------------------------------------------------------------
Start == \/ NewResamplers
         \/ \E d \in Devices : Open(d)
         \/ CreateTap \/ CreateAggregate
         \/ \E u \in Units : CreateIOProc(u) \/ BeginIO(u) \/ NoteRunning(u)
         \/ Announce

Stop == \/ \E u \in Units : BeginStop(u) \/ FinishStop(u)
        \/ DeleteResamplers \/ Withdraw

Begin(u) == (u \in Devices /\ Call(u)) \/ (u = "tap" /\ CallTap)

Callback(u) == \/ u \in Devices /\ Update(u)
               \/ u = "push" /\ Pass
               \/ u # "push" /\ Test(u)
               \/ u = "flx4" /\ (Choose \/ Bypass \/ Resample)
               \/ u = "tap" /\ Cue

Next == \/ Start \/ RequestStop \/ Stop
        \/ \E u \in Units : Begin(u) \/ Callback(u)
        \/ Plug \/ Unplug

Spec == Init /\ [][Next]_vars

(* The main thread goes on, and a callback that has begun is run to its    *)
(* end: nothing in it blocks.                                              *)
FairSpec == /\ Spec
            /\ WF_vars(Start \/ Stop)
            /\ \A u \in Units : WF_vars(Callback(u))

-----------------------------------------------------------------------------
Quiet == step \in {"stopped", "failed"}

TypeOK ==
  /\ \/ step = "resamplers" /\ unit \in Resamplers
     \/ step = "open" /\ unit \in Devices
     \/ step \in {"create", "begin", "started", "stop", "await"} /\ unit \in Units
     \/ step \in {"createTap", "aggregate", "announce"} /\ unit = "tap"
     \/ /\ step \in {"running", "delete", "withdraw", "stopped", "failed"}
        /\ unit = "push"
  /\ resampler \in [Resamplers -> {"null", "live"}]
  /\ tapObject \in {"none", "tap", "aggregate"}
  /\ proc \in [Units -> {"none", "created", "started", "stopping"}]
  /\ running \in [Units -> BOOLEAN]
  /\ published \in [Devices -> {"disconnected", "connected", "running"}]
  /\ tracker \in [Devices -> 0 .. StableAfter]
  /\ io \in [Units -> {"idle", "update", "pass", "test"} \cup Resamplers]
  /\ ready \in [Units -> BOOLEAN]
  /\ using \in [Units -> Resamplers \cup {"none"}]
  /\ present \subseteq Devices /\ valid \subseteq present

(* A callback about to resample has a resampler: stop() never deletes it   *)
(* between the callback's look at the pointer and its use.                 *)
ResamplerAlive ==
  \A u \in Units : using[u] # "none" => resampler[using[u]] = "live"

(* More than that: a resampler is deleted only when no callback is in      *)
(* progress and none can begin, not even one that has yet to look.         *)
DeletesUnused ==
  [][ (\E r \in Resamplers : resampler[r] = "live" /\ resampler'[r] = "null")
        => \A u \in Units : proc[u] = "none" /\ io[u] = "idle" ]_vars

(* Trackers found ready at the start of a callback are ready to its end,   *)
(* when their rates are read again: start() assigns a tracker only before  *)
(* anything can be looking at it.                                          *)
ReadyStays == \A u \in Units : ready[u] => BothStable

(* However far start() got, once it has failed or stop() has returned no   *)
(* callback runs and nothing made in CoreAudio or libsamplerate is left.   *)
NothingLeftBehind ==
  Quiet => /\ \A u \in Units : proc[u] = "none" /\ io[u] = "idle"
           /\ tapObject = "none"
           /\ \A r \in Resamplers : resampler[r] = "null"

(* While the engine runs, a device is published as running exactly if it   *)
(* has a started IOProc, whichever calls failed; after stop() none is.     *)
PublishedTruly ==
  /\ At("running", "push") =>
       \A d \in Devices : (published[d] = "running") <=> (proc[d] = "started")
  /\ Quiet => \A d \in Devices : published[d] = "disconnected"

-----------------------------------------------------------------------------
(* The inductive invariant behind the four: it ties each unit's IOProc and *)
(* running_ to the place of the main thread, and its callback to its       *)
(* IOProc.                                                                 *)
Making == {"open", "create", "begin", "started"}

(* start() has not come to the unit's IOProc, or stop() is done with it.   *)
Unmade(u) == \/ step \in {"resamplers", "failed"}
             \/ u # "push" /\ unit = "push" /\ step \in Making
             \/ u = "tap" /\ unit = "flx4" /\ step \in Making
             \/ unit = u /\ step \in {"open", "create", "createTap",
                                           "aggregate"}
Done(u) == \/ step \in {"delete", "withdraw", "stopped"}
           \/ u # "flx4" /\ unit = "flx4" /\ step \in {"stop", "await"}
           \/ u = "tap" /\ unit = "push" /\ step \in {"stop", "await"}

UnitPhase(u) ==
  /\ Unmade(u) \/ Done(u) => ~running[u] /\ proc[u] = "none"
  /\ At("begin", u) => ~running[u] /\ proc[u] = "created"
  /\ At("started", u) => ~running[u] /\ proc[u] = "started"
  /\ At("await", u) => proc[u] = IF running[u] THEN "stopping" ELSE "none"
  /\ \/ Unmade(u) \/ Done(u) \/ At("begin", u) \/ At("started", u)
     \/ At("await", u)
     \/ proc[u] = IF running[u] THEN "started" ELSE "none"

CallbackPhase(u) ==
  /\ io[u] # "idle" => proc[u] \in {"started", "stopping"}
  /\ io[u] = "idle" => ~ready[u] /\ using[u] = "none"
  /\ u = "push" => io[u] \in {"idle", "update", "pass"}
                   /\ ~ready[u] /\ using[u] = "none"

LeftBehind ==
  /\ step \in {"resamplers", "failed"} \/ Done("tap") => tapObject = "none"
  /\ step \in {"failed", "withdraw", "stopped"} =>
       \A r \in Resamplers : resampler[r] = "null"

Publications ==
  /\ step \in {"resamplers", "failed", "stopped"} =>
       \A d \in Devices : published[d] = "disconnected"
  /\ step \notin {"stop", "await", "delete", "withdraw", "stopped"} =>
       \A d \in Devices : (published[d] = "running") <=> running[d]

EngineInv == /\ TypeOK
             /\ \A u \in Units : UnitPhase(u) /\ CallbackPhase(u)
             /\ LeftBehind /\ Publications
             /\ ResamplerAlive /\ ReadyStays

-----------------------------------------------------------------------------
(* Statements of the comments and messages that the code does not keep.    *)

Attached(d) == d \in present /\ At("running", "push")

(* AudioEngine.cpp: "Push not found -- will retry on hot-plug".  A device  *)
(* that is plugged in and stays is opened in the end.                      *)
RetriesOnHotPlug ==
  \A d \in Devices :
    (Attached(d) /\ d \notin valid) ~> (d \in valid \/ ~Attached(d))

(* Constants.h: the published values are the "Device connection state".    *)
(* A device that is unplugged and stays away is disconnected in the end.   *)
PublishesUnplug ==
  \A d \in Devices :
    (At("running", "push") /\ d \notin present /\ published[d] = "running")
      ~> (~At("running", "push") \/ d \in present \/ published[d] # "running")
=============================================================================
