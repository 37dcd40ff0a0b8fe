--------------------------- MODULE HelperProcess ---------------------------
(***************************************************************************)
(* The life of one helper process (helper/src/main.cpp): the region that   *)
(* MachServer maps, and the audio engine whose callbacks store into it on  *)
(* threads of their own, until engine.stop() has seen the last of them and *)
(* server.stop() gives the region back.                                    *)
(*                                                                         *)
(* The steps of the engine are those of AudioEngine, one by one.  Handshake*)
(* takes all of engine.start() for a step, and all of engine.stop(); here  *)
(* they are shown to be, for the plugin, what Connection says of a helper. *)
(***************************************************************************)
EXTENDS AudioEngine

VARIABLES
  place,      \* where main() is: before it, in a call of it, or after it
  region,     \* the server's mapping: "none", "mapped" or "unmapped"
  says        \* helperStatus in the region

helperVars == <<place, region, says>>

HelperInit == Init /\ place = "unborn" /\ region = "none" /\ says = "none"

-----------------------------------------------------------------------------
(* Mutants: plausible mistakes, each of which breaks a property below.     *)

(* The server, declared after the engine, destroyed before it.             *)
QuitUnmapping == /\ place = "loop" /\ RequestStop
                 /\ place' = "stop" /\ region' = "unmapped"
                 /\ UNCHANGED says

(* kHelperRunning stored when the devices are about to be opened.          *)
EngineStartEarly == /\ place = "engine" /\ Start
                    /\ says' = IF step = "resamplers" THEN "running" ELSE says
                    /\ UNCHANGED <<place, region>>

-----------------------------------------------------------------------------
Enter(p) == place' = p /\ UNCHANGED vars

Launch == /\ place = "unborn" /\ Enter("server")
          /\ UNCHANGED <<region, says>>

(* server.start(): no region, or no service port, and main() returns.      *)
Allocate == /\ place = "server"
            /\ \/ Enter("exit") /\ UNCHANGED <<region, says>>
               \/ Enter("register") /\ region' = "mapped" /\ says' = "offline"

Register == /\ place = "register"
            /\ Enter("teardown") \/ Enter("engine")
            /\ UNCHANGED <<region, says>>

(* engine.start(), step by step; the last one stores kHelperRunning.       *)
EngineStart == /\ place = "engine" /\ Start
               /\ says' = IF At("announce", "tap") THEN "running" ELSE says
               /\ UNCHANGED <<place, region>>

(* It returns; a false one ends main(), through the destructors.           *)
EngineStarted == /\ place = "engine"
                 /\ \/ At("running", "push") /\ Enter("loop")
                    \/ At("failed", "push") /\ Enter("teardown")
                 /\ UNCHANGED <<region, says>>

(* A signal ends the run loop, and engine.stop() begins.                   *)
Quit == /\ place = "loop" /\ RequestStop
        /\ place' = "stop" /\ UNCHANGED <<region, says>>

(* engine.stop(), step by step; the last one withdraws kHelperRunning.     *)
EngineStop == /\ place = "stop" /\ Stop
              /\ says' = IF At("withdraw", "push") THEN "offline" ELSE says
              /\ UNCHANGED <<place, region>>

(* It returns, and the mach thread has been joined.                        *)
EngineStopped == /\ place = "stop" /\ At("stopped", "push")
                 /\ Enter("teardown") /\ UNCHANGED <<region, says>>

(* server.stop(), called or run by the destructor.                         *)
TearDown == /\ place = "teardown" /\ Enter("exit")
            /\ region' = "unmapped" /\ UNCHANGED says

Exit == /\ place = "exit" /\ Enter("gone") /\ UNCHANGED <<region, says>>

(* Killed: its threads, its IOProcs and its mapping are gone, not what the *)
(* region says, which the plugin may still map.                            *)
Kill == /\ place \notin {"unborn", "gone"} /\ place' = "gone"
        /\ region' = "unmapped" /\ Goto("killed", "push")
        /\ proc' = [u \in Units |-> "none"] /\ io' = [u \in Units |-> "idle"]
        /\ ready' = [u \in Units |-> FALSE] /\ using' = [u \in Units |-> "none"]
        /\ UNCHANGED <<says, resampler, tapObject, running, published, tracker,
                       deviceVars>>

Environment == Plug \/ Unplug \/ \E u \in Units : Begin(u) \/ Callback(u)

HelperNext == \/ Launch \/ Allocate \/ Register
              \/ EngineStart \/ EngineStarted
              \/ Quit \/ EngineStop \/ EngineStopped
              \/ TearDown \/ Exit \/ Kill
              \/ Environment /\ UNCHANGED helperVars

HelperSpec == HelperInit /\ [][HelperNext]_<<vars, helperVars>>

(* The main thread goes on, the mach thread it joins ends by itself, and a *)
(* callback that has begun is run to its end, since nothing in it blocks.  *)
Main == \/ Allocate \/ Register \/ EngineStart \/ EngineStarted
        \/ EngineStop \/ EngineStopped \/ TearDown \/ Exit

HelperFairSpec ==
  /\ HelperSpec
  /\ WF_<<vars, helperVars>>(Main)
  /\ \A u \in Units : WF_<<vars, helperVars>>(Callback(u) /\ UNCHANGED helperVars)

-----------------------------------------------------------------------------
(* The callbacks store into the region through a bare pointer: as long as  *)
(* one runs, or may be called, the server has the region mapped.           *)
RegionOutlivesCallbacks ==
  \A u \in Units :
    io[u] # "idle" \/ proc[u] \in {"started", "stopping"} => region = "mapped"

(* A process that was not killed exits with nothing of it left in CoreAudio*)
(* and with a region that says neither running helper nor running devices. *)
ExitIsClean ==
  place = "exit" => /\ \A u \in Units : proc[u] = "none"
                    /\ tapObject = "none"
                    /\ says # "running"
                    /\ \A d \in Devices : published[d] = "disconnected"

(* A helper told to quit does, although each of the three AudioDeviceStops *)
(* waits, on the main thread, for a callback in progress.                  *)
QuitCompletes == place = "stop" ~> place = "gone"

(* For the plugin all this is a helper that comes up and goes, as in       *)
(* Connection.                                                             *)
Phase == CASE place \in {"unborn", "gone"} -> "down"
           [] place \in {"server", "register", "engine"} -> "starting"
           [] place = "loop" -> "serving"
           [] place \in {"stop", "teardown", "exit"} -> "stopping"

Link == INSTANCE Connection WITH
          Launches <- {1}, phase <- Phase,
          gen <- IF place = "unborn" THEN 0 ELSE 1, says <- [g \in {1} |-> says],
          calling <- FALSE, since <- 0, mapped <- 0, result <- "none"

ImplementsConnection == Link!Spec

-----------------------------------------------------------------------------
(* The inductive invariant: where main() is, the engine's step, the mapping*)
(* and the status go together; a killed process has no callbacks.          *)
Inert == \A u \in Units : /\ proc[u] = "none" /\ io[u] = "idle"
                          /\ using[u] = "none" /\ ~ready[u]

StepAt ==
  /\ place \in {"unborn", "server", "register"} => step = "resamplers"
  /\ place = "engine" => step \in Making \cup
       {"resamplers", "createTap", "aggregate", "announce", "running", "failed"}
  /\ place = "loop" => step = "running"
  /\ place = "stop" =>
       step \in {"stop", "await", "delete", "withdraw", "stopped"}
  /\ place \in {"teardown", "exit"} =>
       step \in {"resamplers", "failed", "stopped"}
  /\ place = "gone" =>
       step \in {"resamplers", "failed", "stopped", "killed"}

StatusAt ==
  /\ place \in {"unborn", "server"} => says = "none"
  /\ place = "register" => says = "offline"
  /\ place = "engine" => says = IF step = "running" THEN "running" ELSE "offline"
  /\ place = "loop" => says = "running"
  /\ place = "stop" => says = IF step = "stopped" THEN "offline" ELSE "running"
  /\ place = "teardown" => says = "offline"
  /\ place = "exit" => says \in {"none", "offline"}

HelperInv ==
  /\ place \in {"unborn", "server", "register", "engine", "loop", "stop",
                "teardown", "exit", "gone"}
  /\ IF step = "killed" THEN Inert ELSE EngineInv
  /\ StepAt /\ StatusAt
  /\ place \in {"register", "engine", "loop", "stop", "teardown"} =>
       region = "mapped"
=============================================================================
