------------------------ MODULE HelperProcessProofs ------------------------
(***************************************************************************)
(* Proofs about HelperProcess: the engine keeps EngineInv by the lemmas of *)
(* AudioEngineProofs whatever main() does around it, and the places where  *)
(* main() maps and unmaps the region have no callback in them.             *)
(***************************************************************************)
EXTENDS HelperProcess, AudioEngineProofs

LEMMA InitHelperInv == HelperInit => HelperInv
  BY InitEngineInv DEF HelperInit, HelperInv, StepAt, StatusAt, Init, At

(* An engine that has no step left to do has no callback either.           *)
LEMMA NoCallbacks ==
  ASSUME EngineInv, step \in {"resamplers", "failed", "stopped"}
  PROVE  /\ Inert
         /\ \A d \in Devices : published[d] = "disconnected"
         /\ tapObject = "none"
<1>1. ASSUME NEW u \in Units
      PROVE proc[u] = "none" /\ io[u] = "idle" /\ using[u] = "none" /\ ~ready[u]
  BY DEF EngineInv, UnitPhase, CallbackPhase, Unmade, Done
<1>2. \A d \in Devices : published[d] = "disconnected"
  BY DEF EngineInv, Publications
<1>3. tapObject = "none"
  BY DEF EngineInv, LeftBehind, Done
<1> QED
  BY <1>1, <1>2, <1>3 DEF Inert

(* main() steps between its calls; the engine stays as it is.              *)
LEMMA OuterStepInv ==
  HelperInv /\ (\/ Launch \/ Allocate \/ Register \/ EngineStarted
                \/ EngineStopped \/ TearDown \/ Exit \/ Kill) => HelperInv'
<1> SUFFICES ASSUME HelperInv,
                    \/ Launch \/ Allocate \/ Register \/ EngineStarted
                    \/ EngineStopped \/ TearDown \/ Exit \/ Kill
             PROVE  HelperInv'
  OBVIOUS
<1> USE DEF StepAt, StatusAt, Enter, At
<1>1. UNCHANGED vars /\ EngineInv => EngineInv'
  BY DeviceInv
<1>2. CASE Launch
  BY <1>1, <1>2 DEF HelperInv, Launch, vars, mainVars
<1>3. CASE Allocate
  BY <1>1, <1>3 DEF HelperInv, Allocate, vars, mainVars
<1>4. CASE Register
  BY <1>1, <1>4 DEF HelperInv, Register, vars, mainVars
<1>5. CASE EngineStarted
  BY <1>1, <1>5 DEF HelperInv, EngineStarted, vars, mainVars
<1>6. CASE EngineStopped
  BY <1>1, <1>6 DEF HelperInv, EngineStopped, vars, mainVars
<1>7. CASE TearDown
  BY <1>1, <1>7 DEF HelperInv, TearDown, vars, mainVars
<1>8. CASE Exit
  BY <1>1, <1>8 DEF HelperInv, Exit, vars, mainVars
<1>9. CASE Kill
  BY <1>9 DEF HelperInv, Kill, Inert, Goto
<1> QED
  BY <1>2, <1>3, <1>4, <1>5, <1>6, <1>7, <1>8, <1>9

(* The engine's own steps.                                                 *)
LEMMA EngineStepInv ==
  HelperInv /\ (EngineStart \/ Quit \/ EngineStop) => HelperInv'
<1> SUFFICES ASSUME HelperInv, EngineStart \/ Quit \/ EngineStop PROVE HelperInv'
  OBVIOUS
<1> USE DEF StepAt, StatusAt, At, Goto
<1>1. CASE EngineStart
  <2>1. EngineInv'
    BY <1>1, StartInv DEF HelperInv, EngineStart, Making
  <2>2. /\ step \notin {"running", "failed"}
        /\ step' \in Making \cup {"resamplers", "createTap", "aggregate",
                                  "announce", "running", "failed"}
        /\ (step' = "running") <=> (step = "announce")
    BY <1>1
       DEF EngineStart, Start, NewResamplers, NewResampler, Open, CreateTap,
           CreateAggregate, CreateIOProc, BeginIO, NoteRunning, Announce,
           AfterUnit, Making, Units, Devices
  <2>3. step = "announce" => unit = "tap"
    BY <1>1 DEF HelperInv, EngineStart, EngineInv, TypeOK
  <2> QED
    BY <1>1, <2>1, <2>2, <2>3 DEF HelperInv, EngineStart, Making
<1>2. CASE Quit
  <2>1. EngineInv'
    BY <1>2, StopInv DEF HelperInv, Quit
  <2> QED
    BY <1>2, <2>1 DEF HelperInv, Quit, RequestStop
<1>3. CASE EngineStop
  <2>1. EngineInv'
    BY <1>3, StopInv DEF HelperInv, EngineStop
  <2>2. /\ step # "stopped"
        /\ step' \in {"stop", "await", "delete", "withdraw", "stopped"}
        /\ (step' = "stopped") <=> (step = "withdraw")
    BY <1>3 DEF EngineStop, Stop, BeginStop, FinishStop, DeleteResamplers,
                Withdraw, Units, Devices
  <2>3. step = "withdraw" => unit = "push"
    BY <1>3 DEF HelperInv, EngineStop, EngineInv, TypeOK
  <2> QED
    BY <1>3, <2>1, <2>2, <2>3 DEF HelperInv, EngineStop
<1> QED
  BY <1>1, <1>2, <1>3

(* Callbacks and devices, at any time.                                     *)
LEMMA EnvironmentStepInv ==
  HelperInv /\ Environment /\ UNCHANGED helperVars => HelperInv'
<1> SUFFICES ASSUME HelperInv, Environment, UNCHANGED helperVars
             PROVE  HelperInv'
  OBVIOUS
<1>1. step' = step
  BY DEF Environment, Plug, Unplug, Begin, Call, CallTap, Callback, Update,
         Pass, Test, Choose, Bypass, Resample, Cue, CallbackOnly, mainVars
<1>2. CASE step # "killed"
  <2>1. EngineInv'
    BY <1>2, CallbackInv, DeviceInv DEF Environment, HelperInv
  <2> QED
    BY <1>1, <1>2, <2>1 DEF HelperInv, helperVars, StepAt, StatusAt
<1>3. CASE step = "killed"
  <2>1. Inert
    BY <1>3 DEF HelperInv
  <2>2. ASSUME NEW u \in Units PROVE ~Begin(u) /\ ~Callback(u)
    BY <2>1 DEF Inert, Begin, MayCall, Call, CallTap, Callback, Update, Pass,
                Test, Choose, Bypass, Resample, Cue, Devices, Units
  <2>3. Inert'
    BY <2>1, <2>2 DEF Environment, Plug, Unplug, trackVars, Inert
  <2> QED
    BY <1>1, <1>3, <2>3 DEF HelperInv, helperVars, StepAt, StatusAt
<1> QED
  BY <1>2, <1>3

(* And the steps that do nothing.                                          *)
LEMMA HelperStutterInv == HelperInv /\ UNCHANGED <<vars, helperVars>> => HelperInv'
<1> SUFFICES ASSUME HelperInv, UNCHANGED <<vars, helperVars>> PROVE HelperInv'
  OBVIOUS
<1>1. EngineInv => EngineInv'
  BY DeviceInv
<1>2. Inert => Inert'
  BY DEF Inert, vars, trackVars
<1> QED
  BY <1>1, <1>2 DEF HelperInv, helperVars, vars, mainVars, StepAt, StatusAt

-----------------------------------------------------------------------------
(* Where main() is, what the engine does, the mapping and the status go    *)
(* together in every state, kills included.                                *)
THEOREM HelperInvariant == HelperSpec => []HelperInv
<1>1. HelperInv /\ [HelperNext]_<<vars, helperVars>> => HelperInv'
  BY OuterStepInv, EngineStepInv, EnvironmentStepInv, HelperStutterInv
     DEF HelperNext
<1> QED
  BY <1>1, InitHelperInv, PTL DEF HelperSpec

(* Every return from main() unmaps the region only when no callback of the *)
(* engine runs or can be called any more.                                  *)
THEOREM RegionOutlives == HelperSpec => []RegionOutlivesCallbacks
<1>1. HelperInv => RegionOutlivesCallbacks
  <2> SUFFICES ASSUME HelperInv, NEW u \in Units,
                      io[u] # "idle" \/ proc[u] \in {"started", "stopping"}
               PROVE  region = "mapped"
    BY DEF RegionOutlivesCallbacks
  <2>1. ~Inert
    BY DEF Inert
  <2>2. step \notin {"resamplers", "failed", "stopped", "killed"}
    BY <2>1, NoCallbacks DEF HelperInv
  <2> QED
    BY <2>2 DEF HelperInv, StepAt
<1> QED
  BY <1>1, HelperInvariant, PTL

(* The engine's own safety properties hold in its process too, up to and   *)
(* after a kill.                                                           *)
THEOREM EngineSafeInProcess ==
  HelperSpec => [](/\ ResamplerAlive /\ ReadyStays
                   /\ NothingLeftBehind /\ PublishedTruly)
<1> DEFINE Safe == /\ ResamplerAlive /\ ReadyStays
                   /\ NothingLeftBehind /\ PublishedTruly
<1>1. HelperInv => Safe
  <2>1. HelperInv /\ step # "killed" => Safe
    BY EngineIsSafe DEF HelperInv
  <2>2. HelperInv /\ step = "killed" => Safe
    BY DEF HelperInv, Inert, ResamplerAlive, ReadyStays, NothingLeftBehind,
           PublishedTruly, Quiet, At
  <2> QED
    BY <2>1, <2>2
<1> QED
  BY <1>1, HelperInvariant, PTL

(* And no return from main(), kill or signal deletes a resampler under a   *)
(* callback either.                                                        *)
THEOREM DeletesUnusedInProcess == HelperSpec => DeletesUnused
<1>1. ASSUME HelperInv, [HelperNext]_<<vars, helperVars>>,
             NEW r \in Resamplers,
             resampler[r] = "live", resampler'[r] = "null", NEW u \in Units
      PROVE  proc[u] = "none" /\ io[u] = "idle"
  <2>1. CASE step = "killed"
    BY <1>1, <2>1 DEF HelperInv, Inert
  <2>2. CASE step # "killed" /\ [Next]_vars
    BY <1>1, <2>2, DeletesWithoutCallbacks DEF HelperInv
  <2>3. CASE Kill
    BY <1>1, <2>3 DEF Kill
  <2>4. ~Kill => [Next]_vars
    BY <1>1 DEF HelperNext, Launch, Allocate, Register, Enter, EngineStart,
       EngineStarted, Quit, EngineStop, EngineStopped, TearDown, Exit,
       Environment, Next
  <2> QED
    BY <2>1, <2>2, <2>3, <2>4
<1>2. HelperInv /\ [HelperNext]_<<vars, helperVars>>
        => [ (\E r \in Resamplers : resampler[r] = "live" /\ resampler'[r] = "null")
               => \A u \in Units : proc[u] = "none" /\ io[u] = "idle" ]_vars
  BY <1>1
<1> QED
  BY <1>2, HelperInvariant, PTL DEF HelperSpec, DeletesUnused

(* A process that returns from main() leaves no IOProc, no tap and no      *)
(* claim to be running behind, whichever call made it return.              *)
THEOREM ExitsLeaveNothing == HelperSpec => []ExitIsClean
<1>1. HelperInv => ExitIsClean
  BY NoCallbacks DEF HelperInv, StepAt, StatusAt, ExitIsClean, Inert
<1> QED
  BY <1>1, HelperInvariant, PTL

(* The engine's many steps are, to the plugin, the few of Connection.      *)
THEOREM HelperImplementsConnection == HelperSpec => ImplementsConnection
<1> USE DEF Link!helper, Link!plugin
<1>1. HelperInit => Link!Init
  BY DEF HelperInit, Link!Init, Phase
<1>2. HelperInv /\ [HelperNext]_<<vars, helperVars>>
        => [Link!Next]_<<Link!helper, Link!plugin>>
  <2> SUFFICES ASSUME HelperInv, [HelperNext]_<<vars, helperVars>>
               PROVE  Link!Next \/ UNCHANGED <<Link!helper, Link!plugin>>
    OBVIOUS
  <2> USE DEF Phase, Link!Next, Link!Move, Enter
  <2>1. CASE Launch
    BY <2>1 DEF Launch, Link!Launch
  <2>2. CASE Allocate
    BY <2>2 DEF Allocate, Link!Say, Link!GiveUp, HelperInv, StatusAt
  <2>3. CASE Register
    BY <2>3 DEF Register, Link!GiveUp, HelperInv, StatusAt
  <2>4. CASE EngineStart
    BY <2>4 DEF EngineStart, Link!Say
  <2>5. CASE EngineStarted
    BY <2>5 DEF EngineStarted, Link!Serve, Link!GiveUp, HelperInv, StatusAt, At
  <2>6. CASE Quit
    BY <2>6 DEF Quit, Link!BeginStop
  <2>7. CASE EngineStop
    BY <2>7 DEF EngineStop, Link!Say
  <2>8. CASE EngineStopped \/ TearDown
    BY <2>8 DEF EngineStopped, TearDown
  <2>9. CASE Exit
    BY <2>9 DEF Exit, Link!Exit, HelperInv, StatusAt
  <2>10. CASE Kill
    BY <2>10 DEF Kill, Link!Kill, HelperInv
  <2>11. CASE UNCHANGED helperVars
    BY <2>11 DEF helperVars
  <2> QED
    BY <2>1, <2>2, <2>3, <2>4, <2>5, <2>6, <2>7, <2>8, <2>9, <2>10, <2>11
       DEF HelperNext
<1> QED
  BY <1>1, <1>2, HelperInvariant, PTL
     DEF HelperSpec, ImplementsConnection, Link!Spec
=============================================================================
