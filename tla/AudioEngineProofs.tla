------------------------- MODULE AudioEngineProofs -------------------------
(***************************************************************************)
(* Proofs about AudioEngine, for any number of updates after which a       *)
(* tracker is stable.  EngineInv is inductive.  What it rests on: a unit's *)
(* callback runs only between the creation and the destruction of its      *)
(* IOProc (UnitPhase, CallbackPhase), and the steps of start() and stop()  *)
(* that assign a tracker or delete a resampler lie outside of that.        *)
(***************************************************************************)
EXTENDS AudioEngine, TLAPS

(* Nothing is made yet, whichever devices are plugged in.                  *)
LEMMA InitEngineInv == Init => EngineInv
<1> SUFFICES ASSUME Init PROVE EngineInv
  OBVIOUS
<1> USE StableAssumption DEF Init, Devices, Units, Resamplers
<1>1. TypeOK
  <2>1. step = "resamplers" /\ unit \in Resamplers /\ tapObject = "none"
    BY DEF At
  <2>2. /\ resampler \in [Resamplers -> {"null", "live"}]
        /\ proc \in [Units -> {"none", "created", "started", "stopping"}]
        /\ running \in [Units -> BOOLEAN]
        /\ published \in [Devices -> {"disconnected", "connected", "running"}]
    OBVIOUS
  <2>3. /\ tracker \in [Devices -> 0 .. StableAfter]
        /\ io \in [Units -> {"idle", "update", "pass", "test"} \cup Resamplers]
        /\ ready \in [Units -> BOOLEAN]
        /\ using \in [Units -> Resamplers \cup {"none"}]
    OBVIOUS
  <2>4. present \subseteq Devices /\ valid \subseteq present
    OBVIOUS
  <2> QED
    BY ONLY <2>1, <2>2, <2>3, <2>4 DEF TypeOK
<1>2. ASSUME NEW u \in Units PROVE UnitPhase(u) /\ CallbackPhase(u)
  BY DEF UnitPhase, CallbackPhase, Unmade, Done, At
<1>3. LeftBehind /\ Publications
  BY DEF LeftBehind, Publications, Done
<1>4. ResamplerAlive /\ ReadyStays
  BY DEF ResamplerAlive, ReadyStays
<1> QED
  BY <1>1, <1>2, <1>3, <1>4 DEF EngineInv

(* start(), step by step.                                                  *)
LEMMA StartInv == EngineInv /\ Start => EngineInv'
<1> SUFFICES ASSUME EngineInv, Start PROVE EngineInv'
  OBVIOUS
<1> USE StableAssumption
     DEF Devices, Units, Resamplers, EngineInv, TypeOK, At, Goto, AfterUnit,
         trackVars, deviceVars, UnitPhase, CallbackPhase, LeftBehind,
         Publications, ResamplerAlive, ReadyStays, BothStable, Unmade, Done,
         Making
<1>1. ASSUME NEW r, NEW s, NEW n, NewResampler(r, s, n),
             <<r, s, n>> \in {<<"in", "resamplers", "out">>,
                <<"out", "resamplers", "cue">>, <<"cue", "open", "push">>}
      PROVE  EngineInv'
  BY <1>1 DEF NewResampler
<1>2. ASSUME NEW d \in Devices, Open(d) PROVE EngineInv'
  <2>0. /\ tracker' = [tracker EXCEPT ![d] = 0]
        /\ \/ valid' = valid \cup {d} /\ d \in present
           \/ valid' = valid
        /\ \/ published' = [published EXCEPT ![d] = "connected"]
           \/ published' = published
    BY ONLY <1>2 DEF Open
  <2>1. TypeOK'
    <3>1. /\ tracker' \in [Devices -> 0 .. StableAfter]
          /\ valid' \subseteq Devices /\ valid' \subseteq present
      <4>1. /\ tracker \in [Devices -> 0 .. StableAfter] /\ d \in Devices
            /\ present \subseteq Devices /\ valid \subseteq present
        OBVIOUS
      <4>2. 0 \in 0 .. StableAfter
        BY ONLY StableAssumption
      <4>3. tracker' \in [Devices -> 0 .. StableAfter]
        BY ONLY <2>0, <4>1, <4>2
      <4>4. valid' \subseteq Devices /\ valid' \subseteq present
        BY ONLY <2>0, <4>1
      <4> QED
        BY ONLY <4>3, <4>4
    <3>2. published' \in [Devices -> {"disconnected", "connected", "running"}]
      BY <2>0
    <3>3. \/ step' \in {"open", "create"} /\ unit' \in Devices
          \/ step' = "createTap" /\ unit' = "tap"
      BY <1>2 DEF Open
    <3>4. UNCHANGED <<resampler, tapObject, proc, running, io, ready, using,
                      present>>
      BY <1>2 DEF Open
    <3> QED
      BY ONLY EngineInv, <3>1, <3>2, <3>3, <3>4
         DEF EngineInv, TypeOK, Units
  <2>2. ASSUME NEW v \in Units PROVE UnitPhase(v)'
    <3>1. CASE v = "push"
      BY <1>2, <3>1 DEF Open
    <3>2. CASE v = "flx4"
      BY <1>2, <3>2 DEF Open
    <3>3. CASE v = "tap"
      BY <1>2, <3>3 DEF Open
    <3> QED
      BY <3>1, <3>2, <3>3
  <2>3. ASSUME NEW v \in Units PROVE CallbackPhase(v)'
    BY <1>2 DEF Open
  <2>4. LeftBehind'
    BY <1>2 DEF Open
  <2>5. Publications'
    <3>1. ~running[d] /\ UNCHANGED running /\ step' \in {"open", "create", "createTap"}
      BY <1>2 DEF Open
    <3>2. \A e \in Devices : \/ published'[e] = published[e]
                             \/ e = d /\ published'[e] = "connected"
      BY <2>0
    <3>3. \A e \in Devices : (published[e] = "running") <=> running[e]
      BY <1>2 DEF Open
    <3> QED
      BY ONLY <3>1, <3>2, <3>3 DEF Publications
  <2>6. ResamplerAlive' /\ ReadyStays'
    <3>1. ASSUME NEW u \in Units PROVE ~ready[u]
      BY <1>2 DEF Open
    <3>2. UNCHANGED <<resampler, ready, using>>
      BY <1>2 DEF Open
    <3> QED
      BY ONLY EngineInv, <3>1, <3>2
         DEF EngineInv, ResamplerAlive, ReadyStays
  <2> QED
    BY ONLY <2>1, <2>2, <2>3, <2>4, <2>5, <2>6 DEF EngineInv
<1>3. CASE CreateTap
  BY <1>3 DEF CreateTap
<1>4. CASE CreateAggregate
  BY <1>4 DEF CreateAggregate
<1>5. ASSUME NEW u \in Units, CreateIOProc(u) PROVE EngineInv'
  <2>1. /\ At("create", u)
        /\ UNCHANGED <<resampler, tapObject, running, published, trackVars,
                       deviceVars>>
        /\ \/ proc' = [proc EXCEPT ![u] = "created"] /\ Goto("begin", u)
           \/ proc' = proc /\ AfterUnit(u)
    BY <1>5 DEF CreateIOProc
  <2>2. CASE proc' = [proc EXCEPT ![u] = "created"] /\ Goto("begin", u)
    <3>1. TypeOK'
      <4>1. proc' \in [Units -> {"none", "created", "started", "stopping"}]
        BY <2>1, <2>2
      <4> QED
        BY <2>1, <2>2, <4>1
    <3>2. ASSUME NEW v \in Units PROVE UnitPhase(v)'
      <4>1. CASE u = "push"
        BY <2>1, <2>2, <4>1
      <4>2. CASE u = "flx4"
        BY <2>1, <2>2, <4>2
      <4>3. CASE u = "tap"
        BY <2>1, <2>2, <4>3
      <4> QED
        BY <4>1, <4>2, <4>3
    <3>3. ASSUME NEW v \in Units PROVE CallbackPhase(v)'
      BY <2>1, <2>2
    <3>4. LeftBehind' /\ Publications'
      <4>1. step' \notin {"resamplers", "failed", "withdraw", "stopped"}
        BY <2>1, <2>2
      <4>2. ~Done("tap")'
        BY <2>1, <2>2
      <4>3. \A d \in Devices : (published[d] = "running") <=> running[d]
        BY <2>1
      <4>4. published' = published /\ running' = running
        BY ONLY <2>1
      <4> QED
        BY ONLY <4>1, <4>2, <4>3, <4>4 DEF LeftBehind, Publications
    <3>5. ResamplerAlive' /\ ReadyStays'
      BY <2>1, <2>2
    <3> QED
      BY ONLY <3>1, <3>2, <3>3, <3>4, <3>5 DEF EngineInv
  <2>3. CASE proc' = proc /\ AfterUnit(u)
    <3>1. TypeOK'
      <4>1. proc' \in [Units -> {"none", "created", "started", "stopping"}]
        BY <2>1, <2>3
      <4> QED
        BY <2>1, <2>3, <4>1
    <3>2. ASSUME NEW v \in Units PROVE UnitPhase(v)'
      <4>1. CASE u = "push"
        BY <2>1, <2>3, <4>1
      <4>2. CASE u = "flx4"
        BY <2>1, <2>3, <4>2
      <4>3. CASE u = "tap"
        BY <2>1, <2>3, <4>3
      <4> QED
        BY <4>1, <4>2, <4>3
    <3>3. ASSUME NEW v \in Units PROVE CallbackPhase(v)'
      BY <2>1, <2>3
    <3>4. LeftBehind' /\ Publications'
      <4>1. step' \notin {"resamplers", "failed", "withdraw", "stopped"}
        BY <2>1, <2>3
      <4>2. ~Done("tap")'
        BY <2>1, <2>3
      <4>3. \A d \in Devices : (published[d] = "running") <=> running[d]
        BY <2>1
      <4>4. published' = published /\ running' = running
        BY ONLY <2>1
      <4> QED
        BY ONLY <4>1, <4>2, <4>3, <4>4 DEF LeftBehind, Publications
    <3>5. ResamplerAlive' /\ ReadyStays'
      BY <2>1, <2>3
    <3> QED
      BY ONLY <3>1, <3>2, <3>3, <3>4, <3>5 DEF EngineInv
  <2> QED
    BY <2>1, <2>2, <2>3
<1>6. ASSUME NEW u \in Units, BeginIO(u) PROVE EngineInv'
  <2>1. /\ At("begin", u)
        /\ UNCHANGED <<resampler, tapObject, running, published, trackVars,
                       deviceVars>>
        /\ \/ proc' = [proc EXCEPT ![u] = "started"] /\ Goto("started", u)
           \/ proc' = [proc EXCEPT ![u] = "none"] /\ AfterUnit(u)
    BY <1>6 DEF BeginIO
  <2>2. CASE proc' = [proc EXCEPT ![u] = "started"] /\ Goto("started", u)
    <3>1. TypeOK'
      <4>1. proc' \in [Units -> {"none", "created", "started", "stopping"}]
        BY <2>1, <2>2
      <4> QED
        BY <2>1, <2>2, <4>1
    <3>2. ASSUME NEW v \in Units PROVE UnitPhase(v)'
      <4>1. CASE u = "push"
        BY <2>1, <2>2, <4>1
      <4>2. CASE u = "flx4"
        BY <2>1, <2>2, <4>2
      <4>3. CASE u = "tap"
        BY <2>1, <2>2, <4>3
      <4> QED
        BY <4>1, <4>2, <4>3
    <3>3. ASSUME NEW v \in Units PROVE CallbackPhase(v)'
      BY <2>1, <2>2
    <3>4. LeftBehind' /\ Publications'
      <4>1. step' \notin {"resamplers", "failed", "withdraw", "stopped"}
        BY <2>1, <2>2
      <4>2. ~Done("tap")'
        BY <2>1, <2>2
      <4>3. \A d \in Devices : (published[d] = "running") <=> running[d]
        BY <2>1
      <4>4. published' = published /\ running' = running
        BY ONLY <2>1
      <4> QED
        BY ONLY <4>1, <4>2, <4>3, <4>4 DEF LeftBehind, Publications
    <3>5. ResamplerAlive' /\ ReadyStays'
      BY <2>1, <2>2
    <3> QED
      BY ONLY <3>1, <3>2, <3>3, <3>4, <3>5 DEF EngineInv
  <2>3. CASE proc' = [proc EXCEPT ![u] = "none"] /\ AfterUnit(u)
    <3>1. TypeOK'
      <4>1. proc' \in [Units -> {"none", "created", "started", "stopping"}]
        BY <2>1, <2>3
      <4> QED
        BY <2>1, <2>3, <4>1
    <3>2. ASSUME NEW v \in Units PROVE UnitPhase(v)'
      <4>1. CASE u = "push"
        BY <2>1, <2>3, <4>1
      <4>2. CASE u = "flx4"
        BY <2>1, <2>3, <4>2
      <4>3. CASE u = "tap"
        BY <2>1, <2>3, <4>3
      <4> QED
        BY <4>1, <4>2, <4>3
    <3>3. ASSUME NEW v \in Units PROVE CallbackPhase(v)'
      BY <2>1, <2>3
    <3>4. LeftBehind' /\ Publications'
      <4>1. step' \notin {"resamplers", "failed", "withdraw", "stopped"}
        BY <2>1, <2>3
      <4>2. ~Done("tap")'
        BY <2>1, <2>3
      <4>3. \A d \in Devices : (published[d] = "running") <=> running[d]
        BY <2>1
      <4>4. published' = published /\ running' = running
        BY ONLY <2>1
      <4> QED
        BY ONLY <4>1, <4>2, <4>3, <4>4 DEF LeftBehind, Publications
    <3>5. ResamplerAlive' /\ ReadyStays'
      BY <2>1, <2>3
    <3> QED
      BY ONLY <3>1, <3>2, <3>3, <3>4, <3>5 DEF EngineInv
  <2> QED
    BY <2>1, <2>2, <2>3
<1>7. ASSUME NEW u \in Units, NoteRunning(u) PROVE EngineInv'
  <2>1. TypeOK'
    BY <1>7 DEF NoteRunning
  <2>2. ASSUME NEW v \in Units PROVE UnitPhase(v)'
    <3>0. /\ running'[v] = IF v = u THEN TRUE ELSE running[v]
          /\ proc'[v] = proc[v]
      <4>1. running' = [running EXCEPT ![u] = TRUE] /\ proc' = proc
        BY ONLY <1>7 DEF NoteRunning
      <4>2. running \in [Units -> BOOLEAN] /\ u \in Units /\ v \in Units
        BY ONLY EngineInv, u \in Units, v \in Units DEF EngineInv, TypeOK
      <4> QED
        BY ONLY <4>1, <4>2
    <3>1. CASE u = "push"
      BY <1>7, <3>0, <3>1 DEF NoteRunning
    <3>2. CASE u = "flx4"
      BY <1>7, <3>0, <3>2 DEF NoteRunning
    <3>3. CASE u = "tap"
      BY <1>7, <3>0, <3>3 DEF NoteRunning
    <3> QED
      BY <3>1, <3>2, <3>3
  <2>3. ASSUME NEW v \in Units PROVE CallbackPhase(v)'
    BY <1>7 DEF NoteRunning
  <2>4. LeftBehind'
    BY <1>7 DEF NoteRunning
  <2>5. Publications'
    <3>1. \A d \in Devices : published'[d] = IF d = u THEN "running" ELSE published[d]
      BY ONLY <1>7 DEF NoteRunning
    <3>2. \A d \in Devices : running'[d] = IF d = u THEN TRUE ELSE running[d]
      BY ONLY EngineInv, <1>7 DEF NoteRunning, EngineInv, TypeOK, Units
    <3>3. \A d \in Devices : (published[d] = "running") <=> running[d]
      BY <1>7 DEF NoteRunning
    <3>4. step' \in {"open", "createTap", "announce"}
      BY <1>7 DEF NoteRunning
    <3> QED
      BY ONLY <3>1, <3>2, <3>3, <3>4 DEF Publications
  <2>6. ResamplerAlive' /\ ReadyStays'
    <3>1. UNCHANGED <<resampler, tracker, ready, using>>
      BY <1>7 DEF NoteRunning
    <3> QED
      BY ONLY EngineInv, <3>1
         DEF EngineInv, ResamplerAlive, ReadyStays, BothStable
  <2> QED
    BY ONLY <2>1, <2>2, <2>3, <2>4, <2>5, <2>6 DEF EngineInv
<1>8. CASE Announce
  BY <1>8 DEF Announce
<1>9. NewResamplers => EngineInv'
  BY ONLY <1>1 DEF NewResamplers
<1> QED
  BY ONLY <1>2, <1>3, <1>4, <1>5, <1>6, <1>7, <1>8, <1>9, Start DEF Start

(* stop(), step by step.                                                   *)
LEMMA StopInv == EngineInv /\ (RequestStop \/ Stop) => EngineInv'
<1> SUFFICES ASSUME EngineInv, RequestStop \/ Stop PROVE EngineInv'
  OBVIOUS
<1> USE StableAssumption
     DEF Devices, Units, Resamplers, EngineInv, TypeOK, At, Goto,
         trackVars, deviceVars, UnitPhase, CallbackPhase, LeftBehind,
         Publications, ResamplerAlive, ReadyStays, BothStable, Unmade, Done,
         Making
<1>1. CASE RequestStop
  BY <1>1 DEF RequestStop
<1>2. ASSUME NEW u \in Units, BeginStop(u) PROVE EngineInv'
  BY <1>2 DEF BeginStop
<1>3. ASSUME NEW u \in Units, FinishStop(u) PROVE EngineInv'
  <2>1. TypeOK'
    BY <1>3 DEF FinishStop
  <2>2. ASSUME NEW v \in Units PROVE UnitPhase(v)'
    <3>0. /\ running'[v] = (v # u /\ running[v])
          /\ proc'[v] = IF v = u THEN "none" ELSE proc[v]
      BY <1>3 DEF FinishStop
    <3>1. CASE u = "push"
      BY <1>3, <3>0, <3>1 DEF FinishStop
    <3>2. CASE u = "flx4"
      BY <1>3, <3>0, <3>2 DEF FinishStop
    <3>3. CASE u = "tap"
      BY <1>3, <3>0, <3>3 DEF FinishStop
    <3> QED
      BY <3>1, <3>2, <3>3
  <2>3. ASSUME NEW v \in Units PROVE CallbackPhase(v)'
    BY <1>3 DEF FinishStop
  <2>4. LeftBehind'
    BY <1>3 DEF FinishStop
  <2>5. Publications'
    BY <1>3 DEF FinishStop
  <2>6. ResamplerAlive' /\ ReadyStays'
    BY <1>3 DEF FinishStop
  <2> QED
    BY ONLY <2>1, <2>2, <2>3, <2>4, <2>5, <2>6 DEF EngineInv
<1>4. CASE DeleteResamplers
  BY <1>4 DEF DeleteResamplers
<1>5. CASE Withdraw
  BY <1>5 DEF Withdraw
<1> QED
  BY <1>1, <1>2, <1>3, <1>4, <1>5 DEF Stop

(* The callbacks.                                                          *)
LEMMA CallbackInv ==
  ASSUME EngineInv, NEW u \in Units, Begin(u) \/ Callback(u)
  PROVE  EngineInv'
<1> USE StableAssumption
     DEF Devices, Units, Resamplers, EngineInv, TypeOK, At,
         mainVars, deviceVars, CallbackOnly, Stay, Return, UnitPhase,
         CallbackPhase, LeftBehind, Publications, ResamplerAlive, ReadyStays,
         BothStable, Unmade, Done, Making
<1>1. CASE u \in Devices /\ Call(u)
  BY <1>1 DEF Call, MayCall
<1>0. CASE u = "tap" /\ CallTap
  BY <1>0 DEF CallTap, MayCall
<1>2. CASE u \in Devices /\ Update(u)
  BY <1>2 DEF Update
<1>3. CASE u = "push" /\ Pass
  BY <1>3 DEF Pass
<1>4. CASE u # "push" /\ Test(u)
  BY <1>4 DEF Test
<1>5. CASE u = "flx4" /\ Choose
  BY <1>5 DEF Choose
<1>6. CASE u = "flx4" /\ Bypass
  <2>1. TypeOK'
    <3>1. io' \in [Units -> {"idle", "update", "pass", "test"} \cup Resamplers]
      BY <1>6 DEF Bypass, Leave
    <3>2. ready' \in [Units -> BOOLEAN]
      <4>1. ready' = ready \/ ready' = [ready EXCEPT ![u] = FALSE]
        BY ONLY <1>6 DEF Bypass, Leave, Stay, Return
      <4>2. ready \in [Units -> BOOLEAN]
        BY ONLY EngineInv DEF EngineInv, TypeOK
      <4> QED
        BY ONLY <4>1, <4>2
    <3>3. using' \in [Units -> Resamplers \cup {"none"}]
      BY <1>6 DEF Bypass, Leave
    <3>4. UNCHANGED <<mainVars, proc, tracker, deviceVars>>
      BY <1>6 DEF Bypass
    <3> QED
      BY ONLY EngineInv, <3>1, <3>2, <3>3, <3>4
         DEF EngineInv, TypeOK, mainVars, deviceVars
  <2>2. ASSUME NEW v \in Units PROVE UnitPhase(v)'
    <3>1. CASE v = "push"
      BY <1>6, <3>1 DEF Bypass, Leave
    <3>2. CASE v = "flx4"
      BY <1>6, <3>2 DEF Bypass, Leave
    <3>3. CASE v = "tap"
      BY <1>6, <3>3 DEF Bypass, Leave
    <3> QED
      BY <3>1, <3>2, <3>3
  <2>3. ASSUME NEW v \in Units PROVE CallbackPhase(v)'
    BY <1>6 DEF Bypass, Leave
  <2>4. LeftBehind'
    BY <1>6 DEF Bypass, Leave
  <2>5. Publications'
    BY <1>6 DEF Bypass, Leave
  <2>6. ResamplerAlive' /\ ReadyStays'
    BY <1>6 DEF Bypass, Leave
  <2> QED
    BY ONLY <2>1, <2>2, <2>3, <2>4, <2>5, <2>6 DEF EngineInv
<1>7. CASE u = "flx4" /\ Resample
  <2>1. TypeOK'
    <3>1. io' \in [Units -> {"idle", "update", "pass", "test"} \cup Resamplers]
      BY <1>7 DEF Resample, Leave
    <3>2. ready' \in [Units -> BOOLEAN]
      <4>1. ready' = ready \/ ready' = [ready EXCEPT ![u] = FALSE]
        BY ONLY <1>7 DEF Resample, Leave, Stay, Return
      <4>2. ready \in [Units -> BOOLEAN]
        BY ONLY EngineInv DEF EngineInv, TypeOK
      <4> QED
        BY ONLY <4>1, <4>2
    <3>3. using' \in [Units -> Resamplers \cup {"none"}]
      BY <1>7 DEF Resample, Leave
    <3>4. UNCHANGED <<mainVars, proc, tracker, deviceVars>>
      BY <1>7 DEF Resample
    <3> QED
      BY ONLY EngineInv, <3>1, <3>2, <3>3, <3>4
         DEF EngineInv, TypeOK, mainVars, deviceVars
  <2>2. ASSUME NEW v \in Units PROVE UnitPhase(v)'
    <3>1. CASE v = "push"
      BY <1>7, <3>1 DEF Resample, Leave
    <3>2. CASE v = "flx4"
      BY <1>7, <3>2 DEF Resample, Leave
    <3>3. CASE v = "tap"
      BY <1>7, <3>3 DEF Resample, Leave
    <3> QED
      BY <3>1, <3>2, <3>3
  <2>3. ASSUME NEW v \in Units PROVE CallbackPhase(v)'
    BY <1>7 DEF Resample, Leave
  <2>4. LeftBehind'
    BY <1>7 DEF Resample, Leave
  <2>5. Publications'
    BY <1>7 DEF Resample, Leave
  <2>6. ResamplerAlive' /\ ReadyStays'
    BY <1>7 DEF Resample, Leave
  <2> QED
    BY ONLY <2>1, <2>2, <2>3, <2>4, <2>5, <2>6 DEF EngineInv
<1>8. CASE u = "tap" /\ Cue
  BY <1>8 DEF Cue
<1> QED
  BY <1>0, <1>1, <1>2, <1>3, <1>4, <1>5, <1>6, <1>7, <1>8 DEF Begin, Callback

(* Devices come and go, and the steps that do nothing.                     *)
LEMMA DeviceInv == EngineInv /\ (Plug \/ Unplug \/ UNCHANGED vars) => EngineInv'
<1> SUFFICES ASSUME EngineInv, Plug \/ Unplug \/ UNCHANGED vars PROVE EngineInv'
  OBVIOUS
<1> USE DEF EngineInv, TypeOK, At, mainVars, trackVars, deviceVars, UnitPhase,
         CallbackPhase, LeftBehind, Publications, ResamplerAlive, ReadyStays,
         BothStable, Unmade, Done
<1>1. CASE Plug
  BY <1>1 DEF Plug
<1>2. CASE Unplug
  BY <1>2 DEF Unplug
<1>3. CASE UNCHANGED vars
  BY <1>3 DEF vars
<1> QED
  BY <1>1, <1>2, <1>3

-----------------------------------------------------------------------------
(* The inductive invariant holds in every state, whichever calls fail and  *)
(* whenever callbacks run or devices come and go.                          *)
THEOREM EngineInvariant == Spec => []EngineInv
<1>1. EngineInv /\ [Next]_vars => EngineInv'
  BY StartInv, StopInv, CallbackInv, DeviceInv DEF Next
<1> QED
  BY <1>1, InitEngineInv, PTL DEF Spec

(* The four safety properties follow from it.                              *)
LEMMA EngineIsSafe ==
  EngineInv => /\ ResamplerAlive /\ ReadyStays
               /\ NothingLeftBehind /\ PublishedTruly
<1>1. EngineInv => ResamplerAlive /\ ReadyStays
  BY DEF EngineInv
<1>2. EngineInv => NothingLeftBehind
  BY DEF EngineInv, NothingLeftBehind, Quiet, LeftBehind, UnitPhase,
         CallbackPhase, Unmade, Done, Units, Devices
<1>3. EngineInv => PublishedTruly
  BY DEF EngineInv, PublishedTruly, Quiet, At, Publications, UnitPhase,
         Unmade, Done, Units, Devices, Making
<1> QED
  BY <1>1, <1>2, <1>3

(* stop() deletes the resamplers, and a failing start() does, when no      *)
(* callback can have one in its hands.                                     *)
THEOREM ResamplersStayAlive == Spec => []ResamplerAlive
  BY EngineIsSafe, EngineInvariant, PTL

(* start() assigns no tracker that a callback has found stable.            *)
THEOREM ReadyTrackersStayReady == Spec => []ReadyStays
  BY EngineIsSafe, EngineInvariant, PTL

(* However start() went, a failed start() and a stop() leave no callback,  *)
(* IOProc, tap, aggregate device or resampler behind.                      *)
THEOREM NothingIsLeftBehind == Spec => []NothingLeftBehind
  BY EngineIsSafe, EngineInvariant, PTL

(* A running engine publishes a device as running exactly if its IOProc is *)
(* started, a stopped one publishes none.                                  *)
THEOREM StatesArePublishedTruly == Spec => []PublishedTruly
  BY EngineIsSafe, EngineInvariant, PTL

(* Only a failing start() and the step of stop() after the three           *)
(* AudioDeviceStops delete a resampler, and at neither is there a callback.*)
LEMMA DeletesWithoutCallbacks ==
  ASSUME EngineInv, [Next]_vars, NEW r \in Resamplers,
         resampler[r] = "live", resampler'[r] = "null", NEW u \in Units
  PROVE  proc[u] = "none" /\ io[u] = "idle"
<1>1. step \in {"resamplers", "delete"}
  <2>1. CASE Start
    BY <2>1
       DEF Start, NewResamplers, NewResampler, Open, CreateTap, CreateAggregate,
           CreateIOProc, BeginIO, NoteRunning, Announce, At, EngineInv, TypeOK
  <2>2. CASE RequestStop \/ Stop
    BY <2>2 DEF RequestStop, Stop, BeginStop, FinishStop, DeleteResamplers,
                Withdraw, At
  <2>3. CASE Plug \/ Unplug \/ UNCHANGED vars
    BY <2>3 DEF Plug, Unplug, vars, mainVars
  <2>4. CASE \E v \in Units : Begin(v) \/ Callback(v)
    BY <2>4 DEF Begin, Call, CallTap, Callback, Update, Pass, Test, Choose,
       Bypass, Resample, Cue, CallbackOnly, mainVars
  <2> QED
    BY <2>1, <2>2, <2>3, <2>4 DEF Next
<1>2. Unmade(u) \/ Done(u)
  BY <1>1 DEF Unmade, Done
<1> QED
  BY <1>2 DEF EngineInv, UnitPhase, CallbackPhase

(* No resampler is deleted under a callback, or where one could begin.     *)
THEOREM DeletesOnlyUnused == Spec => DeletesUnused
<1>1. EngineInv /\ [Next]_vars
        => [ (\E r \in Resamplers : resampler[r] = "live" /\ resampler'[r] = "null")
               => \A u \in Units : proc[u] = "none" /\ io[u] = "idle" ]_vars
  BY DeletesWithoutCallbacks
<1> QED
  BY <1>1, EngineInvariant, PTL DEF Spec, DeletesUnused
=============================================================================
