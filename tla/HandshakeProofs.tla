-------------------------- MODULE HandshakeProofs --------------------------
(***************************************************************************)
(* Proofs about Handshake, for any number of helper processes, connect()   *)
(* calls and queue places.  HandshakeInv is inductive: every step of the   *)
(* four parties keeps it.  The two facts the rest hangs on are that a      *)
(* region says "running" only while the helper that owns it has its engine *)
(* on, or was killed (RunningRegions), and that the reply port in use was  *)
(* made during the call, so that what it was sent is not older than the    *)
(* call (CallsInProgress).                                                 *)
(***************************************************************************)
EXTENDS Handshake, TLAPS

(* No process, no reply port, no region: the parts hold trivially.          *)
LEMMA InitHandshakeInv == Init => HandshakeInv
<1> SUFFICES ASSUME Init PROVE HandshakeInv
  OBVIOUS
<1> USE HandshakeAssumption DEF Init, Launches, Attempts, PortStates
<1>1. TypeOK
  <2>1. requests \in Seq(Attempts) /\ Len(requests) <= QueueLimit
    OBVIOUS
  <2>2. status \in [Launches -> {"none", "offline", "running"}]
    OBVIOUS
  <2>3. port \in [Attempts -> PortStates]
    OBVIOUS
  <2>4. offer \in [Attempts -> 0 .. MaxLaunches]
    OBVIOUS
  <2>5. /\ gen \in 0 .. MaxLaunches /\ mapped \in 0 .. MaxLaunches
        /\ since \in 0 .. MaxLaunches + 1
        /\ handling \in 0 .. MaxAttempts /\ attempt \in 0 .. MaxAttempts
        /\ killed \subseteq Launches
    OBVIOUS
  <2>6. quit \in BOOLEAN /\ stop \in BOOLEAN /\ server \in BOOLEAN
    OBVIOUS
  <2>7. main = "down" /\ mach = "none" /\ plug = "idle" /\ result = "none"
    OBVIOUS
  <2> QED
    BY ONLY <2>1, <2>2, <2>3, <2>4, <2>5, <2>6, <2>7 DEF TypeOK
<1>2. ProcessPhases /\ RunningRegions
  BY DEF ProcessPhases, RunningRegions, EngineOn, Serving
<1>3. OffersExist
  BY DEF OffersExist
<1>4. CallsInProgress
  BY DEF CallsInProgress, OldestAlive
<1>5. ReadyBeforeOffered
  BY DEF ReadyBeforeOffered
<1> QED
  BY <1>1, <1>2, <1>3, <1>4, <1>5 DEF HandshakeInv

(* The helper's main thread: each step moves the process to its next phase *)
(* and may publish the status that goes with it.                           *)
LEMMA MainStepInv == HandshakeInv /\ MainStep => HandshakeInv'
<1> SUFFICES ASSUME HandshakeInv, MainStep PROVE HandshakeInv'
  OBVIOUS
<1> USE HandshakeAssumption DEF HandshakeInv, Launches, Attempts, TypeOK,
     ProcessPhases, RunningRegions, OffersExist, CallsInProgress,
     ReadyBeforeOffered, Offered, EngineOn, Starting, Serving, Stopping,
     PortStates
<1> USE DEF Goto, Publish, Keep, pluginVars, OldestAlive, ProcessGone
<1>1. CASE AllocateRegion
  <2>1. gen \in Launches /\ status[gen] # "running"
    BY <1>1 DEF AllocateRegion
  <2>2. \A g \in Offered \ {0} : status[g] = "running" \/ g < gen
    BY ONLY <1>1, HandshakeInv DEF HandshakeInv, ReadyBeforeOffered,
       AllocateRegion, Stopping
  <2>3. gen \notin Offered
    BY ONLY <2>1, <2>2 DEF Launches
  <2>4. Offered' = Offered
    BY <1>1 DEF AllocateRegion
  <2>5. \A g \in Offered \ {0} : g \in Launches
    BY DEF Offered
  <2>6. ProcessPhases' /\ RunningRegions'
    BY <1>1 DEF AllocateRegion
  <2>7. OffersExist' /\ CallsInProgress'
    BY <1>1 DEF AllocateRegion
  <2> HIDE DEF Offered
  <2>8. ReadyBeforeOffered'
    BY <1>1, <2>1, <2>2, <2>3, <2>4, <2>5 DEF AllocateRegion
  <2>9. TypeOK'
    <3>1. status' \in [Launches -> {"none", "offline", "running"}]
      BY <1>1 DEF AllocateRegion
    <3>2. /\ main' \in {"checkin", "exit"}
          /\ UNCHANGED <<quit, stop, server, mach>>
      BY <1>1 DEF AllocateRegion
    <3>3. Keep
      BY <1>1 DEF AllocateRegion
    <3> QED
      BY ONLY HandshakeInv, <3>1, <3>2, <3>3
         DEF HandshakeInv, TypeOK, Keep, pluginVars, Starting, Stopping
  <2> QED
    BY <2>6, <2>7, <2>8, <2>9
<1>2. CASE CheckIn
  <2>1. TypeOK'
    <3>1. main' \in {"engine", "teardown"} /\ server' \in BOOLEAN
      BY <1>2 DEF CheckIn
    <3>2. UNCHANGED <<quit, stop, mach, status>> /\ Keep
      BY <1>2 DEF CheckIn
    <3> QED
      BY ONLY HandshakeInv, <3>1, <3>2
         DEF HandshakeInv, TypeOK, Keep, pluginVars, Starting, Stopping
  <2>2. ProcessPhases'
    BY <1>2 DEF CheckIn
  <2>3. RunningRegions'
    BY <1>2 DEF CheckIn
  <2>4. OffersExist'
    BY <1>2 DEF CheckIn
  <2>5. CallsInProgress'
    BY <1>2 DEF CheckIn
  <2>6. ReadyBeforeOffered'
    BY <1>2 DEF CheckIn
  <2> QED
    BY <2>1, <2>2, <2>3, <2>4, <2>5, <2>6
<1>3. CASE StartEngine
  <2>1. TypeOK'
    <3>1. main' \in {"spawn", "teardown"}
      BY <1>3 DEF StartEngine
    <3>2. status' \in [Launches -> {"none", "offline", "running"}]
      BY <1>3 DEF StartEngine
    <3>3. UNCHANGED <<quit, stop, server, mach>> /\ Keep
      BY <1>3 DEF StartEngine
    <3> QED
      BY ONLY HandshakeInv, <3>1, <3>2, <3>3
         DEF HandshakeInv, TypeOK, Keep, pluginVars, Starting, Stopping
  <2>2. ProcessPhases'
    BY <1>3 DEF StartEngine
  <2>3. RunningRegions'
    BY <1>3 DEF StartEngine
  <2>4. OffersExist'
    BY <1>3 DEF StartEngine
  <2>5. CallsInProgress'
    BY <1>3 DEF StartEngine
  <2>6. ReadyBeforeOffered'
    BY <1>3 DEF StartEngine
  <2> QED
    BY <2>1, <2>2, <2>3, <2>4, <2>5, <2>6
<1>4. CASE SpawnMachThread
  BY <1>4 DEF SpawnMachThread
<1>5. CASE CheckQuit
  BY <1>5 DEF CheckQuit
<1>6. CASE EnterRunLoop
  BY <1>6 DEF EnterRunLoop
<1>7. CASE RunLoopTimeout
  BY <1>7 DEF RunLoopTimeout
<1>8. CASE StopEngine
  BY <1>8 DEF StopEngine
<1>9. CASE RequestStop
  BY <1>9 DEF RequestStop
<1>10. CASE Join
  BY <1>10 DEF Join
<1>11. CASE TearDown
  <2>1. TypeOK'
    <3>1. main' = "exit" /\ server' = FALSE
      BY <1>11 DEF TearDown
    <3>2. UNCHANGED <<quit, stop, mach, status>> /\ Keep
      BY <1>11 DEF TearDown
    <3> QED
      BY ONLY HandshakeInv, <3>1, <3>2
         DEF HandshakeInv, TypeOK, Keep, pluginVars, Stopping
  <2>2. ProcessPhases'
    BY <1>11 DEF TearDown
  <2>3. RunningRegions'
    BY <1>11 DEF TearDown
  <2>4. OffersExist'
    BY <1>11 DEF TearDown
  <2>5. CallsInProgress'
    BY <1>11 DEF TearDown
  <2>6. ReadyBeforeOffered'
    BY <1>11 DEF TearDown
  <2> QED
    BY <2>1, <2>2, <2>3, <2>4, <2>5, <2>6
<1>12. CASE Exit
  <2>1. TypeOK'
    <3>1. /\ main' = "down" /\ mach' = "none"
          /\ handling' \in 0 .. MaxAttempts
      BY <1>12 DEF Exit
    <3>2. quit' = FALSE /\ stop' = FALSE /\ server' = FALSE
      BY <1>12 DEF Exit
    <3>3. port' \in [Attempts -> PortStates]
      BY <1>12 DEF Exit
    <3>4. UNCHANGED <<gen, killed, status, requests, offer, pluginVars>>
      BY <1>12 DEF Exit
    <3> QED
      BY ONLY HandshakeInv, <3>1, <3>2, <3>3, <3>4
         DEF HandshakeInv, TypeOK, pluginVars
  <2>2. /\ main = "exit" /\ main' = "down" /\ mach' = "none"
        /\ UNCHANGED <<gen, killed, status, offer, pluginVars>>
    BY <1>12 DEF Exit
  <2>3. \A a \in Attempts :
          port'[a] # port[a] => port[a] # "none" /\ port'[a] = "notified"
    BY <1>12 DEF Exit
  <2>4. ProcessPhases' /\ RunningRegions'
    BY <2>2
  <2>5. OffersExist'
    BY <2>2, <2>3
  <2>6. CallsInProgress'
    <3>1. plug = "map" => attempt \in Attempts /\ port'[attempt] = "replied"
      BY <1>12 DEF Exit
    <3> QED
      BY <2>2, <3>1
  <2>7. ReadyBeforeOffered'
    BY <2>2
  <2> QED
    BY <2>1, <2>4, <2>5, <2>6, <2>7
<1> QED
  BY <1>1, <1>2, <1>3, <1>4, <1>5, <1>6, <1>7, <1>8, <1>9, <1>10, <1>11, <1>12
       DEF MainStep

(* The mach thread: only HandleMessage adds an offer, of a region that is   *)
(* running, or whose helper stops.                                         *)
LEMMA MachStepInv == HandshakeInv /\ MachStep => HandshakeInv'
<1> SUFFICES ASSUME HandshakeInv, MachStep PROVE HandshakeInv'
  OBVIOUS
<1> USE HandshakeAssumption DEF HandshakeInv, Launches, Attempts, TypeOK,
     ProcessPhases, RunningRegions, OffersExist, CallsInProgress,
     ReadyBeforeOffered, Offered, EngineOn, Starting, Serving, Stopping,
     PortStates
<1> USE DEF MachOnly, pluginVars, OldestAlive
<1>1. CASE CheckStop
  BY <1>1 DEF CheckStop
<1>2. CASE ReceiveRequest
  <2>1. TypeOK'
    <3>1. requests' \in Seq(Attempts) /\ Len(requests') <= QueueLimit
      BY <1>2 DEF ReceiveRequest
    <3>2. handling' \in 0 .. MaxAttempts
      <4>1. requests \in Seq(Attempts) /\ requests # <<>>
        BY <1>2 DEF ReceiveRequest
      <4>2. handling' = Head(requests)
        BY ONLY <1>2 DEF ReceiveRequest
      <4> QED
        BY ONLY <4>1, <4>2, HandshakeAssumption
    <3>3. mach' = "handle" /\ UNCHANGED <<port, offer>> /\ MachOnly
      BY <1>2 DEF ReceiveRequest
    <3> QED
      BY ONLY HandshakeInv, <3>1, <3>2, <3>3
         DEF HandshakeInv, TypeOK, MachOnly, pluginVars
  <2>2. ProcessPhases'
    BY <1>2 DEF ReceiveRequest
  <2>3. RunningRegions'
    BY <1>2 DEF ReceiveRequest
  <2>4. OffersExist'
    BY <1>2 DEF ReceiveRequest
  <2>5. CallsInProgress'
    BY <1>2 DEF ReceiveRequest
  <2>6. ReadyBeforeOffered'
    BY <1>2 DEF ReceiveRequest
  <2> QED
    BY <2>1, <2>2, <2>3, <2>4, <2>5, <2>6
<1>3. CASE ServerReceiveFails
  BY <1>3 DEF ServerReceiveFails
<1>4. CASE HandleMessage
  <2>1. gen \in Launches /\ handling \in Attempts
    BY <1>4 DEF HandleMessage
  <2>2. requests' \in Seq(Attempts) /\ Len(requests') <= QueueLimit
    BY <1>4 DEF HandleMessage
  <2>3. port' \in [Attempts -> PortStates]
    BY <1>4, <2>1 DEF HandleMessage
  <2>4. offer' \in [Attempts -> 0 .. MaxLaunches]
    BY <1>4, <2>1 DEF HandleMessage
  <2>5. TypeOK'
    <3>1. mach' = "check" /\ handling' = 0 /\ MachOnly
      BY <1>4 DEF HandleMessage
    <3> QED
      BY <2>2, <2>3, <2>4, <3>1
  <2>6. OffersExist'
    <3>1. CASE port[handling] = "open"
      <4>1. \A a \in Attempts :
              /\ a # handling => offer'[a] = offer[a] /\ port'[a] = port[a]
              /\ a = handling =>
                   \/ offer'[a] = gen /\ port'[a] = "replied"
                   \/ offer'[a] = offer[a] /\ port'[a] = "dropped"
        BY <1>4, <2>1, <3>1 DEF HandleMessage
      <4>2. handling <= attempt
        BY <2>1, <3>1
      <4>3. gen' = gen /\ attempt' = attempt /\ mapped' = mapped
        BY <1>4 DEF HandleMessage
      <4> QED
        BY <2>1, <4>1, <4>2, <4>3
    <3>2. CASE port[handling] # "open"
      BY <1>4, <3>2 DEF HandleMessage
    <3> QED
      BY <3>1, <3>2
  <2>7. ProcessPhases' /\ RunningRegions'
    BY <1>4 DEF HandleMessage
  <2>8. CallsInProgress'
    BY <1>4, <2>1 DEF HandleMessage
  <2>9. ReadyBeforeOffered'
    <3>1. status[gen] = "running" \/ main \in Stopping
      BY <1>4 DEF HandleMessage
    <3>2. Offered' \subseteq Offered \cup {gen}
      BY ONLY <1>4, <2>1, HandshakeInv
         DEF HandshakeInv, TypeOK, HandleMessage, MachOnly, pluginVars, Offered
    <3>3. gen' = gen /\ status' = status /\ main' = main
      BY <1>4 DEF HandleMessage
    <3> QED
      BY ONLY <3>1, <3>2, <3>3, HandshakeInv
         DEF HandshakeInv, ReadyBeforeOffered
  <2> QED
    BY <2>5, <2>6, <2>7, <2>8, <2>9
<1> QED
  BY <1>1, <1>2, <1>3, <1>4 DEF MachStep

(* OnStartIO() under way: it maps nothing but what it was offered.         *)
LEMMA CallStepInv == HandshakeInv /\ CallStep => HandshakeInv'
<1> SUFFICES ASSUME HandshakeInv, CallStep PROVE HandshakeInv'
  OBVIOUS
<1> USE HandshakeAssumption DEF HandshakeInv, Launches, Attempts, TypeOK,
     ProcessPhases, RunningRegions, OffersExist, CallsInProgress,
     ReadyBeforeOffered, Offered, EngineOn, Starting, Serving, Stopping,
     PortStates
<1> USE DEF PluginOnly, helperVars, Return, OldestAlive
<1>1. CASE Send
  <2>1. TypeOK'
    <3>1. requests' \in Seq(Attempts) /\ Len(requests') <= QueueLimit
      BY <1>1 DEF Send
    <3>2. plug' = "wait" /\ PluginOnly
          /\ UNCHANGED <<attempt, mapped, result, since, port>>
      BY ONLY <1>1 DEF Send
    <3> QED
      BY ONLY HandshakeInv, <3>1, <3>2
         DEF HandshakeInv, TypeOK, PluginOnly, helperVars
  <2>2. ProcessPhases' /\ RunningRegions'
    BY <1>1 DEF Send
  <2>3. OffersExist' /\ CallsInProgress'
    BY <1>1 DEF Send
  <2>4. ReadyBeforeOffered'
    BY <1>1 DEF Send
  <2> QED
    BY <2>1, <2>2, <2>3, <2>4
<1>2. CASE SendFails
  BY <1>2 DEF SendFails
<1>3. CASE ReceiveReply
  <2>1. TypeOK'
    <3>1. plug' = "map" /\ PluginOnly
          /\ UNCHANGED <<attempt, mapped, result, since, requests, port>>
      BY ONLY <1>3 DEF ReceiveReply
    <3> QED
      BY ONLY HandshakeInv, <3>1
         DEF HandshakeInv, TypeOK, PluginOnly, helperVars
  <2>2. ProcessPhases' /\ RunningRegions'
    BY <1>3 DEF ReceiveReply
  <2>3. OffersExist' /\ CallsInProgress'
    BY <1>3 DEF ReceiveReply
  <2>4. ReadyBeforeOffered'
    BY <1>3 DEF ReceiveReply
  <2> QED
    BY <2>1, <2>2, <2>3, <2>4
<1>4. CASE UnexpectedReply
  BY <1>4 DEF UnexpectedReply
<1>5. CASE ReceiveFails
  BY <1>5 DEF ReceiveFails
<1>6. CASE Map
  <2>1. attempt \in Attempts /\ offer[attempt] \in 0 .. MaxLaunches
    BY <1>6 DEF Map
  <2>2. TypeOK'
    BY <1>6, <2>1 DEF Map
  <2>3. ProcessPhases' /\ RunningRegions'
    BY <1>6 DEF Map
  <2>4. OffersExist' /\ CallsInProgress'
    <3>1. offer[attempt] # 0 /\ offer[attempt] <= gen
      BY <1>6, <2>1 DEF Map
    <3>2. /\ \/ plug' = "status" /\ mapped' = offer[attempt] /\ since' = since
             \/ plug' = "idle" /\ mapped' = mapped /\ since' = 0
          /\ UNCHANGED <<main, gen, attempt, port, offer>>
      BY <1>6 DEF Map
    <3>3. OffersExist'
      BY <3>1, <3>2
    <3>4. CallsInProgress'
      BY <3>1, <3>2
    <3> QED
      BY <3>3, <3>4
  <2>5. Offered' \subseteq Offered
    <3>1. mapped' \in {mapped, offer[attempt]} /\ offer' = offer
      BY ONLY <1>6 DEF Map, PluginOnly
    <3>2. mapped' \in Offered
      BY ONLY <2>1, <3>1 DEF Offered
    <3> QED
      BY ONLY <3>1, <3>2 DEF Offered
  <2>6. ReadyBeforeOffered'
    BY <1>6, <2>5 DEF Map
  <2> QED
    BY <2>2, <2>3, <2>4, <2>6
<1>7. CASE CheckStatus
  BY <1>7 DEF CheckStatus
<1> QED
  BY <1>1, <1>2, <1>3, <1>4, <1>5, <1>6, <1>7 DEF CallStep

(* OnStartIO() begins: a new reply port has no offer yet.                  *)
LEMMA StartIOInv == HandshakeInv /\ StartIO => HandshakeInv'
<1> SUFFICES ASSUME HandshakeInv, StartIO PROVE HandshakeInv'
  OBVIOUS
<1> USE HandshakeAssumption DEF HandshakeInv, Launches, Attempts, TypeOK,
     ProcessPhases, RunningRegions, OffersExist, CallsInProgress,
     ReadyBeforeOffered, Offered, EngineOn, Starting, Serving, Stopping,
     PortStates
<1> USE DEF PluginOnly, helperVars, Return, OldestAlive
<1>1. CASE Reuse
  BY <1>1 DEF Reuse
<1>2. CASE LookUp
  BY <1>2 DEF LookUp
<1>3. CASE LookUpFails
  BY <1>3 DEF LookUpFails
<1> QED
  BY <1>1, <1>2, <1>3 DEF StartIO

(* launchd, signals, kills and restarts of coreaudiod.                     *)
LEMMA EnvironmentInv ==
  HandshakeInv /\ (Launch \/ Signal \/ Kill \/ PluginRestart) => HandshakeInv'
<1> SUFFICES ASSUME HandshakeInv, Launch \/ Signal \/ Kill \/ PluginRestart
             PROVE HandshakeInv'
  OBVIOUS
<1> USE HandshakeAssumption DEF HandshakeInv, Launches, Attempts, TypeOK,
     ProcessPhases, RunningRegions, OffersExist, CallsInProgress,
     ReadyBeforeOffered, Offered, EngineOn, Starting, Serving, Stopping,
     PortStates
<1> USE DEF Goto, Keep, helperVars, pluginVars, OldestAlive, ProcessGone
<1>1. CASE Launch
  <2>1. TypeOK'
    BY <1>1 DEF Launch
  <2>2. ProcessPhases' /\ RunningRegions'
    BY <1>1 DEF Launch
  <2>3. OffersExist' /\ CallsInProgress'
    BY <1>1 DEF Launch
  <2>4. ReadyBeforeOffered'
    BY <1>1 DEF Launch
  <2> QED
    BY <2>1, <2>2, <2>3, <2>4
<1>2. CASE Signal
  BY <1>2 DEF Signal
<1>3. CASE Kill
  <2>1. requests' \in Seq(Attempts) /\ Len(requests') <= QueueLimit
    BY <1>3 DEF Kill
  <2>2. killed' \subseteq Launches /\ handling' \in 0 .. MaxAttempts
    BY <1>3 DEF Kill
  <2>3. port' \in [Attempts -> PortStates]
    BY <1>3 DEF Kill
  <2>4. offer' \in [Attempts -> 0 .. MaxLaunches]
    BY <1>3 DEF Kill
  <2>5. TypeOK'
    BY <1>3, <2>1, <2>2, <2>3, <2>4 DEF Kill
  <2>6. ProcessPhases' /\ RunningRegions'
    BY <1>3 DEF Kill
  <2>7. OffersExist' /\ CallsInProgress' /\ ReadyBeforeOffered'
    BY <1>3 DEF Kill
  <2> QED
    BY <2>5, <2>6, <2>7
<1>4. CASE PluginRestart
  BY <1>4 DEF PluginRestart
<1> QED
  BY <1>1, <1>2, <1>3, <1>4

LEMMA StutterInv == HandshakeInv /\ UNCHANGED vars => HandshakeInv'
  BY DEF vars, helperVars, pluginVars, HandshakeInv, OldestAlive, TypeOK,
       ProcessPhases, RunningRegions, OffersExist, CallsInProgress,
       ReadyBeforeOffered, Offered, EngineOn, Starting, Serving, Stopping

-----------------------------------------------------------------------------
(* The inductive invariant holds in every state that launches, failures,   *)
(* kills, timeouts and restarts of coreaudiod can lead to.                 *)
THEOREM HandshakeInvariant == Spec => []HandshakeInv
<1>1. Init => HandshakeInv
  BY InitHandshakeInv
<1>2. HandshakeInv /\ [Next]_vars => HandshakeInv'
  BY MainStepInv, MachStepInv, CallStepInv, StartIOInv, EnvironmentInv,
     StutterInv DEF Next
<1> QED
  BY <1>1, <1>2, PTL DEF Spec

(* Every variable keeps its type; in particular the queue of the service   *)
(* port stays within its limit and no region is offered that never was.    *)
THEOREM TypeCorrect == Spec => []TypeOK
<1>1. HandshakeInv => TypeOK
  BY DEF HandshakeInv
<1> QED
  BY <1>1, HandshakeInvariant, PTL

(* main.cpp joins the mach thread before server.stop() gives back the      *)
(* ports that thread receives and sends on.                                *)
THEOREM ServerOutlives == Spec => []ServerOutlivesThread
<1>1. HandshakeInv => ServerOutlivesThread
  BY DEF HandshakeInv, ProcessPhases, EngineOn, ServerOutlivesThread
<1> QED
  BY <1>1, HandshakeInvariant, PTL

(* A request is answered only by a helper whose engine is running, so a    *)
(* plugin never meets a healthy helper's region before it says so.         *)
THEOREM OffersAreReady == Spec => []ReadyBeforeOffered
<1>1. HandshakeInv => ReadyBeforeOffered
  BY DEF HandshakeInv
<1> QED
  BY <1>1, HandshakeInvariant, PTL

(* Every exit of main(), the three failing ones too, leaves a region that  *)
(* does not claim a running helper.                                        *)
THEOREM ExitsAreClean == Spec => []CleanExitSaysOffline
<1>1. HandshakeInv => CleanExitSaysOffline
  BY DEF HandshakeInv, RunningRegions, EngineOn, Serving, CleanExitSaysOffline
<1> QED
  BY <1>1, HandshakeInvariant, PTL

(* connect() maps the region of a helper that was alive during the call,   *)
(* although requests that timed out are still answered later.              *)
THEOREM RegionsAreFresh == Spec => []FreshRegion
<1>1. HandshakeInv => FreshRegion
  <2> SUFFICES ASSUME HandshakeInv, plug = "map"
               PROVE offer[attempt] >= since
    BY DEF FreshRegion
  <2>1. attempt \in Attempts /\ port[attempt] = "replied"
    BY DEF HandshakeInv, CallsInProgress
  <2>2. offer[attempt] # 0
    BY <2>1 DEF HandshakeInv, OffersExist
  <2> QED
    BY <2>1, <2>2 DEF HandshakeInv, CallsInProgress
<1> QED
  BY <1>1, HandshakeInvariant, PTL

-----------------------------------------------------------------------------
(* Requests: each is in one place, or answered.                            *)
LEMMA InitRequestInv == Init => RequestInv
  BY DEF Init, RequestInv

(* Steps that touch neither the requests nor their reply ports.            *)
LEMMA RequestStutter ==
  RequestInv /\ UNCHANGED <<main, mach, handling, requests, plug, attempt, port>>
    => RequestInv'
  BY DEF RequestInv

(* The main thread: it ends the mach thread only when that has exited.     *)
LEMMA MainStepRequests ==
  HandshakeInv /\ RequestInv /\ (MainStep \/ Launch \/ Signal) /\ ~Exit
    => RequestInv'
<1> SUFFICES ASSUME HandshakeInv, RequestInv, MainStep \/ Launch \/ Signal, ~Exit
             PROVE  RequestInv'
  OBVIOUS
<1> USE DEF Keep, Goto, pluginVars
<1>1. /\ UNCHANGED <<handling, requests, plug, attempt, port>>
      /\ main' # "down"
  BY DEF MainStep, Launch, Signal, AllocateRegion, CheckIn, StartEngine,
         SpawnMachThread, CheckQuit, EnterRunLoop, RunLoopTimeout, StopEngine,
         RequestStop, Join, TearDown
<1>2. mach' = mach \/ main = "spawn"
  BY DEF MainStep, Launch, Signal, AllocateRegion, CheckIn, StartEngine,
         SpawnMachThread, CheckQuit, EnterRunLoop, RunLoopTimeout, StopEngine,
         RequestStop, Join, TearDown
<1>3. main = "spawn" => mach # "handle"
  BY DEF HandshakeInv, ProcessPhases, Serving
<1> QED
  BY <1>1, <1>2, <1>3 DEF RequestInv

(* The mach thread takes the first request, and answers the one it has.    *)
LEMMA MachStepRequests == HandshakeInv /\ RequestInv /\ MachStep => RequestInv'
<1> SUFFICES ASSUME HandshakeInv, RequestInv, MachStep PROVE RequestInv'
  OBVIOUS
<1> USE DEF MachOnly, pluginVars
<1>1. requests \in Seq(Attempts) /\ handling \in 0 .. MaxAttempts
      /\ attempt \in 0 .. MaxAttempts
      /\ port \in [Attempts -> PortStates]
  BY DEF HandshakeInv, TypeOK
<1>2. CASE CheckStop \/ ServerReceiveFails
  BY <1>2 DEF CheckStop, ServerReceiveFails, RequestInv
<1>3. CASE ReceiveRequest
  <2>1. /\ Len(requests) > 0 /\ handling' = requests[1]
        /\ Len(requests') = Len(requests) - 1
        /\ \A i \in 1 .. Len(requests') : requests'[i] = requests[i + 1]
    BY <1>1, <1>3 DEF ReceiveRequest
  <2>2. mach' = "handle" /\ UNCHANGED <<main, plug, attempt, port>>
    BY <1>3 DEF ReceiveRequest
  <2>3. handling = 0
    BY <1>3 DEF ReceiveRequest, RequestInv
  <2>4. \A i \in 1 .. Len(requests') : i + 1 \in 1 .. Len(requests) /\ i + 1 # 1
    BY <1>1, <2>1
  <2>5. \A i \in 1 .. Len(requests) :
          i = 1 \/ \E j \in 1 .. Len(requests') : i = j + 1
    <3>1. ASSUME NEW i \in 1 .. Len(requests), i # 1
          PROVE  i - 1 \in 1 .. Len(requests') /\ i = (i - 1) + 1
      BY <1>1, <2>1, <3>1
    <3> QED
      BY <3>1
  <2>6. 1 \in 1 .. Len(requests)
    BY <1>1, <2>1
  <2>7. requests[1] \in Attempts
    BY <1>1, <2>6
  <2>8. \A i, j \in 1 .. Len(requests') : requests'[i] = requests'[j] => i = j
    BY <1>1, <2>1, <2>4 DEF RequestInv
  <2>9. \A i \in 1 .. Len(requests') :
          /\ requests'[i] <= attempt' /\ requests'[i] # handling'
          /\ port'[requests'[i]] \in {"open", "dead"}
    BY <2>1, <2>2, <2>4, <2>6 DEF RequestInv
  <2>10. /\ mach' = "handle" /\ handling' <= attempt'
         /\ port'[handling'] \in {"open", "dead"}
    BY <2>1, <2>2, <2>6 DEF RequestInv
  <2>11. plug' = "send" =>
           /\ port'[attempt'] = "open" /\ attempt' # handling'
           /\ \A i \in 1 .. Len(requests') : requests'[i] # attempt'
    BY <2>1, <2>2, <2>4, <2>6 DEF RequestInv
  <2>12. plug' = "wait" =>
           /\ port'[attempt'] \notin {"none", "dead"}
           /\ port'[attempt'] = "open" =>
                \/ handling' = attempt'
                \/ \E i \in 1 .. Len(requests') : requests'[i] = attempt'
    <3>1. SUFFICES ASSUME plug = "wait", port[attempt] = "open"
                   PROVE  \/ requests[1] = attempt
                          \/ \E i \in 1 .. Len(requests') : requests'[i] = attempt
      BY <2>1, <2>2 DEF RequestInv
    <3>2. attempt # 0
      BY <3>1 DEF HandshakeInv, CallsInProgress, Attempts
    <3>3. PICK i \in 1 .. Len(requests) : requests[i] = attempt
      BY <2>3, <3>1, <3>2 DEF RequestInv
    <3> QED
      BY <2>1, <2>5, <3>3
  <2>13. main' = "down" => \A a \in Attempts : port'[a] # "dropped"
    BY <2>2 DEF RequestInv
  <2> QED
    BY <2>8, <2>9, <2>10, <2>11, <2>12, <2>13 DEF RequestInv
<1>4. CASE HandleMessage
  <2>1. /\ mach' = "check" /\ handling' = 0
        /\ UNCHANGED <<requests, plug, attempt>>
    BY <1>4 DEF HandleMessage
  <2>2. handling \in Attempts
    BY <1>1, <1>4, HandshakeAssumption
       DEF HandleMessage, HandshakeInv, ProcessPhases, Attempts
  <2>3. \A a \in Attempts :
          \/ port'[a] = port[a] /\ (a = handling => port[a] # "open")
          \/ a = handling /\ port'[a] \in {"replied", "dropped"}
    BY <1>1, <1>4, <2>2 DEF HandleMessage
  <2>4. \A i \in 1 .. Len(requests) :
          requests[i] \in Attempts /\ requests[i] # 0
    BY <1>1, HandshakeAssumption DEF Attempts
  <2>5. plug \in {"send", "wait"} => attempt \in Attempts
    BY DEF HandshakeInv, CallsInProgress
  <2>6. main' # "down"
    BY <1>4 DEF HandleMessage, HandshakeInv, ProcessPhases, Serving
  <2> QED
    BY <2>1, <2>2, <2>3, <2>4, <2>5, <2>6 DEF RequestInv, Attempts
<1> QED
  BY <1>2, <1>3, <1>4 DEF MachStep

(* The plugin: a new port, whose number nobody has, and its one request.   *)
LEMMA CallStepRequests ==
  HandshakeInv /\ RequestInv /\ (StartIO \/ CallStep) => RequestInv'
<1> SUFFICES ASSUME HandshakeInv, RequestInv, StartIO \/ CallStep
             PROVE  RequestInv'
  OBVIOUS
<1> USE DEF PluginOnly, helperVars, Return
<1>1. /\ requests \in Seq(Attempts) /\ attempt \in 0 .. MaxAttempts
      /\ handling \in 0 .. MaxAttempts
      /\ port \in [Attempts -> PortStates]
      /\ MaxAttempts \in Nat
  BY HandshakeAssumption DEF HandshakeInv, TypeOK
<1>2. main' = main /\ mach' = mach /\ handling' = handling
  BY DEF StartIO, CallStep, Reuse, LookUp, LookUpFails, Send, SendFails,
         ReceiveReply, UnexpectedReply, ReceiveFails, Map, CheckStatus
<1>3. CASE Reuse \/ LookUpFails \/ SendFails \/ ReceiveReply
           \/ UnexpectedReply \/ ReceiveFails \/ Map \/ CheckStatus
  <2>1. /\ UNCHANGED <<requests, attempt, port>>
        /\ plug' \notin {"send", "wait"}
    BY <1>3 DEF Reuse, LookUpFails, SendFails, ReceiveReply, UnexpectedReply,
                ReceiveFails, Map, CheckStatus
  <2> QED
    BY <1>2, <2>1 DEF RequestInv
<1>4. CASE LookUp
  <2>1. /\ attempt' = attempt + 1 /\ attempt' \in Attempts
        /\ plug' = "send" /\ requests' = requests
    BY <1>1, <1>4 DEF LookUp, Attempts
  <2>2. \A a \in Attempts : port'[a] = IF a = attempt' THEN "open" ELSE port[a]
    BY <1>1, <1>4, <2>1 DEF LookUp
  <2>3. \A i \in 1 .. Len(requests) :
          requests[i] \in Attempts /\ requests[i] <= attempt
    BY <1>1 DEF RequestInv
  <2>4. \A i \in 1 .. Len(requests) : requests[i] # attempt'
    BY <1>1, <2>1, <2>3 DEF Attempts
  <2>5. handling # 0 => handling \in Attempts /\ handling <= attempt
    BY <1>1 DEF RequestInv, Attempts
  <2>6. handling # attempt'
    BY <1>1, <2>1, <2>5
  <2> QED
    BY <1>1, <1>2, <2>1, <2>2, <2>3, <2>4, <2>5, <2>6 DEF RequestInv, Attempts
<1>5. CASE Send
  <2>1. /\ attempt \in Attempts /\ UNCHANGED <<attempt, port>>
        /\ plug = "send" /\ plug' = "wait"
    BY <1>5 DEF Send, HandshakeInv, CallsInProgress
  <2>2. /\ Len(requests') = Len(requests) + 1
        /\ requests'[Len(requests')] = attempt
        /\ \A i \in 1 .. Len(requests) : requests'[i] = requests[i]
    BY <1>1, <1>5, <2>1 DEF Send
  <2>3. \A i \in 1 .. Len(requests') :
          i \in 1 .. Len(requests) \/ i = Len(requests')
    BY <1>1, <2>2
  <2>4. Len(requests') \in 1 .. Len(requests')
    BY <1>1, <2>2
  <2>5. \A i \in 1 .. Len(requests) : requests[i] # attempt
    BY <2>1 DEF RequestInv
  <2>6. \A i, j \in 1 .. Len(requests') : requests'[i] = requests'[j] => i = j
    BY <2>2, <2>3, <2>5 DEF RequestInv
  <2>7. \A i \in 1 .. Len(requests') :
          /\ requests'[i] <= attempt /\ requests'[i] # handling
          /\ port[requests'[i]] \in {"open", "dead"}
    <3>1. attempt <= attempt /\ attempt # handling /\ port[attempt] = "open"
      BY <1>1, <2>1 DEF RequestInv
    <3> QED
      BY <2>2, <2>3, <3>1 DEF RequestInv
  <2>8. handling # 0 =>
          mach = "handle" /\ handling <= attempt /\ port[handling] \in {"open", "dead"}
    BY DEF RequestInv
  <2>9. port[attempt] \notin {"none", "dead"}
    BY <2>1 DEF RequestInv
  <2> QED
    BY <1>2, <2>1, <2>2, <2>4, <2>6, <2>7, <2>8, <2>9 DEF RequestInv
<1> QED
  BY <1>3, <1>4, <1>5 DEF StartIO, CallStep

(* Exits, kills and restarts mark the ports and leave the queue alone.     *)
LEMMA CrashRequests ==
  HandshakeInv /\ RequestInv /\ (Exit \/ Kill \/ PluginRestart) => RequestInv'
<1> SUFFICES ASSUME HandshakeInv, RequestInv, Exit \/ Kill \/ PluginRestart
             PROVE  RequestInv'
  OBVIOUS
<1>1. /\ requests \in Seq(Attempts) /\ handling \in 0 .. MaxAttempts
      /\ MaxAttempts \in Nat
      /\ plug \in {"send", "wait"} => attempt \in Attempts
  BY HandshakeAssumption DEF HandshakeInv, TypeOK, CallsInProgress
<1>2. \A i \in 1 .. Len(requests) : requests[i] \in Attempts
  BY <1>1
<1>3. handling # 0 => handling \in Attempts
  BY <1>1 DEF Attempts
<1>4. CASE Exit \/ Kill
  <2>1. /\ handling' = 0 /\ UNCHANGED <<requests, plug, attempt>>
        /\ \A a \in Attempts :
             port'[a] = IF \/ port[a] = "dropped"
                           \/ a = handling /\ port[a] = "open"
                        THEN "notified" ELSE port[a]
    BY <1>4 DEF Exit, Kill, ProcessGone, pluginVars
  <2>2. \A a \in Attempts : port'[a] # "dropped"
    BY <2>1
  <2>3. \A i \in 1 .. Len(requests) : port'[requests[i]] = port[requests[i]]
    BY <1>2, <2>1 DEF RequestInv
  <2>4. plug = "send" => port'[attempt] = port[attempt] /\ attempt # 0
    BY <1>1, <2>1 DEF RequestInv, Attempts
  <2>5. plug = "wait" =>
          /\ port'[attempt] \notin {"none", "dead"}
          /\ port'[attempt] = "open" =>
               port[attempt] = "open" /\ handling # attempt
    BY <1>1, <2>1 DEF RequestInv
  <2>6. \A i \in 1 .. Len(requests) : requests[i] # 0
    BY <1>2 DEF Attempts
  <2> QED
    BY <2>1, <2>2, <2>3, <2>4, <2>5, <2>6 DEF RequestInv
<1>5. CASE PluginRestart
  <2>1. /\ plug' = "idle" /\ UNCHANGED <<mach, handling, requests, attempt>>
        /\ \A a \in Attempts :
             port'[a] = IF port[a] = "none" THEN "none" ELSE "dead"
    BY <1>5 DEF PluginRestart, helperVars
  <2> QED
    BY <1>2, <1>3, <2>1 DEF RequestInv
<1> QED
  BY <1>4, <1>5

(* However often calls time out, sends fail, helpers are killed and        *)
(* coreaudiod is restarted: no request is in two places, the one a call    *)
(* waits for is in one, or answered, or was dropped by a helper that lives.*)
THEOREM RequestsKept == Spec => []RequestInv
<1>1. HandshakeInv /\ RequestInv /\ [Next]_vars => RequestInv'
  <2>1. RequestInv /\ UNCHANGED vars => RequestInv'
    BY RequestStutter DEF vars, helperVars, pluginVars
  <2> QED
    BY <2>1, MainStepRequests, MachStepRequests, CallStepRequests,
       CrashRequests DEF Next
<1> QED
  BY <1>1, InitRequestInv, HandshakeInvariant, PTL DEF Spec

(* The request of a waiting connect() has exactly one holder until it is   *)
(* answered or the kernel gives notice.  The one exception is a helper that*)
(* failed to send its answer and lives on: the call waits for its timeout. *)
THEOREM RequestsNeverVanish == Spec => []NoRequestVanishes
<1>1. HandshakeInv /\ RequestInv => NoRequestVanishes
  <2> SUFFICES ASSUME HandshakeInv, RequestInv, plug = "wait"
               PROVE  IF port[attempt] = "open"
                      THEN \E h \in Holders(attempt) : Holders(attempt) = {h}
                      ELSE /\ Holders(attempt) = {}
                           /\ \/ port[attempt] \in {"replied", "notified"}
                              \/ port[attempt] = "dropped" /\ main # "down"
    BY DEF NoRequestVanishes
  <2>1. /\ requests \in Seq(Attempts) /\ attempt \in Attempts
        /\ MaxAttempts \in Nat /\ attempt # 0 /\ port[attempt] \in PortStates
    BY HandshakeAssumption DEF HandshakeInv, TypeOK, CallsInProgress, Attempts
  <2>2. DOMAIN requests = 1 .. Len(requests) /\ 0 \notin DOMAIN requests
    BY <2>1
  <2>3. CASE port[attempt] # "open"
    <3>1. Holders(attempt) = {}
      BY <2>1, <2>2, <2>3 DEF Holders, RequestInv
    <3>2. port[attempt] \in {"replied", "dropped", "notified"}
      BY <2>1, <2>3 DEF PortStates, RequestInv
    <3>3. port[attempt] = "dropped" => main # "down"
      BY <2>1 DEF RequestInv
    <3> QED
      BY <2>3, <3>1, <3>2, <3>3
  <2>4. CASE port[attempt] = "open" /\ handling = attempt
    <3>1. Holders(attempt) = {0}
      BY <2>2, <2>4 DEF Holders, RequestInv
    <3> QED
      BY <2>4, <3>1
  <2>5. CASE port[attempt] = "open" /\ handling # attempt
    <3>1. PICK i \in 1 .. Len(requests) : requests[i] = attempt
      BY <2>5 DEF RequestInv
    <3>2. Holders(attempt) = {i}
      BY <2>2, <2>5, <3>1 DEF Holders, RequestInv
    <3> QED
      BY <2>5, <3>2
  <2> QED
    BY <2>3, <2>4, <2>5
<1> QED
  BY <1>1, HandshakeInvariant, RequestsKept, PTL

-----------------------------------------------------------------------------
(* What no step of the handshake does.                                     *)

(* A port that waits for its answer has had none.                          *)
OpenUnanswered == \A a \in Attempts : port[a] = "open" => offer[a] = 0

LEMMA OpenUnansweredInvariant == Spec => []OpenUnanswered
<1>1. Init => OpenUnanswered
  BY DEF Init, OpenUnanswered
<1>2. ASSUME HandshakeInv, OpenUnanswered, [Next]_vars
      PROVE  OpenUnanswered'
  <2> USE DEF OpenUnanswered
  <2>1. port \in [Attempts -> PortStates]
        /\ offer \in [Attempts -> 0 .. MaxLaunches]
    BY <1>2 DEF HandshakeInv, TypeOK
  <2>2. CASE HandleMessage
    BY <1>2, <2>1, <2>2 DEF HandleMessage
  <2>3. CASE LookUp
    <3>1. attempt + 1 \in Attempts /\ offer[attempt + 1] = 0
      BY <1>2, <2>3, HandshakeAssumption
         DEF LookUp, HandshakeInv, TypeOK, OffersExist, Attempts
    <3> QED
      BY <1>2, <2>1, <2>3, <3>1 DEF LookUp, PluginOnly
  <2>4. CASE Exit \/ Kill
    BY <1>2, <2>1, <2>4 DEF Exit, Kill, ProcessGone
  <2>5. CASE PluginRestart
    BY <2>5 DEF PluginRestart
  <2>6. CASE MainStep /\ ~Exit
    BY <1>2, <2>6 DEF MainStep, AllocateRegion, CheckIn, StartEngine,
       SpawnMachThread, CheckQuit, EnterRunLoop, RunLoopTimeout, StopEngine,
       RequestStop, Join, TearDown, Keep
  <2>7. CASE CheckStop \/ ReceiveRequest \/ ServerReceiveFails
    BY <1>2, <2>7 DEF CheckStop, ReceiveRequest, ServerReceiveFails
  <2>8. CASE CallStep \/ Reuse \/ LookUpFails
    BY <1>2, <2>8 DEF CallStep, Send, SendFails, ReceiveReply,
       UnexpectedReply, ReceiveFails, Map, CheckStatus, Reuse, LookUpFails,
       PluginOnly
  <2>9. CASE Launch \/ Signal \/ UNCHANGED vars
    BY <1>2, <2>9 DEF Launch, Signal, Keep, vars
  <2> QED
    BY <1>2, <2>2, <2>3, <2>4, <2>5, <2>6, <2>7, <2>8, <2>9
       DEF Next, MachStep, StartIO
<1> QED
  BY <1>1, <1>2, HandshakeInvariant, PTL DEF Spec

(* No reply port is answered twice, by one helper or by two, although      *)
(* requests outlive the calls that made them and are answered late.        *)
THEOREM AnswersAreFinal == Spec => AnsweredOnce
<1>1. ASSUME HandshakeInv, OpenUnanswered, [Next]_vars,
             NEW a \in Attempts, offer[a] # 0
      PROVE  offer'[a] \in {offer[a], 0}
  <2>1. CASE HandleMessage
    <3>1. port[a] # "open" /\ offer \in [Attempts -> 0 .. MaxLaunches]
      BY <1>1 DEF OpenUnanswered, HandshakeInv, TypeOK
    <3> QED
      BY <2>1, <3>1 DEF HandleMessage
  <2>2. CASE PluginRestart
    BY <2>2 DEF PluginRestart
  <2>3. CASE MainStep
    BY <2>3 DEF MainStep, AllocateRegion, CheckIn, StartEngine,
       SpawnMachThread, CheckQuit, EnterRunLoop, RunLoopTimeout, StopEngine,
       RequestStop, Join, TearDown, Exit, Keep
  <2>4. CASE CheckStop \/ ReceiveRequest \/ ServerReceiveFails
    BY <2>4 DEF CheckStop, ReceiveRequest, ServerReceiveFails
  <2>5. CASE CallStep \/ StartIO
    BY <2>5 DEF CallStep, Send, SendFails, ReceiveReply, UnexpectedReply,
       ReceiveFails, Map, CheckStatus, StartIO, Reuse, LookUp, LookUpFails,
       PluginOnly
  <2>6. CASE Launch \/ Signal \/ Kill \/ UNCHANGED vars
    BY <2>6 DEF Launch, Signal, Kill, Keep, vars
  <2> QED
    BY <1>1, <2>1, <2>2, <2>3, <2>4, <2>5, <2>6 DEF Next, MachStep
<1>2. HandshakeInv /\ OpenUnanswered /\ [Next]_vars
        => [\A a \in Attempts : offer[a] # 0 => offer'[a] \in {offer[a], 0}]_vars
  BY <1>1
<1> QED
  BY <1>2, HandshakeInvariant, OpenUnansweredInvariant, PTL
     DEF Spec, AnsweredOnce

(* OnStartIO never replaces its region: while coreaudiod lives, all calls  *)
(* are answered from the memory of the helper that served the first one.   *)
THEOREM MappingsAreKept == Spec => MappingIsKept
<1>1. ASSUME HandshakeInv, [Next]_vars, mapped # 0, mapped' # mapped
      PROVE  mapped' = 0 /\ result' = "none"
  <2>1. plug # "map"
    BY <1>1 DEF HandshakeInv, CallsInProgress
  <2>2. CASE CallStep \/ StartIO
    BY <1>1, <2>1, <2>2 DEF CallStep, Send, SendFails, ReceiveReply,
       UnexpectedReply, ReceiveFails, Map, CheckStatus, StartIO, Reuse,
       LookUp, LookUpFails
  <2>3. CASE MainStep
    BY <1>1, <2>3 DEF MainStep, AllocateRegion, CheckIn, StartEngine,
       SpawnMachThread, CheckQuit, EnterRunLoop, RunLoopTimeout, StopEngine,
       RequestStop, Join, TearDown, Exit, Keep, pluginVars
  <2>4. CASE MachStep
    BY <1>1, <2>4 DEF MachStep, CheckStop, ReceiveRequest,
       ServerReceiveFails, HandleMessage, MachOnly, pluginVars
  <2>5. CASE Launch \/ Signal \/ Kill \/ UNCHANGED vars
    BY <1>1, <2>5 DEF Launch, Signal, Kill, Keep, vars, pluginVars
  <2>6. CASE PluginRestart
    BY <2>6 DEF PluginRestart
  <2> QED
    BY <1>1, <2>2, <2>3, <2>4, <2>5, <2>6 DEF Next
<1>2. HandshakeInv /\ [Next]_vars
        => [mapped # 0 /\ mapped' # mapped => mapped' = 0 /\ result' = "none"]_vars
  BY <1>1
<1> QED
  BY <1>2, HandshakeInvariant, PTL DEF Spec, MappingIsKept

(* A successful OnStartIO has a region whose helper runs its engine, or    *)
(* was killed: that is all there is to the stale success of a dead helper. *)
THEOREM OkIsRunningOrKilled == Spec => OkMeansRunningOrKilled
<1>1. ASSUME HandshakeInv, [Next]_vars,
             plug = "status", plug' = "idle", result' = "ok"
      PROVE  \/ mapped \in killed
             \/ mapped = gen /\ main \in Serving \cup {"spawn", "stopEngine"}
  <2>1. mapped \in Launches
    BY <1>1, HandshakeAssumption
       DEF HandshakeInv, TypeOK, CallsInProgress, Launches
  <2>2. CheckStatus
    <3>1. CASE CallStep \/ StartIO
      BY <1>1, <3>1 DEF CallStep, Send, SendFails, ReceiveReply,
         UnexpectedReply, ReceiveFails, Map, StartIO, Reuse, LookUp,
         LookUpFails
    <3>2. CASE MainStep
      BY <1>1, <3>2 DEF MainStep, AllocateRegion, CheckIn, StartEngine,
         SpawnMachThread, CheckQuit, EnterRunLoop, RunLoopTimeout, StopEngine,
         RequestStop, Join, TearDown, Exit, Keep, pluginVars
    <3>3. CASE MachStep
      BY <1>1, <3>3 DEF MachStep, CheckStop, ReceiveRequest,
         ServerReceiveFails, HandleMessage, MachOnly, pluginVars
    <3>4. CASE Launch \/ Signal \/ Kill \/ UNCHANGED vars
      BY <1>1, <3>4 DEF Launch, Signal, Kill, Keep, vars, pluginVars
    <3>5. CASE PluginRestart
      BY <1>1, <3>5 DEF PluginRestart
    <3> QED
      BY <1>1, <3>1, <3>2, <3>3, <3>4, <3>5 DEF Next
  <2>3. status[mapped] = "running"
    BY <1>1, <2>2 DEF CheckStatus, Return
  <2> QED
    BY <1>1, <2>1, <2>3 DEF HandshakeInv, RunningRegions, EngineOn
<1>2. HandshakeInv /\ [Next]_vars
        => [ plug = "status" /\ plug' = "idle" /\ result' = "ok"
               => \/ mapped \in killed
                  \/ /\ mapped = gen
                     /\ main \in Serving \cup {"spawn", "stopEngine"} ]_vars
  BY <1>1
<1> QED
  BY <1>2, HandshakeInvariant, PTL DEF Spec, OkMeansRunningOrKilled

-----------------------------------------------------------------------------
(* The refinement of Connection, step by step.                             *)
LEMMA InitConnection == Init => Link!Init
  BY DEF Init, Link!Init, Phase, Starting, Serving, Stopping

(* The helper's main thread moves its phase, or says something, or neither.*)
LEMMA MainStepLink ==
  HandshakeInv /\ MainStep => Link!Next \/ UNCHANGED <<Link!helper, Link!plugin>>
<1> SUFFICES ASSUME HandshakeInv, MainStep
             PROVE  Link!Next \/ UNCHANGED <<Link!helper, Link!plugin>>
  OBVIOUS
<1> USE DEF Link!Next, Link!helper, Link!plugin, Link!Move, Goto, Publish,
     Keep, pluginVars, Phase, Starting, Serving, Stopping
<1>1. main # "down" => gen \in Launches
  BY DEF HandshakeInv, ProcessPhases
<1>2. main \in {"alloc", "checkin", "engine", "exit"} => status[gen] # "running"
  BY <1>1 DEF HandshakeInv, ProcessPhases, RunningRegions, EngineOn
<1>3. main = "spawn" => status[gen] = "running"
  BY DEF HandshakeInv, ProcessPhases, EngineOn
<1>4. CASE AllocateRegion
  BY <1>2, <1>4 DEF AllocateRegion, Link!Say, Link!GiveUp
<1>5. CASE CheckIn
  BY <1>2, <1>5 DEF CheckIn, Link!GiveUp
<1>6. CASE StartEngine
  BY <1>2, <1>6 DEF StartEngine, Link!Say, Link!GiveUp
<1>7. CASE SpawnMachThread
  BY <1>3, <1>7 DEF SpawnMachThread, Link!Serve
<1>8. CASE CheckQuit
  BY <1>8 DEF CheckQuit, Link!BeginStop
<1>9. CASE EnterRunLoop \/ RunLoopTimeout
  BY <1>9 DEF EnterRunLoop, RunLoopTimeout
<1>10. CASE StopEngine
  BY <1>10 DEF StopEngine, Link!Say
<1>11. CASE RequestStop \/ Join \/ TearDown
  BY <1>11 DEF RequestStop, Join, TearDown
<1>12. CASE Exit
  BY <1>2, <1>12 DEF Exit, ProcessGone, Link!Exit
<1> QED
  BY <1>4, <1>5, <1>6, <1>7, <1>8, <1>9, <1>10, <1>11, <1>12 DEF MainStep

(* The mach thread does nothing that Connection sees.                      *)
LEMMA MachStepLink == MachStep => UNCHANGED <<Link!helper, Link!plugin>>
  BY DEF MachStep, CheckStop, ReceiveRequest, ServerReceiveFails,
         HandleMessage, MachOnly, pluginVars, Link!helper, Link!plugin, Phase

(* A call begins, attaches to what it was offered, or finishes.            *)
LEMMA CallStepLink ==
  HandshakeInv /\ (CallStep \/ StartIO)
    => Link!Next \/ UNCHANGED <<Link!helper, Link!plugin>>
<1> SUFFICES ASSUME HandshakeInv, CallStep \/ StartIO
             PROVE  Link!Next \/ UNCHANGED <<Link!helper, Link!plugin>>
  OBVIOUS
<1> USE DEF Link!Next, Link!helper, Link!plugin, PluginOnly, helperVars, Return
<1>1. UNCHANGED <<Phase, gen, status>>
  BY DEF CallStep, StartIO, Send, SendFails, ReceiveReply, UnexpectedReply,
         ReceiveFails, Map, CheckStatus, Reuse, LookUp, LookUpFails, Phase
<1>2. (Phase = "down") <=> (main = "down")
  BY DEF Phase, HandshakeInv, TypeOK, Starting, Serving, Stopping
<1>3. CASE Send \/ ReceiveReply
  BY <1>1, <1>3 DEF Send, ReceiveReply
<1>4. CASE SendFails \/ UnexpectedReply \/ ReceiveFails \/ LookUpFails
  BY <1>1, <1>4 DEF SendFails, UnexpectedReply, ReceiveFails, LookUpFails,
     Link!Finish
<1>5. CASE Map
  <2>1. /\ attempt \in Attempts /\ offer[attempt] \in Launches
        /\ since <= offer[attempt] /\ offer[attempt] <= gen /\ mapped = 0
    BY <1>5, HandshakeAssumption
       DEF Map, HandshakeInv, TypeOK, CallsInProgress, OffersExist, Attempts,
           Launches
  <2>2. Link!Ready(offer[attempt])
    <3>1. offer[attempt] \in Offered \ {0}
      BY <2>1 DEF Offered, Launches
    <3> QED
      BY <3>1 DEF HandshakeInv, ReadyBeforeOffered, Link!Ready, Phase,
         Starting, Serving, Stopping
  <2>3. CASE plug' = "status" /\ mapped' = offer[attempt]
    BY <1>1, <1>5, <2>1, <2>2, <2>3 DEF Map, Link!Attach
  <2>4. CASE Return("notRunning") /\ UNCHANGED mapped
    BY <1>1, <1>5, <2>4 DEF Map, Link!Finish
  <2> QED
    BY <1>5, <2>3, <2>4 DEF Map
<1>6. CASE CheckStatus
  BY <1>1, <1>6 DEF CheckStatus, Link!Finish, HandshakeInv, CallsInProgress
<1>7. CASE Reuse \/ LookUp
  BY <1>1, <1>2, <1>7 DEF Reuse, LookUp, Link!Begin, OldestAlive
<1> QED
  BY <1>3, <1>4, <1>5, <1>6, <1>7 DEF CallStep, StartIO

(* launchd, signals, kills and restarts of coreaudiod.                     *)
LEMMA EnvironmentLink ==
  HandshakeInv /\ (Launch \/ Signal \/ Kill \/ PluginRestart)
    => Link!Next \/ UNCHANGED <<Link!helper, Link!plugin>>
<1> SUFFICES ASSUME HandshakeInv, Launch \/ Signal \/ Kill \/ PluginRestart
             PROVE  Link!Next \/ UNCHANGED <<Link!helper, Link!plugin>>
  OBVIOUS
<1> USE DEF Link!Next, Link!helper, Link!plugin, Link!Move, Goto, Keep,
     helperVars, pluginVars, Phase, Starting, Serving, Stopping
<1>1. CASE Launch
  <2>1. gen' \in Launches
    BY <1>1, HandshakeAssumption DEF Launch, Launches, HandshakeInv, TypeOK
  <2> QED
    BY <1>1, <2>1 DEF Launch, Link!Launch
<1>2. CASE Signal
  BY <1>2 DEF Signal
<1>3. CASE Kill
  <2>1. Phase # "down"
    BY <1>3 DEF Kill, HandshakeInv, TypeOK
  <2>2. Phase' = "down"
    BY <1>3 DEF Kill, ProcessGone
  <2> QED
    BY <1>3, <2>1, <2>2 DEF Kill, Link!Kill
<1>4. CASE PluginRestart
  BY <1>4 DEF PluginRestart, Link!Restart
<1> QED
  BY <1>1, <1>2, <1>3, <1>4

(* The whole of the handshake, with its ports, timeouts, late answers and  *)
(* kills, implements Connection: a call maps, if anything, the region of a *)
(* helper alive during the call, and succeeds only if it says "running".   *)
THEOREM HandshakeImplementsConnection == Spec => ImplementsConnection
<1>1. HandshakeInv /\ [Next]_vars => [Link!Next]_<<Link!helper, Link!plugin>>
  <2>1. UNCHANGED vars => UNCHANGED <<Link!helper, Link!plugin>>
    BY DEF vars, helperVars, pluginVars, Link!helper, Link!plugin, Phase
  <2> QED
    BY <2>1, MainStepLink, MachStepLink, CallStepLink, EnvironmentLink DEF Next
<1> QED
  BY <1>1, InitConnection, HandshakeInvariant, PTL
     DEF Spec, ImplementsConnection, Link!Spec
=============================================================================
