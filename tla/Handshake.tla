----------------------------- MODULE Handshake -----------------------------
(***************************************************************************)
(* The life of the helper daemon and the handshake that gives the HAL      *)
(* plugin the shared memory (helper/src/main.cpp, helper/src/MachServer.cpp*)
(* plugin/src/MachClient.cpp, PluginHandler::OnStartIO).                   *)
(*                                                                         *)
(* Four parties run concurrently: the helper's main thread, its mach       *)
(* thread, the plugin's OnStartIO call, and launchd, which owns the        *)
(* service port and relaunches the helper.  The helper may be killed and   *)
(* coreaudiod, which hosts the plugin, restarted at any point.  The n-th   *)
(* helper process allocates region n, so processes and regions share their *)
(* numbers; a region lives as long as somebody maps it.                    *)
(***************************************************************************)
EXTENDS Integers, Sequences

CONSTANTS MaxLaunches,  \* bound on the helper processes ever launched
          MaxAttempts,  \* bound on the connect() calls that reach the send
          QueueLimit    \* messages a Mach port queues before a send blocks

ASSUME HandshakeAssumption ==
  /\ MaxLaunches \in Nat /\ MaxAttempts \in Nat
  /\ QueueLimit \in Nat \ {0}

VARIABLES
  main,      \* the helper's main thread; "down" when there is no process
  gen,       \* the number of the last helper process
  quit,      \* gShouldQuit
  stop,      \* stopRequested_
  server,    \* the server holds its ports and its mapping of the region
  mach,      \* the helper's mach thread
  handling,  \* the request it is answering, 0 for none
  killed,    \* history: the helper processes that were killed
  status,    \* helperStatus in each region
  requests,  \* the service port's queue of requests (their reply ports)
  plug,      \* the plugin's OnStartIO call
  attempt,   \* the number of reply ports made; the last one is in use
  port,      \* the state of each reply port
  offer,     \* the region each answered reply port was sent, 0 for none
  mapped,    \* the region the plugin maps, 0 for none (sharedMem_)
  result,    \* what the last OnStartIO call returned
  since      \* history: the oldest helper alive during the current call

helperVars == <<main, gen, quit, stop, server, mach, handling, killed>>
pluginVars == <<plug, attempt, mapped, result, since>>
vars == <<helperVars, status, requests, port, offer, pluginVars>>

Launches == 1 .. MaxLaunches
Attempts == 1 .. MaxAttempts

Starting == {"alloc", "checkin", "engine", "spawn"}
Serving  == {"check", "enter", "asleep"}
Stopping == {"stopEngine", "requestStop", "join", "teardown", "exit"}

Init == /\ main = "down" /\ gen = 0 /\ quit = FALSE /\ stop = FALSE
        /\ server = FALSE /\ mach = "none" /\ handling = 0 /\ killed = {}
        /\ status = [g \in Launches |-> "none"]
        /\ requests = <<>>
        /\ plug = "idle" /\ attempt = 0 /\ mapped = 0 /\ result = "none"
        /\ since = 0
        /\ port = [a \in Attempts |-> "none"]
        /\ offer = [a \in Attempts |-> 0]

-----------------------------------------------------------------------------
Goto(next) == main' = next
Publish(s) == status' = [status EXCEPT ![gen] = s]
Return(r) == plug' = "idle" /\ result' = r /\ since' = 0

OldestAlive == IF main = "down" THEN gen + 1 ELSE gen

(* What a step of each of the three threads leaves alone.                  *)
Keep == UNCHANGED <<gen, killed, handling, requests, port, offer, pluginVars>>
MachOnly == UNCHANGED <<main, gen, quit, stop, server, killed, status,
                        pluginVars>>
PluginOnly == UNCHANGED <<helperVars, status, offer>>

-----------------------------------------------------------------------------
(* Mutants: plausible mistakes, each of which breaks a property below.     *)

(* A failed start() publishing kHelperError, a value nothing else knows.   *)
StartEngineError == /\ main = "engine"
                    /\ \/ Goto("spawn") /\ Publish("running")
                       \/ Goto("teardown") /\ Publish("error")
                    /\ UNCHANGED <<quit, stop, server, mach>> /\ Keep

(* A new region that says "running" as soon as it exists.                  *)
AllocateRegionRunning == /\ main = "alloc"
                         /\ \/ Goto("checkin") /\ Publish("running")
                            \/ Goto("exit") /\ UNCHANGED status
                         /\ UNCHANGED <<quit, stop, server, mach>> /\ Keep

(* The mach thread started before the engine.                              *)
CheckInSpawning == /\ main = "checkin"
                   /\ \/ Goto("engine") /\ server' = TRUE /\ mach' = "check"
                      \/ Goto("teardown") /\ UNCHANGED <<server, mach>>
                   /\ UNCHANGED <<quit, stop, status>> /\ Keep

(* CFRunLoopRun(), which ends only when it is told to.                     *)
RunLoopNoTimeout == /\ main = "asleep" /\ main # "asleep"
                    /\ Goto("check")
                    /\ UNCHANGED <<quit, stop, server, mach, status>> /\ Keep

(* stop() not withdrawing kHelperRunning.                                  *)
StopEngineSilently == /\ main = "stopEngine"
                      /\ Goto("requestStop")
                      /\ UNCHANGED <<quit, stop, server, mach, status>> /\ Keep

(* The mach thread detached instead of joined.                             *)
JoinNot == /\ main = "join"
           /\ Goto("teardown")
           /\ UNCHANGED <<quit, stop, server, mach, status>> /\ Keep

(* A request that arrives while the helper stops is dropped.               *)
HandleMessageUnlessStopping ==
  /\ mach = "handle"
  /\ mach' = "check" /\ handling' = 0
  /\ IF port[handling] = "open" /\ ~stop
     THEN /\ port' = [port EXCEPT ![handling] = "replied"]
          /\ offer' = [offer EXCEPT ![handling] = gen]
     ELSE UNCHANGED <<port, offer>>
  /\ UNCHANGED requests /\ MachOnly

(* One reply port kept for all connect() calls.                            *)
LookUpOnePort == /\ plug = "idle" /\ mapped = 0
                 /\ attempt < MaxAttempts
                 /\ attempt' = 1
                 /\ port' = IF port[1] \in {"none", "dead"}
                            THEN [port EXCEPT ![1] = "open"] ELSE port
                 /\ plug' = "send" /\ since' = OldestAlive
                 /\ UNCHANGED <<mapped, result, requests>> /\ PluginOnly

(* The same, emptied by nobody before it is used again.                    *)
LookUpOldPort == /\ plug = "idle" /\ mapped = 0
                 /\ attempt < MaxAttempts
                 /\ attempt' = 1
                 /\ port' = [port EXCEPT ![1] = "open"]
                 /\ plug' = "send" /\ since' = OldestAlive
                 /\ UNCHANGED <<mapped, result, requests>> /\ PluginOnly

(* A connect() that does not ask isConnected() first.                      *)
LookUpAnyway == /\ plug = "idle"
                /\ attempt < MaxAttempts
                /\ attempt' = attempt + 1
                /\ port' = [port EXCEPT ![attempt'] = "open"]
                /\ plug' = "send" /\ since' = OldestAlive
                /\ UNCHANGED <<mapped, result, requests>> /\ PluginOnly

(* A receive without a timeout.                                            *)
ReceiveNoTimeout == /\ plug = "wait"
                    /\ port[attempt] = "notified"
                    /\ Return("notRunning")
                    /\ UNCHANGED <<attempt, mapped, requests, port>>
                    /\ PluginOnly

(* OnStartIO() content with a mapping, whatever its region says.           *)
CheckStatusMapped == /\ plug = "status"
                     /\ Return("ok")
                     /\ UNCHANGED <<attempt, mapped, requests, port>>
                     /\ PluginOnly

-----------------------------------------------------------------------------
(* The helper's main thread.                                               *)

(* RunAtLoad and KeepAlive: launchd starts a helper whenever there is none.*)
Launch == /\ main = "down"
          /\ gen < MaxLaunches
          /\ gen' = gen + 1
          /\ Goto("alloc")
          /\ UNCHANGED <<quit, stop, server, mach, handling, killed, status,
                         requests, port, offer, pluginVars>>

(* allocateSharedMemory(): a cleared region and its memory entry, or exit. *)
AllocateRegion == /\ main = "alloc"
                  /\ \/ Goto("checkin") /\ Publish("offline")
                     \/ Goto("exit") /\ UNCHANGED status
                  /\ UNCHANGED <<quit, stop, server, mach>> /\ Keep

(* registerService(): take over the service port from launchd, or exit.    *)
CheckIn == /\ main = "checkin"
           /\ \/ Goto("engine") /\ server' = TRUE
              \/ Goto("teardown") /\ UNCHANGED server
           /\ UNCHANGED <<quit, stop, mach, status>> /\ Keep

(* engine.start(): its last store publishes kHelperRunning.                *)
StartEngine == /\ main = "engine"
               /\ \/ Goto("spawn") /\ Publish("running")
                  \/ Goto("teardown") /\ UNCHANGED status
               /\ UNCHANGED <<quit, stop, server, mach>> /\ Keep

SpawnMachThread == /\ main = "spawn"
                   /\ Goto("check") /\ mach' = "check"
                   /\ UNCHANGED <<quit, stop, server, status>> /\ Keep

(* The run loop: look at gShouldQuit, then sleep for a second at most.     *)
CheckQuit == /\ main = "check"
             /\ Goto(IF quit THEN "stopEngine" ELSE "enter")
             /\ UNCHANGED <<quit, stop, server, mach, status>> /\ Keep

EnterRunLoop == /\ main = "enter"
                /\ Goto("asleep")
                /\ UNCHANGED <<quit, stop, server, mach, status>> /\ Keep

RunLoopTimeout == /\ main = "asleep"
                  /\ Goto("check")
                  /\ UNCHANGED <<quit, stop, server, mach, status>> /\ Keep

(* engine.stop(): kHelperOffline, once the IOProcs are gone.               *)
StopEngine == /\ main = "stopEngine"
              /\ Goto("requestStop") /\ Publish("offline")
              /\ UNCHANGED <<quit, stop, server, mach>> /\ Keep

RequestStop == /\ main = "requestStop"
               /\ Goto("join") /\ stop' = TRUE
               /\ UNCHANGED <<quit, server, mach, status>> /\ Keep

Join == /\ main = "join"
        /\ mach = "exited"
        /\ Goto("teardown")
        /\ UNCHANGED <<quit, stop, server, mach, status>> /\ Keep

(* server.stop(), called or run by the destructor.                         *)
TearDown == /\ main = "teardown"
            /\ Goto("exit") /\ server' = FALSE
            /\ UNCHANGED <<quit, stop, mach, status>> /\ Keep

(* With the process die the reply rights it has not used, the one it is    *)
(* handling and those it failed to send to: the kernel tells their ports.  *)
ProcessGone == /\ Goto("down")
               /\ quit' = FALSE /\ stop' = FALSE /\ server' = FALSE
               /\ mach' = "none" /\ handling' = 0
               /\ port' = [a \in Attempts |->
                             IF \/ port[a] = "dropped"
                                \/ a = handling /\ port[a] = "open"
                             THEN "notified" ELSE port[a]]

Exit == /\ main = "exit"
        /\ ProcessGone
        /\ UNCHANGED <<gen, killed, status, requests, offer, pluginVars>>

(* SIGTERM or SIGINT: CFRunLoopStop() ends a sleep that has begun, and is  *)
(* lost when the main thread is elsewhere.                                 *)
Signal == /\ main # "down" /\ ~quit
          /\ quit' = TRUE
          /\ Goto(IF main = "asleep" THEN "check" ELSE main)
          /\ UNCHANGED <<stop, server, mach, status>> /\ Keep

(* SIGKILL or a crash.  Queued requests wait for the next helper.          *)
Kill == /\ main # "down"
        /\ ProcessGone
        /\ killed' = killed \cup {gen}
        /\ UNCHANGED <<gen, status, requests, offer, pluginVars>>

-----------------------------------------------------------------------------
(* The mach thread: runMessageLoop() and handleMessage().                  *)

CheckStop == /\ mach = "check"
             /\ mach' = IF stop THEN "exited" ELSE "recv"
             /\ UNCHANGED <<handling, requests, port, offer>> /\ MachOnly

ReceiveRequest == /\ mach = "recv"
                  /\ requests # <<>>
                  /\ mach' = "handle"
                  /\ handling' = Head(requests) /\ requests' = Tail(requests)
                  /\ UNCHANGED <<port, offer>> /\ MachOnly

(* No message for 500 ms, or an error: look at stopRequested_ again.       *)
ServerReceiveFails == /\ mach = "recv"
                      /\ mach' = "check"
                      /\ UNCHANGED <<handling, requests, port, offer>>
                      /\ MachOnly

(* The memory entry goes to the reply port, unless its process is gone.  A *)
(* send that fails is only logged: nobody has the request any more, and the*)
(* reply right stays behind in the helper, unused.                         *)
HandleMessage ==
  /\ mach = "handle"
  /\ mach' = "check" /\ handling' = 0
  /\ \/ /\ port[handling] = "open"
        /\ port' = [port EXCEPT ![handling] = "replied"]
        /\ offer' = [offer EXCEPT ![handling] = gen]
     \/ /\ port[handling] = "open"
        /\ port' = [port EXCEPT ![handling] = "dropped"]
        /\ UNCHANGED offer
     \/ port[handling] # "open" /\ UNCHANGED <<port, offer>>
  /\ UNCHANGED requests /\ MachOnly

-----------------------------------------------------------------------------
(* The plugin: OnStartIO() and connect().                                  *)

(* isConnected(): a region that is mapped is used again without a message. *)
Reuse == /\ plug = "idle" /\ mapped # 0
         /\ plug' = "status" /\ since' = OldestAlive
         /\ UNCHANGED <<attempt, mapped, result, requests, port>> /\ PluginOnly

LookUp == /\ plug = "idle" /\ mapped = 0
          /\ attempt < MaxAttempts
          /\ attempt' = attempt + 1
          /\ port' = [port EXCEPT ![attempt'] = "open"]
          /\ plug' = "send" /\ since' = OldestAlive
          /\ UNCHANGED <<mapped, result, requests>> /\ PluginOnly

(* launchd does not know the service, or there is no port to be had.       *)
LookUpFails == /\ plug = "idle" /\ mapped = 0
               /\ Return("notRunning")
               /\ UNCHANGED <<attempt, mapped, requests, port>> /\ PluginOnly

Send == /\ plug = "send"
        /\ Len(requests) < QueueLimit
        /\ requests' = Append(requests, attempt)
        /\ plug' = "wait"
        /\ UNCHANGED <<attempt, mapped, result, since, port>> /\ PluginOnly

(* The service port's queue is full for 2 s, or the send fails at once.    *)
SendFails == /\ plug = "send"
             /\ Return("notRunning")
             /\ UNCHANGED <<attempt, mapped, requests, port>> /\ PluginOnly

ReceiveReply == /\ plug = "wait"
                /\ port[attempt] = "replied"
                /\ plug' = "map"
                /\ UNCHANGED <<attempt, mapped, result, since, requests, port>>
                /\ PluginOnly

(* Another message id than kMsgMemoryReply: the kernel's notice.           *)
UnexpectedReply == /\ plug = "wait"
                   /\ port[attempt] = "notified"
                   /\ Return("notRunning")
                   /\ UNCHANGED <<attempt, mapped, requests, port>>
                   /\ PluginOnly

(* No answer for 5 s, or an error.  A queued request stays queued, and the *)
(* reply port open: deallocating a receive right does not destroy it.      *)
ReceiveFails == /\ plug = "wait"
                /\ Return("notRunning")
                /\ UNCHANGED <<attempt, mapped, requests, port>> /\ PluginOnly

Map == /\ plug = "map"
       /\ \/ plug' = "status" /\ mapped' = offer[attempt]
             /\ UNCHANGED <<result, since>>
          \/ Return("notRunning") /\ UNCHANGED mapped
       /\ UNCHANGED <<attempt, requests, port>> /\ PluginOnly

CheckStatus == /\ plug = "status"
               /\ Return(IF status[mapped] = "running" THEN "ok"
                                                       ELSE "notRunning")
               /\ UNCHANGED <<attempt, mapped, requests, port>> /\ PluginOnly

(* coreaudiod is killed and loads the plugin anew: its mapping and its     *)
(* ports are gone, the requests it sent are not.                           *)
PluginRestart == /\ plug' = "idle" /\ mapped' = 0 /\ result' = "none"
                 /\ since' = 0
                 /\ port' = [a \in Attempts |->
                               IF port[a] = "none" THEN "none" ELSE "dead"]
                 /\ offer' = [a \in Attempts |-> 0]
                 /\ UNCHANGED <<helperVars, status, requests, attempt>>

-----------------------------------------------------------------------------
MainStep == \/ AllocateRegion \/ CheckIn \/ StartEngine \/ SpawnMachThread
            \/ CheckQuit \/ EnterRunLoop \/ RunLoopTimeout
            \/ StopEngine \/ RequestStop \/ Join \/ TearDown \/ Exit

MachStep == CheckStop \/ ReceiveRequest \/ ServerReceiveFails \/ HandleMessage

CallStep == \/ Send \/ SendFails
            \/ ReceiveReply \/ UnexpectedReply \/ ReceiveFails
            \/ Map \/ CheckStatus

StartIO == Reuse \/ LookUp \/ LookUpFails

Next == \/ Launch \/ Signal \/ Kill \/ PluginRestart
        \/ MainStep \/ MachStep
        \/ StartIO \/ CallStep

Spec == Init /\ [][Next]_vars

(* The scheduler runs every thread that can run, and every blocking call   *)
(* of the code has a timeout.  Launches, signals, kills and restarts need  *)
(* not happen.                                                             *)
Fairness == WF_vars(MainStep) /\ WF_vars(MachStep) /\ WF_vars(CallStep)

FairSpec == Spec /\ Fairness

(* The host keeps asking for IO, as an audio application does.             *)
HostRetries == FairSpec /\ WF_vars(StartIO) /\ WF_vars(Launch)

-----------------------------------------------------------------------------
PortStates == {"none", "open", "replied", "dropped", "notified", "dead"}

TypeOK ==
  /\ main \in {"down"} \cup Starting \cup Serving \cup Stopping
  /\ gen \in 0 .. MaxLaunches
  /\ quit \in BOOLEAN /\ stop \in BOOLEAN /\ server \in BOOLEAN
  /\ mach \in {"none", "check", "recv", "handle", "exited"}
  /\ handling \in 0 .. MaxAttempts
  /\ killed \subseteq Launches
  /\ status \in [Launches -> {"none", "offline", "running"}]
  /\ requests \in Seq(Attempts) /\ Len(requests) <= QueueLimit
  /\ plug \in {"idle", "send", "wait", "map", "status"}
  /\ attempt \in 0 .. MaxAttempts
  /\ port \in [Attempts -> PortStates]
  /\ offer \in [Attempts -> 0 .. MaxLaunches]
  /\ mapped \in 0 .. MaxLaunches
  /\ result \in {"none", "ok", "notRunning"}
  /\ since \in 0 .. MaxLaunches + 1

(* The mach thread receives on and sends only rights that the main thread  *)
(* has not given back: server.stop() never overtakes the message loop.     *)
ServerOutlivesThread == mach \in {"check", "recv", "handle"} => server

(* A region the plugin has been offered, or maps, says "running" unless    *)
(* the helper that owns it has begun to stop or is gone: a plugin that     *)
(* connects to a helper in good health never finds it not running.         *)
Offered == {offer[a] : a \in Attempts} \cup {mapped}
ReadyBeforeOffered ==
  \A g \in Offered \ {0} :
    status[g] = "running" \/ g < gen \/ main \in Stopping \cup {"down"}

(* Only a helper that was killed leaves a region behind that still says    *)
(* "running": every way out of main() withdraws it first.                  *)
CleanExitSaysOffline ==
  \A g \in Launches :
    status[g] = "running" => \/ g \in killed
                             \/ g = gen /\ main \notin {"down", "exit"}

(* The region connect() is about to map belongs to a helper that was alive *)
(* during the call, however late earlier requests are answered.            *)
FreshRegion == plug = "map" => offer[attempt] >= since

(* The request of a connect() that waits does not get lost on its way: it  *)
(* is in one place, the queue or the mach thread (0); or an answer or a    *)
(* notice is there; or the send of the answer failed and the helper that   *)
(* has the reply right still lives, so that its end would end the wait.    *)
Holders(a) == {i \in DOMAIN requests : requests[i] = a}
                \cup {i \in {0} : handling = a}
NoRequestVanishes ==
  plug = "wait" =>
    IF port[attempt] = "open"
    THEN \E h \in Holders(attempt) : Holders(attempt) = {h}
    ELSE /\ Holders(attempt) = {}
         /\ port[attempt] \in {"replied", "notified"}
              \/ (port[attempt] = "dropped" /\ main # "down")

(* Requests outlive the calls and the helpers: still, a reply port is never*)
(* answered twice, so the region connect() maps is the one it was told of. *)
AnsweredOnce ==
  [][\A a \in Attempts : offer[a] # 0 => offer'[a] \in {offer[a], 0}]_vars

(* One life of coreaudiod knows one region: once OnStartIO has mapped one  *)
(* it keeps it, whatever becomes of the helper that made it.               *)
MappingIsKept ==
  [][mapped # 0 /\ mapped' # mapped => mapped' = 0 /\ result' = "none"]_vars

(* A call that succeeds has the region of a helper with a running engine,  *)
(* or of one that was killed: never of one that failed, stops or has left. *)
OkMeansRunningOrKilled ==
  [][ plug = "status" /\ plug' = "idle" /\ result' = "ok"
        => \/ mapped \in killed
           \/ mapped = gen /\ main \in Serving \cup {"spawn", "stopEngine"} ]_vars

(* Once told to quit, the helper does quit, whatever its threads are at.   *)
QuitTerminates == quit ~> main = "down"

(* OnStartIO() always returns to the HAL, with or without a helper.        *)
StartIOReturns == plug # "idle" ~> plug = "idle"

-----------------------------------------------------------------------------
(* The inductive invariant behind the four safety properties about regions *)
(* and rights.  A process has its phases, and its region the status that   *)
(* goes with the phase; what the plugin was offered came from a helper     *)
(* alive during the call.                                                  *)
EngineOn == {"spawn", "stopEngine"} \cup Serving

ProcessPhases ==
  /\ main # "down" => gen \in Launches /\ gen \notin killed
  /\ main \in EngineOn => status[gen] = "running"
  /\ main \in {"engine"} \cup EngineOn \cup {"requestStop", "join"} => server
  /\ mach \in {"check", "recv", "handle"} =>
       main \in Serving \cup {"stopEngine", "requestStop", "join"}
  /\ mach = "handle" => handling # 0

RunningRegions ==
  \A g \in Launches : /\ status[g] = "running" =>
                           g \in killed \/ (g = gen /\ main \in EngineOn)
                      /\ g > gen => g \notin killed

OffersExist == /\ mapped <= gen
               /\ \A a \in Attempts :
                    /\ offer[a] <= gen
                    /\ port[a] = "replied" => offer[a] # 0
                    /\ a > attempt => offer[a] = 0 /\ port[a] = "none"

CallsInProgress ==
  /\ since <= OldestAlive
  /\ plug \in {"send", "wait", "map"} =>
       attempt \in Attempts /\ (offer[attempt] = 0 \/ offer[attempt] >= since)
  /\ plug = "map" => port[attempt] = "replied"
  /\ plug \in {"send", "wait", "map"} => mapped = 0
  /\ plug = "status" => mapped # 0

HandshakeInv == /\ TypeOK
                /\ ProcessPhases
                /\ RunningRegions
                /\ OffersExist
                /\ CallsInProgress
                /\ ReadyBeforeOffered

(* And the one behind NoRequestVanishes: no request is in two places, those*)
(* that are in one have a reply port that nobody has answered, or failed to*)
(* answer, and no reply right outlives the helper that has it.             *)
RequestInv ==
  /\ main = "down" => \A a \in Attempts : port[a] # "dropped"
  /\ \A i, j \in 1 .. Len(requests) : requests[i] = requests[j] => i = j
  /\ \A i \in 1 .. Len(requests) :
       /\ requests[i] <= attempt /\ requests[i] # handling
       /\ port[requests[i]] \in {"open", "dead"}
  /\ handling # 0 =>
       mach = "handle" /\ handling <= attempt /\ port[handling] \in {"open", "dead"}
  /\ plug = "send" =>
       /\ port[attempt] = "open" /\ attempt # handling
       /\ \A i \in 1 .. Len(requests) : requests[i] # attempt
  /\ plug = "wait" =>
       /\ port[attempt] \notin {"none", "dead"}
       /\ port[attempt] = "open" =>
            \/ handling = attempt
            \/ \E i \in 1 .. Len(requests) : requests[i] = attempt

-----------------------------------------------------------------------------
(* All of this implements Connection: whatever the ports, the threads and  *)
(* the timeouts do, to the two applications a call is refused, or maps at  *)
(* one instant a region of a helper alive during the call that had come up.*)
Phase == CASE main = "down" -> "down"
           [] main \in Starting -> "starting"
           [] main \in Serving -> "serving"
           [] main \in Stopping -> "stopping"

Link == INSTANCE Connection WITH phase <- Phase, says <- status,
                                 calling <- (plug # "idle")

ImplementsConnection == Link!Spec

-----------------------------------------------------------------------------
(* Statements of the comments that the code does not keep.                 *)

(* MachClient.h: connect() "Returns false if the helper is not running."   *)
(* A call that succeeds has then seen a helper that was alive during it.   *)
OkMeansHelperAlive ==
  [][plug = "status" /\ plug' = "idle" /\ result' = "ok" => mapped >= since]_vars

(* SharedMemory.h: "Both processes map the same physical pages."  When the *)
(* helper has been replaced, they do so again once the host asks for IO.   *)
SamePages ==
  (main \in Serving /\ mapped # 0 /\ mapped # gen)
     ~> (main \notin Serving \/ mapped = 0 \/ mapped = gen)
=============================================================================
