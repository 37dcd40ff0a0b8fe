----------------------------- MODULE PushClock -----------------------------
(***************************************************************************)
(* The clock of the virtual device: onPushIO publishes the Push's sample   *)
(* time and host time (helper/src/AudioEngine.cpp), GetZeroTimeStamp loads *)
(* them on the HAL's IO threads (plugin/src/PluginDevice.h).               *)
(*                                                                         *)
(* A time is the number of the publication it was stored by, 0 being what  *)
(* init() left.  Both sides use relaxed atomics, so the two stores of a    *)
(* publication may arrive in either order, as may the two loads of a call. *)
(* The seed is never stored after init(); it is left out.                  *)
(***************************************************************************)
EXTENDS Integers

CONSTANTS
  Readers,          \* the HAL's threads that ask for the time
  MaxPublications,  \* bounds the publications, for TLC
  Attaches          \* does anything call setSharedMemory()?

ASSUME ClockAssumption == /\ MaxPublications \in Nat
                          /\ Attaches \in BOOLEAN

Parts == {"sample", "host"}
Publications == 0 .. MaxPublications

VARIABLES
  clock,      \* pushClock: each part's last store that has arrived
  begun,      \* publications begun by the Push's IOProc
  pending,    \* the stores of the last one still under way
  connected,  \* OnStartIO has mapped the region
  shm,        \* does the device have the region? (null pointer if not)
  asking,     \* the readers inside GetZeroTimeStamp
  toLoad,     \* the parts each of them has still to load
  loaded,     \* and what it has loaded
  floor,      \* history: the last publication complete when the call began
  newest,     \* history: what returned was when the call began
  returned    \* history: the newest of each part that any call has returned

helperVars == <<clock, begun, pending>>
wiringVars == <<connected, shm>>
readerVars == <<asking, toLoad, loaded, floor, newest, returned>>
vars == <<helperVars, wiringVars, readerVars>>

Zeros == [p \in Parts |-> 0]
Complete == IF pending = {} THEN begun ELSE begun - 1

Init == /\ clock = Zeros /\ begun = 0 /\ pending = {}
        /\ connected = FALSE /\ shm = FALSE
        /\ asking = {}
        /\ toLoad = [r \in Readers |-> {}]
        /\ loaded = [r \in Readers |-> Zeros]
        /\ floor = [r \in Readers |-> 0]
        /\ newest = [r \in Readers |-> Zeros] /\ returned = Zeros

-----------------------------------------------------------------------------
(* Mutants: plausible mistakes, each of which breaks a property below.     *)

(* A host time that is one buffer old.                                     *)
StoreArrivesLate(p) ==
  /\ p \in pending
  /\ clock' = [clock EXCEPT ![p] = IF p = "host" THEN begun - 1 ELSE begun]
  /\ pending' = pending \ {p}
  /\ UNCHANGED <<begun, wiringVars, readerVars>>

(* A publication that first marks the pair as invalid.                     *)
PublishInvalid == /\ pending = {} /\ begun < MaxPublications
                  /\ begun' = begun + 1 /\ pending' = Parts
                  /\ clock' = Zeros
                  /\ UNCHANGED <<wiringVars, readerVars>>

-----------------------------------------------------------------------------
(* onPushIO, in a call whose two time flags are both valid.                *)
Publish == /\ pending = {} /\ begun < MaxPublications
           /\ begun' = begun + 1 /\ pending' = Parts
           /\ UNCHANGED <<clock, wiringVars, readerVars>>

StoreArrives(p) == /\ p \in pending
                   /\ clock' = [clock EXCEPT ![p] = begun]
                   /\ pending' = pending \ {p}
                   /\ UNCHANGED <<begun, wiringVars, readerVars>>

(* OnStartIO connects the MachClient.                                      *)
Connect == /\ ~connected /\ connected' = TRUE
           /\ UNCHANGED <<shm, helperVars, readerVars>>

(* setSharedMemory(), of which PluginEntry.cpp makes no use.               *)
SetSharedMemory == /\ Attaches /\ connected /\ ~shm
                   /\ shm' = TRUE
                   /\ UNCHANGED <<connected, helperVars, readerVars>>

-----------------------------------------------------------------------------
(* GetZeroTimeStampImpl: the test of the pointer, the loads, the return.   *)
BeginCall(r) ==
  /\ r \notin asking /\ asking' = asking \cup {r}
  /\ toLoad' = [toLoad EXCEPT ![r] = IF shm THEN Parts ELSE {}]
  /\ floor' = [floor EXCEPT ![r] = IF shm THEN Complete ELSE 0]
  /\ newest' = [newest EXCEPT ![r] = returned]
  /\ UNCHANGED <<loaded, returned, helperVars, wiringVars>>

Load(r, p) == /\ p \in toLoad[r]
              /\ loaded' = [loaded EXCEPT ![r][p] = clock[p]]
              /\ toLoad' = [toLoad EXCEPT ![r] = @ \ {p}]
              /\ UNCHANGED <<asking, floor, newest, returned, helperVars,
                             wiringVars>>

Returning(r) == r \in asking /\ toLoad[r] = {}

FinishCall(r) == /\ Returning(r)
                 /\ asking' = asking \ {r}
                 /\ returned' = [p \in Parts |-> IF loaded[r][p] > returned[p]
                                                 THEN loaded[r][p]
                                                 ELSE returned[p]]
                 /\ loaded' = [loaded EXCEPT ![r] = Zeros]
                 /\ floor' = [floor EXCEPT ![r] = 0]
                 /\ newest' = [newest EXCEPT ![r] = Zeros]
                 /\ UNCHANGED <<toLoad, helperVars, wiringVars>>

-----------------------------------------------------------------------------
Store == \E p \in Parts : StoreArrives(p)
Ask(r) == BeginCall(r) \/ FinishCall(r) \/ \E p \in Parts : Load(r, p)

Next == \/ Publish \/ Store
        \/ Connect \/ SetSharedMemory
        \/ \E r \in Readers : Ask(r)

Spec == Init /\ [][Next]_vars

(* What has been begun is finished, and the HAL goes on asking for the     *)
(* time, as it does while IO runs.  Nobody owes a setSharedMemory().       *)
FairSpec == /\ Spec
            /\ WF_vars(Store)
            /\ \A r \in Readers : WF_vars(Ask(r))

-----------------------------------------------------------------------------
Times == [Parts -> Publications]

TypeOK == /\ clock \in Times /\ begun \in Publications
          /\ pending \subseteq Parts
          /\ connected \in BOOLEAN /\ shm \in BOOLEAN
          /\ asking \subseteq Readers
          /\ toLoad \in [Readers -> SUBSET Parts]
          /\ loaded \in [Readers -> Times] /\ returned \in Times
          /\ floor \in [Readers -> Publications]
          /\ newest \in [Readers -> Times]

(* Each part of an answer is at least as new as the last publication that  *)
(* was complete when the call began, once the device has the region.  So a *)
(* call that no publication overlaps returns a pair that was published,    *)
(* and one that a single publication overlaps is wrong by one buffer.      *)
FreshParts == \A r \in Readers : Returning(r) =>
                \A p \in Parts : loaded[r][p] \in floor[r] .. begun

(* The device's time never goes back, in either part, not even between     *)
(* calls of different threads, or when the region replaces the null        *)
(* pointer in the middle of a call.                                        *)
NeverBackwards == \A r \in Readers : Returning(r) =>
                    \A p \in Parts : loaded[r][p] >= newest[r][p]

(* The inductive invariant behind the two.  A part is the last one begun   *)
(* unless its store is under way; what a call has loaded lies between what *)
(* was complete, or returned, when it began and what is there now.         *)
ClockInv ==
  /\ TypeOK
  /\ \A p \in Parts : clock[p] = IF p \in pending THEN begun - 1 ELSE begun
  /\ \A p \in Parts : returned[p] <= clock[p]
  /\ ~shm => returned = Zeros
  /\ \A r \in asking : \A p \in Parts :
       /\ floor[r] <= clock[p] /\ newest[r][p] <= clock[p]
       /\ loaded[r][p] <= clock[p]
       /\ p \notin toLoad[r] => /\ floor[r] <= loaded[r][p]
                               /\ newest[r][p] <= loaded[r][p]
  /\ \A r \in Readers : ~shm => loaded[r] = Zeros /\ toLoad[r] = {}
  /\ \A r \in Readers \ asking : loaded[r] = Zeros /\ toLoad[r] = {}

(* PluginEntry.cpp: "Device reads clock from shared memory (nullptr until  *)
(* connected)."  Once connected the device's clock follows the Push's.     *)
ClockFollows == connected /\ Complete > 0 ~> returned["sample"] > 0
=============================================================================
