-------------------------- MODULE PushClockProofs --------------------------
(***************************************************************************)
(* Proofs about PushClock, for any set of readers and any number of        *)
(* publications: ClockInv is inductive, and what a call loads is as fresh  *)
(* and as late as FreshParts and NeverBackwards say.                       *)
(***************************************************************************)
EXTENDS PushClock, TLAPS

LEMMA InitClockInv == Init => ClockInv
<1> SUFFICES ASSUME Init PROVE ClockInv
  OBVIOUS
<1> USE ClockAssumption DEF Init
<1>1. 0 \in Publications /\ Zeros \in Times
  BY DEF Zeros, Times, Publications
<1>2. TypeOK
  BY <1>1 DEF TypeOK
<1> QED
  BY <1>2 DEF ClockInv, Zeros

(* The helper's side: a store that arrives only makes its part newer.      *)
LEMMA PublishInv == ClockInv /\ Publish => ClockInv'
<1> SUFFICES ASSUME ClockInv, Publish PROVE ClockInv'
  OBVIOUS
<1> USE ClockAssumption DEF ClockInv, Publish, readerVars, wiringVars
<1>1. TypeOK'
  BY DEF TypeOK, Publications
<1>2. \A p \in Parts :
        clock'[p] = IF p \in pending' THEN begun' - 1 ELSE begun'
  BY DEF TypeOK, Publications
<1> QED
  BY <1>1, <1>2 DEF TypeOK

LEMMA StoreInv == ClockInv /\ Store => ClockInv'
<1> SUFFICES ASSUME ClockInv, NEW q \in Parts, StoreArrives(q)
             PROVE ClockInv'
  BY DEF Store
<1> USE ClockAssumption DEF ClockInv, StoreArrives, readerVars, wiringVars
<1>1. TypeOK'
  BY DEF TypeOK, Publications, Times
<1>2. \A p \in Parts :
        clock'[p] = IF p \in pending' THEN begun' - 1 ELSE begun'
  BY DEF TypeOK, Publications, Times
<1>3. \A p \in Parts : clock[p] <= clock'[p] /\ clock[p] \in Int
                                              /\ clock'[p] \in Int
  BY <1>2 DEF TypeOK, Publications, Times
<1>4. \A p \in Parts : returned'[p] <= clock'[p]
  BY <1>3 DEF TypeOK, Publications, Times
<1>5. \A r \in asking' : \A p \in Parts :
        /\ floor'[r] <= clock'[p] /\ newest'[r][p] <= clock'[p]
        /\ loaded'[r][p] <= clock'[p]
        /\ p \notin toLoad'[r] => /\ floor'[r] <= loaded'[r][p]
                                  /\ newest'[r][p] <= loaded'[r][p]
  BY <1>3 DEF TypeOK, Publications, Times
<1> QED
  BY <1>1, <1>2, <1>4, <1>5

LEMMA WiringInv == ClockInv /\ (Connect \/ SetSharedMemory) => ClockInv'
  BY DEF ClockInv, TypeOK, Connect, SetSharedMemory, helperVars, readerVars

(* A call begins with bounds that hold of what is there now.               *)
LEMMA BeginCallInv ==
  ASSUME ClockInv, NEW r \in Readers, BeginCall(r) PROVE ClockInv'
<1> USE ClockAssumption DEF ClockInv, BeginCall, helperVars, wiringVars
<1>1. \A p \in Parts : Complete <= clock[p] /\ Complete \in Publications
  <2>1. CASE pending = {}
    BY <2>1 DEF TypeOK, Complete, Publications
  <2>2. CASE pending # {}
    <3>1. PICK q \in pending : clock[q] = begun - 1
      BY <2>2 DEF TypeOK
    <3>2. begun - 1 \in Publications
      BY <3>1 DEF TypeOK, Times
    <3> QED
      BY <2>2, <3>2 DEF TypeOK, Complete, Publications
  <2> QED
    BY <2>1, <2>2
<1>2. TypeOK'
  <2>1. floor' \in [Readers -> Publications]
    BY <1>1 DEF TypeOK, Publications, Parts
  <2>2. newest' \in [Readers -> Times]
    BY DEF TypeOK
  <2> QED
    BY <2>1, <2>2 DEF TypeOK
<1>3. toLoad'[r] = {} \/ toLoad'[r] = Parts
  BY DEF TypeOK
<1>4. \A p \in Parts :
        /\ floor'[r] <= clock'[p] /\ newest'[r][p] <= clock'[p]
        /\ loaded'[r][p] <= clock'[p]
        /\ p \notin toLoad'[r] => /\ floor'[r] <= loaded'[r][p]
                                  /\ newest'[r][p] <= loaded'[r][p]
  <2> SUFFICES ASSUME NEW p \in Parts
               PROVE /\ floor'[r] <= clock'[p] /\ newest'[r][p] <= clock'[p]
                     /\ loaded'[r][p] <= clock'[p]
                     /\ p \notin toLoad'[r] => /\ floor'[r] <= loaded'[r][p]
                                               /\ newest'[r][p] <= loaded'[r][p]
    OBVIOUS
  <2>1. clock[p] \in Nat
    BY DEF TypeOK, Times, Publications
  <2>2. loaded'[r] = Zeros /\ newest'[r] = returned
    BY DEF TypeOK
  <2>3. CASE shm
    BY <1>1, <2>1, <2>2, <2>3 DEF TypeOK, Zeros, Publications
  <2>4. CASE ~shm
    BY <2>1, <2>2, <2>4 DEF TypeOK, Zeros
  <2> QED
    BY <2>3, <2>4
<1>5. \A q \in asking : /\ floor'[q] = floor[q] /\ newest'[q] = newest[q]
                        /\ loaded'[q] = loaded[q] /\ toLoad'[q] = toLoad[q]
  BY DEF TypeOK
<1>6. \A q \in asking' : \A p \in Parts :
        /\ floor'[q] <= clock'[p] /\ newest'[q][p] <= clock'[p]
        /\ loaded'[q][p] <= clock'[p]
        /\ p \notin toLoad'[q] => /\ floor'[q] <= loaded'[q][p]
                                  /\ newest'[q][p] <= loaded'[q][p]
  BY <1>4, <1>5
<1>7. \A q \in Readers : ~shm' => loaded'[q] = Zeros /\ toLoad'[q] = {}
  BY DEF TypeOK
<1>8. \A q \in Readers \ asking' : loaded'[q] = Zeros /\ toLoad'[q] = {}
  BY DEF TypeOK
<1> QED
  BY <1>2, <1>6, <1>7, <1>8

LEMMA LoadInv ==
  ASSUME ClockInv, NEW r \in Readers, NEW q \in Parts, Load(r, q)
  PROVE  ClockInv'
<1> USE DEF ClockInv, Load, helperVars, wiringVars
<1>1. r \in asking /\ shm
  BY DEF TypeOK
<1>2. TypeOK'
  BY DEF TypeOK, Times
<1>3. \A p \in Parts :
        /\ loaded'[r][p] = IF p = q THEN clock[p] ELSE loaded[r][p]
        /\ p \notin toLoad'[r] => p = q \/ p \notin toLoad[r]
        /\ clock[p] \in Int
  BY DEF TypeOK, Times, Publications
<1>4. \A s \in asking : s # r => /\ loaded'[s] = loaded[s]
                                 /\ toLoad'[s] = toLoad[s]
  BY DEF TypeOK
<1>5. \A s \in asking' : \A p \in Parts :
        /\ floor'[s] <= clock'[p] /\ newest'[s][p] <= clock'[p]
        /\ loaded'[s][p] <= clock'[p]
        /\ p \notin toLoad'[s] => /\ floor'[s] <= loaded'[s][p]
                                  /\ newest'[s][p] <= loaded'[s][p]
  BY <1>3, <1>4
<1>6. \A s \in Readers \ asking' : loaded'[s] = Zeros /\ toLoad'[s] = {}
  BY <1>1 DEF TypeOK
<1> QED
  BY <1>1, <1>2, <1>5, <1>6

LEMMA FinishCallInv ==
  ASSUME ClockInv, NEW r \in Readers, FinishCall(r) PROVE ClockInv'
<1> USE DEF ClockInv, FinishCall, Returning, helperVars, wiringVars
<1>1. TypeOK'
  BY ClockAssumption DEF TypeOK, Times, Zeros, Publications
<1>2. \A p \in Parts : returned'[p] <= clock'[p]
  BY DEF TypeOK, Times, Publications
<1>3. ~shm' => returned' = Zeros
  BY DEF Zeros
<1>4. \A s \in asking' : /\ s \in asking /\ s # r
                         /\ loaded'[s] = loaded[s] /\ floor'[s] = floor[s]
                         /\ newest'[s] = newest[s]
  BY DEF TypeOK
<1>5. \A s \in Readers : /\ loaded'[s] = IF s = r THEN Zeros ELSE loaded[s]
                         /\ toLoad'[s] = toLoad[s]
  BY DEF TypeOK
<1>6. \A s \in Readers \ asking' : loaded'[s] = Zeros /\ toLoad'[s] = {}
  BY <1>5
<1> QED
  BY <1>1, <1>2, <1>3, <1>4, <1>5, <1>6

(* ClockInv holds in every reachable state.                                *)
THEOREM ClockInvariant == Spec => []ClockInv
<1>1. ClockInv /\ [Next]_vars => ClockInv'
  <2> SUFFICES ASSUME ClockInv, [Next]_vars PROVE ClockInv'
    OBVIOUS
  <2>1. CASE UNCHANGED vars
    BY <2>1 DEF ClockInv, TypeOK, vars, helperVars, wiringVars, readerVars
  <2>2. CASE Publish \/ Store \/ Connect \/ SetSharedMemory
    BY <2>2, PublishInv, StoreInv, WiringInv
  <2>3. CASE \E r \in Readers : Ask(r)
    BY <2>3, BeginCallInv, LoadInv, FinishCallInv DEF Ask
  <2> QED
    BY <2>1, <2>2, <2>3 DEF Next
<1> QED
  BY <1>1, InitClockInv, PTL DEF Spec

(* The two parts of an answer, each taken alone, are what a register would *)
(* return that is read and written at one instant: never older than what   *)
(* was complete when GetZeroTimeStamp began.                               *)
THEOREM PartsAreFresh == Spec => []FreshParts
<1>1. ClockInv => FreshParts
  <2> SUFFICES ASSUME ClockInv, NEW r \in Readers, Returning(r),
                      NEW p \in Parts
               PROVE  loaded[r][p] \in floor[r] .. begun
    BY DEF FreshParts
  <2>1. clock[p] <= begun /\ clock[p] \in Int
    BY DEF ClockInv, TypeOK, Times, Publications
  <2>2. /\ floor[r] <= loaded[r][p] /\ loaded[r][p] <= clock[p]
        /\ loaded[r][p] \in Int /\ floor[r] \in Int
    BY DEF ClockInv, Returning, TypeOK, Times, Publications
  <2> QED
    BY <2>1, <2>2 DEF ClockInv, TypeOK, Publications
<1> QED
  BY <1>1, ClockInvariant, PTL

(* And never older than what any call had returned by then: the device's   *)
(* time does not go back.                                                  *)
THEOREM TimeNeverGoesBack == Spec => []NeverBackwards
<1>1. ClockInv => NeverBackwards
  BY DEF ClockInv, NeverBackwards, Returning, TypeOK, Times, Publications
<1> QED
  BY <1>1, ClockInvariant, PTL

(* The sample time and the host time of one answer are of publications no  *)
(* further apart than those that overlap the call: with none in progress   *)
(* they belong together, with one they are at worst one buffer apart.      *)
ApartByOverlap ==
  \A r \in Readers : Returning(r) =>
    \A p, q \in Parts : loaded[r][p] - loaded[r][q] <= begun - floor[r]

THEOREM PartsNearlyMatch == Spec => []ApartByOverlap
<1>1. ClockInv /\ FreshParts => ApartByOverlap
  <2> SUFFICES ASSUME ClockInv, FreshParts, NEW r \in Readers, Returning(r),
                      NEW p \in Parts, NEW q \in Parts
               PROVE  loaded[r][p] - loaded[r][q] <= begun - floor[r]
    BY DEF ApartByOverlap
  <2>1. /\ loaded[r][p] \in floor[r] .. begun
        /\ loaded[r][q] \in floor[r] .. begun
    BY DEF FreshParts
  <2>2. floor[r] \in Nat /\ begun \in Nat
    BY ClockAssumption DEF ClockInv, TypeOK, Publications
  <2> QED
    BY <2>1, <2>2
<1> QED
  BY <1>1, ClockInvariant, PartsAreFresh, PTL

(* As PluginEntry.cpp is, nothing gives the device the region, and every   *)
(* answer is time zero, whatever the Push publishes.                       *)
StandsStill ==
  /\ ~shm /\ returned = Zeros
  /\ \A r \in Readers : loaded[r] = Zeros

THEOREM UnwiredClockStandsStill ==
  ASSUME ~Attaches PROVE Spec => []StandsStill
<1>1. Init => ~shm
  BY DEF Init
<1>2. ~shm /\ [Next]_vars => ~shm'
  BY DEF Next, Publish, Store, StoreArrives, Connect, SetSharedMemory, Ask,
         BeginCall, Load, FinishCall, helperVars, wiringVars, vars
<1>3. ClockInv /\ ~shm => StandsStill
  BY DEF ClockInv, StandsStill
<1> QED
  BY <1>1, <1>2, <1>3, ClockInvariant, PTL DEF Spec
=============================================================================
