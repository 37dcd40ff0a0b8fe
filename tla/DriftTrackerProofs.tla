------------------------- MODULE DriftTrackerProofs -------------------------
(***************************************************************************)
(* Proofs about DriftTracker, for every nominal and every true period: what*)
(* isStable() tells its callers, and how far off the loop starts.          *)
(***************************************************************************)
EXTENDS DriftTracker, TLAPS

(* stableCount_ counts the callbacks after the first one up to 200.        *)
CountInv ==
  /\ updates \in Nat
  /\ initialized \in BOOLEAN /\ (initialized <=> updates > 0)
  /\ count = IF updates = 0 THEN 0
             ELSE IF updates <= 200 THEN updates - 1 ELSE 200

(* The first prediction is the time of the callback that made it, so the   *)
(* first error the loop sees is a whole period, whatever the device.       *)
FirstError == updates = 1 => predicted + true = now /\ period = Nominal

LEMMA CountInvariant == Spec => []CountInv
<1>1. Init => CountInv
  <2> SUFFICES ASSUME Init PROVE CountInv
    OBVIOUS
  <2>1. updates = 0 /\ count = 0
    BY Zenon DEF Init
  <2>2. initialized \in BOOLEAN /\ ~initialized
    BY Zenon DEF Init
  <2> QED
    BY <2>1, <2>2 DEF CountInv
<1>2. ASSUME CountInv, [Next]_vars
      PROVE  CountInv'
  <2>1. CASE Update /\ FirstUpdate
    <3>1. updates = 0 /\ updates' = 1
      BY <1>2, <2>1 DEF CountInv, Update, FirstUpdate
    <3> QED
      BY <2>1, <3>1 DEF FirstUpdate, CountInv
  <2>2. CASE Update /\ LaterUpdate
    <3>1. /\ updates \in Nat /\ updates > 0 /\ updates' = updates + 1
          /\ initialized /\ initialized' = initialized
          /\ count = IF updates <= 200 THEN updates - 1 ELSE 200
          /\ count' = IF count < 200 THEN count + 1 ELSE count
      BY <1>2, <2>2 DEF CountInv, Update, LaterUpdate
    <3>2. count' = IF updates' <= 200 THEN updates' - 1 ELSE 200
      BY <3>1
    <3>3. updates' \in Nat /\ updates' > 0
      BY <3>1
    <3> QED
      BY <3>1, <3>2, <3>3 DEF CountInv
  <2>3. CASE UNCHANGED vars
    BY <1>2, <2>3 DEF vars, CountInv
  <2> QED
    BY <1>2, <2>1, <2>2, <2>3 DEF Next, Update
<1> QED
  BY <1>1, <1>2, PTL DEF Spec

(* isStable() is a count of callbacks and nothing else: it says nothing of *)
(* the error, and turns true at the 52nd however far off the estimate is.  *)
(* This is what lets AudioEngine keep a saturated count for a tracker.     *)
THEOREM StableIsACount == Spec => [](IsStable <=> updates >= 52)
<1>1. CountInv => (IsStable <=> updates >= 52)
  BY DEF CountInv, IsStable
<1> QED
  BY <1>1, CountInvariant, PTL

(* The loop starts with an error of one period, not with one near zero.    *)
THEOREM StartsAPeriodOff ==
  ASSUME Periods \subseteq Nat
  PROVE  Spec => []FirstError
<1> DEFINE TimeInv == /\ true \in Nat /\ now \in Nat
                      /\ updates \in Nat /\ (initialized <=> updates > 0)
                      /\ FirstError
<1>1. Init => TimeInv
  BY DEF Init, FirstError
<1>2. ASSUME TimeInv, [Next]_vars
      PROVE  TimeInv'
  <2>1. CASE Update /\ FirstUpdate
    BY <1>2, <2>1 DEF Update, FirstUpdate, FirstError
  <2>2. CASE Update /\ LaterUpdate
    <3>1. updates > 0 /\ updates' = updates + 1 /\ initialized'
      BY <1>2, <2>2 DEF Update, LaterUpdate
    <3> QED
      BY <1>2, <2>2, <3>1 DEF Update, FirstError
  <2>3. CASE UNCHANGED vars
    BY <1>2, <2>3 DEF vars, FirstError
  <2> QED
    BY <1>2, <2>1, <2>2, <2>3 DEF Next, Update
<1>3. TimeInv => FirstError
  OBVIOUS
<1> QED
  BY <1>1, <1>2, <1>3, PTL DEF Spec
=============================================================================
