---------------------------- MODULE DriftTracker ----------------------------
(***************************************************************************)
(* The loop that estimates a device's rate from the times of its callbacks *)
(* (shared/include/DriftTracker.h), in fixed point: times in tenths of a   *)
(* microsecond, B in units of 1/10^5, Omega and C of 1/10^6.  A callback   *)
(* brings one buffer, so the rate is given by the buffer's period, which   *)
(* is bufferFrames / rate_.                                                *)
(*                                                                         *)
(* The device is perfect here: its callbacks come at exactly its period.   *)
(***************************************************************************)
EXTENDS Integers

CONSTANTS
  Nominal,     \* a buffer's period at the nominal rate
  Periods,     \* the periods a device may really have
  MaxUpdates   \* bounds the callbacks, for TLC

VARIABLES
  true,        \* the device's period
  now,         \* host time of the next callback
  predicted,   \* predictedTime_
  integral,    \* integral_
  period,      \* bufferFrames / rate_
  initialized, \* initialized_
  count,       \* stableCount_
  updates      \* callbacks so far

vars == <<true, now, predicted, integral, period, initialized, count, updates>>

Init == /\ true \in Periods /\ now = true
        /\ predicted = 0 /\ integral = 0 /\ period = Nominal
        /\ initialized = FALSE /\ count = 0 /\ updates = 0

-----------------------------------------------------------------------------
(* omega = 2 pi period (the bandwidth is 1 Hz), b = sqrt(2) omega and      *)
(* c = omega^2.                                                            *)
Omega == (period * 6283) \div 10000
B == (Omega * 1414) \div 10000
C == ((Omega \div 100) * (Omega \div 100)) \div 100

(* The first callback only sets the time from which to predict.            *)
FirstUpdate == /\ ~initialized /\ initialized' = TRUE
               /\ predicted' = now /\ period' = Nominal /\ count' = 0
               /\ UNCHANGED integral

(* Every other one corrects the prediction and the integral by its error.  *)
LaterUpdate ==
  LET error == now - predicted
  IN  /\ initialized
      /\ predicted' = predicted + period + (B * error) \div 100000
      /\ integral' = integral + (C * error) \div 1000000
      /\ period' = period + integral'
      /\ count' = IF count < 200 THEN count + 1 ELSE count
      /\ UNCHANGED initialized

Update == /\ updates < MaxUpdates /\ updates' = updates + 1
          /\ FirstUpdate \/ LaterUpdate
          /\ now' = now + true
          /\ UNCHANGED true

Next == Update

Spec == Init /\ [][Next]_vars

-----------------------------------------------------------------------------
IsStable == initialized /\ count > 50

(* "extract the true sample rate" and "Stable after ~50 callbacks": when   *)
(* isStable() says so, the estimate is within a twentieth of the truth.    *)
StableMeansClose ==
  IsStable => /\ period * 20 <= true * 21
              /\ period * 20 >= true * 19
=============================================================================
