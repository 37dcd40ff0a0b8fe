----------------------------- MODULE Connection -----------------------------
(***************************************************************************)
(* What the handshake promises, without ports, messages, threads and       *)
(* timeouts: helpers live one after the other, each with a region that     *)
(* says how it is, and a call of OnStartIO either refuses or, in one step, *)
(* maps the region of a helper that lived during the call and had come up. *)
(***************************************************************************)
EXTENDS Integers

CONSTANT Launches   \* the numbers of the helpers, and of their regions

VARIABLES
  phase,    \* the helper: "down", "starting", "serving" or "stopping"
  gen,      \* its number, or that of the last one
  says,     \* helperStatus in each region
  calling,  \* is OnStartIO in progress?
  since,    \* the oldest helper alive during the call
  mapped,   \* the plugin's region, 0 for none
  result    \* what the last call returned

helper == <<phase, gen, says>>
plugin == <<calling, since, mapped, result>>

Init == /\ phase = "down" /\ gen = 0 /\ says = [g \in Launches |-> "none"]
        /\ calling = FALSE /\ since = 0 /\ mapped = 0 /\ result = "none"

-----------------------------------------------------------------------------
Launch == /\ phase = "down" /\ phase' = "starting"
          /\ gen' = gen + 1 /\ gen' \in Launches
          /\ UNCHANGED <<says, plugin>>

(* Starting, it clears its region, then says it is running; stopping, it   *)
(* takes that back.                                                        *)
Say(s) == /\ phase = "starting" \/ (phase = "stopping" /\ s = "offline")
          /\ says' = [says EXCEPT ![gen] = s]
          /\ UNCHANGED <<phase, gen, plugin>>

(* It serves when it says it is running, and exits when it no longer does. *)
Move(from, to) == /\ phase = from /\ phase' = to
                  /\ UNCHANGED <<gen, says, plugin>>
Serve     == Move("starting", "serving") /\ says[gen] = "running"
GiveUp    == Move("starting", "stopping") /\ says[gen] # "running"
BeginStop == Move("serving", "stopping")
Exit      == Move("stopping", "down") /\ says[gen] # "running"

(* A killed helper's region keeps what it says.                            *)
Kill == phase # "down" /\ Move(phase, "down")

-----------------------------------------------------------------------------
Begin == /\ ~calling /\ calling' = TRUE
         /\ since' = IF phase = "down" THEN gen + 1 ELSE gen
         /\ UNCHANGED <<mapped, result, helper>>

Ready(g) == says[g] = "running" \/ g < gen \/ phase \in {"stopping", "down"}

(* A mapping is never replaced.                                            *)
Attach(g) == /\ calling /\ mapped = 0
             /\ since <= g /\ g <= gen /\ Ready(g)
             /\ mapped' = g
             /\ UNCHANGED <<calling, since, result, helper>>

(* The call succeeds only with a region that says it is running.           *)
Finish(r) == /\ calling \/ r = "notRunning"
             /\ r = "ok" => mapped # 0 /\ says[mapped] = "running"
             /\ calling' = FALSE /\ since' = 0 /\ result' = r
             /\ UNCHANGED <<mapped, helper>>

Restart == /\ calling' = FALSE /\ since' = 0 /\ mapped' = 0 /\ result' = "none"
           /\ UNCHANGED helper

Next == \/ Launch \/ Serve \/ GiveUp \/ BeginStop \/ Exit \/ Kill
        \/ \E s \in {"offline", "running"} : Say(s)
        \/ Begin \/ Restart
        \/ \E g \in Launches : Attach(g)
        \/ \E r \in {"ok", "notRunning"} : Finish(r)

Spec == Init /\ [][Next]_<<helper, plugin>>
=============================================================================
