---------------------------- MODULE MCMicrophone ----------------------------
(***************************************************************************)
(* Microphone, with Enrollment in it, on an instance whose inputs are not  *)
(* all to be had at once.  A behaviour is of one scene: every claimant of  *)
(* the admission with a pairing, the captures of the shell (alone or not), *)
(* the clip over the air with a pairing or with a restart, or two windows. *)
(* A scene limits what is begun, never a call under way.                   *)
(***************************************************************************)
EXTENDS Microphone

CONSTANT Played  \* the scenes of this run

VARIABLE scene

Scenes ==
  [admission |-> [modes |-> {"POWER", "EXTERNAL"},
                  conns |-> 1, windows |-> 1, restarts |-> TRUE],
   shell     |-> [modes |-> {"RECORD", "ARM_RECORD", "POWER", "EXTERNAL"},
                  conns |-> 0, windows |-> 1, restarts |-> TRUE],
   capture   |-> [modes |-> {"RECORD", "ARM_RECORD", "POWER", "EXTERNAL"},
                  conns |-> 0, windows |-> 0, restarts |-> FALSE],
   clip      |-> [modes |-> {"BLE"}, conns |-> 2, windows |-> 1, restarts |-> FALSE],
   restart   |-> [modes |-> {"BLE"}, conns |-> 1, windows |-> 0, restarts |-> TRUE],
   windows   |-> [modes |-> {}, conns |-> 2, windows |-> 2, restarts |-> FALSE]]

Begun(t, l) == pc'[t] = l /\ pc[t] # l

WithinScene ==
  LET s == Scenes[scene] IN
  /\ \A t \in Threads : Begun(t, "claimed") => loc'[t].mode \in s.modes
  /\ Begun("bt", "asked") => "BLE" \in s.modes
  /\ Begun("shell", "opening") \/ Begun("button", "claim") => enr.n < s.windows
  /\ Begun("shell", "looked") => s.restarts
  /\ link'.n <= s.conns /\ enr'.n <= s.windows

(* A command that finds the scene's windows used up since it began returns *)
(* as it does when MaxWindows are.                                         *)
OutOfWindows ==
  /\ pc["shell"] = "opening" /\ enr.n = Scenes[scene].windows /\ Goto("shell", "idle")
  /\ UNCHANGED <<loc, busy, recovery, enr, timer, sec, link, faults, micVars>>

MCInit == Init /\ scene \in Played
MCNext == \/ Next /\ WithinScene /\ UNCHANGED scene
          \/ OutOfWindows /\ UNCHANGED scene
MCSpec == MCInit /\ [][MCNext]_<<vars, scene>>

MCFairSpec == MCSpec /\ Fairness
=============================================================================
