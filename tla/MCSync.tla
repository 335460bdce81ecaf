------------------------------- MODULE MCSync -------------------------------
(***************************************************************************)
(* The two layers of synchronization, checked on one instance: the         *)
(* exchange of requests and answers (SyncLink, devices and disks) and the  *)
(* broker that carries it (SyncBroker, threads and callbacks).  The layers *)
(* share no state, so a behaviour explores one of them, chosen at the      *)
(* start, and the other stays where it began.                              *)
(***************************************************************************)
EXTENDS SyncLink

CONSTANTS
  MaxNonces, BrokerConns, MaxWrites, MaxSeq, MaxFaults   \* bounds of SyncBroker

ASSUME BrokerBounds == /\ {MaxNonces, MaxSeq} \subseteq Nat \ {0}
                       /\ {BrokerConns, MaxWrites, MaxFaults} \subseteq Nat

VARIABLES
  layer,                             \* the layer explored
  b, clock, rt, hook, radio, pump, codec, gatt, power, heard, used

brokerVars == <<b, clock, rt, hook, radio, pump, codec, gatt, power, heard, used>>
B == INSTANCE SyncBroker WITH link <- gatt, MaxConns <- BrokerConns

MCInit == layer \in {"broker", "link"} /\ Init /\ B!Init

MCNext == \/ layer = "broker" /\ B!Next /\ UNCHANGED <<layer, vars>>
          \/ layer = "link" /\ Next /\ UNCHANGED <<layer, brokerVars>>

(* The broker's threads are fair; of the link only safety is asked.        *)
MCSpec == MCInit /\ [][MCNext]_<<layer, vars, brokerVars>> /\ B!Fairness

-----------------------------------------------------------------------------
(* One owner, one frame and one session at a time, whatever the threads do *)
(* (recording_ble.c): SyncBroker's invariant.                              *)
BrokerSound == B!BrokerSound

(* An answer reaches only the connection that asked, whole and in order    *)
(* (delivery_work_handler): SyncBroker's invariant.                        *)
AnsweredInFull == B!AnsweredInFull

(* A session that was revoked ends (kick, recorder_retire): SyncBroker's   *)
(* liveness property.                                                      *)
SessionRetires == B!SessionRetires
=============================================================================
