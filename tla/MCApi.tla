------------------------------- MODULE MCApi --------------------------------
(***************************************************************************)
(* What clients and bots give a host to do over its API, each on its own   *)
(* small instance: tasks for later and at regular times, and tasks at once *)
(* on two hosts that are each other's peers.  A behaviour is of one of     *)
(* them (part); the variables of the other stay as they are at the start.  *)
(***************************************************************************)
EXTENDS MCTaskScheduler, MCTalkApi

VARIABLE part   \* which of them this behaviour is of

EachOther == [h \in {h1, h2} |-> {h1, h2} \ {h}]

schedulerVars == <<vars, ran, overlapped>>

ApiInit == MCInit /\ HostsInit /\ part \in {"scheduler", "talk"}

ApiNext ==
  /\ part' = part
  /\ \/ part = "scheduler" /\ MCNext /\ UNCHANGED talkVars
     \/ part = "talk" /\ HostsNext /\ UNCHANGED schedulerVars

ApiSpec == ApiInit /\ [][ApiNext]_<<part, schedulerVars, talkVars>>
=============================================================================
