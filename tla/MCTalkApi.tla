------------------------------ MODULE MCTalkApi ------------------------------
(***************************************************************************)
(* Two hosts that are each other's peers.  The bot was moved from the      *)
(* first to the second, which has not polled the first since; one task    *)
(* has failed.                                                             *)
(***************************************************************************)
EXTENDS TalkApi

CONSTANTS h1, h2

HostsInit == /\ HostsStart([h \in Hosts |-> [p \in Hosts \ {h} |-> Bots]], RecordFailure(NewCircuit))
             /\ config = [h \in Hosts |-> IF h = h2 THEN Bots ELSE {}] /\ registry = config

\* On the first host tasks cost nothing and its circuit stays closed.
HostsNext == TalkNext /\ circuits'[h1] = circuits[h1] /\ budgets'[h1] = budgets[h1] /\ ~saveTimer'[h1]
=============================================================================
