-------------------------- MODULE MessageLifecycle --------------------------
(***************************************************************************)
(* What a user may rely on for every message sent to a bot: it is taken up *)
(* at most once, it never comes back after it was turned away or answered, *)
(* and a message that waits was not yet started.                           *)
(***************************************************************************)
CONSTANT Work        \* messages and API tasks
VARIABLE status      \* of each of them

Init == status = [w \in Work |-> "new"]

\* Which status may follow which: a message only ever moves on.
Follows == [new     |-> {"waiting", "working", "over"},
            waiting |-> {"working", "over"},
            working |-> {"over"},
            over    |-> {}]

\* One event moves one message, or a message together with the media merged
\* into it, or the whole queue; each of them moves on.
Move(ws) ==
  /\ \A w \in ws : status'[w] \in Follows[status[w]]
  /\ \A w \in Work \ ws : status'[w] = status[w]
  /\ DOMAIN status' = Work

Next == \E ws \in SUBSET Work : Move(ws)

Spec == Init /\ [][Next]_status
=============================================================================
