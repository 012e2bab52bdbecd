------------------------- MODULE MCExecutorRegistry -------------------------
(* ExecutorRegistry with overlapped, which remembers that two acquire()      *)
(* calls overlapped, whatever chats they were for: some of the pool's        *)
(* promises hold only as long as none do.                                    *)
EXTENDS ExecutorRegistry

VARIABLE overlapped

MCInit == Init /\ overlapped = FALSE
MCNext ==
  /\ Next
  /\ overlapped' = (overlapped \/ \E p, q \in Callers :
                      p # q /\ caller'[p].pc # "idle" /\ caller'[q].pc # "idle")
MCSpec == MCInit /\ [][MCNext]_<<vars, overlapped>>

\* The pool never forgets a running process, respects its capacity ("Max
\* concurrent executors. LRU-evicted past this."), and a released executor is
\* gone before its chat has another; and what closes leaves it.
PoolIsSoundUnlessOverlapped ==
  /\ TypeOK /\ ClosedNeverPooled
  /\ overlapped \/ (NoOrphan /\ CapacityRespected /\ ReleasedIsAlone)
=============================================================================
