------------------------- MODULE MessageBridgeProofs -------------------------
(***************************************************************************)
(* Proofs about MessageBridge for every set of messages, every limit of    *)
(* the queue and whatever the executor does.                               *)
(***************************************************************************)
EXTENDS MessageBridge, SequenceTheorems, TLAPS

(* The queue as a set. ******************************************************)

NoDuplicates(s) == \A i, j \in 1..Len(s) : s[i] = s[j] => i = j

LEMMA AppendToSet ==
  ASSUME NEW S, NEW s \in Seq(S), NEW e \in S
  PROVE  /\ Append(s, e) \in Seq(S)
         /\ Len(Append(s, e)) = Len(s) + 1
         /\ ToSet(Append(s, e)) = ToSet(s) \cup {e}
         /\ NoDuplicates(s) /\ e \notin ToSet(s) => NoDuplicates(Append(s, e))
<1>1. /\ Len(s) \in Nat /\ DOMAIN s = 1..Len(s)
      /\ Append(s, e) \in Seq(S)
      /\ Len(Append(s, e)) = Len(s) + 1
      /\ \A i \in 1..Len(s) : Append(s, e)[i] = s[i]
      /\ Append(s, e)[Len(s) + 1] = e
      /\ DOMAIN Append(s, e) = 1..(Len(s) + 1)
  BY AppendProperties, LenProperties
<1> QED BY <1>1 DEF ToSet, NoDuplicates

LEMMA TailSet ==
  ASSUME NEW S, NEW s \in Seq(S), s # <<>>
  PROVE  /\ Head(s) \in S /\ Head(s) \in ToSet(s)
         /\ Tail(s) \in Seq(S)
         /\ Len(Tail(s)) = Len(s) - 1
         /\ NoDuplicates(s) => /\ NoDuplicates(Tail(s))
                               /\ ToSet(Tail(s)) = ToSet(s) \ {Head(s)}
<1>1. /\ Len(s) \in Nat \ {0} /\ DOMAIN s = 1..Len(s)
      /\ Head(s) \in S /\ Head(s) = s[1]
      /\ Tail(s) \in Seq(S) /\ Len(Tail(s)) = Len(s) - 1
      /\ DOMAIN Tail(s) = 1..(Len(s) - 1)
      /\ \A i \in 1..(Len(s) - 1) : Tail(s)[i] = s[i + 1]
  BY HeadTailProperties, LenProperties, EmptySeq
<1>2. Head(s) \in ToSet(s)
  BY <1>1 DEF ToSet
<1>3. ASSUME NoDuplicates(s)
      PROVE  NoDuplicates(Tail(s)) /\ ToSet(Tail(s)) = ToSet(s) \ {Head(s)}
  <2>1. NoDuplicates(Tail(s))
    BY <1>1, <1>3 DEF NoDuplicates
  <2>2. ASSUME NEW e \in ToSet(Tail(s)) PROVE e \in ToSet(s) \ {Head(s)}
    <3>1. PICK i \in 1..(Len(s) - 1) : e = s[i + 1]
      BY <1>1, <2>2 DEF ToSet
    <3>2. i + 1 \in 1..Len(s) /\ i + 1 # 1 /\ 1 \in 1..Len(s)
      BY <1>1, <3>1
    <3> QED BY <1>1, <1>3, <3>1, <3>2 DEF ToSet, NoDuplicates
  <2>3. ASSUME NEW e \in ToSet(s), e # Head(s) PROVE e \in ToSet(Tail(s))
    <3>1. PICK i \in 1..Len(s) : e = s[i]
      BY <1>1, <2>3 DEF ToSet
    <3>2. i # 1
      BY <1>1, <2>3, <3>1
    <3>3. i - 1 \in 1..(Len(s) - 1) /\ Tail(s)[i - 1] = s[(i - 1) + 1] /\ (i - 1) + 1 = i
      BY <1>1, <3>1, <3>2
    <3> QED BY <1>1, <3>1, <3>3 DEF ToSet
  <2> QED BY <2>1, <2>2, <2>3
<1> QED BY <1>1, <1>2, <1>3

LEMMA EmptySet == ToSet(<<>>) = {}
BY DEF ToSet

LEMMA SeqSet ==
  ASSUME NEW S, NEW s \in Seq(S)
  PROVE  ToSet(s) \subseteq S
BY LenProperties, ElementOfSeq DEF ToSet

(* The inductive invariant. *************************************************)

\* What is in the batch waits for its timer, once.
BatchIsSound == \A w \in ToSet(batch) : pc[w] = "batched"

\* A batch is opened when nothing runs.  A task that ends takes a message off
\* the queue, and until the batch is gone nothing is put onto the queue.
BatchFindsRoom == batch # <<>> \/ running = None => Len(queue) < MaxQueueSize

BridgeInv ==
  /\ TypeOK /\ RunningIsAlive /\ QueueIsSound
  /\ BatchIsSound /\ BatchFindsRoom /\ NoMediaLost

PcType == {"new", "finalizing"} \cup Waiting \cup Starting \cup Looping \cup Over

LEMMA BridgeInit == Init => BridgeInv
<1> SUFFICES ASSUME Init PROVE BridgeInv
  OBVIOUS
<1> USE BridgeAssumption DEF Init
<1>1. TypeOK
  BY DEF TypeOK, NoTurn
<1>2. RunningIsAlive /\ NoMediaLost
  BY DEF RunningIsAlive, NoMediaLost, Work
<1>3. QueueIsSound /\ BatchIsSound /\ BatchFindsRoom
  BY EmptySet DEF QueueIsSound, BatchIsSound, BatchFindsRoom
<1> QED BY <1>1, <1>2, <1>3 DEF BridgeInv

(* Types. *******************************************************************)

LEMMA GoesType ==
  ASSUME TypeOK, NEW ws, NEW where \in PcType
  PROVE  /\ Goes(ws, where) \in [Work -> PcType]
         /\ \A w \in Work : Goes(ws, where)[w] = IF w \in ws THEN where ELSE pc[w]
BY DEF TypeOK, Goes, PcType

LEMMA QueueOrType ==
  ASSUME TypeOK, NEW w \in Work, NEW merged, NEW otherwise \in PcType,
         QueueOr(w, merged, otherwise)
  PROVE  pc' \in [Work -> PcType] /\ queue' \in Seq(Work)
<1>1. "merged" \in PcType /\ "queued" \in PcType
  BY DEF PcType, Waiting
<1>2. Append(queue, w) \in Seq(Work) /\ queue \in Seq(Work)
  BY AppendToSet DEF TypeOK
<1>3. CASE Len(queue) < MaxQueueSize
  BY <1>1, <1>2, <1>3, GoesType DEF QueueOr
<1>4. CASE ~(Len(queue) < MaxQueueSize)
  BY <1>1, <1>2, <1>4, GoesType DEF QueueOr
<1> QED BY <1>3, <1>4

LEMMA FinishType ==
  ASSUME TypeOK, NEW w \in Work
  PROVE  /\ FinishTurn(w) \in [owner : Work \cup {Continuation, None}, detached : BOOLEAN]
         /\ FinishStream(w) \in [Work -> {"none", "open", "result", "stale", "overflow", "ended", "orphaned"}]
         /\ FinishFirst(w) =>
              /\ turn' \in [owner : Work \cup {Continuation, None}, detached : BOOLEAN]
              /\ stream' \in [Work -> {"none", "open", "result", "stale", "overflow", "ended", "orphaned"}]
BY DEF TypeOK, FinishTurn, FinishStream, FinishFirst

LEMMA TypeStep == TypeOK /\ [Next]_vars => TypeOK'
<1> SUFFICES ASSUME TypeOK, [Next]_vars PROVE TypeOK'
  OBVIOUS
<1> USE DEF TypeOK, PcType
<1>1. CASE UNCHANGED vars
  BY <1>1 DEF vars, taskVars
<1>2. CASE Receive
  <2>1. ASSUME NEW m \in Texts, ReceiveText(m) PROVE TypeOK'
    <3>1. "refused" \in PcType /\ "merged" \in PcType /\ "preparing" \in PcType /\ m \in Work
      BY DEF Over, Waiting, Starting, Work
    <3>2. pc' \in [Work -> PcType] /\ queue' \in Seq(Work)
      BY <2>1, <3>1, QueueOrType, GoesType DEF ReceiveText
    <3> QED BY <2>1, <3>2, EmptySeq DEF ReceiveText, taskVars
  <2>2. ASSUME NEW m \in Texts, ReceiveUnknownCommand(m) PROVE TypeOK'
    BY <2>2 DEF ReceiveUnknownCommand, taskVars, Over, Starting
  <2>3. ASSUME NEW m \in Media, ReceiveMedia(m) PROVE TypeOK'
    <3>1. "refused" \in PcType /\ "batched" \in PcType /\ m \in Work
      BY DEF Over, Waiting, Work
    <3>2. pc' \in [Work -> PcType] /\ queue' \in Seq(Work) /\ batch' \in Seq(Media)
      <4>1. CASE running # None /\ batch = <<>>
        BY <2>3, <3>1, <4>1, QueueOrType DEF ReceiveMedia
      <4>2. CASE ~(running # None /\ batch = <<>>)
        <5>1. /\ batch' = Append(batch, m) /\ queue' = queue
              /\ pc' = [pc EXCEPT ![m] = "batched"]
          BY <2>3, <4>2 DEF ReceiveMedia
        <5>2. batch' \in Seq(Media)
          BY <5>1, AppendToSet
        <5> QED BY <5>1, <5>2, <3>1
      <4> QED BY <4>1, <4>2
    <3> QED BY <2>3, <3>2 DEF ReceiveMedia, taskVars
  <2>4. ASSUME NEW w \in ApiTasks, ReceiveApiTask(w) PROVE TypeOK'
    BY <2>4 DEF ReceiveApiTask, taskVars, Over, Starting
  <2> QED BY <1>2, <2>1, <2>2, <2>3, <2>4 DEF Receive
<1>3. CASE FlushBatch
  <2>1. "lost" \in PcType /\ "merged" \in PcType /\ "preparing" \in PcType
    BY DEF Over, Waiting, Starting
  <2>2. Head(batch) \in Work
    BY <1>3, HeadTailProperties DEF FlushBatch, Work
  <2>3. pc' \in [Work -> PcType] /\ queue' \in Seq(Work)
    <3>1. CASE running # None
      BY <1>3, <2>1, <2>2, <3>1, QueueOrType DEF FlushBatch
    <3>2. CASE running = None
      BY <1>3, <2>1, <2>2, <3>2, GoesType DEF FlushBatch
    <3> QED BY <3>1, <3>2
  <2> QED BY <1>3, <2>3, EmptySeq DEF FlushBatch, taskVars
<1>4. CASE Stop
  <2>1. "discarded" \in PcType
    BY DEF Over
  <2>2. pc' \in [Work -> PcType]
    BY <1>4, <2>1, GoesType DEF Stop
  <2>3. running # None => running \in Work
    OBVIOUS
  <2> QED BY <1>4, <2>2, <2>3, EmptySeq, FinishType DEF Stop, StopTask
<1>5. CASE StopChatTask
  <2>1. running \in Work
    BY <1>5 DEF StopChatTask
  <2> QED BY <1>5, <2>1, FinishType DEF StopChatTask, StopTask
<1>6. ASSUME NEW w \in Work, Begin(w) PROVE TypeOK'
  <2>1. CASE CardSent(w) \/ StartFails(w) \/ TurnThrows(w)
    BY <2>1 DEF CardSent, StartFails, TurnThrows, taskVars, Over, Starting
  <2>2. CASE TurnStarts(w)
    BY <2>2 DEF TurnStarts, TurnOf, Looping, Streams
  <2> QED BY <1>6, <2>1, <2>2 DEF Begin
<1>7. ASSUME NEW w \in Work, Loop(w) PROVE TypeOK'
  <2>1. CASE StreamEnds(w) \/ RetryThrows(w)
    BY <2>1 DEF StreamEnds, RetryThrows, taskVars
  <2>2. ASSUME NEW stage \in Retries, RetryBegins(w, stage) PROVE TypeOK'
    BY <2>2 DEF RetryBegins, NoTurn, Looping
  <2>3. CASE RetryStarts(w)
    BY <2>3 DEF RetryStarts, TurnOf, Looping, Streams
  <2>4. CASE Finally(w)
    <3>1. queue # <<>> => Head(queue) \in Work /\ Tail(queue) \in Seq(Work)
      BY HeadTailProperties
    <3>2. pc' \in [Work -> PcType] /\ queue' \in Seq(Work)
      BY <2>4, <3>1 DEF Finally, Over, Starting
    <3> QED BY <2>4, <3>2, FinishType DEF Finally
  <2> QED BY <1>7, <2>1, <2>2, <2>3, <2>4 DEF Loop
<1>8. ASSUME NEW w \in Work, BreaksWhenAborted(w) \/ TaskTimesOut(w) PROVE TypeOK'
  BY <1>8, FinishType DEF BreaksWhenAborted, TaskTimesOut, taskVars
<1>9. CASE Results
  BY <1>9 DEF Results, TurnResult, NoTurn
<1>10. CASE ExecutorCrashes
  BY <1>10, FinishType DEF ExecutorCrashes, NoTurn
<1>11. CASE ExecutorTornDown
  BY <1>11 DEF ExecutorTornDown, NoTurn
<1>12. CASE ContinuationOpens
  BY <1>12 DEF ContinuationOpens, TurnOf, taskVars
<1> QED BY <1>1, <1>2, <1>3, <1>4, <1>5, <1>6, <1>7, <1>8, <1>9, <1>10, <1>11, <1>12 DEF Next

\* The bridge's state keeps its types on every path.
THEOREM BridgeTypes == Spec => []TypeOK
<1>1. Init => TypeOK
  BY BridgeInit DEF BridgeInv
<1> QED BY <1>1, TypeStep, PTL DEF Spec

(* Steps of one task that touch neither queue nor batch. ********************)

LEMMA TaskStep ==
  ASSUME BridgeInv, TypeOK', UNCHANGED <<queue, batch>>,
         running' # None => pc'[running'] \in Looping \cup {"finalizing"},
         running' = None => running = None,
         \A w \in Work : \/ pc'[w] = pc[w]
                         \/ /\ pc[w] \notin {"queued", "batched"}
                            /\ pc'[w] \notin {"queued", "lost"}
  PROVE  BridgeInv'
<1>1. RunningIsAlive'
  BY DEF RunningIsAlive
<1>2. QueueIsSound'
  BY DEF BridgeInv, QueueIsSound
<1>3. ToSet(batch) \subseteq Work
  BY SeqSet DEF BridgeInv, TypeOK, Work
<1>4. BatchIsSound' /\ BatchFindsRoom' /\ NoMediaLost'
  BY <1>3 DEF BridgeInv, BatchIsSound, BatchFindsRoom, NoMediaLost, Work
<1> QED BY <1>1, <1>2, <1>4 DEF BridgeInv

\* As TaskStep, for a step that moves the message w from one pc to another.
LEMMA OneMoves ==
  ASSUME BridgeInv, TypeOK', NEW w \in Work, NEW to,
         UNCHANGED <<queue, batch, running>>,
         pc' = [pc EXCEPT ![w] = to],
         pc[w] \notin {"queued", "batched"}, to \notin {"queued", "lost"},
         pc[w] \in Looping \cup {"finalizing"} => to \in Looping \cup {"finalizing"}
  PROVE  BridgeInv'
<1>1. pc \in [Work -> PcType] /\ running \in Work \cup {None}
  BY DEF BridgeInv, TypeOK, PcType
<1>2. \A v \in Work : pc'[v] = IF v = w THEN to ELSE pc[v]
  BY <1>1
<1>3. running' # None => pc'[running'] \in Looping \cup {"finalizing"}
  BY <1>1, <1>2 DEF BridgeInv, RunningIsAlive
<1> QED BY <1>2, <1>3, TaskStep

(* Steps on the queue and the batch. ****************************************)

\* What QueueOr does to a message that was in neither queue nor task, and to
\* those merged into it.
LEMMA QueueOrSound ==
  ASSUME BridgeInv, NEW w \in Work, NEW merged \in SUBSET Work, NEW otherwise,
         pc[w] \in {"new", "batched"}, \A v \in merged : pc[v] = "batched",
         w \notin merged, otherwise # "queued",
         QueueOr(w, merged, otherwise)
  PROVE  /\ QueueIsSound'
         /\ \A v \in Work \ (merged \cup {w}) : pc'[v] = pc[v]
         /\ Len(queue) < MaxQueueSize =>
              \A v \in merged \cup {w} : pc'[v] \in {"queued", "merged"}
         /\ \A v \in merged \cup {w} : pc'[v] \in {"queued", "merged", otherwise}
         /\ ~(Len(queue) < MaxQueueSize) => queue' = queue
<1>1. /\ pc \in [Work -> PcType] /\ queue \in Seq(Work) /\ Len(queue) \in Nat
      /\ QueueIsSound /\ MaxQueueSize \in Nat
  BY BridgeAssumption, LenProperties DEF BridgeInv, TypeOK, PcType
<1>2. NoDuplicates(queue) /\ w \notin ToSet(queue)
  BY <1>1 DEF QueueIsSound, NoDuplicates
<1>3. CASE Len(queue) < MaxQueueSize
  <2>1. queue' = Append(queue, w) /\ pc' = [Goes(merged, "merged") EXCEPT ![w] = "queued"]
    BY <1>3 DEF QueueOr
  <2>2. \A v \in Work : pc'[v] = IF v = w THEN "queued"
                                 ELSE IF v \in merged THEN "merged" ELSE pc[v]
    BY <2>1 DEF Goes
  <2>3. /\ ToSet(queue') = ToSet(queue) \cup {w}
        /\ NoDuplicates(queue') /\ Len(queue') = Len(queue) + 1
    BY <1>1, <1>2, <2>1, AppendToSet
  <2>4. Len(queue') <= MaxQueueSize
    BY <1>1, <1>3, <2>3
  <2>5. QueueIsSound'
    BY <1>1, <2>2, <2>3, <2>4 DEF QueueIsSound, NoDuplicates
  <2> QED BY <1>3, <2>2, <2>5
<1>4. CASE ~(Len(queue) < MaxQueueSize)
  <2>1. queue' = queue /\ pc' = Goes(merged \cup {w}, otherwise)
    BY <1>4 DEF QueueOr
  <2>2. \A v \in Work : pc'[v] = IF v \in merged \cup {w} THEN otherwise ELSE pc[v]
    BY <2>1 DEF Goes
  <2>3. QueueIsSound'
    BY <1>1, <1>2, <2>1, <2>2 DEF QueueIsSound
  <2> QED BY <1>4, <2>1, <2>2, <2>3
<1> QED BY <1>3, <1>4

LEMMA ReceiveTextSound ==
  ASSUME BridgeInv, TypeOK', NEW m \in Texts, ReceiveText(m)
  PROVE  BridgeInv'
<1>1. /\ pc[m] = "new" /\ batch' = <<>> /\ running' = running /\ m \in Work /\ m \notin Media
      /\ pc \in [Work -> PcType] /\ running \in Work \cup {None}
  BY BridgeAssumption DEF ReceiveText, BridgeInv, TypeOK, PcType, Work
<1>2. /\ ToSet(batch) \subseteq Work /\ m \notin ToSet(batch)
      /\ \A v \in ToSet(batch) : pc[v] = "batched"
  BY <1>1, SeqSet DEF BridgeInv, BatchIsSound, TypeOK, Work
<1>3. BatchIsSound'
  BY <1>1, EmptySet DEF BatchIsSound
<1>4. CASE running # None
  <2>1. QueueOr(m, ToSet(batch), "refused")
    BY <1>4 DEF ReceiveText
  <2>2. /\ QueueIsSound'
        /\ \A v \in Work \ (ToSet(batch) \cup {m}) : pc'[v] = pc[v]
        /\ \A v \in ToSet(batch) \cup {m} : pc'[v] \in {"queued", "merged", "refused"}
    BY <1>1, <1>2, <2>1, QueueOrSound
  <2>3. running \notin ToSet(batch) \cup {m} /\ running \in Work
    BY <1>1, <1>2, <1>4 DEF BridgeInv, RunningIsAlive, Looping, Streams, Retries
  <2>4. RunningIsAlive'
    BY <1>1, <2>2, <2>3 DEF BridgeInv, RunningIsAlive
  <2>5. BatchFindsRoom' /\ NoMediaLost'
    BY <1>1, <1>4, <2>2 DEF BridgeInv, BatchFindsRoom, NoMediaLost, Work
  <2> QED BY <1>3, <2>2, <2>4, <2>5 DEF BridgeInv
<1>5. CASE running = None
  <2>1. /\ pc' = [Goes(ToSet(batch), "merged") EXCEPT ![m] = "preparing"] /\ queue' = queue
    BY <1>5 DEF ReceiveText
  <2>2. \A v \in Work : pc'[v] = IF v = m THEN "preparing"
                                 ELSE IF v \in ToSet(batch) THEN "merged" ELSE pc[v]
    BY <1>1, <2>1 DEF Goes
  <2>3. QueueIsSound'
    BY <1>1, <1>2, <2>1, <2>2 DEF BridgeInv, QueueIsSound
  <2>4. RunningIsAlive' /\ BatchFindsRoom' /\ NoMediaLost'
    BY <1>1, <1>5, <2>1, <2>2 DEF BridgeInv, RunningIsAlive, BatchFindsRoom, NoMediaLost, Work
  <2> QED BY <1>3, <2>3, <2>4 DEF BridgeInv
<1> QED BY <1>4, <1>5

LEMMA ReceiveMediaSound ==
  ASSUME BridgeInv, TypeOK', NEW m \in Media, ReceiveMedia(m)
  PROVE  BridgeInv'
<1>1. /\ pc[m] = "new" /\ running' = running /\ m \in Work
      /\ pc \in [Work -> PcType] /\ running \in Work \cup {None} /\ batch \in Seq(Media)
  BY DEF ReceiveMedia, BridgeInv, TypeOK, PcType, Work
<1>2. ToSet(batch) \subseteq Work /\ \A v \in ToSet(batch) : pc[v] = "batched"
  BY SeqSet DEF BridgeInv, BatchIsSound, TypeOK, Work
<1>3. running # m
  BY <1>1, BridgeAssumption DEF BridgeInv, RunningIsAlive, Looping, Streams, Retries
<1>4. CASE running # None /\ batch = <<>>
  <2>1. QueueOr(m, {}, "refused") /\ batch' = batch
    BY <1>4 DEF ReceiveMedia
  <2>2. /\ QueueIsSound'
        /\ \A v \in Work \ {m} : pc'[v] = pc[v]
        /\ pc'[m] \in {"queued", "merged", "refused"}
    <3> DEFINE merged == {}
    <3>1. merged \in SUBSET Work /\ m \notin merged /\ QueueOr(m, merged, "refused")
      BY <2>1
    <3> HIDE DEF merged
    <3>2. /\ QueueIsSound'
          /\ \A v \in Work \ (merged \cup {m}) : pc'[v] = pc[v]
          /\ \A v \in merged \cup {m} : pc'[v] \in {"queued", "merged", "refused"}
      <4>1. \A v \in merged : pc[v] = "batched"
        BY DEF merged
      <4> QED BY <1>1, <3>1, <4>1, QueueOrSound
    <3> QED BY <3>2 DEF merged
  <2>3. BatchIsSound'
    BY <1>4, <2>1, EmptySet DEF BatchIsSound
  <2>4. RunningIsAlive' /\ BatchFindsRoom' /\ NoMediaLost'
    BY <1>1, <1>3, <1>4, <2>1, <2>2 DEF BridgeInv, RunningIsAlive, BatchFindsRoom, NoMediaLost, Work
  <2> QED BY <2>2, <2>3, <2>4 DEF BridgeInv
<1>5. CASE ~(running # None /\ batch = <<>>)
  <2>1. batch' = Append(batch, m) /\ pc' = [pc EXCEPT ![m] = "batched"] /\ queue' = queue
    BY <1>5 DEF ReceiveMedia
  <2>2. \A v \in Work : pc'[v] = IF v = m THEN "batched" ELSE pc[v]
    BY <1>1, <2>1
  <2>3. ToSet(batch') = ToSet(batch) \cup {m}
    BY <1>1, <2>1, AppendToSet
  <2>4. QueueIsSound'
    <3>1. QueueIsSound /\ m \notin ToSet(queue)
      BY <1>1 DEF BridgeInv, QueueIsSound
    <3> QED BY <2>1, <2>2, <3>1 DEF QueueIsSound
  <2>5. BatchIsSound'
    BY <1>1, <1>2, <2>2, <2>3 DEF BatchIsSound
  <2>6. BatchFindsRoom'
    BY <1>1, <1>5, <2>1 DEF BridgeInv, BatchFindsRoom
  <2>7. RunningIsAlive' /\ NoMediaLost'
    BY <1>1, <1>3, <2>2 DEF BridgeInv, RunningIsAlive, NoMediaLost, Work
  <2> QED BY <2>4, <2>5, <2>6, <2>7 DEF BridgeInv
<1> QED BY <1>4, <1>5

\* The debounce timer: at this moment the queue has room, whatever happened
\* since the batch was opened.
LEMMA FlushBatchSound ==
  ASSUME BridgeInv, TypeOK', FlushBatch
  PROVE  BridgeInv'
<1> DEFINE first == Head(batch)
           rest  == ToSet(Tail(batch))
<1>1. /\ batch \in Seq(Media) /\ batch # <<>> /\ batch' = <<>> /\ running' = running
      /\ pc \in [Work -> PcType] /\ running \in Work \cup {None}
  BY DEF FlushBatch, BridgeInv, TypeOK, PcType
<1>2. /\ first \in Work /\ rest \in SUBSET Work
      /\ pc[first] = "batched" /\ \A v \in rest : pc[v] = "batched"
  <2>1. first \in Media /\ first \in ToSet(batch) /\ Tail(batch) \in Seq(Media)
    BY <1>1, TailSet
  <2>2. rest \subseteq Media /\ rest \subseteq ToSet(batch)
    <3>1. rest \subseteq Media
      BY <2>1, SeqSet
    <3>2. \A i \in DOMAIN Tail(batch) : i + 1 \in DOMAIN batch /\ Tail(batch)[i] = batch[i + 1]
      BY <1>1, HeadTailProperties, LenProperties, EmptySeq
    <3> QED BY <3>1, <3>2 DEF ToSet
  <2> QED BY <2>1, <2>2 DEF BridgeInv, BatchIsSound, Work
<1> HIDE DEF first, rest
<1>3. Len(queue) < MaxQueueSize
  BY <1>1 DEF BridgeInv, BatchFindsRoom
<1>4. BatchIsSound'
  BY <1>1, EmptySet DEF BatchIsSound
<1>5. CASE running # None
  <2>1. queue' = Append(queue, first) /\ pc' = [Goes(rest, "merged") EXCEPT ![first] = "queued"]
    BY <1>3, <1>5 DEF FlushBatch, QueueOr, first, rest
  <2>2. \A v \in Work : pc'[v] = IF v = first THEN "queued"
                                 ELSE IF v \in rest THEN "merged" ELSE pc[v]
    BY <1>2, <2>1 DEF Goes
  <2>3. QueueIsSound'
    <3>1. /\ queue \in Seq(Work) /\ Len(queue) \in Nat /\ MaxQueueSize \in Nat
          /\ QueueIsSound
      BY BridgeAssumption, LenProperties DEF BridgeInv, TypeOK
    <3>2. NoDuplicates(queue) /\ first \notin ToSet(queue)
      BY <1>2, <3>1 DEF QueueIsSound, NoDuplicates
    <3>3. /\ ToSet(queue') = ToSet(queue) \cup {first}
          /\ NoDuplicates(queue') /\ Len(queue') = Len(queue) + 1
      BY <1>2, <2>1, <3>1, <3>2, AppendToSet
    <3>4. Len(queue') <= MaxQueueSize
      BY <1>3, <3>1, <3>3
    <3>5. \A v \in rest : v \notin ToSet(queue)
      BY <1>2, <3>1 DEF QueueIsSound
    <3> QED BY <1>2, <2>2, <3>1, <3>3, <3>4, <3>5 DEF QueueIsSound, NoDuplicates
  <2>4. running \notin rest \cup {first} /\ running \in Work
    BY <1>1, <1>2, <1>5 DEF BridgeInv, RunningIsAlive, Looping, Streams, Retries
  <2>5. RunningIsAlive' /\ BatchFindsRoom' /\ NoMediaLost'
    BY <1>1, <1>2, <1>5, <2>2, <2>4 DEF BridgeInv, RunningIsAlive, BatchFindsRoom, NoMediaLost, Work
  <2> QED BY <1>4, <2>3, <2>5 DEF BridgeInv
<1>6. CASE running = None
  <2>1. pc' = [Goes(rest, "merged") EXCEPT ![first] = "preparing"] /\ queue' = queue
    BY <1>6 DEF FlushBatch, first, rest
  <2>2. \A v \in Work : pc'[v] = IF v = first THEN "preparing"
                                 ELSE IF v \in rest THEN "merged" ELSE pc[v]
    BY <1>2, <2>1 DEF Goes
  <2>3. QueueIsSound'
    <3>1. QueueIsSound /\ \A v \in rest \cup {first} : v \notin ToSet(queue)
      BY <1>2 DEF BridgeInv, QueueIsSound
    <3> QED BY <1>2, <2>1, <2>2, <3>1 DEF QueueIsSound
  <2>4. RunningIsAlive' /\ BatchFindsRoom' /\ NoMediaLost'
    BY <1>1, <1>2, <1>3, <1>6, <2>1, <2>2
    DEF BridgeInv, RunningIsAlive, BatchFindsRoom, NoMediaLost, Work
  <2> QED BY <1>4, <2>3, <2>4 DEF BridgeInv
<1> QED BY <1>5, <1>6

LEMMA StopSound ==
  ASSUME BridgeInv, TypeOK', Stop
  PROVE  BridgeInv'
<1>1. /\ pc' = Goes(ToSet(queue), "discarded") /\ queue' = <<>>
      /\ running' = running /\ batch' = batch
      /\ pc \in [Work -> PcType] /\ running \in Work \cup {None} /\ QueueIsSound
      /\ MaxQueueSize \in Nat \ {0}
      /\ ToSet(batch) \subseteq Work
  BY BridgeAssumption, SeqSet DEF Stop, BridgeInv, TypeOK, PcType, Work
<1>2. \A v \in Work : pc'[v] = IF v \in ToSet(queue) THEN "discarded" ELSE pc[v]
  BY <1>1 DEF Goes
<1>3. /\ \A v \in Work : v \in ToSet(queue) <=> pc[v] = "queued"
      /\ ToSet(queue') = {} /\ Len(queue') = 0
  BY <1>1, EmptySet DEF QueueIsSound
<1>4. QueueIsSound'
  BY <1>1, <1>2, <1>3 DEF QueueIsSound
<1>5. BatchIsSound' /\ NoMediaLost' /\ BatchFindsRoom'
  BY <1>1, <1>2, <1>3 DEF BridgeInv, BatchIsSound, NoMediaLost, BatchFindsRoom, Work
<1>6. RunningIsAlive'
  BY <1>1, <1>2, <1>3 DEF BridgeInv, RunningIsAlive, Looping, Streams, Retries
<1> QED BY <1>4, <1>5, <1>6 DEF BridgeInv

\* A task that ends takes the next message with it.
LEMMA FinallySound ==
  ASSUME BridgeInv, TypeOK', NEW w \in Work, Finally(w)
  PROVE  BridgeInv'
<1>1. /\ pc \in [Work -> PcType] /\ running \in Work \cup {None} /\ queue \in Seq(Work)
      /\ pc[w] = "finalizing" /\ batch' = batch
      /\ running' = (IF Owns(w) THEN None ELSE running)
      /\ QueueIsSound /\ NoDuplicates(queue) /\ ToSet(batch) \subseteq Work
      /\ \A v \in Work : v \in ToSet(queue) <=> pc[v] = "queued"
      /\ Len(queue) \in Nat /\ MaxQueueSize \in Nat \ {0}
      /\ Len(queue) <= MaxQueueSize
  BY BridgeAssumption, SeqSet, LenProperties
  DEF Finally, BridgeInv, TypeOK, PcType, QueueIsSound, NoDuplicates, Work
<1>2. CASE Owns(w) /\ queue # <<>>
  <2> DEFINE next == Head(queue)
  <2>1. queue' = Tail(queue) /\ pc' = [pc EXCEPT ![w] = "done", ![next] = "preparing"]
    BY <1>2 DEF Finally
  <2>2. /\ next \in Work /\ next \in ToSet(queue)
        /\ NoDuplicates(queue') /\ ToSet(queue') = ToSet(queue) \ {next}
        /\ Len(queue') = Len(queue) - 1
    BY <1>1, <1>2, <2>1, TailSet
  <2> HIDE DEF next
  <2>3. pc[next] = "queued"
    BY <1>1, <2>2
  <2>4. \A v \in Work : pc'[v] = IF v = next THEN "preparing"
                                 ELSE IF v = w THEN "done" ELSE pc[v]
    BY <1>1, <2>1, <2>2
  <2>5. Len(queue') < MaxQueueSize
    BY <1>1, <2>2
  <2>6. QueueIsSound'
    <3>1. Len(queue') <= MaxQueueSize
      BY <1>1, <2>2
    <3> QED BY <1>1, <2>2, <2>3, <2>4, <3>1 DEF QueueIsSound, NoDuplicates
  <2>7. BatchIsSound'
    BY <1>1, <2>3, <2>4 DEF BridgeInv, BatchIsSound
  <2>8. RunningIsAlive' /\ BatchFindsRoom' /\ NoMediaLost'
    BY <1>1, <1>2, <2>4, <2>5 DEF BridgeInv, RunningIsAlive, BatchFindsRoom, NoMediaLost, Work
  <2> QED BY <2>6, <2>7, <2>8 DEF BridgeInv
<1>3. CASE ~(Owns(w) /\ queue # <<>>)
  <2>1. queue' = queue /\ pc' = [pc EXCEPT ![w] = "done"]
    BY <1>3 DEF Finally
  <2>2. \A v \in Work : pc'[v] = IF v = w THEN "done" ELSE pc[v]
    BY <1>1, <2>1
  <2>3. QueueIsSound' /\ BatchIsSound' /\ NoMediaLost'
    BY <1>1, <2>1, <2>2 DEF BridgeInv, QueueIsSound, BatchIsSound, NoMediaLost, Work
  <2>4. RunningIsAlive'
    BY <1>1, <2>2 DEF BridgeInv, RunningIsAlive, Owns
  <2>5. queue = <<>> => Len(queue) < MaxQueueSize
    BY <1>1
  <2>6. BatchFindsRoom'
    BY <1>1, <1>3, <2>1, <2>5 DEF BridgeInv, BatchFindsRoom
  <2> QED BY <2>3, <2>4, <2>6 DEF BridgeInv
<1> QED BY <1>2, <1>3

LEMMA BridgeStep == BridgeInv /\ [Next]_vars => BridgeInv'
<1> SUFFICES ASSUME BridgeInv, [Next]_vars PROVE BridgeInv'
  OBVIOUS
<1>1. TypeOK /\ TypeOK' /\ RunningIsAlive
  BY TypeStep DEF BridgeInv
<1>2. pc \in [Work -> PcType] /\ running \in Work \cup {None}
  BY <1>1 DEF TypeOK, PcType
<1>3. ASSUME UNCHANGED <<pc, running, queue, batch>> PROVE BridgeInv'
  BY <1>1, <1>3, TaskStep DEF RunningIsAlive
<1>4. CASE UNCHANGED vars
  BY <1>3, <1>4 DEF vars
<1>5. CASE Receive
  <2>1. ASSUME NEW m \in Texts, ReceiveUnknownCommand(m) PROVE BridgeInv'
    <3>1. m \in Work /\ (IF running # None THEN "refused" ELSE "preparing") \in {"refused", "preparing"}
      BY DEF Work
    <3> QED BY <1>1, <2>1, <3>1, OneMoves DEF ReceiveUnknownCommand, Looping, Streams, Retries
  <2>2. ASSUME NEW w \in ApiTasks, ReceiveApiTask(w) PROVE BridgeInv'
    <3>1. w \in Work /\ (IF running # None THEN "refused" ELSE "preparing") \in {"refused", "preparing"}
      BY DEF Work
    <3> QED BY <1>1, <2>2, <3>1, OneMoves DEF ReceiveApiTask, Looping, Streams, Retries
  <2> QED BY <1>1, <1>5, <2>1, <2>2, ReceiveTextSound, ReceiveMediaSound DEF Receive
<1>6. ASSUME NEW w \in Work, Begin(w) PROVE BridgeInv'
  <2>1. CASE CardSent(w) \/ StartFails(w) \/ TurnThrows(w)
    BY <1>1, <2>1, OneMoves DEF CardSent, StartFails, TurnThrows, Starting, Looping, Streams, Retries
  <2>2. CASE TurnStarts(w)
    <3>1. /\ pc' = [pc EXCEPT ![w] = "streaming"] /\ running' = w
          /\ pc[w] = "starting" /\ UNCHANGED <<queue, batch>>
      BY <2>2 DEF TurnStarts
    <3>2. \A v \in Work : pc'[v] = IF v = w THEN "streaming" ELSE pc[v]
      BY <1>2, <3>1
    <3>3. running' # None
      BY <3>1, BridgeAssumption
    <3> QED BY <1>1, <3>1, <3>2, <3>3, TaskStep DEF Looping, Streams
  <2> QED BY <1>6, <2>1, <2>2 DEF Begin
<1>7. ASSUME NEW w \in Work, Loop(w) PROVE BridgeInv'
  <2>1. CASE ~Finally(w)
    <3>1. \E to \in Looping \cup {"finalizing"} :
             pc' = [pc EXCEPT ![w] = to] /\ pc[w] \in Looping
      BY <1>7, <2>1 DEF Loop, StreamEnds, RetryBegins, RetryNeeded, RetryStarts, RetryThrows,
                        Looping, Streams, Retries
    <3>2. UNCHANGED <<queue, batch, running>>
      BY <1>7, <2>1 DEF Loop, StreamEnds, RetryBegins, RetryStarts, RetryThrows
    <3> QED BY <1>1, <3>1, <3>2, OneMoves DEF Looping, Streams, Retries
  <2>2. CASE Finally(w)
    BY <1>1, <2>2, FinallySound
  <2> QED BY <1>7, <2>1, <2>2 DEF Loop
<1>8. ASSUME NEW w \in Work, BreaksWhenAborted(w) PROVE BridgeInv'
  <2>1. /\ pc[w] \in Streams /\ pc' = [pc EXCEPT ![w] = "finalizing"]
        /\ UNCHANGED <<queue, batch, running>>
    BY <1>8 DEF BreaksWhenAborted
  <2> QED BY <1>1, <2>1, OneMoves DEF Streams
<1>9. CASE StopChatTask \/ (\E w \in Work : TaskTimesOut(w))
  BY <1>3, <1>9 DEF StopChatTask, TaskTimesOut
<1>10. CASE Results \/ ExecutorCrashes \/ ExecutorTornDown \/ ContinuationOpens
  BY <1>3, <1>10 DEF Results, TurnResult, ExecutorCrashes, ExecutorTornDown, ContinuationOpens
<1> QED BY <1>1, <1>4, <1>5, <1>6, <1>7, <1>8, <1>9, <1>10, FlushBatchSound, StopSound DEF Next

\* However tasks, retries, timeouts and /stop interleave, runningTasks points
\* to a task whose loop will come to its finally (executeQuery).
THEOREM RunningTaskIsAlive == Spec => []RunningIsAlive
<1>1. BridgeInv => RunningIsAlive
  BY DEF BridgeInv
<1> QED BY <1>1, BridgeInit, BridgeStep, PTL DEF Spec

\* The queue keeps its limit, holds no message twice and holds exactly the
\* messages that wait in it (handleMessage, flushBatch, processQueue).
THEOREM QueueStaysSound == Spec => []QueueIsSound
<1>1. BridgeInv => QueueIsSound
  BY DEF BridgeInv
<1> QED BY <1>1, BridgeInit, BridgeStep, PTL DEF Spec

\* flushBatch() has a branch that would drop media without a notice, and for
\* no limit and no interleaving is it ever taken.
THEOREM FlushedMediaIsKept == Spec => []NoMediaLost
<1>1. BridgeInv => NoMediaLost
  BY DEF BridgeInv
<1> QED BY <1>1, BridgeInit, BridgeStep, PTL DEF Spec

(* /stop finds the turn in flight. ******************************************)

LEMMA StoppableStep ==
  ASSUME ApiTasks = {}, TypeOK, LiveTurnIsStoppable, [Next]_vars
  PROVE  LiveTurnIsStoppable'
<1>1. /\ None \notin Work /\ Continuation \notin Work
      /\ turn \in [owner : Work \cup {Continuation, None}, detached : BOOLEAN]
  BY BridgeAssumption DEF TypeOK
<1>2. ASSUME UNCHANGED <<running, turn>>, retried \subseteq retried' PROVE LiveTurnIsStoppable'
  BY <1>2 DEF LiveTurnIsStoppable
<1>3. ASSUME turn' \in {NoTurn, TurnOf(Continuation)} PROVE LiveTurnIsStoppable'
  BY <1>1, <1>3 DEF LiveTurnIsStoppable, NoTurn, TurnOf
<1>4. ASSUME NEW w, turn' = FinishTurn(w), UNCHANGED <<running, retried>> PROVE LiveTurnIsStoppable'
  BY <1>1, <1>4 DEF LiveTurnIsStoppable, FinishTurn
<1>5. CASE Receive \/ FlushBatch
  BY <1>2, <1>5 DEF Receive, ReceiveText, ReceiveUnknownCommand, ReceiveMedia, ReceiveApiTask,
                    FlushBatch, taskVars
<1>6. CASE Stop \/ StopChatTask
  BY <1>2, <1>4, <1>6 DEF Stop, StopChatTask, StopTask
<1>7. ASSUME NEW w \in Work, Begin(w) PROVE LiveTurnIsStoppable'
  <2>1. CASE TurnStarts(w)
    BY <2>1 DEF TurnStarts, TurnOf, LiveTurnIsStoppable
  <2>2. CASE CardSent(w) \/ StartFails(w) \/ TurnThrows(w)
    BY <1>2, <2>2 DEF CardSent, StartFails, TurnThrows, taskVars
  <2> QED BY <1>7, <2>1, <2>2 DEF Begin
<1>8. ASSUME NEW w \in Work, Loop(w) PROVE LiveTurnIsStoppable'
  <2>1. CASE StreamEnds(w) \/ RetryThrows(w)
    BY <1>2, <2>1 DEF StreamEnds, RetryThrows, taskVars
  <2>2. ASSUME NEW stage \in Retries, RetryBegins(w, stage) PROVE LiveTurnIsStoppable'
    BY <1>3, <2>2 DEF RetryBegins
  \* A second turn is out of the property's reach.
  <2>3. CASE RetryStarts(w)
    BY <2>3 DEF RetryStarts, LiveTurnIsStoppable
  \* The task that leaves runningTasks is the one that owns the turn, and its
  \* turn was finished before.
  <2>4. CASE Finally(w)
    <3>1. /\ FinishFirst(w) /\ UNCHANGED retried
          /\ running' = IF running = w THEN None ELSE running
      BY <2>4 DEF Finally, Owns
    <3>2. CASE w \in retried
      BY <3>1, <3>2 DEF LiveTurnIsStoppable
    <3>3. CASE w \notin retried
      BY <1>1, <3>1, <3>3 DEF FinishFirst, FinishTurn, LiveTurnIsStoppable
    <3> QED BY <3>2, <3>3
  <2> QED BY <1>8, <2>1, <2>2, <2>3, <2>4 DEF Loop
<1>9. ASSUME NEW w \in Work, BreaksWhenAborted(w) \/ TaskTimesOut(w) PROVE LiveTurnIsStoppable'
  BY <1>2, <1>4, <1>9 DEF BreaksWhenAborted, TaskTimesOut, FinishFirst, taskVars
<1>10. CASE Results \/ ExecutorCrashes \/ ExecutorTornDown \/ ContinuationOpens
  BY <1>3, <1>10 DEF Results, TurnResult, ExecutorCrashes, ExecutorTornDown, ContinuationOpens
<1>11. CASE UNCHANGED vars
  BY <1>2, <1>11 DEF vars, taskVars
<1> QED BY <1>5, <1>6, <1>7, <1>8, <1>9, <1>10, <1>11 DEF Next

\* However many texts and media start at once, and however their tasks end, the
\* one whose turn is in flight is the one /stop finds in runningTasks.  A task
\* of the API leaves runningTasks whoever is entered (executeApiTask), so this
\* is said of a chat without them.
THEOREM LiveTurnsAreStoppable ==
  ASSUME ApiTasks = {}
  PROVE  Spec => []LiveTurnIsStoppable
<1>1. Init => LiveTurnIsStoppable
  BY BridgeAssumption DEF Init, NoTurn, LiveTurnIsStoppable
<1>2. TypeOK /\ LiveTurnIsStoppable /\ [Next]_vars => LiveTurnIsStoppable'
  BY StoppableStep
<1> QED BY <1>1, <1>2, BridgeTypes, PTL DEF Spec

-----------------------------------------------------------------------------
(* MessageBridge implements MessageLifecycle, for every set of messages and *)
(* every limit of the queue.                                                *)

LEMMA Stages ==
  /\ StageOf("new") = "new"
  /\ \A p \in Waiting : StageOf(p) = "waiting"
  /\ \A p \in Over : StageOf(p) = "over"
  /\ \A p \in Starting \cup Looping \cup {"finalizing"} : StageOf(p) = "working"
<1>1. StageOf("new") = "new"
  BY DEF StageOf, Waiting, Over
<1>2. \A p \in Waiting : StageOf(p) = "waiting"
  BY DEF StageOf, Waiting, Over
<1>3. \A p \in Over : StageOf(p) = "over"
  BY DEF StageOf, Waiting, Over
<1>4. \A p \in Starting \cup Looping \cup {"finalizing"} : StageOf(p) = "working"
  BY DEF StageOf, Waiting, Over, Starting, Looping, Streams, Retries
<1> QED BY <1>1, <1>2, <1>3, <1>4

\* A change of pc that stays in its stage, or goes on to a later one.
Onward(p, q) ==
  \/ q = p
  \/ p = "new"
  \/ p \in Waiting /\ q \notin {"new"}
  \/ p \in Starting \cup Looping \cup {"finalizing"} /\ q \notin {"new"} \cup Waiting

AllOnward == \A w \in Work : Onward(pc[w], pc'[w])

LEMMA OnwardFollows ==
  ASSUME NEW p \in PcType, NEW q \in PcType, Onward(p, q)
  PROVE  StageOf(q) = StageOf(p) \/ StageOf(q) \in Lifecycle!Follows[StageOf(p)]
<1>1. /\ p = "new" \/ p \in Waiting \/ p \in Over \/ p \in Starting \cup Looping \cup {"finalizing"}
      /\ q = "new" \/ q \in Waiting \/ q \in Over \/ q \in Starting \cup Looping \cup {"finalizing"}
  BY DEF PcType
<1>2. /\ Lifecycle!Follows["new"] = {"waiting", "working", "over"}
      /\ Lifecycle!Follows["waiting"] = {"working", "over"}
      /\ Lifecycle!Follows["working"] = {"over"}
  BY DEF Lifecycle!Follows
<1>3. CASE p = "new"
  BY <1>1, <1>2, <1>3, Stages
<1>4. CASE p \in Waiting
  BY <1>1, <1>2, <1>4, Stages DEF Onward, Waiting, Starting, Looping, Streams, Retries
<1>5. CASE p \in Starting \cup Looping \cup {"finalizing"}
  BY <1>1, <1>2, <1>5, Stages DEF Onward, Waiting, Starting, Looping, Streams, Retries
<1>6. CASE p \in Over
  <2>1. q = p
    BY <1>6 DEF Onward, Over, Waiting, Starting, Looping, Streams, Retries
  <2> QED BY <2>1
<1> QED BY <1>1, <1>3, <1>4, <1>5, <1>6

(* Every step moves messages onward. ****************************************)

LEMMA OneOnward ==
  ASSUME TypeOK, NEW w \in Work, NEW to, pc' = [pc EXCEPT ![w] = to], Onward(pc[w], to)
  PROVE  AllOnward
BY DEF TypeOK, AllOnward, Onward

LEMMA QueueOrOnward ==
  ASSUME TypeOK, NEW w \in Work, NEW merged \in SUBSET Work, NEW otherwise \in Over,
         pc[w] \in {"new"} \cup Waiting, \A v \in merged : pc[v] = "batched",
         QueueOr(w, merged, otherwise)
  PROVE  AllOnward
<1>1. \A v \in Work : \/ pc'[v] = pc[v]
                      \/ /\ pc[v] \in {"new"} \cup Waiting
                         /\ pc'[v] \in {"queued", "merged", otherwise}
  <2>1. CASE Len(queue) < MaxQueueSize
    BY <2>1 DEF QueueOr, Goes, Waiting
  <2>2. CASE ~(Len(queue) < MaxQueueSize)
    BY <2>2 DEF QueueOr, Goes, Waiting
  <2> QED BY <2>1, <2>2
<1>2. "new" \notin {"queued", "merged", otherwise}
  BY DEF Over
<1> QED BY <1>1, <1>2 DEF AllOnward, Onward

LEMMA StepIsOnward == BridgeInv /\ Next => AllOnward
<1> SUFFICES ASSUME BridgeInv, Next PROVE AllOnward
  OBVIOUS
<1>1. /\ TypeOK /\ pc \in [Work -> PcType]
      /\ ToSet(batch) \in SUBSET Work /\ \A v \in ToSet(batch) : pc[v] = "batched"
      /\ \A v \in Work : v \in ToSet(queue) <=> pc[v] = "queued"
  BY SeqSet DEF BridgeInv, TypeOK, PcType, BatchIsSound, QueueIsSound, Work
<1>2. ASSUME UNCHANGED pc PROVE AllOnward
  BY <1>2 DEF AllOnward, Onward
<1>3. ASSUME NEW m \in Texts, ReceiveText(m) PROVE AllOnward
  <2>1. m \in Work /\ "refused" \in Over /\ pc[m] = "new"
    BY <1>3 DEF ReceiveText, Work, Over
  <2>2. CASE running # None
    BY <1>1, <1>3, <2>1, <2>2, QueueOrOnward DEF ReceiveText
  <2>3. CASE running = None
    <3>1. pc' = [Goes(ToSet(batch), "merged") EXCEPT ![m] = "preparing"]
      BY <1>3, <2>3 DEF ReceiveText
    <3>2. \A v \in Work : pc'[v] = IF v = m THEN "preparing"
                                   ELSE IF v \in ToSet(batch) THEN "merged" ELSE pc[v]
      BY <3>1 DEF Goes
    <3> QED BY <1>1, <2>1, <3>2 DEF AllOnward, Onward, Waiting
  <2> QED BY <2>2, <2>3
<1>4. ASSUME NEW m \in Media, ReceiveMedia(m) PROVE AllOnward
  <2>1. m \in Work /\ "refused" \in Over /\ pc[m] = "new"
    BY <1>4 DEF ReceiveMedia, Work, Over
  <2>2. CASE running # None /\ batch = <<>>
    <3> DEFINE merged == ToSet(batch)
    <3>1. QueueOr(m, merged, "refused")
      BY <1>4, <2>2, EmptySet DEF ReceiveMedia
    <3> QED BY <1>1, <2>1, <3>1, QueueOrOnward
  <2>3. CASE ~(running # None /\ batch = <<>>)
    BY <1>1, <1>4, <2>1, <2>3, OneOnward DEF ReceiveMedia, Onward
  <2> QED BY <2>2, <2>3
<1>5. ASSUME NEW w \in Work, ReceiveUnknownCommand(w) \/ ReceiveApiTask(w) PROVE AllOnward
  BY <1>1, <1>5, OneOnward DEF ReceiveUnknownCommand, ReceiveApiTask, Onward
<1>6. CASE FlushBatch
  <2> DEFINE rest == ToSet(Tail(batch))
  <2>1. batch \in Seq(Media) /\ batch # <<>>
    BY <1>1, <1>6 DEF TypeOK, FlushBatch
  <2>2. /\ Head(batch) \in ToSet(batch) /\ rest \subseteq ToSet(batch)
    <3>1. \A i \in DOMAIN Tail(batch) : i + 1 \in DOMAIN batch /\ Tail(batch)[i] = batch[i + 1]
      BY <2>1, HeadTailProperties, LenProperties, EmptySeq
    <3> QED BY <2>1, <3>1, TailSet DEF ToSet
  <2>3. /\ Head(batch) \in Work /\ pc[Head(batch)] = "batched"
        /\ rest \in SUBSET Work /\ \A v \in rest : pc[v] = "batched"
        /\ "lost" \in Over /\ "batched" \in Waiting
    BY <1>1, <2>2 DEF Over, Waiting
  <2> HIDE DEF rest
  <2>4. CASE running # None
    <3>1. QueueOr(Head(batch), rest, "lost")
      BY <1>6, <2>4 DEF FlushBatch, rest
    <3> QED BY <1>1, <2>3, <3>1, QueueOrOnward
  <2>5. CASE running = None
    <3>1. pc' = [Goes(rest, "merged") EXCEPT ![Head(batch)] = "preparing"]
      BY <1>6, <2>5 DEF FlushBatch, rest
    <3>2. \A v \in Work : pc'[v] = IF v = Head(batch) THEN "preparing"
                                   ELSE IF v \in rest THEN "merged" ELSE pc[v]
      BY <3>1 DEF Goes
    <3> QED BY <2>3, <3>2 DEF AllOnward, Onward
  <2> QED BY <2>4, <2>5
<1>7. CASE Stop
  <2>1. \A v \in Work : pc'[v] = IF v \in ToSet(queue) THEN "discarded" ELSE pc[v]
    BY <1>7 DEF Stop, Goes
  <2> QED BY <1>1, <2>1 DEF AllOnward, Onward, Waiting
<1>8. ASSUME NEW w \in Work, Begin(w) PROVE AllOnward
  <2>1. \E to \in {"starting", "failed", "streaming", "thrown"} :
           pc' = [pc EXCEPT ![w] = to] /\ pc[w] \in Starting
    BY <1>8 DEF Begin, CardSent, StartFails, TurnStarts, TurnThrows, Starting
  <2> QED BY <1>1, <2>1, OneOnward DEF Onward, Waiting
<1>9. ASSUME NEW w \in Work, Loop(w) \/ BreaksWhenAborted(w) PROVE AllOnward
  <2>1. CASE Finally(w)
    <3>1. queue \in Seq(Work) /\ pc[w] = "finalizing"
      BY <1>1, <2>1 DEF TypeOK, Finally
    <3>2. CASE Owns(w) /\ queue # <<>>
      <4>1. Head(queue) \in Work /\ Head(queue) \in ToSet(queue)
        BY <3>1, <3>2, TailSet
      <4>2. pc[Head(queue)] = "queued"
        BY <1>1, <4>1
      <4>3. pc' = [pc EXCEPT ![w] = "done", ![Head(queue)] = "preparing"]
        BY <2>1, <3>2 DEF Finally
      <4>4. \A v \in Work : pc'[v] = IF v = Head(queue) THEN "preparing"
                                     ELSE IF v = w THEN "done" ELSE pc[v]
        BY <1>1, <4>1, <4>3
      <4> QED BY <3>1, <4>2, <4>4 DEF AllOnward, Onward, Waiting
    <3>3. CASE ~(Owns(w) /\ queue # <<>>)
      <4>1. pc' = [pc EXCEPT ![w] = "done"] /\ Onward("finalizing", "done")
        BY <2>1, <3>3 DEF Finally, Onward, Waiting
      <4> QED BY <1>1, <3>1, <4>1, OneOnward
    <3> QED BY <3>2, <3>3
  <2>2. CASE ~Finally(w)
    <3>1. \E to \in Looping \cup {"finalizing"} :
             pc' = [pc EXCEPT ![w] = to] /\ pc[w] \in Looping
      BY <1>9, <2>2 DEF Loop, StreamEnds, RetryBegins, RetryNeeded, RetryStarts, RetryThrows,
                        BreaksWhenAborted, Looping, Streams, Retries
    <3> QED BY <1>1, <3>1, OneOnward DEF Onward, Waiting, Looping, Streams, Retries
  <2> QED BY <2>1, <2>2
<1>10. CASE StopChatTask \/ (\E w \in Work : TaskTimesOut(w))
  BY <1>2, <1>10 DEF StopChatTask, TaskTimesOut
<1>11. CASE Results \/ ExecutorCrashes \/ ExecutorTornDown \/ ContinuationOpens
  BY <1>2, <1>11 DEF Results, TurnResult, ExecutorCrashes, ExecutorTornDown, ContinuationOpens
<1> QED BY <1>3, <1>4, <1>5, <1>6, <1>7, <1>8, <1>9, <1>10, <1>11 DEF Next, Receive, Work

\* The bridge keeps what MessageLifecycle promises: a message that was answered,
\* refused or discarded never runs (again), and one that was taken up is never
\* put back, through queueing, batching, retries, /stop, crashes and timeouts.
THEOREM BridgeImplementsLifecycle == Spec => ImplementsLifecycle
<1> DEFINE status == [w \in Work |-> StageOf(pc[w])]
<1>1. Init => Lifecycle!Init
  BY Stages DEF Init, Lifecycle!Init
<1>2. BridgeInv /\ [Next]_vars => [Lifecycle!Next]_status
  <2> SUFFICES ASSUME BridgeInv, [Next]_vars, status' # status PROVE Lifecycle!Next
    OBVIOUS
  <2>1. Next
    BY DEF vars
  <2>2. /\ pc \in [Work -> PcType] /\ pc' \in [Work -> PcType]
        /\ \A w \in Work : Onward(pc[w], pc'[w])
    BY <2>1, StepIsOnward, TypeStep DEF BridgeInv, TypeOK, PcType, AllOnward
  <2>3. \A w \in Work : \/ StageOf(pc'[w]) = StageOf(pc[w])
                        \/ StageOf(pc'[w]) \in Lifecycle!Follows[StageOf(pc[w])]
    BY <2>2, OnwardFollows
  <2> DEFINE ws == {w \in Work : StageOf(pc'[w]) # StageOf(pc[w])}
  <2>4. Lifecycle!Move(ws)
    BY <2>3 DEF Lifecycle!Move
  <2> QED BY <2>4 DEF Lifecycle!Next
<1> QED BY <1>1, <1>2, BridgeInit, BridgeStep, PTL DEF Spec, ImplementsLifecycle, Lifecycle!Spec
=============================================================================
