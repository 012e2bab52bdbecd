----------------------- MODULE ExecutorRegistryProofs -----------------------
(***************************************************************************)
(* Proofs about the pool of executors for every number of chats, callers   *)
(* and executors and every capacity: no closed executor is pooled, and     *)
(* where acquire() calls do not overlap no running process is forgotten,   *)
(* the capacity is respected and a released executor is gone before its    *)
(* chat has another.                                                       *)
(***************************************************************************)
EXTENDS MCExecutorRegistry, SequenceTheorems, TLAPS

mcVars == <<vars, overlapped>>

IsIdle(p)   == caller[p].pc = "idle"
Starts(p)   == caller[p].pc = "starting"
Awaiting(p) == caller[p].pc = "awaiting"

(* What holds whatever acquire() calls overlap. *****************************)

\* The keys of the map are in its order.
Ordered == \A c \in Chats : executors[c] # NoExec => \E i \in 1..Len(order) : order[i] = c

\* A pooled executor was created for the chat it is pooled for.
Mapped ==
  \A c \in Chats : executors[c] # NoExec =>
    chatOf[executors[c]] = c /\ exec[executors[c]] \notin {"none", "closed"}

\* An executor that is being started is healthy, nobody else's and not yet
\* pooled: no timer and no I/O comes between start() and its continuation.
StartingIsFresh ==
  \A p \in Callers : Starts(p) =>
    /\ exec[caller[p].exec] = "healthy" /\ chatOf[caller[p].exec] = caller[p].chat
    /\ \A c \in Chats : executors[c] # caller[p].exec
    /\ \A q \in Callers : Starts(q) /\ caller[q].exec = caller[p].exec => q = p

\* What was not created is not there.
Uncreated == \A e \in ExecIds : exec[e] # "none" => e <= created

PoolInv == TypeOK /\ Ordered /\ Mapped /\ StartingIsFresh /\ Uncreated

(* What holds as long as none do. *******************************************)

\* One acquire() at a time.
Single == \A p, q \in Callers : p # q => IsIdle(p) \/ IsIdle(q)

\* There is room for the executor that is being started.
RoomIsKept == \A p \in Callers : Starts(p) => Size < MaxConcurrent

\* The gate: while an executor is being released its chat has no other in the
\* pool nor coming, and whoever waits for it is not late.
Gate ==
  /\ \A c \in Chats :
       pendingShutdowns[c] # NoExec =>
         /\ exec[pendingShutdowns[c]] = "releasing" /\ chatOf[pendingShutdowns[c]] = c
         /\ executors[c] = NoExec
  /\ \A e \in ExecIds :
       exec[e] = "releasing" => chatOf[e] \in Chats /\ pendingShutdowns[chatOf[e]] = e
  /\ \A p \in Callers :
       /\ Starts(p) => /\ executors[caller[p].chat] = NoExec
                       /\ pendingShutdowns[caller[p].chat] = NoExec
       /\ Awaiting(p) => /\ executors[caller[p].chat] = NoExec
                         /\ pendingShutdowns[caller[p].chat] \in {NoExec, caller[p].exec}

SingleInv == Single /\ NoOrphan /\ CapacityRespected /\ RoomIsKept /\ Gate

UnlessOverlapped == overlapped \/ SingleInv

(* The map's order. *********************************************************)

Held(s, d) == \E i \in 1..Len(s) : s[i] = d

\* Deleting a key shortens the order by that key and no other.
LEMMA WithoutKeeps ==
  ASSUME TypeOK, Ordered, NEW c \in Chats
  PROVE  /\ Without(c) \in Seq(Chats)
         /\ Len(Without(c)) = IF executors[c] = NoExec THEN Len(order) ELSE Len(order) - 1
         /\ \A d \in Chats : d # c /\ executors[d] # NoExec => Held(Without(c), d)
<1>1. order \in Seq(Chats) /\ Len(order) \in Nat
  BY DEF TypeOK
<1>2. CASE executors[c] = NoExec
  BY <1>1, <1>2 DEF Without, Ordered, Held
<1>3. CASE executors[c] # NoExec
  <2> DEFINE k == CHOOSE i \in 1..Len(order) : order[i] = c
             s == SubSeq(order, 1, k - 1)
             t == SubSeq(order, k + 1, Len(order))
  <2>1. k \in 1..Len(order) /\ order[k] = c
    BY <1>3 DEF Ordered
  <2>2. Without(c) = s \o t
    BY <1>3 DEF Without
  <2> HIDE DEF k
  <2>3. /\ s \in Seq(Chats) /\ Len(s) = k - 1 /\ \A i \in 1..(k - 1) : s[i] = order[i]
    <3>1. \A i \in 1..(k - 1) : order[i] \in Chats
      BY <1>1, <2>1, ElementOfSeq
    <3> QED BY <1>1, <2>1, <3>1, SubSeqProperties
  <2>4. /\ t \in Seq(Chats) /\ Len(t) = Len(order) - k
        /\ \A i \in 1..(Len(order) - k) : t[i] = order[k + i]
    <3>1. \A i \in (k + 1)..Len(order) : order[i] \in Chats
      BY <1>1, <2>1, ElementOfSeq
    <3>2. /\ t \in Seq(Chats)
          /\ Len(t) = IF k + 1 <= Len(order) THEN Len(order) - (k + 1) + 1 ELSE 0
          /\ \A i \in 1..(Len(order) - (k + 1) + 1) : t[i] = order[(k + 1) + i - 1]
      BY <1>1, <2>1, <3>1, SubSeqProperties
    <3> QED BY <1>1, <2>1, <3>2
  <2> HIDE DEF s, t
  <2>5. /\ s \o t \in Seq(Chats) /\ Len(s \o t) = Len(order) - 1
        /\ \A i \in 1..(Len(order) - 1) :
             (s \o t)[i] = IF i <= k - 1 THEN s[i] ELSE t[i - (k - 1)]
    <3>1. /\ s \o t \in Seq(Chats) /\ Len(s \o t) = Len(s) + Len(t)
          /\ \A i \in 1..(Len(s) + Len(t)) :
               (s \o t)[i] = IF i <= Len(s) THEN s[i] ELSE t[i - Len(s)]
      BY <2>3, <2>4, ConcatProperties
    <3>2. Len(s) + Len(t) = Len(order) - 1
      BY <1>1, <2>1, <2>3, <2>4
    <3> QED BY <2>3, <3>1, <3>2
  <2>6. ASSUME NEW d \in Chats, d # c, executors[d] # NoExec PROVE Held(s \o t, d)
    <3>1. PICK i \in 1..Len(order) : order[i] = d
      BY <2>6 DEF Ordered
    <3>2. i # k
      BY <2>1, <2>6, <3>1
    <3>3. CASE i < k
      <4>1. i \in 1..(Len(order) - 1) /\ i \in 1..(k - 1)
        BY <1>1, <2>1, <3>1, <3>3
      <4>2. (s \o t)[i] = order[i]
        BY <2>3, <2>5, <4>1
      <4> QED BY <2>5, <3>1, <4>1, <4>2 DEF Held
    <3>4. CASE i > k
      <4>1. i - 1 \in 1..(Len(order) - 1) /\ ~(i - 1 <= k - 1) /\ i - k \in 1..(Len(order) - k)
        BY <1>1, <2>1, <3>1, <3>4
      <4>2. k + (i - k) = i /\ (i - 1) - (k - 1) = i - k
        BY <2>1, <3>1
      <4>3. (s \o t)[i - 1] = t[i - k]
        BY <2>5, <4>1, <4>2
      <4>4. t[i - k] = order[i]
        BY <2>4, <4>1, <4>2
      <4> QED BY <2>5, <3>1, <4>1, <4>3, <4>4 DEF Held
    <3> QED BY <1>1, <2>1, <3>2, <3>3, <3>4
  <2> QED BY <1>3, <2>2, <2>5, <2>6
<1> QED BY <1>2, <1>3

LEMMA SetKeeps ==
  ASSUME TypeOK, Ordered, NEW c \in Chats, NEW e \in ExecIds, MapSet(c, e)
  PROVE  /\ order' \in Seq(Chats) /\ Ordered'
         /\ Len(order') = IF executors[c] = NoExec THEN Len(order) + 1 ELSE Len(order)
<1>1. /\ order \in Seq(Chats) /\ Len(order) \in Nat /\ executors \in [Chats -> ExecIds \cup {NoExec}]
      /\ executors' = [executors EXCEPT ![c] = e]
      /\ order' = IF executors[c] = NoExec THEN Append(order, c) ELSE order
  BY DEF TypeOK, MapSet
<1>2. CASE executors[c] = NoExec
  <2>1. /\ order' \in Seq(Chats) /\ Len(order') = Len(order) + 1 /\ order'[Len(order) + 1] = c
        /\ \A i \in 1..Len(order) : order'[i] = order[i]
    BY <1>1, <1>2, AppendProperties
  <2>2. ASSUME NEW d \in Chats, executors'[d] # NoExec
        PROVE  \E i \in 1..Len(order') : order'[i] = d
    <3>1. CASE d = c
      BY <1>1, <2>1, <3>1
    <3>2. CASE d # c
      <4>1. PICK i \in 1..Len(order) : order[i] = d
        BY <1>1, <2>2, <3>2 DEF Ordered
      <4> QED BY <1>1, <2>1, <4>1
    <3> QED BY <3>1, <3>2
  <2> QED BY <1>2, <2>1, <2>2 DEF Ordered
<1>3. CASE executors[c] # NoExec
  BY <1>1, <1>3 DEF Ordered
<1> QED BY <1>2, <1>3

\* Lookup finds a healthy executor and bumps it ...
Found(c) == executors[c] # NoExec /\ exec[executors[c]] = "healthy"

LEMMA BumpKeeps ==
  ASSUME TypeOK, Ordered, NEW p \in Callers, NEW c \in Chats, Lookup(p, c), Found(c)
  PROVE  /\ order' \in Seq(Chats) /\ Len(order') = Len(order) /\ Ordered'
         /\ caller' = [caller EXCEPT ![p] = Idle]
         /\ UNCHANGED <<executors, execVars, bridgeVars>>
<1>1. /\ order' = Append(Without(c), c) /\ caller' = [caller EXCEPT ![p] = Idle]
      /\ UNCHANGED <<executors, execVars, bridgeVars>>
  BY DEF Lookup, Found
<1>2. /\ Without(c) \in Seq(Chats) /\ Len(Without(c)) = Len(order) - 1 /\ Len(order) \in Nat
      /\ \A d \in Chats : d # c /\ executors[d] # NoExec => Held(Without(c), d)
  BY WithoutKeeps DEF Found, TypeOK
<1>3. /\ order' \in Seq(Chats) /\ Len(order') = Len(Without(c)) + 1 /\ order'[Len(order')] = c
      /\ \A i \in 1..Len(Without(c)) : order'[i] = Without(c)[i]
  BY <1>1, <1>2, AppendProperties
<1>4. ASSUME NEW d \in Chats, executors'[d] # NoExec
      PROVE  \E i \in 1..Len(order') : order'[i] = d
  <2>1. CASE d = c
    <3>1. Len(order') \in 1..Len(order')
      BY <1>2, <1>3, LenProperties
    <3> QED BY <1>3, <2>1, <3>1
  <2>2. CASE d # c
    <3>1. PICK i \in 1..Len(Without(c)) : Without(c)[i] = d
      BY <1>1, <1>2, <1>4, <2>2 DEF Held
    <3>2. i \in 1..Len(order')
      BY <1>2, <1>3
    <3> QED BY <1>3, <3>1, <3>2
  <2> QED BY <2>1, <2>2
<1> QED BY <1>1, <1>2, <1>3, <1>4 DEF Ordered

\* ... or evicts those in its way and starts another.
Creates(p, c, gone) ==
  /\ created' = created + 1 /\ created' \in ExecIds
  /\ chatOf' = [chatOf EXCEPT ![created'] = c]
  /\ executors' = [d \in Chats |-> IF d \in gone \cup {c} THEN NoExec ELSE executors[d]]
  /\ exec' = [f \in ExecIds |->
                IF f = created' THEN "healthy"
                ELSE IF (\E d \in gone : executors[d] = f) /\ ~Stopping(f)
                     THEN "shutting_down" ELSE exec[f]]
  /\ subscribed' \subseteq subscribed /\ heard' = heard
  /\ caller' = [caller EXCEPT ![p] = [pc |-> "starting", chat |-> c, exec |-> created']]
  /\ order' \in Seq(Chats) /\ Ordered'
  /\ MaxConcurrent # 0 => Len(order') < MaxConcurrent

LEMMA LookupCreates ==
  ASSUME TypeOK, Ordered, NEW p \in Callers, NEW c \in Chats, Lookup(p, c), ~Found(c)
  PROVE  \E gone \in SUBSET Chats : Creates(p, c, gone)
<1> DEFINE kept == Without(c)
           n    == Evicted(kept)
           gone == {kept[i] : i \in 1..n}
           new  == SubSeq(kept, n + 1, Len(kept))
<1>1. /\ created < MaxExecutors /\ created' = created + 1
      /\ chatOf' = [chatOf EXCEPT ![created'] = c]
      /\ order' = new
      /\ executors' = [d \in Chats |-> IF d \in gone \cup {c} THEN NoExec ELSE executors[d]]
      /\ exec' = [f \in ExecIds |->
                    IF f = created' THEN "healthy"
                    ELSE IF (\E d \in gone : executors[d] = f) /\ ~Stopping(f)
                         THEN "shutting_down" ELSE exec[f]]
      /\ subscribed' = subscribed \ gone /\ heard' = heard
      /\ caller' = [caller EXCEPT ![p] = [pc |-> "starting", chat |-> c, exec |-> created']]
  BY Zenon DEF Lookup, Found, Unsubscribe
<1>2. /\ kept \in Seq(Chats) /\ Len(kept) \in Nat
      /\ \A d \in Chats : d # c /\ executors[d] # NoExec => Held(kept, d)
  BY WithoutKeeps, LenProperties
<1>3. /\ n \in 0..Len(kept)
      /\ MaxConcurrent # 0 => Len(kept) - n < MaxConcurrent
  BY <1>2, PoolAssumption DEF Evicted
<1>4. created \in Nat /\ created' \in ExecIds
  BY <1>1, PoolAssumption DEF TypeOK, ExecIds
<1> HIDE DEF kept, n
<1>5. \A i \in 1..Len(kept) : kept[i] \in Chats
  BY <1>2, ElementOfSeq
<1>6. /\ new \in Seq(Chats) /\ Len(new) = Len(kept) - n
      /\ \A i \in 1..(Len(kept) - n) : new[i] = kept[n + i]
  <2>1. /\ new \in Seq(Chats)
        /\ Len(new) = IF n + 1 <= Len(kept) THEN Len(kept) - (n + 1) + 1 ELSE 0
        /\ \A i \in 1..(Len(kept) - (n + 1) + 1) : new[i] = kept[(n + 1) + i - 1]
    <3>1. n + 1 \in Int /\ Len(kept) \in Int /\ \A i \in (n + 1)..Len(kept) : kept[i] \in Chats
      BY <1>2, <1>3, <1>5
    <3> QED BY <3>1, SubSeqProperties
  <2> QED BY <1>2, <1>3, <2>1
<1>7. gone \in SUBSET Chats
  BY <1>2, <1>3, <1>5
<1>8. ASSUME NEW d \in Chats, executors'[d] # NoExec
      PROVE  \E i \in 1..Len(order') : order'[i] = d
  <2>1. d # c /\ executors[d] # NoExec /\ d \notin gone
    BY <1>1, <1>8
  <2>2. PICK i \in 1..Len(kept) : kept[i] = d
    BY <1>2, <2>1 DEF Held
  <2>3. i - n \in 1..(Len(kept) - n)
    BY <1>2, <1>3, <2>1, <2>2
  <2>4. n + (i - n) = i
    BY <1>2, <1>3, <2>2
  <2>5. new[i - n] = d /\ i - n \in 1..Len(new)
    BY <1>6, <2>2, <2>3, <2>4
  <2> QED BY <1>1, <2>5
<1>9. MaxConcurrent # 0 => Len(order') < MaxConcurrent
  BY <1>1, <1>3, <1>6
<1>10. Ordered' /\ order' \in Seq(Chats)
  BY <1>1, <1>6, <1>8 DEF Ordered
<1> HIDE DEF gone, new
<1>11. Creates(p, c, gone)
  BY <1>1, <1>4, <1>9, <1>10 DEF Creates
<1> QED BY <1>7, <1>11

\* A key that is deleted is gone, and only that.
LEMMA DeleteKeeps ==
  ASSUME TypeOK, Ordered, NEW c \in Chats, executors[c] # NoExec, MapDelete(c)
  PROVE  /\ order' \in Seq(Chats) /\ Ordered' /\ Len(order') = Len(order) - 1
         /\ executors' = [executors EXCEPT ![c] = NoExec]
         /\ executors' \in [Chats -> ExecIds \cup {NoExec}]
<1>1. executors' = [executors EXCEPT ![c] = NoExec] /\ order' = Without(c)
  BY DEF MapDelete
<1>2. executors \in [Chats -> ExecIds \cup {NoExec}]
  BY DEF TypeOK
<1> QED BY <1>1, <1>2, WithoutKeeps DEF Ordered, Held

(* The steps, for whatever overlaps. ****************************************)

CallerRecord == [pc : {"awaiting", "starting"}, chat : Chats, exec : ExecIds]

LEMMA CallerTypes ==
  ASSUME TypeOK
  PROVE  /\ caller \in [Callers -> {Idle} \cup CallerRecord]
         /\ \A q \in Callers : /\ IsIdle(q) <=> caller[q] = Idle
                               /\ Starts(q) \/ Awaiting(q) => caller[q] \in CallerRecord
                               /\ IsIdle(q) \/ Starts(q) \/ Awaiting(q)
BY DEF TypeOK, CallerRecord, IsIdle, Starts, Awaiting, Idle

LEMMA LookupStep ==
  ASSUME PoolInv, NEW p \in Callers, NEW c \in Chats, ~Starts(p), Lookup(p, c),
         UNCHANGED <<pendingShutdowns, shuttingDown>>
  PROVE  PoolInv'
<1> USE DEF PoolInv
<1>1. /\ executors \in [Chats -> ExecIds \cup {NoExec}] /\ exec \in [ExecIds -> Health]
      /\ chatOf \in [ExecIds -> Chats \cup {NoChat}] /\ created \in Nat
      /\ caller \in [Callers -> {Idle} \cup CallerRecord]
      /\ MaxExecutors \in Nat /\ NoExec \notin ExecIds /\ ExecIds = 1..MaxExecutors
  BY CallerTypes, PoolAssumption DEF TypeOK, ExecIds, NoExec
<1>2. CASE Found(c)
  <2>1. /\ order' \in Seq(Chats) /\ Ordered' /\ caller' = [caller EXCEPT ![p] = Idle]
        /\ UNCHANGED <<executors, exec, chatOf, created, subscribed, heard>>
    BY <1>2, BumpKeeps DEF execVars, bridgeVars
  <2>2. \A q \in Callers : Starts(q)' => q # p /\ Starts(q) /\ caller'[q] = caller[q]
    BY <1>1, <2>1 DEF Starts, Idle
  <2>3. TypeOK'
    BY <1>1, <2>1 DEF TypeOK, CallerRecord
  <2>4. Mapped' /\ Uncreated' /\ StartingIsFresh'
    BY <2>1, <2>2 DEF Mapped, Uncreated, StartingIsFresh
  <2> QED BY <2>1, <2>3, <2>4
<1>3. CASE ~Found(c)
  <2>1. PICK gone \in SUBSET Chats : Creates(p, c, gone)
    BY <1>3, LookupCreates
  <2>2. /\ created' = created + 1 /\ created' \in ExecIds
        /\ chatOf' = [chatOf EXCEPT ![created'] = c]
        /\ executors' = [d \in Chats |-> IF d \in gone \cup {c} THEN NoExec ELSE executors[d]]
        /\ caller' = [caller EXCEPT ![p] = [pc |-> "starting", chat |-> c, exec |-> created']]
        /\ order' \in Seq(Chats) /\ Ordered' /\ subscribed' \subseteq subscribed /\ heard' = heard
    BY <2>1 DEF Creates
  <2>3. \A f \in ExecIds : /\ f # created' => exec'[f] \in {exec[f], "shutting_down"}
                           /\ f # created' /\ exec'[f] # exec[f] => Pooled(f)
                           /\ f = created' => exec'[f] = "healthy"
    BY <2>1 DEF Creates, Pooled
  <2>4. exec' \in [ExecIds -> Health]
    <3>1. exec' = [f \in ExecIds |-> exec'[f]]
      BY <2>1 DEF Creates
    <3>2. \A f \in ExecIds : exec'[f] \in Health
      BY <1>1, <2>3 DEF Health
    <3> QED BY <3>1, <3>2
  <2>5. TypeOK'
    <3>1. caller' \in [Callers -> {Idle} \cup CallerRecord]
      BY <1>1, <2>2 DEF CallerRecord
    <3>2. created' \in 0..MaxExecutors /\ executors' \in [Chats -> ExecIds \cup {NoExec}]
          /\ chatOf' \in [ExecIds -> Chats \cup {NoChat}]
      BY <1>1, <2>2
    <3> QED BY <2>2, <2>4, <3>1, <3>2 DEF TypeOK, CallerRecord
  <2>6. exec[created'] = "none"
    BY <1>1, <2>2 DEF Uncreated
  <2>7. \A d \in Chats : executors[d] # created'
    BY <1>1, <2>2, <2>6 DEF Mapped
  <2>8. Mapped'
    <3> SUFFICES ASSUME NEW d \in Chats, executors'[d] # NoExec
                 PROVE  /\ chatOf'[executors'[d]] = d
                        /\ exec'[executors'[d]] \notin {"none", "closed"}
      BY DEF Mapped
    <3>1. executors'[d] = executors[d] /\ executors[d] \in ExecIds
      BY <1>1, <2>2
    <3> QED BY <1>1, <2>2, <2>3, <2>7, <3>1 DEF Mapped
  <2>9. Uncreated'
    <3> SUFFICES ASSUME NEW f \in ExecIds, exec'[f] # "none" PROVE f <= created'
      BY DEF Uncreated
    <3>1. CASE f = created'
      BY <1>1, <2>2, <3>1
    <3>2. CASE f # created'
      <4>1. exec[f] # "none"
        BY <2>3, <3>2 DEF Pooled, Mapped, NoExec, ExecIds
      <4> QED BY <1>1, <2>2, <4>1 DEF Uncreated
    <3> QED BY <3>1, <3>2
  <2>10. ASSUME NEW q \in Callers, Starts(q), q # p
         PROVE  /\ caller'[q] = caller[q] /\ caller[q].exec \in ExecIds
                /\ caller[q].exec # created' /\ exec'[caller[q].exec] = "healthy"
    <3>1. caller[q].exec \in ExecIds
      BY <2>10, CallerTypes DEF CallerRecord
    <3>2. caller[q].exec # created' /\ ~Pooled(caller[q].exec)
      BY <2>6, <2>10, <3>1 DEF StartingIsFresh, Pooled
    <3> QED BY <1>1, <2>2, <2>3, <2>10, <3>1, <3>2 DEF StartingIsFresh
  <2>11. /\ caller'[p].exec = created' /\ caller'[p].chat = c
         /\ \A q \in Callers : q # p => caller'[q] = caller[q]
    BY <1>1, <2>2
  <2>12. StartingIsFresh'
    <3> SUFFICES ASSUME NEW q \in Callers, Starts(q)'
                 PROVE  /\ exec'[caller'[q].exec] = "healthy"
                        /\ chatOf'[caller'[q].exec] = caller'[q].chat
                        /\ \A d \in Chats : executors'[d] # caller'[q].exec
                        /\ \A r \in Callers :
                             Starts(r)' /\ caller'[r].exec = caller'[q].exec => r = q
      BY DEF StartingIsFresh
    <3>1. \A d \in Chats : executors'[d] \in {NoExec, executors[d]}
      BY <2>2
    <3>2. CASE q = p
      <4>1. \A r \in Callers : Starts(r)' /\ caller'[r].exec = created' => r = p
        BY <2>10, <2>11 DEF Starts
      <4> QED BY <1>1, <2>2, <2>3, <2>7, <2>11, <3>1, <3>2, <4>1
    <3>3. CASE q # p
      <4>1. Starts(q) /\ caller'[q] = caller[q]
        BY <2>11, <3>3 DEF Starts
      <4>2. \A r \in Callers : Starts(r)' /\ caller'[r].exec = caller'[q].exec => r = q
        BY <2>10, <2>11, <3>3, <4>1 DEF Starts, StartingIsFresh
      <4>3. caller[q].exec # created' /\ caller[q].exec \in ExecIds /\ exec'[caller[q].exec] = "healthy"
        BY <2>10, <3>3, <4>1
      <4>4. chatOf'[caller[q].exec] = chatOf[caller[q].exec]
        BY <1>1, <2>2, <4>3
      <4>5. \A d \in Chats : executors'[d] # caller[q].exec
        BY <1>1, <3>1, <4>1, <4>3 DEF StartingIsFresh
      <4> QED BY <4>1, <4>2, <4>3, <4>4, <4>5 DEF StartingIsFresh
    <3> QED BY <3>2, <3>3
  <2> QED BY <2>2, <2>5, <2>8, <2>9, <2>12
<1> QED BY <1>2, <1>3

LEMMA AcquireStep ==
  ASSUME PoolInv, NEW p \in Callers,
         \/ \E c \in Chats : AcquireAwaitsRelease(p, c)
         \/ AcquireAdds(p) \/ AcquireFails(p)
  PROVE  PoolInv'
<1> USE DEF PoolInv
<1>1. /\ executors \in [Chats -> ExecIds \cup {NoExec}] /\ exec \in [ExecIds -> Health]
      /\ caller \in [Callers -> {Idle} \cup CallerRecord]
      /\ pendingShutdowns \in [Chats -> ExecIds \cup {NoExec}] /\ NoExec \notin ExecIds
  BY CallerTypes DEF TypeOK, ExecIds, NoExec
<1>2. ASSUME NEW c \in Chats, AcquireAwaitsRelease(p, c) PROVE PoolInv'
  <2>1. /\ caller' = [caller EXCEPT ![p] =
                        [pc |-> "awaiting", chat |-> c, exec |-> pendingShutdowns[c]]]
        /\ pendingShutdowns[c] \in ExecIds
        /\ UNCHANGED <<executors, order, pendingShutdowns, shuttingDown, exec, chatOf, created,
                       subscribed, heard>>
    BY <1>1, <1>2 DEF AcquireAwaitsRelease, poolVars, execVars, bridgeVars
  <2>2. \A q \in Callers : Starts(q)' => q # p /\ Starts(q) /\ caller'[q] = caller[q]
    BY <1>1, <2>1 DEF Starts
  <2>3. caller' \in [Callers -> {Idle} \cup CallerRecord]
    BY <1>1, <2>1 DEF CallerRecord
  <2> QED BY <2>1, <2>2, <2>3 DEF TypeOK, CallerRecord, Ordered, Mapped, StartingIsFresh, Uncreated
<1>3. CASE AcquireAdds(p)
  <2> DEFINE c == caller[p].chat
             e == caller[p].exec
  <2>1. /\ Starts(p) /\ MapSet(c, e) /\ caller' = [caller EXCEPT ![p] = Idle]
        /\ executors' = [executors EXCEPT ![c] = e]
        /\ UNCHANGED <<pendingShutdowns, shuttingDown, exec, chatOf, created>>
    BY <1>3 DEF AcquireAdds, MapSet, execVars, Starts
  <2>2. c \in Chats /\ e \in ExecIds /\ exec[e] = "healthy" /\ chatOf[e] = c
    BY <2>1, CallerTypes DEF CallerRecord, StartingIsFresh
  <2>3. subscribed' \subseteq Chats /\ heard' \subseteq ExecIds
    BY <1>3, <2>2 DEF AcquireAdds, Attach, bridgeVars, TypeOK
  <2>4. order' \in Seq(Chats) /\ Ordered'
    BY <2>1, <2>2, SetKeeps
  <2>5. /\ executors' \in [Chats -> ExecIds \cup {NoExec}]
        /\ caller' \in [Callers -> {Idle} \cup CallerRecord]
    BY <1>1, <2>1, <2>2
  <2>6. TypeOK'
    BY <2>1, <2>3, <2>4, <2>5 DEF TypeOK, CallerRecord
  <2>7. Mapped' /\ Uncreated'
    BY <1>1, <2>1, <2>2 DEF Mapped, Uncreated
  <2>8. \A q \in Callers : Starts(q)' => q # p /\ Starts(q) /\ caller'[q] = caller[q]
    BY <1>1, <2>1 DEF Starts, Idle
  <2>9. StartingIsFresh'
    BY <1>1, <2>1, <2>2, <2>8 DEF StartingIsFresh
  <2> QED BY <2>4, <2>6, <2>7, <2>9
<1>4. CASE AcquireFails(p)
  <2> DEFINE e == caller[p].exec
  <2>1. /\ Starts(p) /\ caller' = [caller EXCEPT ![p] = Idle]
        /\ exec' = [exec EXCEPT ![e] = "crashed"]
        /\ UNCHANGED <<executors, order, pendingShutdowns, shuttingDown, chatOf, created,
                       subscribed, heard>>
    BY <1>4 DEF AcquireFails, poolVars, bridgeVars, Starts
  <2>2. e \in ExecIds /\ exec[e] = "healthy" /\ \A c \in Chats : executors[c] # e
    BY <2>1, CallerTypes DEF CallerRecord, StartingIsFresh
  <2>3. \A q \in Callers : Starts(q)' => q # p /\ Starts(q) /\ caller'[q] = caller[q]
    BY <1>1, <2>1 DEF Starts, Idle
  <2>4. TypeOK'
    BY <1>1, <2>1 DEF TypeOK, Health, CallerRecord
  <2>5. Ordered' /\ Mapped' /\ Uncreated'
    BY <1>1, <2>1, <2>2 DEF Ordered, Mapped, Uncreated
  <2>6. StartingIsFresh'
    <3>1. \A q \in Callers : Starts(q) /\ q # p => caller[q].exec # e /\ caller[q].exec \in ExecIds
      BY <2>1, CallerTypes DEF StartingIsFresh, CallerRecord
    <3> QED BY <1>1, <2>1, <2>3, <3>1 DEF StartingIsFresh
  <2> QED BY <2>4, <2>5, <2>6
<1> QED BY <1>2, <1>3, <1>4

\* A step that only stops executors.
LEMMA StopsKeep ==
  ASSUME PoolInv, UNCHANGED <<chatOf, created, caller, shuttingDown>>,
         exec' \in [ExecIds -> Health], order' \in Seq(Chats), Ordered',
         executors' \in [Chats -> ExecIds \cup {NoExec}],
         \A c \in Chats : executors'[c] \in {NoExec, executors[c]},
         pendingShutdowns' \in [Chats -> ExecIds \cup {NoExec}],
         subscribed' \subseteq subscribed, heard' = heard,
         \A f \in ExecIds : exec'[f] # exec[f] =>
           /\ exec[f] # "none" /\ exec'[f] # "none"
           /\ \A q \in Callers : Starts(q) => caller[q].exec # f
           /\ exec'[f] = "closed" => \A c \in Chats : executors'[c] # f
  PROVE  PoolInv' /\ shuttingDown' = shuttingDown
<1> USE DEF PoolInv
<1>1. TypeOK'
  BY DEF TypeOK
<1>2. \A c \in Chats : executors'[c] # NoExec => executors'[c] = executors[c] /\ executors[c] \in ExecIds
  BY DEF TypeOK
<1>3. Mapped'
  BY <1>2 DEF Mapped
<1>4. Uncreated'
  BY DEF Uncreated
<1>5. StartingIsFresh'
  <2>1. \A q \in Callers : Starts(q)' <=> Starts(q)
    BY DEF Starts
  <2>2. \A q \in Callers : Starts(q) => caller[q].exec \in ExecIds /\ caller[q].exec # NoExec
    BY CallerTypes DEF CallerRecord, ExecIds, NoExec
  <2> QED BY <2>1, <2>2 DEF StartingIsFresh
<1> QED BY <1>1, <1>3, <1>4, <1>5

LEMMA ReleaseStep == ASSUME PoolInv, NEW c \in Chats, Release(c) PROVE PoolInv'
<1> USE DEF PoolInv
<1> DEFINE e == executors[c]
<1>1. /\ e # NoExec /\ MapDelete(c) /\ subscribed' = subscribed \ {c} /\ heard' = heard
      /\ exec' = [f \in ExecIds |-> IF f \in {e} /\ ~Stopping(f) THEN "releasing" ELSE exec[f]]
      /\ pendingShutdowns' = [pendingShutdowns EXCEPT ![c] = IF Stopping(e) THEN NoExec ELSE e]
      /\ UNCHANGED <<shuttingDown, chatOf, created, caller>>
  BY DEF Release, Unsubscribe, ShutDown
<1>2. /\ order' \in Seq(Chats) /\ Ordered' /\ executors' = [executors EXCEPT ![c] = NoExec]
      /\ executors' \in [Chats -> ExecIds \cup {NoExec}]
  BY <1>1, DeleteKeeps
<1>3. /\ e \in ExecIds /\ exec \in [ExecIds -> Health]
      /\ executors \in [Chats -> ExecIds \cup {NoExec}]
      /\ pendingShutdowns' \in [Chats -> ExecIds \cup {NoExec}]
  BY <1>1 DEF TypeOK
<1>4. exec' \in [ExecIds -> Health]
  BY <1>1, <1>3 DEF Health
<1>5. \A f \in ExecIds : exec'[f] # exec[f] =>
        /\ f = e /\ exec[f] # "none" /\ exec'[f] = "releasing"
        /\ \A q \in Callers : Starts(q) => caller[q].exec # f
  BY <1>1, <1>3 DEF Mapped, StartingIsFresh
<1>6. \A d \in Chats : executors'[d] \in {NoExec, executors[d]}
  BY <1>2, <1>3
<1> QED BY <1>1, <1>2, <1>3, <1>4, <1>5, <1>6, StopsKeep

LEMMA ShutdownAllStep == ASSUME PoolInv, ShutdownAll PROVE PoolInv'
<1> USE DEF PoolInv
<1>1. /\ shuttingDown' = TRUE
      /\ exec' = [f \in ExecIds |-> IF f \in {executors[c] : c \in Chats} \ {NoExec} /\ ~Stopping(f)
                                    THEN "shutting_down" ELSE exec[f]]
      /\ executors' = [c \in Chats |-> NoExec] /\ order' = <<>>
      /\ UNCHANGED <<pendingShutdowns, chatOf, created, caller, subscribed, heard>>
  BY DEF ShutdownAll, ShutDown, bridgeVars
<1>2. exec' \in [ExecIds -> Health]
  BY <1>1 DEF Health, TypeOK
<1>3. TypeOK'
  BY <1>1, <1>2, EmptySeq DEF TypeOK
<1>4. Ordered' /\ Mapped'
  BY <1>1 DEF Ordered, Mapped
<1>5. \A f \in ExecIds : exec'[f] # exec[f] =>
        /\ \E c \in Chats : executors[c] = f /\ f # NoExec
        /\ exec'[f] = "shutting_down"
  BY <1>1
<1>6. Uncreated'
  BY <1>1, <1>5 DEF Uncreated, Mapped
<1>7. StartingIsFresh'
  <2>1. \A q \in Callers : (Starts(q)' <=> Starts(q)) /\ caller'[q] = caller[q]
    BY <1>1 DEF Starts
  <2>2. \A q \in Callers : Starts(q) => caller[q].exec \in ExecIds /\ caller[q].exec # NoExec
    BY CallerTypes DEF CallerRecord, ExecIds, NoExec
  <2>3. \A q \in Callers : Starts(q) => exec'[caller[q].exec] = "healthy"
    BY <1>5, <2>2 DEF StartingIsFresh
  <2> QED BY <1>1, <2>1, <2>2, <2>3 DEF StartingIsFresh
<1> QED BY <1>3, <1>4, <1>6, <1>7

\* Nothing closes while an acquire() is between start() and its continuation.
NoneStarts == \A q \in Callers : ~Starts(q)

LEMMA CloseStep ==
  ASSUME PoolInv, NEW e \in ExecIds, exec[e] # "none", Close(e), NoneStarts
  PROVE  /\ PoolInv' /\ shuttingDown' = shuttingDown
         /\ \A c \in Chats : executors'[c] = IF executors[c] = e THEN NoExec ELSE executors[c]
         /\ Len(order') <= Len(order)
<1> USE DEF PoolInv
<1>1. /\ exec' = [exec EXCEPT ![e] = "closed"]
      /\ pendingShutdowns' = [c \in Chats |-> IF pendingShutdowns[c] = e THEN NoExec
                                              ELSE pendingShutdowns[c]]
      /\ UNCHANGED <<shuttingDown, chatOf, created, caller>>
  BY DEF Close
<1>2. /\ exec \in [ExecIds -> Health] /\ executors \in [Chats -> ExecIds \cup {NoExec}]
      /\ NoExec \notin ExecIds /\ order \in Seq(Chats) /\ Len(order) \in Nat
      /\ pendingShutdowns \in [Chats -> ExecIds \cup {NoExec}]
  BY LenProperties DEF TypeOK, ExecIds, NoExec
<1>3. /\ order' \in Seq(Chats) /\ Ordered' /\ subscribed' \subseteq subscribed /\ heard' = heard
      /\ executors' \in [Chats -> ExecIds \cup {NoExec}]
      /\ \A c \in Chats : executors'[c] = IF executors[c] = e THEN NoExec ELSE executors[c]
      /\ Len(order') <= Len(order)
  <2>1. CASE \E c \in Chats : executors[c] = e
    <3> DEFINE c == CHOOSE d \in Chats : executors[d] = e
    <3>1. c \in Chats /\ executors[c] = e
      BY <2>1
    <3>2. MapDelete(c) /\ Unsubscribe({c})
      BY <2>1 DEF Close
    <3> HIDE DEF c
    <3>3. \A d \in Chats : executors[d] = e => d = c
      BY <1>2, <3>1 DEF Mapped
    <3>4. /\ order' \in Seq(Chats) /\ Ordered' /\ Len(order') = Len(order) - 1
          /\ executors' = [executors EXCEPT ![c] = NoExec]
          /\ executors' \in [Chats -> ExecIds \cup {NoExec}]
      BY <1>2, <3>1, <3>2, DeleteKeeps
    <3> QED BY <1>2, <3>1, <3>2, <3>3, <3>4 DEF Unsubscribe
  <2>2. CASE ~\E c \in Chats : executors[c] = e
    <3>1. UNCHANGED <<executors, order, subscribed, heard>>
      BY <2>2 DEF Close, poolVars, bridgeVars
    <3> QED BY <1>2, <2>2, <3>1 DEF Ordered
  <2> QED BY <2>1, <2>2
<1>4. exec' \in [ExecIds -> Health] /\ pendingShutdowns' \in [Chats -> ExecIds \cup {NoExec}]
  BY <1>1, <1>2 DEF Health
<1>5. \A f \in ExecIds : exec'[f] # exec[f] =>
        f = e /\ exec[f] # "none" /\ exec'[f] = "closed"
  BY <1>1, <1>2
<1>6. \A c \in Chats : executors'[c] # e /\ executors'[c] \in {NoExec, executors[c]}
  BY <1>2, <1>3
<1> QED BY <1>1, <1>3, <1>4, <1>5, <1>6, StopsKeep DEF NoneStarts

LEMMA StopStep ==
  ASSUME PoolInv, NEW e \in ExecIds, NEW how \in {"shutting_down", "crashed"}, StopsByItself(e, how)
  PROVE  PoolInv'
<1> USE DEF PoolInv
<1>1. /\ exec[e] = "healthy" /\ exec' = [exec EXCEPT ![e] = how] /\ NoneStarts
      /\ UNCHANGED <<executors, order, pendingShutdowns, shuttingDown, chatOf, created, caller,
                     subscribed, heard>>
  BY DEF StopsByItself, Macrotask, poolVars, bridgeVars, NoneStarts, Starts
<1>2. exec \in [ExecIds -> Health] /\ exec' \in [ExecIds -> Health]
  BY <1>1 DEF TypeOK, Health
<1>3. Ordered' /\ order' \in Seq(Chats) /\ executors' \in [Chats -> ExecIds \cup {NoExec}]
      /\ pendingShutdowns' \in [Chats -> ExecIds \cup {NoExec}]
  BY <1>1 DEF Ordered, TypeOK
<1> QED BY <1>1, <1>2, <1>3, StopsKeep DEF NoneStarts

LEMMA PoolStep == ASSUME PoolInv, [MCNext]_mcVars PROVE PoolInv'
<1>1. CASE UNCHANGED mcVars
  BY <1>1 DEF PoolInv, mcVars, vars, poolVars, execVars, bridgeVars, TypeOK, Ordered, Mapped,
     StartingIsFresh, Starts, Uncreated
<1>2. ASSUME NEW p \in Callers, NEW c \in Chats, AcquireBegins(p, c) PROVE PoolInv'
  BY <1>2, LookupStep DEF AcquireBegins, Starts
<1>3. ASSUME NEW p \in Callers, AcquireResumes(p) PROVE PoolInv'
  <2>1. caller[p].chat \in Chats /\ ~Starts(p)
    BY <1>3, CallerTypes DEF AcquireResumes, Awaiting, Starts, CallerRecord, PoolInv
  <2> QED BY <1>3, <2>1, LookupStep DEF AcquireResumes
<1>4. ASSUME NEW e \in ExecIds, ShutdownCompletes(e) \/ ClosesByItself(e) PROVE PoolInv'
  BY <1>4, CloseStep DEF ShutdownCompletes, ClosesByItself, Macrotask, NoneStarts, Starts
<1> QED BY <1>1, <1>2, <1>3, <1>4, AcquireStep, ReleaseStep, ShutdownAllStep, StopStep
       DEF MCNext, Next, AcquireNext, ExecutorNext

LEMMA PoolInit == MCInit => PoolInv
<1> SUFFICES ASSUME MCInit PROVE PoolInv
  OBVIOUS
<1> USE DEF MCInit, Init
<1>1. TypeOK
  <2>1. order \in Seq(Chats)
    BY EmptySeq
  <2>2. created \in 0..MaxExecutors /\ exec \in [ExecIds -> Health]
    BY PoolAssumption DEF Health
  <2>3. caller \in [Callers -> {Idle} \cup CallerRecord]
    OBVIOUS
  <2> QED BY <2>1, <2>2, <2>3 DEF TypeOK, CallerRecord
<1> QED BY <1>1 DEF PoolInv, Ordered, Mapped, StartingIsFresh, Uncreated, Starts, Idle

\* The map and its key order name the same chats, each once; an entry is an
\* executor that was created for its chat and has not closed; an executor that
\* is starting is new and in no entry.  This holds however acquire() calls
\* overlap with each other and with release(), evictions and closings.
THEOREM PoolIsMapped == MCSpec => []PoolInv
<1>1. PoolInv /\ [MCNext]_mcVars => PoolInv'
  BY PoolStep
<1> QED BY <1>1, PoolInit, PTL DEF MCSpec, mcVars

(* The steps, where no acquire() calls overlap. *****************************)

\* What a step that creates, adds or drops no executor keeps.
LEMMA SizeKeeps ==
  ASSUME PoolInv, PoolInv', SingleInv, UNCHANGED caller, Len(order') <= Len(order)
  PROVE  Single' /\ CapacityRespected' /\ RoomIsKept'
<1>1. Len(order) \in Nat /\ Len(order') \in Nat /\ MaxConcurrent \in Nat
  BY PoolAssumption, LenProperties DEF PoolInv, TypeOK
<1>2. \A p \in Callers : (IsIdle(p)' <=> IsIdle(p)) /\ (Starts(p)' <=> Starts(p))
  BY DEF IsIdle, Starts
<1> QED BY <1>1, <1>2 DEF SingleInv, Single, CapacityRespected, RoomIsKept, Size

LEMMA PoolTypes ==
  ASSUME PoolInv
  PROVE  /\ executors \in [Chats -> ExecIds \cup {NoExec}] /\ exec \in [ExecIds -> Health]
         /\ chatOf \in [ExecIds -> Chats \cup {NoChat}] /\ created \in Nat
         /\ caller \in [Callers -> {Idle} \cup CallerRecord]
         /\ pendingShutdowns \in [Chats -> ExecIds \cup {NoExec}] /\ NoExec \notin ExecIds
         /\ order \in Seq(Chats) /\ Len(order) \in Nat /\ MaxConcurrent \in Nat
BY CallerTypes, PoolAssumption, LenProperties DEF PoolInv, TypeOK, ExecIds, NoExec

\* A chat whose executor is not being released has the gate open.
LEMMA SingleLookup ==
  ASSUME PoolInv, PoolInv', SingleInv, Single', MaxConcurrent # 0,
         NEW p \in Callers, NEW c \in Chats, ~Starts(p), Lookup(p, c),
         UNCHANGED <<pendingShutdowns, shuttingDown>>, pendingShutdowns[c] = NoExec
  PROVE  SingleInv'
<1> USE DEF SingleInv
<1>1. Ordered /\ TypeOK
  BY DEF PoolInv
<1>2. CASE Found(c)
  <2>1. /\ Len(order') = Len(order) /\ caller' = [caller EXCEPT ![p] = Idle]
        /\ UNCHANGED <<executors, exec, chatOf, created>>
    BY <1>1, <1>2, BumpKeeps DEF execVars
  <2>2. \A q \in Callers : /\ Starts(q)' => Starts(q) /\ caller'[q] = caller[q]
                           /\ Awaiting(q)' => Awaiting(q) /\ caller'[q] = caller[q]
                           /\ q # p => caller'[q] = caller[q]
    BY <2>1, PoolTypes DEF Starts, Awaiting, Idle
  <2>3. CapacityRespected' /\ RoomIsKept'
    BY <2>1, <2>2 DEF CapacityRespected, RoomIsKept, Size
  <2>4. Gate'
    BY <2>1, <2>2 DEF Gate
  <2>5. NoOrphan'
    BY <2>1, <2>2 DEF NoOrphan, Pooled, Starting, Starts
  <2> QED BY <2>3, <2>4, <2>5
<1>3. CASE ~Found(c)
  <2>1. PICK gone \in SUBSET Chats : Creates(p, c, gone)
    BY <1>1, <1>3, LookupCreates
  <2>2. /\ created' = created + 1 /\ created' \in ExecIds
        /\ chatOf' = [chatOf EXCEPT ![created'] = c]
        /\ executors' = [d \in Chats |-> IF d \in gone \cup {c} THEN NoExec ELSE executors[d]]
        /\ caller' = [caller EXCEPT ![p] = [pc |-> "starting", chat |-> c, exec |-> created']]
        /\ order' \in Seq(Chats) /\ Len(order') < MaxConcurrent
    BY <2>1 DEF Creates
  <2>3. \A f \in ExecIds :
          /\ f = created' => exec'[f] = "healthy"
          /\ f # created' => exec'[f] = IF (\E d \in gone : executors[d] = f) /\ ~Stopping(f)
                                        THEN "shutting_down" ELSE exec[f]
    BY <2>1 DEF Creates
  <2>4. /\ caller'[p].exec = created' /\ caller'[p].chat = c /\ Starts(p)' /\ ~Awaiting(p)'
        /\ \A q \in Callers : q # p => caller'[q] = caller[q] /\ ~Starts(q)' /\ ~Awaiting(q)'
    BY <2>2, PoolTypes DEF Single, IsIdle, Starts, Awaiting
  <2>5. CapacityRespected' /\ RoomIsKept'
    <3>1. Len(order') \in Nat
      BY <2>2, LenProperties
    <3> QED BY <2>2, <3>1, PoolTypes DEF CapacityRespected, RoomIsKept, Size
  <2>6. exec[created'] = "none"
    BY <2>2, PoolTypes DEF Uncreated, PoolInv
  <2>7. \A f \in ExecIds : exec'[f] = "releasing" <=> exec[f] = "releasing"
    BY <2>3, <2>6 DEF Stopping
  <2>8. Gate'
    <3>1. \A d \in Chats : pendingShutdowns[d] # NoExec =>
            /\ pendingShutdowns[d] \in ExecIds /\ exec'[pendingShutdowns[d]] = "releasing"
            /\ pendingShutdowns[d] # created' /\ chatOf'[pendingShutdowns[d]] = d
            /\ executors'[d] = NoExec
      <4>1. \A d \in Chats : pendingShutdowns[d] # NoExec =>
              pendingShutdowns[d] \in ExecIds /\ exec'[pendingShutdowns[d]] = "releasing"
              /\ pendingShutdowns[d] # created'
        BY <2>6, <2>7, PoolTypes DEF Gate
      <4> QED BY <2>2, <4>1, PoolTypes DEF Gate
    <3>2. \A f \in ExecIds : exec'[f] = "releasing" =>
            chatOf'[f] \in Chats /\ pendingShutdowns[chatOf'[f]] = f
      BY <2>2, <2>6, <2>7, PoolTypes DEF Gate
    <3>3. executors'[c] = NoExec
      BY <2>2
    <3> QED BY <2>4, <3>1, <3>2, <3>3 DEF Gate
  <2>9. NoOrphan'
    <3> SUFFICES ASSUME NEW f \in ExecIds, exec'[f] = "healthy"
                 PROVE  \/ \E d \in Chats : executors'[d] = f
                        \/ \E q \in Callers : Starts(q)' /\ caller'[q].exec = f
      BY DEF NoOrphan, Pooled, Starting, Starts
    <3>1. CASE f = created'
      BY <2>4, <3>1
    <3>2. CASE f # created'
      <4>1. exec[f] = "healthy" /\ \A d \in gone : executors[d] # f
        BY <2>3, <3>2 DEF Stopping
      <4>2. \A q \in Callers : ~Starts(q)
        BY <2>4 DEF Starts
      <4>3. PICK d \in Chats : executors[d] = f
        BY <4>1, <4>2 DEF NoOrphan, Pooled, Starting, Starts
      <4>4. d # c /\ d \notin gone
        BY <1>3, <4>1, <4>3, PoolTypes DEF Found
      <4> QED BY <2>2, <4>3, <4>4
    <3> QED BY <3>1, <3>2
  <2> QED BY <2>5, <2>8, <2>9
<1> QED BY <1>2, <1>3

LEMMA SingleAcquire ==
  ASSUME PoolInv, PoolInv', SingleInv, Single', NEW p \in Callers,
         \/ \E c \in Chats : AcquireAwaitsRelease(p, c)
         \/ AcquireAdds(p) \/ AcquireFails(p)
  PROVE  SingleInv'
<1> USE DEF SingleInv
<1>1. ASSUME NEW c \in Chats, AcquireAwaitsRelease(p, c) PROVE SingleInv'
  <2>1. /\ caller' = [caller EXCEPT ![p] =
                        [pc |-> "awaiting", chat |-> c, exec |-> pendingShutdowns[c]]]
        /\ IsIdle(p) /\ pendingShutdowns[c] # NoExec
        /\ UNCHANGED <<executors, order, pendingShutdowns, shuttingDown, exec, chatOf, created>>
    BY <1>1 DEF AcquireAwaitsRelease, poolVars, execVars, IsIdle
  <2>2. /\ ~Starts(p) /\ caller'[p].chat = c /\ caller'[p].exec = pendingShutdowns[c] /\ ~Starts(p)'
        /\ \A q \in Callers : q # p => caller'[q] = caller[q]
    BY <2>1, PoolTypes DEF Starts, IsIdle
  <2>3. \A q \in Callers : Starts(q)' <=> Starts(q)
    BY <2>2 DEF Starts
  <2>4. CapacityRespected' /\ RoomIsKept'
    BY <2>1, <2>3 DEF CapacityRespected, RoomIsKept, Size
  <2>5. NoOrphan'
    BY <2>1, <2>2, <2>3 DEF NoOrphan, Pooled, Starting, Starts
  <2>6. executors[c] = NoExec
    BY <2>1 DEF Gate
  <2>7. Gate'
    <3>1. \A q \in Callers : q # p => caller'[q] = caller[q] /\ (Awaiting(q)' <=> Awaiting(q))
      BY <2>2 DEF Awaiting
    <3> QED BY <2>1, <2>2, <2>3, <2>6, <3>1 DEF Gate
  <2> QED BY <2>4, <2>5, <2>7
<1>2. CASE AcquireAdds(p)
  <2> DEFINE c == caller[p].chat
             e == caller[p].exec
  <2>1. /\ Starts(p) /\ MapSet(c, e) /\ caller' = [caller EXCEPT ![p] = Idle]
        /\ executors' = [executors EXCEPT ![c] = e]
        /\ UNCHANGED <<pendingShutdowns, shuttingDown, exec, chatOf, created>>
    BY <1>2 DEF AcquireAdds, MapSet, execVars, Starts
  <2>2. /\ c \in Chats /\ e \in ExecIds /\ exec[e] = "healthy"
        /\ executors[c] = NoExec /\ pendingShutdowns[c] = NoExec /\ Size < MaxConcurrent
    BY <2>1, CallerTypes DEF CallerRecord, StartingIsFresh, PoolInv, Gate, RoomIsKept
  <2>3. Len(order') = Len(order) + 1
    BY <2>1, <2>2, SetKeeps DEF PoolInv
  <2>4. \A q \in Callers : IsIdle(q)'
    BY <2>1, PoolTypes DEF Single, IsIdle, Starts, Idle
  <2>5. CapacityRespected' /\ RoomIsKept'
    BY <2>2, <2>3, <2>4, PoolTypes DEF CapacityRespected, RoomIsKept, Size, IsIdle, Starts
  <2>6. NoOrphan'
    <3> SUFFICES ASSUME NEW f \in ExecIds, exec[f] = "healthy"
                 PROVE  \E d \in Chats : executors'[d] = f
      BY <2>1 DEF NoOrphan, Pooled
    <3>1. CASE f = e
      BY <2>1, <2>2, <3>1, PoolTypes
    <3>2. CASE f # e
      <4>1. PICK d \in Chats : executors[d] = f
        BY <2>1, <3>2 DEF NoOrphan, Pooled, Starting, Starts, Single, IsIdle
      <4> QED BY <2>1, <2>2, <4>1, PoolTypes
    <3> QED BY <3>1, <3>2
  <2>7. Gate'
    <3>1. \A d \in Chats : pendingShutdowns[d] # NoExec => executors'[d] = NoExec
      BY <2>1, <2>2, PoolTypes DEF Gate
    <3>2. \A q \in Callers : ~Starts(q)' /\ ~Awaiting(q)'
      BY <2>4 DEF IsIdle, Starts, Awaiting
    <3> QED BY <2>1, <3>1, <3>2 DEF Gate
  <2> QED BY <2>5, <2>6, <2>7
<1>3. CASE AcquireFails(p)
  <2> DEFINE e == caller[p].exec
  <2>1. /\ Starts(p) /\ caller' = [caller EXCEPT ![p] = Idle]
        /\ exec' = [exec EXCEPT ![e] = "crashed"]
        /\ UNCHANGED <<executors, order, pendingShutdowns, shuttingDown, chatOf, created>>
    BY <1>3 DEF AcquireFails, poolVars, Starts
  <2>2. e \in ExecIds /\ exec[e] = "healthy"
    BY <2>1, CallerTypes DEF CallerRecord, StartingIsFresh, PoolInv
  <2>3. \A q \in Callers : IsIdle(q)'
    BY <2>1, PoolTypes DEF Single, IsIdle, Starts, Idle
  <2>4. CapacityRespected' /\ RoomIsKept'
    BY <2>1, <2>3 DEF CapacityRespected, RoomIsKept, Size, IsIdle, Starts
  <2>5. NoOrphan'
    <3> SUFFICES ASSUME NEW f \in ExecIds, exec'[f] = "healthy" PROVE Pooled(f)
      BY <2>1 DEF NoOrphan, Pooled
    <3>1. f # e /\ exec[f] = "healthy"
      BY <2>1, PoolTypes
    <3>2. ~Starting(f)
      BY <2>1, <3>1 DEF Single, IsIdle, Starting, Starts
    <3> QED BY <3>1, <3>2 DEF NoOrphan
  <2>6. \A f \in ExecIds : exec'[f] = "releasing" <=> exec[f] = "releasing"
    BY <2>1, <2>2, PoolTypes
  <2>7. Gate'
    <3>1. \A q \in Callers : ~Starts(q)' /\ ~Awaiting(q)'
      BY <2>3 DEF IsIdle, Starts, Awaiting
    <3> QED BY <2>1, <2>6, <3>1, PoolTypes DEF Gate
  <2> QED BY <2>4, <2>5, <2>7
<1> QED BY <1>1, <1>2, <1>3

LEMMA SingleRelease ==
  ASSUME PoolInv, PoolInv', SingleInv, NEW c \in Chats, Release(c)
  PROVE  SingleInv'
<1> USE DEF SingleInv
<1> DEFINE e == executors[c]
<1>1. /\ e # NoExec /\ MapDelete(c)
      /\ exec' = [f \in ExecIds |-> IF f \in {e} /\ ~Stopping(f) THEN "releasing" ELSE exec[f]]
      /\ pendingShutdowns' = [pendingShutdowns EXCEPT ![c] = IF Stopping(e) THEN NoExec ELSE e]
      /\ UNCHANGED <<shuttingDown, chatOf, created, caller>>
  BY DEF Release, ShutDown
<1>2. executors' = [executors EXCEPT ![c] = NoExec] /\ Len(order') = Len(order) - 1
  BY <1>1, DeleteKeeps DEF PoolInv
<1>3. e \in ExecIds /\ chatOf[e] = c /\ pendingShutdowns[c] = NoExec
  BY <1>1, PoolTypes DEF PoolInv, Mapped, Gate
<1>4. Single' /\ CapacityRespected' /\ RoomIsKept'
  BY <1>1, <1>2, PoolTypes, SizeKeeps
<1>5. NoOrphan'
  <2> SUFFICES ASSUME NEW f \in ExecIds, exec'[f] = "healthy" PROVE Pooled(f)' \/ Starting(f)'
    BY DEF NoOrphan
  <2>1. f # e /\ exec[f] = "healthy"
    BY <1>1 DEF Stopping
  <2>2. Starting(f) => Starting(f)'
    BY <1>1 DEF Starting
  <2>3. Pooled(f) => Pooled(f)'
    BY <1>2, <2>1, PoolTypes DEF Pooled
  <2> QED BY <2>1, <2>2, <2>3 DEF NoOrphan
<1>6. Gate'
  <2>1. ASSUME NEW d \in Chats, pendingShutdowns'[d] # NoExec
        PROVE  /\ exec'[pendingShutdowns'[d]] = "releasing"
               /\ chatOf'[pendingShutdowns'[d]] = d /\ executors'[d] = NoExec
    <3>1. CASE d = c
      BY <1>1, <1>2, <1>3, <2>1, <3>1, PoolTypes
    <3>2. CASE d # c
      <4>1. pendingShutdowns'[d] = pendingShutdowns[d] /\ pendingShutdowns[d] \in ExecIds
        BY <1>1, <2>1, <3>2, PoolTypes
      <4>2. exec[pendingShutdowns[d]] = "releasing" /\ chatOf[pendingShutdowns[d]] = d
            /\ executors[d] = NoExec
        BY <2>1, <4>1 DEF Gate
      <4> QED BY <1>1, <1>2, <3>2, <4>1, <4>2, PoolTypes DEF Stopping
    <3> QED BY <3>1, <3>2
  <2>2. ASSUME NEW f \in ExecIds, exec'[f] = "releasing"
        PROVE  chatOf'[f] \in Chats /\ pendingShutdowns'[chatOf'[f]] = f
    <3>1. CASE exec[f] = "releasing"
      <4>1. chatOf[f] \in Chats /\ pendingShutdowns[chatOf[f]] = f
        BY <3>1 DEF Gate
      <4>2. chatOf[f] # c
        BY <1>3, <4>1, PoolTypes
      <4> QED BY <1>1, <4>1, <4>2, PoolTypes
    <3>2. CASE exec[f] # "releasing"
      <4>1. f = e /\ ~Stopping(e)
        BY <1>1, <2>2, <3>2
      <4> QED BY <1>1, <1>3, <4>1, PoolTypes
    <3> QED BY <3>1, <3>2
  <2>3. ASSUME NEW q \in Callers, Starts(q)
        PROVE  caller[q].chat # c /\ executors[caller[q].chat] = NoExec
               /\ pendingShutdowns[caller[q].chat] = NoExec /\ caller[q].chat \in Chats
    BY <1>1, <2>3, CallerTypes DEF Gate, CallerRecord, PoolInv
  <2>4. ASSUME NEW q \in Callers, Awaiting(q)
        PROVE  caller[q].chat # c /\ executors[caller[q].chat] = NoExec
               /\ pendingShutdowns[caller[q].chat] \in {NoExec, caller[q].exec}
               /\ caller[q].chat \in Chats
    BY <1>1, <2>4, CallerTypes DEF Gate, CallerRecord, PoolInv
  <2>5. \A q \in Callers : (Starts(q)' <=> Starts(q)) /\ (Awaiting(q)' <=> Awaiting(q))
    BY <1>1 DEF Starts, Awaiting
  <2>6. \A d \in Chats : d # c => /\ executors'[d] = executors[d]
                                  /\ pendingShutdowns'[d] = pendingShutdowns[d]
    BY <1>1, <1>2, PoolTypes
  <2>7. \A q \in Callers :
          /\ Starts(q)' => /\ executors'[caller'[q].chat] = NoExec
                           /\ pendingShutdowns'[caller'[q].chat] = NoExec
          /\ Awaiting(q)' => /\ executors'[caller'[q].chat] = NoExec
                             /\ pendingShutdowns'[caller'[q].chat] \in {NoExec, caller'[q].exec}
    BY <1>1, <2>3, <2>4, <2>5, <2>6
  <2> QED BY <2>1, <2>2, <2>7 DEF Gate
<1> QED BY <1>4, <1>5, <1>6

LEMMA SingleShutdownAll ==
  ASSUME PoolInv, PoolInv', SingleInv, ShutdownAll
  PROVE  SingleInv'
<1> USE DEF SingleInv
<1>1. /\ exec' = [f \in ExecIds |-> IF f \in {executors[c] : c \in Chats} \ {NoExec} /\ ~Stopping(f)
                                    THEN "shutting_down" ELSE exec[f]]
      /\ executors' = [c \in Chats |-> NoExec] /\ order' = <<>>
      /\ UNCHANGED <<pendingShutdowns, chatOf, created, caller>>
  BY DEF ShutdownAll, ShutDown
<1>2. Len(order') <= Len(order)
  BY <1>1, PoolTypes, EmptySeq
<1>3. Single' /\ CapacityRespected' /\ RoomIsKept'
  BY <1>1, <1>2, SizeKeeps
<1>4. NoOrphan'
  <2> SUFFICES ASSUME NEW f \in ExecIds, exec'[f] = "healthy" PROVE Starting(f)'
    BY DEF NoOrphan
  <2>1. exec[f] = "healthy" /\ ~Pooled(f)
    BY <1>1, PoolTypes DEF Stopping, Pooled
  <2> QED BY <1>1, <2>1 DEF NoOrphan, Starting
<1>5. \A f \in ExecIds : exec'[f] = "releasing" <=> exec[f] = "releasing"
  BY <1>1 DEF Stopping
<1>6. Gate'
  <2>1. \A q \in Callers : /\ Starts(q)' <=> Starts(q)
                           /\ Awaiting(q)' <=> Awaiting(q)
                           /\ Starts(q) \/ Awaiting(q) => caller[q].chat \in Chats
    BY <1>1, CallerTypes DEF Starts, Awaiting, CallerRecord, PoolInv
  <2> QED BY <1>1, <1>5, <2>1, PoolTypes DEF Gate
<1> QED BY <1>3, <1>4, <1>6

LEMMA SingleClose ==
  ASSUME PoolInv, PoolInv', SingleInv, NEW e \in ExecIds, exec[e] # "none", Close(e), NoneStarts
  PROVE  SingleInv'
<1> USE DEF SingleInv
<1>1. /\ exec' = [exec EXCEPT ![e] = "closed"]
      /\ pendingShutdowns' = [c \in Chats |-> IF pendingShutdowns[c] = e THEN NoExec
                                              ELSE pendingShutdowns[c]]
      /\ UNCHANGED <<shuttingDown, chatOf, created, caller>>
  BY DEF Close
<1>2. /\ \A c \in Chats : executors'[c] = IF executors[c] = e THEN NoExec ELSE executors[c]
      /\ Len(order') <= Len(order)
  BY CloseStep
<1>3. Single' /\ CapacityRespected' /\ RoomIsKept'
  BY <1>1, <1>2, SizeKeeps
<1>4. NoOrphan'
  <2> SUFFICES ASSUME NEW f \in ExecIds, exec'[f] = "healthy" PROVE Pooled(f)' \/ Starting(f)'
    BY DEF NoOrphan
  <2>1. f # e /\ exec[f] = "healthy"
    BY <1>1, PoolTypes
  <2>2. Pooled(f)
    BY <2>1 DEF NoOrphan, NoneStarts, Starting, Starts
  <2> QED BY <1>2, <2>1, <2>2 DEF Pooled
<1>5. \A f \in ExecIds : exec'[f] = "releasing" <=> exec[f] = "releasing" /\ f # e
  BY <1>1, PoolTypes
<1>6. Gate'
  <2>1. \A c \in Chats : pendingShutdowns'[c] # NoExec =>
          /\ pendingShutdowns'[c] = pendingShutdowns[c]
          /\ pendingShutdowns[c] \in ExecIds /\ pendingShutdowns[c] # e
    BY <1>1, PoolTypes
  <2>2. \A c \in Chats : pendingShutdowns'[c] \in {NoExec, pendingShutdowns[c]}
                         /\ (executors[c] = NoExec => executors'[c] = NoExec)
    BY <1>1, <1>2
  <2>3. \A f \in ExecIds : exec'[f] = "releasing" =>
          chatOf'[f] \in Chats /\ pendingShutdowns'[chatOf'[f]] = f
    BY <1>1, <1>5 DEF Gate
  <2>4. \A q \in Callers : /\ ~Starts(q)'
                           /\ Awaiting(q)' <=> Awaiting(q)
                           /\ Awaiting(q) => caller[q].chat \in Chats
    BY <1>1, CallerTypes DEF Starts, Awaiting, CallerRecord, PoolInv, NoneStarts
  <2>5. \A c \in Chats : pendingShutdowns'[c] # NoExec =>
          /\ exec'[pendingShutdowns'[c]] = "releasing" /\ chatOf'[pendingShutdowns'[c]] = c
          /\ executors'[c] = NoExec
    BY <1>1, <1>5, <2>1, <2>2 DEF Gate
  <2>6. \A q \in Callers : Awaiting(q)' =>
          /\ executors'[caller'[q].chat] = NoExec
          /\ pendingShutdowns'[caller'[q].chat] \in {NoExec, caller'[q].exec}
    BY <1>1, <2>2, <2>4 DEF Gate
  <2> QED BY <2>3, <2>4, <2>5, <2>6 DEF Gate
<1> QED BY <1>3, <1>4, <1>6

LEMMA SingleStop ==
  ASSUME PoolInv, PoolInv', SingleInv, NEW e \in ExecIds, NEW how \in {"shutting_down", "crashed"},
         StopsByItself(e, how)
  PROVE  SingleInv'
<1> USE DEF SingleInv
<1>1. /\ exec[e] = "healthy" /\ exec' = [exec EXCEPT ![e] = how]
      /\ UNCHANGED <<executors, order, pendingShutdowns, shuttingDown, chatOf, created, caller>>
  BY DEF StopsByItself, poolVars
<1>2. Single' /\ CapacityRespected' /\ RoomIsKept'
  BY <1>1, PoolTypes, SizeKeeps
<1>3. NoOrphan'
  <2>1. \A f \in ExecIds : exec'[f] = "healthy" => exec[f] = "healthy"
    BY <1>1, PoolTypes
  <2> QED BY <1>1, <2>1 DEF NoOrphan, Pooled, Starting
<1>4. \A f \in ExecIds : exec'[f] = "releasing" <=> exec[f] = "releasing"
  BY <1>1, PoolTypes
<1>5. Gate'
  <2>1. \A q \in Callers : /\ Starts(q)' <=> Starts(q)
                           /\ Awaiting(q)' <=> Awaiting(q)
    BY <1>1 DEF Starts, Awaiting
  <2> QED BY <1>1, <1>4, <2>1, PoolTypes DEF Gate
<1> QED BY <1>2, <1>3, <1>5

LEMMA SingleStep ==
  ASSUME MaxConcurrent # 0, PoolInv, PoolInv', UnlessOverlapped, [MCNext]_mcVars
  PROVE  UnlessOverlapped'
<1>1. CASE UNCHANGED mcVars
  BY <1>1 DEF UnlessOverlapped, SingleInv, mcVars, vars, poolVars, execVars, Single, IsIdle, NoOrphan,
     Pooled, Starting, CapacityRespected, Size, RoomIsKept, Gate, Starts, Awaiting
<1>2. CASE MCNext
  <2> SUFFICES ASSUME ~overlapped' PROVE SingleInv'
    BY DEF UnlessOverlapped
  <2>1. SingleInv /\ Single'
    BY <1>2 DEF MCNext, UnlessOverlapped, Single, IsIdle
  <2>2. ASSUME NEW p \in Callers, NEW c \in Chats, AcquireBegins(p, c) PROVE SingleInv'
    BY <2>1, <2>2, SingleLookup DEF AcquireBegins, Starts
  <2>3. ASSUME NEW p \in Callers, AcquireResumes(p) PROVE SingleInv'
    <3>1. caller[p].chat \in Chats /\ caller[p].exec \in ExecIds /\ ~Starts(p) /\ Awaiting(p)
      BY <2>3, CallerTypes DEF AcquireResumes, Awaiting, Starts, CallerRecord, PoolInv
    <3>2. pendingShutdowns[caller[p].chat] = NoExec
      BY <2>1, <2>3, <3>1, PoolTypes DEF AcquireResumes, SingleInv, Gate
    <3> QED BY <2>1, <2>3, <3>1, <3>2, SingleLookup DEF AcquireResumes
  <2>4. ASSUME NEW e \in ExecIds, ShutdownCompletes(e) \/ ClosesByItself(e) PROVE SingleInv'
    BY <2>1, <2>4, SingleClose DEF ShutdownCompletes, ClosesByItself, Macrotask, NoneStarts, Starts
  <2> QED BY <1>2, <2>1, <2>2, <2>3, <2>4, SingleAcquire, SingleRelease, SingleShutdownAll, SingleStop
          DEF MCNext, Next, AcquireNext, ExecutorNext
<1> QED BY <1>1, <1>2

LEMMA SingleInit == MCInit => UnlessOverlapped
<1> SUFFICES ASSUME MCInit PROVE SingleInv
  BY DEF UnlessOverlapped
<1> USE DEF MCInit, Init
<1>1. CapacityRespected
  BY PoolAssumption, EmptySeq DEF CapacityRespected, Size
<1>2. \A p \in Callers : IsIdle(p) /\ ~Starts(p) /\ ~Awaiting(p)
  BY DEF IsIdle, Starts, Awaiting, Idle
<1> QED BY <1>1, <1>2 DEF SingleInv, Single, RoomIsKept, NoOrphan, Gate

\* The gate does what it is for.
LEMMA GateSeparates == ASSUME PoolInv, SingleInv PROVE ReleasedIsAlone
<1> SUFFICES ASSUME NEW e \in ExecIds, NEW f \in ExecIds, exec[e] = "releasing", exec[f] = "healthy",
                    chatOf[e] = chatOf[f]
             PROVE  FALSE
  BY DEF ReleasedIsAlone
<1>1. chatOf[e] \in Chats /\ pendingShutdowns[chatOf[e]] = e /\ e # NoExec
  BY PoolTypes DEF SingleInv, Gate
<1>2. CASE Pooled(f)
  BY <1>1, <1>2, PoolTypes DEF Pooled, PoolInv, Mapped, SingleInv, Gate
<1>3. CASE Starting(f)
  BY <1>1, <1>3, PoolTypes DEF Starting, Starts, PoolInv, StartingIsFresh, SingleInv, Gate
<1> QED BY <1>2, <1>3 DEF SingleInv, NoOrphan

\* Whatever acquire(), release(), eviction and self-stopping do, an executor
\* that closed is not in the pool; and where acquire() calls do not overlap, no
\* running process is forgotten, the pool stays within its capacity, and a
\* released executor is gone before its chat has another (acquire, release).
\* With no room at all acquire() keeps one executor nevertheless.
THEOREM PoolIsSound ==
  ASSUME MaxConcurrent # 0
  PROVE  MCSpec => []PoolIsSoundUnlessOverlapped
<1>1. PoolInv /\ PoolInv' /\ UnlessOverlapped /\ [MCNext]_mcVars => UnlessOverlapped'
  BY SingleStep
<1>2. PoolInv => ClosedNeverPooled
  BY DEF PoolInv, Mapped, ClosedNeverPooled
<1>3. PoolInv /\ UnlessOverlapped => PoolIsSoundUnlessOverlapped
  BY <1>2, GateSeparates DEF PoolInv, UnlessOverlapped, SingleInv, PoolIsSoundUnlessOverlapped
<1> QED BY <1>1, <1>3, PoolIsMapped, SingleInit, PTL DEF MCSpec, mcVars
=============================================================================
