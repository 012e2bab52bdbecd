------------------------------ MODULE BotsProofs ------------------------------
(***************************************************************************)
(* Proofs about what bots ask, take in and give to others.  QuestionFlow,  *)
(* for every number of calls and of their sub-questions and every mix of   *)
(* loops: an answer that reaches a hook answers all of its call, an answer *)
(* goes astray only if the hook gave up before, and no timer cuts a call's *)
(* five minutes short.  SkillHub and Intake, for all users, messages,      *)
(* sizes of a group and limits of what users, authors and failures do.     *)
(***************************************************************************)
EXTENDS MCQuestionFlow, SkillHub, Intake, SequenceTheorems, TLAPS

(* The questions of the agent. **********************************************)

mcVars == <<vars, raced>>

Messages == {<<>>, <<NoQuestion>>} \cup {<<q>> : q \in Questions} \cup Pairs

In(s, q)      == \E i \in 1..Len(s) : s[i] = q
Distinct(s)   == \A i, j \in 1..Len(s) : s[i] = s[j] => i = j
InQueue(q)    == In(procQ, q)
InDelivery(q) == \E a \in answering : a.q = q
Open(q)       == hook[q] \in {"waiting", "empty"}

(* Where a call is. *********************************************************)

\* A call of the turn was asked, and what was not asked is nowhere.
Asked ==
  /\ \A q \in inTurn \cup sending \cup stray : hook[q] # "unasked"
  /\ slot # NoQuestion => hook[slot] # "unasked"
  /\ \A q \in Questions : OnWire(q) \/ InQueue(q) \/ InDelivery(q) => q \in inTurn

\* On the stream a call is in one message.
OnceOnWire ==
  \A i, k \in 1..Len(wire), q \in Questions : In(wire[i], q) /\ In(wire[k], q) => i = k

\* Read, it is in the processor's queue, once; being delivered, it has left it.
\* A continuation never shifts its queue.
OncePerTask ==
  kind # "cont" =>
    /\ Distinct(procQ)
    /\ \A q \in Questions : OnWire(q) => ~InQueue(q) /\ ~InDelivery(q)
    /\ \A q \in Questions : InQueue(q) => ~InDelivery(q)
    /\ \A a, b \in answering : a.q = b.q => a = b
    /\ \A q \in Questions : OnWire(q) \/ InQueue(q) \/ InDelivery(q) => Open(q)

\* The slot is for calls between turns and for those a continuation surfaced.
SlotIsForOthers ==
  /\ slot \notin sending
  /\ \A q \in sending : Open(q)
  /\ \A q \in inTurn : q \in sending \/ q = slot => q \in surfaced
  /\ kind # "cont" => surfaced = {}
  /\ kind = "cont" => \A q \in inTurn : q \notin surfaced => Open(q)

\* The other loops leave the task's fields alone.
OnlyChatTracks ==
  /\ kind # "chat" => pending = NoQuestion /\ answering = {} /\ leaked = 0 /\ timer = "none"
                      /\ cardSends = 0
  /\ turn = "none" <=> loop = "none"
  /\ loop = "none" => pending = NoQuestion /\ answering = {}
  /\ showing # NoQuestion <=> loop = "showing"

\* A caller of the API is shown the head of the queue.
ShowsHead == kind = "api" /\ loop = "showing" => procQ # <<>> /\ Head(procQ) = showing

\* What was answered so far is what lies before the index.
Collected ==
  /\ pending # NoQuestion => collected = 1..(index - 1)
  /\ \A a \in answering : a.subs = AllSubs(a.q)

Task    == PendingIsHead /\ PendingHasTimer /\ OnlyChatTracks /\ ShowsHead /\ Collected
Answers == AnswersComplete /\ StrayOnlyIfExpired /\ AnsweredLeavesSlot
Places  == Asked /\ OnceOnWire /\ OncePerTask /\ SlotIsForOthers

QuestionsInv == TypeOK /\ Task /\ Answers /\ Places

\* These sub-questions answer a call as far as whoever reads it can.
Enough(q, s) ==
  /\ s \subseteq Nat
  /\ q \in inTurn /\ kind = "chat" => s = AllSubs(q)
  /\ (q \in inTurn /\ kind = "api") \/ 1 \in s

(* Timers. ******************************************************************)

\* While nothing raced, a timer runs only for the call the task tracks, and the
\* task tracks none while an answer is being delivered.
TimersMatch ==
  /\ leaked = 0 /\ timer # "stale"
  /\ timer # "none" => pending # NoQuestion
  /\ answering # {} => pending = NoQuestion /\ loop # "showing"
  /\ \A a, b \in answering : a = b
  /\ loop = "showing" /\ kind = "chat" => pending # NoQuestion

UnlessRaced == raced \/ TimersMatch

(* Sequences. ***************************************************************)

LEMMA TailKeeps ==
  ASSUME NEW S, NEW s \in Seq(S), s # <<>>
  PROVE  /\ Tail(s) \in Seq(S) /\ Head(s) \in S /\ Head(s) = s[1]
         /\ Len(s) \in Nat /\ Len(s) >= 1 /\ Len(Tail(s)) = Len(s) - 1
         /\ \A i \in 1..(Len(s) - 1) : Tail(s)[i] = s[i + 1]
  OBVIOUS

\* Without its head a sequence has every other element, as often as before.
LEMMA TailElements ==
  ASSUME NEW S, NEW s \in Seq(S), s # <<>>
  PROVE  /\ \A q : In(s, q) <=> q = Head(s) \/ In(Tail(s), q)
         /\ Distinct(s) => Distinct(Tail(s)) /\ ~In(Tail(s), Head(s))
<1> DEFINE t == Tail(s)
<1>1. /\ Head(s) = s[1] /\ Len(s) \in Nat /\ Len(s) >= 1 /\ Len(t) = Len(s) - 1
      /\ \A i \in 1..(Len(s) - 1) : t[i] = s[i + 1]
  BY TailKeeps
<1> HIDE DEF t
<1>2. ASSUME NEW q, In(s, q) PROVE q = Head(s) \/ In(t, q)
  <2>1. PICK i \in 1..Len(s) : s[i] = q
    BY <1>2 DEF In
  <2>2. i # 1 => i - 1 \in 1..Len(t) /\ t[i - 1] = q
    BY <1>1, <2>1
  <2> QED BY <1>1, <2>1, <2>2 DEF In
<1>3. ASSUME NEW q, q = Head(s) \/ In(t, q) PROVE In(s, q)
  <2>1. In(t, q) => \E i \in 1..Len(s) : s[i] = q
    BY <1>1 DEF In
  <2> QED BY <1>1, <1>3, <2>1 DEF In
<1>4. ASSUME Distinct(s) PROVE Distinct(t) /\ ~In(t, Head(s))
  <2>1. Distinct(t)
    BY <1>1, <1>4 DEF Distinct
  <2>2. ~In(t, Head(s))
    BY <1>1, <1>4 DEF Distinct, In
  <2> QED BY <2>1, <2>2
<1> QED BY <1>2, <1>3, <1>4 DEF t

LEMMA AppendElements ==
  ASSUME NEW S, NEW s \in Seq(S), NEW e \in S
  PROVE  \A q : In(Append(s, e), q) <=> In(s, q) \/ q = e
<1>1. /\ Len(s) \in Nat /\ Len(Append(s, e)) = Len(s) + 1
      /\ \A i \in 1..Len(s) : Append(s, e)[i] = s[i]
      /\ Append(s, e)[Len(s) + 1] = e
  OBVIOUS
<1> QED BY <1>1 DEF In

LEMMA ConcatElements ==
  ASSUME NEW S, NEW s \in Seq(S), NEW t \in Seq(S)
  PROVE  /\ s \o t \in Seq(S)
         /\ \A q : In(s \o t, q) <=> In(s, q) \/ In(t, q)
         /\ s # <<>> => s \o t # <<>> /\ Head(s \o t) = Head(s)
         /\ Distinct(s) /\ Distinct(t) /\ (\A q \in S : ~(In(s, q) /\ In(t, q)))
              => Distinct(s \o t)
<1> DEFINE u == s \o t
<1>1. /\ u \in Seq(S) /\ Len(s) \in Nat /\ Len(t) \in Nat /\ Len(u) = Len(s) + Len(t)
      /\ \A i \in 1..(Len(s) + Len(t)) : u[i] = IF i <= Len(s) THEN s[i] ELSE t[i - Len(s)]
  BY ConcatProperties
<1> HIDE DEF u
<1>2. ASSUME NEW q, In(u, q) PROVE In(s, q) \/ In(t, q)
  <2>1. PICK i \in 1..Len(u) : u[i] = q
    BY <1>2 DEF In
  <2>2. CASE i <= Len(s)
    BY <1>1, <2>1, <2>2 DEF In
  <2>3. CASE ~(i <= Len(s))
    <3>1. i - Len(s) \in 1..Len(t) /\ t[i - Len(s)] = q
      BY <1>1, <2>1, <2>3
    <3> QED BY <3>1 DEF In
  <2> QED BY <2>2, <2>3
<1>3. ASSUME NEW q, In(s, q) PROVE In(u, q)
  BY <1>1, <1>3 DEF In
<1>4. ASSUME NEW q, In(t, q) PROVE In(u, q)
  <2>1. PICK i \in 1..Len(t) : t[i] = q
    BY <1>4 DEF In
  <2> DEFINE j == i + Len(s)
  <2>2. /\ j \in 1..(Len(s) + Len(t)) /\ ~(j <= Len(s)) /\ j - Len(s) = i
    BY <1>1, <2>1
  <2> HIDE DEF j
  <2>3. u[j] = q
    <3>1. u[j] = IF j <= Len(s) THEN s[j] ELSE t[j - Len(s)]
      BY <1>1, <2>2
    <3> QED BY <2>1, <2>2, <3>1
  <2>4. j \in 1..Len(u)
    BY <1>1, <2>2
  <2> QED BY <2>3, <2>4 DEF In
<1>5. ASSUME s # <<>> PROVE u # <<>> /\ Head(u) = Head(s)
  <2>1. Len(s) >= 1 /\ Head(s) = s[1]
    BY <1>5
  <2>2. Len(u) >= 1 /\ u[1] = s[1]
    BY <1>1, <2>1
  <2> QED BY <1>1, <2>1, <2>2
<1>6. ASSUME Distinct(s), Distinct(t), \A q \in S : ~(In(s, q) /\ In(t, q))
      PROVE  Distinct(u)
  <2> SUFFICES ASSUME NEW i \in 1..Len(u), NEW j \in 1..Len(u), u[i] = u[j], i < j
               PROVE  FALSE
    BY <1>1 DEF Distinct
  <2>1. CASE j <= Len(s)
    BY <1>1, <1>6, <2>1 DEF Distinct
  <2>2. CASE i > Len(s)
    <3>1. /\ i - Len(s) \in 1..Len(t) /\ j - Len(s) \in 1..Len(t)
          /\ t[i - Len(s)] = t[j - Len(s)]
      BY <1>1, <2>2
    <3> QED BY <1>1, <1>6, <3>1 DEF Distinct
  <2>3. CASE i <= Len(s) /\ j > Len(s)
    <3>1. /\ i \in 1..Len(s) /\ j - Len(s) \in 1..Len(t) /\ s[i] = t[j - Len(s)]
          /\ s[i] \in S
      BY <1>1, <2>3
    <3> QED BY <1>6, <3>1 DEF In
  <2> QED BY <1>1, <2>1, <2>2, <2>3
<1> QED BY <1>1, <1>2, <1>3, <1>4, <1>5, <1>6 DEF u
(* The stream of the turn. **************************************************)

LEMMA MessageParts ==
  ASSUME NEW m \in Messages
  PROVE  /\ m \in Seq(Maybe) /\ DOMAIN m = 1..Len(m)
         /\ m # <<NoQuestion>> => m \in Seq(Questions) /\ Distinct(m)
         /\ m = <<NoQuestion>> => \A q \in Questions : ~In(m, q)
<1>1. CASE m = <<>>
  BY <1>1 DEF Distinct
<1>2. CASE m = <<NoQuestion>>
  BY <1>2, QuestionAssumption DEF In, Maybe
<1>3. CASE \E q \in Questions : m = <<q>>
  BY <1>3, QuestionAssumption DEF Distinct, Maybe
<1>4. CASE m \in Pairs
  <2>1. PICK p \in Questions, q \in Questions : m = <<p, q>> /\ p # q
    BY <1>4 DEF Pairs
  <2>2. m \in Seq(Questions) /\ Len(m) = 2 /\ m[1] = p /\ m[2] = q /\ DOMAIN m = 1..2
    BY <2>1
  <2>3. Distinct(m)
    BY <2>1, <2>2 DEF Distinct
  <2>4. m \in Seq(Maybe)
    BY <2>1 DEF Maybe
  <2> QED BY <2>1, <2>2, <2>3, <2>4, QuestionAssumption
<1> QED BY <1>1, <1>2, <1>3, <1>4 DEF Messages

\* A call is on the stream if one of the messages has it.
LEMMA OnWireIsIn ==
  ASSUME wire \in Seq(Messages)
  PROVE  \A q : OnWire(q) <=> \E i \in 1..Len(wire) : In(wire[i], q)
<1>1. DOMAIN wire = 1..Len(wire) /\ \A i \in 1..Len(wire) : wire[i] \in Messages
  OBVIOUS
<1>2. \A i \in 1..Len(wire) : DOMAIN wire[i] = 1..Len(wire[i])
  BY <1>1, MessageParts
<1> QED BY <1>1, <1>2 DEF OnWire, In

WireType == wire \in Seq(Messages)

LEMMA OnceNext ==
  OnceOnWire' <=> \A i, k \in 1..Len(wire'), q \in Questions :
                    In(wire'[i], q) /\ In(wire'[k], q) => i = k
BY DEF OnceOnWire, In

\* The agent says something: it goes to the end of the stream.
LEMMA WireGrows ==
  ASSUME WireType, OnceOnWire, NEW m \in Messages, wire' = Append(wire, m),
         \A q \in Questions : In(m, q) => ~OnWire(q)
  PROVE  /\ WireType' /\ OnceOnWire'
         /\ \A q \in Questions : OnWire(q)' <=> OnWire(q) \/ In(m, q)
<1>1. /\ wire' \in Seq(Messages) /\ Len(wire) \in Nat /\ Len(wire') = Len(wire) + 1
      /\ \A i \in 1..Len(wire) : wire'[i] = wire[i]
      /\ wire'[Len(wire) + 1] = m
  BY DEF WireType
<1>2. \A q : OnWire(q) <=> \E i \in 1..Len(wire) : In(wire[i], q)
  BY OnWireIsIn DEF WireType
<1>3. \A q : OnWire(q)' <=> \E i \in 1..Len(wire') : In(wire'[i], q)
  <2>1. WireType' => (\A q : OnWire(q) <=> \E i \in 1..Len(wire) : In(wire[i], q))'
    BY OnWireIsIn, PTL DEF WireType
  <2>2. (\A q : OnWire(q) <=> \E i \in 1..Len(wire) : In(wire[i], q))'
    BY <1>1, <2>1 DEF WireType
  <2> QED BY <2>2 DEF In
<1>4. \A i \in 1..Len(wire') : i \in 1..Len(wire) \/ i = Len(wire) + 1
  BY <1>1
<1>5. \A q \in Questions : OnWire(q)' <=> OnWire(q) \/ In(m, q)
  <2> SUFFICES ASSUME NEW q \in Questions PROVE OnWire(q)' <=> OnWire(q) \/ In(m, q)
    OBVIOUS
  <2>1. OnWire(q)' => OnWire(q) \/ In(m, q)
    BY <1>1, <1>2, <1>3, <1>4
  <2>2. OnWire(q) => OnWire(q)'
    <3>1. ASSUME NEW i \in 1..Len(wire), In(wire[i], q) PROVE OnWire(q)'
      BY <1>1, <1>3, <3>1
    <3> QED BY <1>2, <3>1
  <2>3. In(m, q) => OnWire(q)'
    BY <1>1, <1>3
  <2> QED BY <2>1, <2>2, <2>3
<1>6. OnceOnWire'
  <2> SUFFICES ASSUME NEW i \in 1..Len(wire'), NEW k \in 1..Len(wire'), NEW q \in Questions,
                      In(wire'[i], q), In(wire'[k], q)
               PROVE  i = k
    BY OnceNext
  <2>1. i \in 1..Len(wire) => OnWire(q)
    BY <1>1, <1>2
  <2>2. k \in 1..Len(wire) => OnWire(q)
    BY <1>1, <1>2
  <2> QED BY <1>1, <1>4, <2>1, <2>2 DEF OnceOnWire
<1> QED BY <1>1, <1>5, <1>6 DEF WireType

\* The loop reads a message: its calls leave the stream, for good.
LEMMA WireShrinks ==
  ASSUME WireType, OnceOnWire, wire # <<>>, wire' = Tail(wire)
  PROVE  /\ WireType' /\ OnceOnWire' /\ Head(wire) \in Messages
         /\ \A q \in Questions : OnWire(q) <=> OnWire(q)' \/ In(Head(wire), q)
         /\ \A q \in Questions : ~(OnWire(q)' /\ In(Head(wire), q))
<1>1. /\ wire' \in Seq(Messages) /\ Head(wire) \in Messages /\ Head(wire) = wire[1]
      /\ Len(wire) \in Nat /\ Len(wire) >= 1 /\ Len(wire') = Len(wire) - 1
      /\ \A i \in 1..(Len(wire) - 1) : wire'[i] = wire[i + 1]
  BY TailKeeps DEF WireType
<1>2. \A q : OnWire(q) <=> \E i \in 1..Len(wire) : In(wire[i], q)
  BY OnWireIsIn DEF WireType
<1>3. \A q : OnWire(q)' <=> \E i \in 1..Len(wire') : In(wire'[i], q)
  <2>1. WireType' => (\A q : OnWire(q) <=> \E i \in 1..Len(wire) : In(wire[i], q))'
    BY OnWireIsIn, PTL DEF WireType
  <2>2. (\A q : OnWire(q) <=> \E i \in 1..Len(wire) : In(wire[i], q))'
    BY <1>1, <2>1 DEF WireType
  <2> QED BY <2>2 DEF In
<1>4. \A i \in 1..Len(wire') : i + 1 \in 1..Len(wire) /\ i + 1 # 1 /\ wire'[i] = wire[i + 1]
  BY <1>1
<1>5. ASSUME NEW q \in Questions
      PROVE  /\ OnWire(q) <=> OnWire(q)' \/ In(Head(wire), q)
             /\ ~(OnWire(q)' /\ In(Head(wire), q))
  <2>1. ASSUME OnWire(q) PROVE OnWire(q)' \/ In(Head(wire), q)
    <3>1. PICK i \in 1..Len(wire) : In(wire[i], q)
      BY <1>2, <2>1
    <3>2. i # 1 => i - 1 \in 1..Len(wire') /\ wire'[i - 1] = wire[i]
      BY <1>1
    <3> QED BY <1>1, <1>3, <3>1, <3>2
  <2>2. ASSUME OnWire(q)' PROVE OnWire(q) /\ ~In(Head(wire), q)
    <3>1. PICK i \in 1..Len(wire') : In(wire'[i], q)
      BY <1>3, <2>2
    <3>2. In(wire[i + 1], q) /\ i + 1 \in 1..Len(wire) /\ i + 1 # 1 /\ 1 \in 1..Len(wire)
      BY <1>1, <1>4, <3>1
    <3> QED BY <1>1, <1>2, <3>2 DEF OnceOnWire
  <2>3. In(Head(wire), q) => OnWire(q)
    BY <1>1, <1>2
  <2> QED BY <2>1, <2>2, <2>3
<1>6. OnceOnWire'
  <2> SUFFICES ASSUME NEW i \in 1..Len(wire'), NEW k \in 1..Len(wire'), NEW q \in Questions,
                      In(wire'[i], q), In(wire'[k], q)
               PROVE  i = k
    BY OnceNext
  <2>1. /\ i + 1 \in 1..Len(wire) /\ k + 1 \in 1..Len(wire)
        /\ In(wire[i + 1], q) /\ In(wire[k + 1], q)
    BY <1>4
  <2>2. i + 1 = k + 1
    BY <2>1 DEF OnceOnWire
  <2> QED BY <1>1, <2>2
<1> QED BY <1>1, <1>5, <1>6 DEF WireType

(* The steps that leave the stream and the queue as they are. ***************)

SameSequences ==
  /\ \A q : OnWire(q)' = OnWire(q) /\ InQueue(q)' = InQueue(q)
  /\ OnceOnWire' = OnceOnWire /\ Distinct(procQ') = Distinct(procQ)
  /\ wire' = wire /\ procQ' = procQ

LEMMA SequencesKept ==
  ASSUME UNCHANGED <<wire, procQ>>
  PROVE  SameSequences
BY DEF SameSequences, OnWire, InQueue, OnceOnWire, In, Distinct

SimpleTypes ==
  /\ alive \in BOOLEAN /\ turn \in {"none", "active", "done"} /\ inTurn \subseteq Questions
  /\ noise \in 0..MaxNoise /\ texts \in 0..MaxTexts
  /\ hook \in [Questions -> {"unasked", "waiting", "answered", "empty"}]
  /\ got \in [Questions -> SUBSET Nat] /\ stray \subseteq Questions
  /\ kind \in Kinds /\ showing \in Maybe /\ aborted \in BOOLEAN
  /\ loop \in {"none", "reading", "showing", "ending", "over"}
  /\ pending \in Maybe /\ index \in Nat \ {0} /\ collected \subseteq Nat
  /\ pending # NoQuestion => index <= Subs[pending]
  /\ timer \in {"none", "fresh", "stale"} /\ leaked \in Nat /\ card \in BOOLEAN
  /\ answering \subseteq [q : Questions, subs : SUBSET Nat] /\ cardSends \in Nat
  /\ slot \in Maybe /\ sending \subseteq Questions /\ surfaced \subseteq Questions
  /\ onTime \subseteq Questions

LEMMA TypesSplit ==
  /\ TypeOK => SimpleTypes /\ wire \in Seq(Messages) /\ procQ \in Seq(Questions)
  /\ SimpleTypes' /\ wire' \in Seq(Messages) /\ procQ' \in Seq(Questions) => TypeOK'
BY DEF TypeOK, SimpleTypes, Messages

\* Every sub-question is enough, whoever answers.
LEMMA AllAreEnough == \A q \in Questions : Enough(q, AllSubs(q))
BY QuestionAssumption DEF Enough, AllSubs

\* A call that is resolved has answers enough, or its hook gave up before.
LEMMA ResolveAnswers ==
  ASSUME SimpleTypes, AnswersComplete, StrayOnlyIfExpired,
         NEW q \in Questions, NEW s, Enough(q, s), Open(q), Resolve(q, s),
         UNCHANGED <<inTurn, kind>>
  PROVE  /\ hook' \in [Questions -> {"unasked", "waiting", "answered", "empty"}]
         /\ got' \in [Questions -> SUBSET Nat] /\ stray' \subseteq stray \cup {q}
         /\ AnswersComplete' /\ StrayOnlyIfExpired'
         /\ \A p \in Questions \ {q} : hook'[p] = hook[p]
         /\ hook'[q] \in {"answered", "empty"}
<1>1. hook \in [Questions -> {"unasked", "waiting", "answered", "empty"}]
  BY DEF SimpleTypes
<1>2. got \in [Questions -> SUBSET Nat] /\ s \in SUBSET Nat
  BY DEF SimpleTypes, Enough
<1>3. CASE hook[q] = "waiting"
  <2>1. /\ hook' = [hook EXCEPT ![q] = "answered"] /\ stray' = stray
        /\ got' = [got EXCEPT ![q] = s]
    BY <1>3 DEF Resolve
  <2>2. AnswersComplete'
    BY <1>1, <1>2, <2>1 DEF AnswersComplete, Enough, AllSubs
  <2>3. StrayOnlyIfExpired'
    BY <1>1, <1>3, <2>1 DEF StrayOnlyIfExpired, SimpleTypes
  <2>4. got' \in [Questions -> SUBSET Nat]
    BY <1>2, <2>1
  <2> QED BY <1>1, <2>1, <2>2, <2>3, <2>4
<1>4. CASE hook[q] # "waiting"
  <2>1. stray' = stray \cup {q} /\ UNCHANGED <<hook, got>> /\ hook[q] = "empty"
    BY <1>4 DEF Resolve, Open
  <2> QED BY <1>1, <1>2, <2>1 DEF AnswersComplete, StrayOnlyIfExpired, AllSubs
<1> QED BY <1>3, <1>4


LEMMA TurnBeginsKeeps ==
  ASSUME QuestionsInv, TurnBegins
  PROVE  QuestionsInv'
<1> USE DEF QuestionsInv, TurnBegins, hookVars, taskVars, slotVars
<1>1. SameSequences
  BY SequencesKept
<1>2. TypeOK'
  <2>1. SimpleTypes'
    BY TypesSplit, QuestionAssumption DEF SimpleTypes, Maybe
  <2> QED BY <1>1, <2>1, TypesSplit DEF SameSequences
<1>3. Task'
  BY DEF TypeOK, Task, PendingIsHead, PendingHasTimer, OnlyChatTracks, ShowsHead, Collected, AllSubs
<1>4. Answers'
  BY DEF TypeOK, Answers, AnswersComplete, StrayOnlyIfExpired, AnsweredLeavesSlot, AllSubs
<1>5. Places'
  BY <1>1, QuestionAssumption DEF TypeOK, Places, SameSequences, Asked, OncePerTask, SlotIsForOthers, InDelivery, Open
<1> QED BY <1>2, <1>3, <1>4, <1>5

LEMMA LoopEndsKeeps ==
  ASSUME QuestionsInv, LoopEnds
  PROVE  QuestionsInv'
<1> USE DEF QuestionsInv, LoopEnds, sdkVars, hookVars, taskVars, slotVars
<1>1. SameSequences
  BY SequencesKept
<1>2. TypeOK'
  <2>1. SimpleTypes'
    BY TypesSplit, QuestionAssumption DEF SimpleTypes, Maybe
  <2> QED BY <1>1, <2>1, TypesSplit DEF SameSequences
<1>3. Task'
  BY DEF TypeOK, Task, PendingIsHead, PendingHasTimer, OnlyChatTracks, ShowsHead, Collected, AllSubs
<1>4. Answers'
  BY DEF TypeOK, Answers, AnswersComplete, StrayOnlyIfExpired, AnsweredLeavesSlot, AllSubs
<1>5. Places'
  BY <1>1, QuestionAssumption DEF TypeOK, Places, SameSequences, Asked, OncePerTask, SlotIsForOthers, InDelivery, Open
<1> QED BY <1>2, <1>3, <1>4, <1>5

LEMMA NextCardSentKeeps ==
  ASSUME QuestionsInv, NextCardSent
  PROVE  QuestionsInv'
<1> USE DEF QuestionsInv, NextCardSent, sdkVars, hookVars, loopVars, slotVars
<1>1. SameSequences
  BY SequencesKept
<1>2. TypeOK'
  <2>2. cardSends' \in Nat
    BY TypesSplit DEF SimpleTypes
  <2>3. card' \in BOOLEAN
    BY TypesSplit DEF SimpleTypes
  <2>1. SimpleTypes'
    BY SMTT(30), <2>2, <2>3, TypesSplit, QuestionAssumption DEF SimpleTypes, Maybe
  <2> QED BY <1>1, <2>1, TypesSplit DEF SameSequences
<1>3. Task'
  BY DEF TypeOK, Task, PendingIsHead, PendingHasTimer, OnlyChatTracks, ShowsHead, Collected, AllSubs
<1>4. Answers'
  BY DEF TypeOK, Answers, AnswersComplete, StrayOnlyIfExpired, AnsweredLeavesSlot, AllSubs
<1>5. Places'
  BY <1>1, QuestionAssumption DEF TypeOK, Places, SameSequences, Asked, OncePerTask, SlotIsForOthers, InDelivery, Open
<1> QED BY <1>2, <1>3, <1>4, <1>5

LEMMA AnswerSubKeeps ==
  ASSUME QuestionsInv, AnswerSub
  PROVE  QuestionsInv'
<1> USE DEF QuestionsInv, AnswerSub, Answering, sdkVars, hookVars, loopVars, slotVars
<1>1. SameSequences
  BY SequencesKept
<1>2. TypeOK'
  <2>2. texts' \in 0..MaxTexts
    BY TypesSplit, QuestionAssumption DEF SimpleTypes
  <2>3. /\ index' \in Nat \ {0} /\ collected' \subseteq Nat
        /\ pending' # NoQuestion => index' <= Subs[pending']
    BY TypesSplit DEF SimpleTypes
  <2>1. SimpleTypes'
    BY <2>2, <2>3, TypesSplit, QuestionAssumption DEF SimpleTypes, Maybe
  <2> QED BY <1>1, <2>1, TypesSplit DEF SameSequences
<1>3. Task'
  BY DEF TypeOK, Task, PendingIsHead, PendingHasTimer, OnlyChatTracks, ShowsHead, Collected, AllSubs
<1>4. Answers'
  BY DEF TypeOK, Answers, AnswersComplete, StrayOnlyIfExpired, AnsweredLeavesSlot, AllSubs
<1>5. Places'
  BY <1>1, QuestionAssumption DEF TypeOK, Places, SameSequences, Asked, OncePerTask, SlotIsForOthers, InDelivery, Open
<1> QED BY <1>2, <1>3, <1>4, <1>5

LEMMA TaskAbortedKeeps ==
  ASSUME QuestionsInv, TaskAborted
  PROVE  QuestionsInv'
<1> USE DEF QuestionsInv, TaskAborted, Registered, hookVars, slotVars
<1>1. SameSequences
  BY SequencesKept
<1>2. TypeOK'
  <2>1. SimpleTypes'
    BY TypesSplit, QuestionAssumption DEF SimpleTypes, Maybe
  <2> QED BY <1>1, <2>1, TypesSplit DEF SameSequences
<1>3. Task'
  BY DEF TypeOK, Task, PendingIsHead, PendingHasTimer, OnlyChatTracks, ShowsHead, Collected, AllSubs
<1>4. Answers'
  BY DEF TypeOK, Answers, AnswersComplete, StrayOnlyIfExpired, AnsweredLeavesSlot, AllSubs
<1>5. Places'
  BY <1>1, QuestionAssumption DEF TypeOK, Places, SameSequences, Asked, OncePerTask, SlotIsForOthers, InDelivery, Open
<1> QED BY <1>2, <1>3, <1>4, <1>5

LEMMA ExecutorRemovedKeeps ==
  ASSUME QuestionsInv, ExecutorRemoved
  PROVE  QuestionsInv'
<1> USE DEF QuestionsInv, ExecutorRemoved, hookVars, taskVars
<1>1. SameSequences
  BY SequencesKept
<1>2. TypeOK'
  <2>1. SimpleTypes'
    BY TypesSplit, QuestionAssumption DEF SimpleTypes, Maybe
  <2> QED BY <1>1, <2>1, TypesSplit DEF SameSequences
<1>3. Task'
  BY DEF TypeOK, Task, PendingIsHead, PendingHasTimer, OnlyChatTracks, ShowsHead, Collected, AllSubs
<1>4. Answers'
  BY DEF TypeOK, Answers, AnswersComplete, StrayOnlyIfExpired, AnsweredLeavesSlot, AllSubs
<1>5. Places'
  BY <1>1, QuestionAssumption DEF TypeOK, Places, SameSequences, Asked, OncePerTask, SlotIsForOthers, InDelivery, Open
<1> QED BY <1>2, <1>3, <1>4, <1>5

LEMMA CardsShownKeeps ==
  ASSUME QuestionsInv, CardsShown
  PROVE  QuestionsInv'
<1> USE DEF QuestionsInv, CardsShown, sdkVars, hookVars, slotVars
<1>1. SameSequences
  BY SequencesKept
<1>2. TypeOK'
  <2>1. SimpleTypes'
    BY TypesSplit, QuestionAssumption DEF SimpleTypes, Maybe
  <2> QED BY <1>1, <2>1, TypesSplit DEF SameSequences
<1>3. Task'
  BY DEF TypeOK, Task, PendingIsHead, PendingHasTimer, OnlyChatTracks, ShowsHead, Collected, AllSubs
<1>4. Answers'
  BY DEF TypeOK, Answers, AnswersComplete, StrayOnlyIfExpired, AnsweredLeavesSlot, AllSubs
<1>5. Places'
  BY <1>1, QuestionAssumption DEF TypeOK, Places, SameSequences, Asked, OncePerTask, SlotIsForOthers, InDelivery, Open
<1> QED BY <1>2, <1>3, <1>4, <1>5

LEMMA FinallyKeeps ==
  ASSUME QuestionsInv, Finally
  PROVE  QuestionsInv'
<1> USE DEF QuestionsInv, Finally, hookVars, slotVars
<1>1. SameSequences
  BY SequencesKept
<1>2. TypeOK'
  <2>1. SimpleTypes'
    BY TypesSplit, QuestionAssumption DEF SimpleTypes, Maybe
  <2> QED BY <1>1, <2>1, TypesSplit DEF SameSequences
<1>3. Task'
  BY DEF TypeOK, Task, PendingIsHead, PendingHasTimer, OnlyChatTracks, ShowsHead, Collected, AllSubs
<1>4. Answers'
  BY DEF TypeOK, Answers, AnswersComplete, StrayOnlyIfExpired, AnsweredLeavesSlot, AllSubs
<1>5. Places'
  BY <1>1, QuestionAssumption DEF TypeOK, Places, SameSequences, Asked, OncePerTask, SlotIsForOthers, InDelivery, Open
<1> QED BY <1>2, <1>3, <1>4, <1>5

LEMMA QuestionCardSentKeeps ==
  ASSUME QuestionsInv, NEW q \in Questions, QuestionCardSent(q)
  PROVE  QuestionsInv'
<1> USE DEF QuestionsInv, QuestionCardSent, sdkVars, hookVars, taskVars
<1>1. SameSequences
  BY SequencesKept
<1>2. TypeOK'
  <2>1. SimpleTypes'
    BY TypesSplit, QuestionAssumption DEF SimpleTypes, Maybe
  <2> QED BY <1>1, <2>1, TypesSplit DEF SameSequences
<1>3. Task'
  BY QuestionAssumption DEF TypeOK, Task, PendingIsHead, PendingHasTimer, OnlyChatTracks, ShowsHead, Collected, AllSubs
<1>4. Answers'
  BY DEF TypeOK, Answers, AnswersComplete, StrayOnlyIfExpired, AnsweredLeavesSlot, AllSubs, Places, SlotIsForOthers, Open
<1>5. Places'
  BY <1>1, QuestionAssumption DEF TypeOK, Places, SameSequences, Asked, OncePerTask, SlotIsForOthers, InDelivery, Open
<1> QED BY <1>2, <1>3, <1>4, <1>5

LEMMA AskBetweenTurnsKeeps ==
  ASSUME QuestionsInv, NEW q \in Questions, AskBetweenTurns(q)
  PROVE  QuestionsInv'
<1> USE DEF QuestionsInv, AskBetweenTurns, ShowBetweenTurns, sdkVars, loopVars, taskVars
<1>1. SameSequences
  BY SequencesKept
<1>2. TypeOK'
  <2>1. SimpleTypes'
    BY TypesSplit, QuestionAssumption DEF SimpleTypes, Maybe
  <2> QED BY <1>1, <2>1, TypesSplit DEF SameSequences
<1>3. Task'
  BY DEF TypeOK, Task, PendingIsHead, PendingHasTimer, OnlyChatTracks, ShowsHead, Collected, AllSubs
<1>4. Answers'
  BY DEF TypeOK, Answers, AnswersComplete, StrayOnlyIfExpired, AnsweredLeavesSlot, AllSubs
<1>5. Places'
  BY <1>1, QuestionAssumption DEF TypeOK, Places, SameSequences, Asked, OncePerTask, SlotIsForOthers, InDelivery, Open
<1> QED BY <1>2, <1>3, <1>4, <1>5

LEMMA HookTimesOutKeeps ==
  ASSUME QuestionsInv, NEW q \in Questions, HookTimesOut(q)
  PROVE  QuestionsInv'
<1> USE DEF QuestionsInv, HookTimesOut, sdkVars, loopVars, taskVars, slotVars
<1>1. SameSequences
  BY SequencesKept
<1>2. TypeOK'
  <2>1. SimpleTypes'
    BY TypesSplit, QuestionAssumption DEF SimpleTypes, Maybe
  <2> QED BY <1>1, <2>1, TypesSplit DEF SameSequences
<1>3. Task'
  BY DEF TypeOK, Task, PendingIsHead, PendingHasTimer, OnlyChatTracks, ShowsHead, Collected, AllSubs
<1>4. Answers'
  BY DEF TypeOK, Answers, AnswersComplete, StrayOnlyIfExpired, AnsweredLeavesSlot, AllSubs
<1>5. Places'
  BY <1>1, QuestionAssumption DEF TypeOK, Places, SameSequences, Asked, OncePerTask, SlotIsForOthers, InDelivery, Open
<1> QED BY <1>2, <1>3, <1>4, <1>5

LEMMA HookAbortedKeeps ==
  ASSUME QuestionsInv, NEW q \in Questions, HookAborted(q)
  PROVE  QuestionsInv'
<1> USE DEF QuestionsInv, HookAborted, sdkVars, loopVars, taskVars, slotVars
<1>1. SameSequences
  BY SequencesKept
<1>2. TypeOK'
  <2>1. SimpleTypes'
    BY TypesSplit, QuestionAssumption DEF SimpleTypes, Maybe
  <2> QED BY <1>1, <2>1, TypesSplit DEF SameSequences
<1>3. Task'
  BY DEF TypeOK, Task, PendingIsHead, PendingHasTimer, OnlyChatTracks, ShowsHead, Collected, AllSubs
<1>4. Answers'
  BY DEF TypeOK, Answers, AnswersComplete, StrayOnlyIfExpired, AnsweredLeavesSlot, AllSubs
<1>5. Places'
  BY <1>1, QuestionAssumption DEF TypeOK, Places, SameSequences, Asked, OncePerTask, SlotIsForOthers, InDelivery, Open
<1> QED BY <1>2, <1>3, <1>4, <1>5

LEMMA AnswerBetweenTurnsKeeps ==
  ASSUME QuestionsInv, AnswerBetweenTurns
  PROVE  QuestionsInv'
<1> USE DEF AnswerBetweenTurns, sdkVars, loopVars, taskVars
<1>1. SameSequences /\ SimpleTypes /\ slot \in Questions /\ QuestionsInv
  BY SequencesKept, TypesSplit DEF SimpleTypes, Maybe, QuestionsInv
<1>2. Open(slot)
  BY <1>1 DEF QuestionsInv, Places, Asked, Answers, AnsweredLeavesSlot, Open, SimpleTypes
<1>3. Resolve(slot, {1}) \/ UNCHANGED hookVars
  OBVIOUS
<1>9. Enough(slot, {1})
  BY <1>1 DEF QuestionsInv, Places, SlotIsForOthers, Enough
<1>4. /\ hook' \in [Questions -> {"unasked", "waiting", "answered", "empty"}]
      /\ got' \in [Questions -> SUBSET Nat] /\ stray' \subseteq stray \cup {slot}
      /\ AnswersComplete' /\ StrayOnlyIfExpired'
      /\ \A p \in Questions \ {slot} : hook'[p] = hook[p]
      /\ hook'[slot] # "unasked"
  <2>1. CASE Resolve(slot, {1})
    BY <1>1, <1>2, <1>9, <2>1, ResolveAnswers DEF QuestionsInv, Answers
  <2>2. CASE UNCHANGED hookVars
    BY <1>1, <1>2, <2>2 DEF QuestionsInv, Answers, AnswersComplete, StrayOnlyIfExpired,
                            hookVars, SimpleTypes, Open, AllSubs
  <2> QED BY <1>3, <2>1, <2>2
<1>5. TypeOK'
  <2>1. texts' \in 0..MaxTexts
    BY <1>1, QuestionAssumption DEF SimpleTypes
  <2>2. SimpleTypes'
    BY <1>1, <1>4, <2>1 DEF SimpleTypes, Maybe
  <2> QED BY <1>1, <2>2, TypesSplit DEF SameSequences, QuestionsInv
<1>6. Task'
  BY <1>1 DEF QuestionsInv, Task, PendingIsHead, PendingHasTimer, OnlyChatTracks, ShowsHead, Collected, AllSubs
<1>7. Answers'
  BY <1>4 DEF Answers, AnsweredLeavesSlot
<1>8. Places'
  <2>1. /\ Asked' /\ OnceOnWire'
    BY <1>1, <1>4 DEF QuestionsInv, Places, Asked, SameSequences, InDelivery, SimpleTypes
  <2>2. SlotIsForOthers'
    BY <1>1, <1>4, QuestionAssumption DEF QuestionsInv, Places, SlotIsForOthers, Open, SimpleTypes
  <2>3. OncePerTask'
    <3>1. kind # "cont" => slot \notin inTurn
      BY <1>1 DEF QuestionsInv, Places, SlotIsForOthers
    <3>2. \A p \in inTurn : kind # "cont" => (Open(p))' = Open(p)
      BY <1>1, <1>4, <3>1 DEF Open, SimpleTypes
    <3> QED BY <1>1, <3>2 DEF QuestionsInv, Places, Asked, OncePerTask, SameSequences, InDelivery
  <2> QED BY <2>1, <2>2, <2>3 DEF Places
<1> QED BY <1>5, <1>6, <1>7, <1>8 DEF QuestionsInv

(* The steps that put something on the stream. ******************************)

LEMMA AskInTurnKeeps ==
  ASSUME QuestionsInv, NEW qs \in Messages, qs # <<NoQuestion>>, AskInTurn(qs)
  PROVE  QuestionsInv'
<1> USE DEF AskInTurn
<1>1. /\ SimpleTypes /\ wire \in Seq(Messages) /\ procQ \in Seq(Questions)
      /\ Task /\ Answers /\ Places
  BY TypesSplit DEF QuestionsInv
<1>2. qs \in Seq(Questions) /\ DOMAIN qs = 1..Len(qs)
  BY MessageParts
<1>3. \A q : (\E i \in DOMAIN qs : qs[i] = q) <=> In(qs, q)
  BY <1>2 DEF In
<1>4. \A q : In(qs, q) => q \in Questions /\ hook[q] = "unasked"
  BY <1>2 DEF In
<1>5. /\ hook' = [q \in Questions |-> IF In(qs, q) THEN "waiting" ELSE hook[q]]
      /\ \A q : q \in inTurn' <=> q \in inTurn \/ In(qs, q)
  BY <1>2, <1>3 DEF In
<1>6. \A q \in Questions : In(qs, q) =>
        /\ q \notin inTurn /\ q \notin sending /\ q # slot /\ q \notin stray
        /\ ~OnWire(q) /\ ~InQueue(q) /\ ~InDelivery(q)
  BY <1>1, <1>4, QuestionAssumption DEF Places, Asked
<1>7. /\ WireType' /\ OnceOnWire'
      /\ \A q \in Questions : OnWire(q)' <=> OnWire(q) \/ In(qs, q)
  BY <1>1, <1>6, WireGrows DEF WireType, Places
<1>8. /\ \A q : InQueue(q)' = InQueue(q) /\ InDelivery(q)' = InDelivery(q)
      /\ Distinct(procQ') = Distinct(procQ)
  BY DEF InQueue, InDelivery, In, Distinct, taskVars
<1>9. TypeOK'
  <2>1. SimpleTypes'
    <3>1. hook' \in [Questions -> {"unasked", "waiting", "answered", "empty"}]
      BY <1>1, <1>5 DEF SimpleTypes
    <3>2. inTurn' \subseteq Questions
      BY <1>1, <1>4, <1>5 DEF SimpleTypes
    <3> QED BY <1>1, <3>1, <3>2 DEF SimpleTypes, loopVars, taskVars, slotVars
  <2> QED BY <1>1, <1>7, <2>1, TypesSplit DEF WireType, taskVars
<1>10. Task'
  BY <1>1 DEF Task, PendingIsHead, PendingHasTimer, OnlyChatTracks, ShowsHead, Collected,
              loopVars, taskVars, AllSubs
<1>11. \A q \in Questions : ~In(qs, q) => hook'[q] = hook[q]
  BY <1>5
<1>12. Answers'
  <2>1. AnswersComplete'
    BY <1>1, <1>5, <1>11 DEF loopVars, SimpleTypes, Answers, AnswersComplete, AllSubs
  <2>2. StrayOnlyIfExpired'
    BY <1>1, <1>5, <1>6, <1>11 DEF Answers, StrayOnlyIfExpired, SimpleTypes
  <2>3. AnsweredLeavesSlot'
    BY <1>1, <1>6, <1>11 DEF Answers, AnsweredLeavesSlot, SimpleTypes, slotVars, Maybe
  <2> QED BY <2>1, <2>2, <2>3 DEF Answers
<1>13. Places'
  <2>1. Asked'
    <3>1. \A q \in inTurn' \cup sending' \cup stray' : hook'[q] # "unasked"
      BY <1>1, <1>4, <1>5, <1>11 DEF Places, Asked, SimpleTypes, slotVars
    <3>2. slot' # NoQuestion => hook'[slot'] # "unasked"
      BY <1>1, <1>6, <1>11 DEF Places, Asked, SimpleTypes, slotVars, Maybe
    <3>3. \A q \in Questions : (OnWire(q) \/ InQueue(q) \/ InDelivery(q))' => q \in inTurn'
      BY <1>1, <1>5, <1>7, <1>8 DEF Places, Asked
    <3> QED BY <3>1, <3>2, <3>3 DEF Asked
  <2>2. \A q \in Questions : Open(q) \/ In(qs, q) => Open(q)'
    BY <1>5, <1>11 DEF Open
  <2>3. OncePerTask'
    BY <1>1, <1>6, <1>7, <1>8, <2>2 DEF Places, OncePerTask, loopVars, taskVars
  <2>4. SlotIsForOthers'
    BY <1>1, <1>4, <1>5, <1>6, <2>2 DEF Places, SlotIsForOthers, SimpleTypes, slotVars, loopVars
  <2> QED BY <1>7, <2>1, <2>3, <2>4 DEF Places
<1> QED BY <1>9, <1>10, <1>12, <1>13 DEF QuestionsInv

LEMMA SayingKeeps ==
  ASSUME QuestionsInv, OtherMessage \/ Result
  PROVE  QuestionsInv'
<1>1. /\ SimpleTypes /\ wire \in Seq(Messages) /\ procQ \in Seq(Questions)
      /\ Task /\ Answers /\ Places
  BY TypesSplit DEF QuestionsInv
<1>2. /\ UNCHANGED <<alive, inTurn, hookVars, loopVars, taskVars, slotVars, texts>>
      /\ turn = "active" /\ turn' \in {"active", "done"} /\ noise' \in 0..MaxNoise
  BY <1>1, QuestionAssumption DEF OtherMessage, Result, SimpleTypes
<1>3. PICK m \in {<<>>, <<NoQuestion>>} : wire' = Append(wire, m)
  BY DEF OtherMessage, Result
<1>4. m \in Messages /\ \A q \in Questions : ~In(m, q)
  BY <1>3, QuestionAssumption DEF Messages, In
<1>5. WireType' /\ OnceOnWire' /\ \A q \in Questions : OnWire(q)' <=> OnWire(q)
  BY <1>1, <1>3, <1>4, WireGrows DEF WireType, Places
<1>6. /\ \A q : InQueue(q)' = InQueue(q) /\ InDelivery(q)' = InDelivery(q)
      /\ Distinct(procQ') = Distinct(procQ)
  BY <1>2 DEF InQueue, InDelivery, In, Distinct, taskVars
<1>7. TypeOK'
  <2>1. SimpleTypes'
    BY <1>1, <1>2 DEF SimpleTypes, hookVars, loopVars, taskVars, slotVars
  <2> QED BY <1>1, <1>2, <1>5, <2>1, TypesSplit DEF WireType, taskVars
<1>8. Task'
  BY <1>1, <1>2 DEF Task, PendingIsHead, PendingHasTimer, OnlyChatTracks, ShowsHead, Collected,
                    loopVars, taskVars, AllSubs
<1>9. Answers'
  BY <1>1, <1>2 DEF Answers, AnswersComplete, StrayOnlyIfExpired, AnsweredLeavesSlot,
                    hookVars, loopVars, slotVars, AllSubs
<1>10. Places'
  BY <1>1, <1>2, <1>5, <1>6 DEF Places, Asked, OncePerTask, SlotIsForOthers, Open,
                                hookVars, loopVars, taskVars, slotVars
<1> QED BY <1>7, <1>8, <1>9, <1>10 DEF QuestionsInv

(* The steps that read the stream. ******************************************)

LEMMA ReadFacts ==
  ASSUME QuestionsInv, NEW k, Read(k)
  PROVE  /\ WireType' /\ OnceOnWire' /\ procQ' \in Seq(Questions)
         /\ \A q \in Questions : OnWire(q)' \/ InQueue(q)' => OnWire(q) \/ InQueue(q)
         /\ kind # "cont" => /\ Distinct(procQ')
                             /\ \A q \in Questions : OnWire(q)' => OnWire(q) /\ ~InQueue(q)'
         /\ procQ # <<>> => procQ' # <<>> /\ Head(procQ') = Head(procQ)
         /\ procQ' # <<>> => Head(procQ') \in Questions /\ In(procQ', Head(procQ'))
<1>1. /\ wire \in Seq(Messages) /\ procQ \in Seq(Questions) /\ Places
  BY TypesSplit DEF QuestionsInv
<1> DEFINE m == Head(wire)
<1>2. /\ WireType' /\ OnceOnWire' /\ m \in Messages
      /\ \A q \in Questions : OnWire(q) <=> OnWire(q)' \/ In(m, q)
      /\ \A q \in Questions : ~(OnWire(q)' /\ In(m, q))
  BY <1>1, WireShrinks DEF Read, WireType, Places
<1>3. m # <<NoQuestion>> /\ procQ' = procQ \o m
  BY DEF Read
<1> HIDE DEF m
<1>4. m \in Seq(Questions) /\ Distinct(m)
  BY <1>2, <1>3, MessageParts
<1>5. /\ procQ' \in Seq(Questions)
      /\ \A q : In(procQ', q) <=> In(procQ, q) \/ In(m, q)
      /\ procQ # <<>> => procQ' # <<>> /\ Head(procQ') = Head(procQ)
      /\ Distinct(procQ) /\ Distinct(m) /\ (\A q \in Questions : ~(In(procQ, q) /\ In(m, q)))
           => Distinct(procQ')
  BY <1>1, <1>3, <1>4, ConcatElements
<1>6. \A q : InQueue(q) = In(procQ, q) /\ InQueue(q)' = In(procQ', q)
  BY DEF InQueue, In
<1>7. procQ' # <<>> => Head(procQ') \in Questions /\ In(procQ', Head(procQ'))
  BY <1>5, TailElements, TailKeeps
<1>8. kind # "cont" => \A q \in Questions : In(m, q) => ~InQueue(q)
  BY <1>1, <1>2 DEF Places, OncePerTask
<1>9. kind # "cont" => Distinct(procQ')
  BY <1>1, <1>4, <1>5, <1>6, <1>8 DEF Places, OncePerTask
<1>10. kind # "cont" => \A q \in Questions : OnWire(q)' => OnWire(q) /\ ~InQueue(q)'
  BY <1>1, <1>2, <1>5, <1>6, <1>8 DEF Places, OncePerTask
<1>11. \A q \in Questions : OnWire(q)' \/ InQueue(q)' => OnWire(q) \/ InQueue(q)
  BY <1>2, <1>5, <1>6
<1> QED BY <1>2, <1>5, <1>7, <1>9, <1>10, <1>11

\* What is read stays where it can be found: on the stream or in the queue.
LEMMA ReadPlaces ==
  ASSUME QuestionsInv, NEW k, Read(k), UNCHANGED <<answering, hook, inTurn, kind>>
  PROVE  /\ OnceOnWire' /\ OncePerTask'
         /\ \A q \in Questions : (OnWire(q) \/ InQueue(q) \/ InDelivery(q))' => q \in inTurn'
         /\ \A q \in Questions : In(procQ', q) => q \in inTurn
<1>1. \A q : InDelivery(q)' = InDelivery(q) /\ Open(q)' = Open(q)
  BY DEF InDelivery, Open
<1>2. \A q : InQueue(q)' = In(procQ', q)
  BY DEF InQueue, In
<1> QED BY <1>1, <1>2, ReadFacts DEF QuestionsInv, Places, Asked, OncePerTask

LEMMA ReadPlainKeeps ==
  ASSUME QuestionsInv, ReadPlain
  PROVE  QuestionsInv'
<1> USE DEF ReadPlain
<1>1. SimpleTypes /\ Task /\ Answers /\ Places
  BY TypesSplit DEF QuestionsInv
<1>2. PICK k \in Kinds : Read(k)
  OBVIOUS
<1>3. /\ WireType' /\ OnceOnWire' /\ procQ' \in Seq(Questions) /\ procQ = <<>> /\ procQ' = <<>>
      /\ OncePerTask'
      /\ \A q \in Questions : (OnWire(q) \/ InQueue(q) \/ InDelivery(q))' => q \in inTurn'
  <2>1. procQ # <<>> => procQ' # <<>>
    BY <1>2, ReadFacts
  <2> QED BY <1>2, <2>1, ReadFacts, ReadPlaces DEF hookVars, loopVars, Read
<1>4. TypeOK'
  <2>1. SimpleTypes'
    BY <1>1, <1>2 DEF SimpleTypes, hookVars, loopVars, slotVars
  <2> QED BY <1>3, <2>1, TypesSplit DEF WireType
<1>5. Task'
  BY <1>1, <1>2, <1>3 DEF Task, PendingIsHead, PendingHasTimer, OnlyChatTracks, ShowsHead, Collected,
                    loopVars, AllSubs, Read
<1>6. Answers'
  <2>1. UNCHANGED <<hook, got, stray, inTurn, kind, slot>>
    BY <1>2 DEF hookVars, loopVars, slotVars
  <2> QED BY <1>1, <2>1 DEF Answers, AnswersComplete, StrayOnlyIfExpired, AnsweredLeavesSlot, AllSubs
<1>7. Places'
  BY <1>1, <1>3 DEF Places, Asked, SlotIsForOthers, Open, hookVars, loopVars, slotVars
<1> QED BY <1>4, <1>5, <1>6, <1>7 DEF QuestionsInv

LEMMA ReadInChatKeeps ==
  ASSUME QuestionsInv, ReadInChat
  PROVE  QuestionsInv'
<1> USE DEF ReadInChat
<1> DEFINE q == Head(procQ')
<1>1. SimpleTypes /\ Task /\ Answers /\ Places
  BY TypesSplit DEF QuestionsInv
<1>2. Read("chat") /\ procQ' # <<>> /\ kind = "chat" /\ UNCHANGED kind
  BY DEF Read
<1>3. /\ WireType' /\ OnceOnWire' /\ procQ' \in Seq(Questions) /\ q \in Questions
      /\ OncePerTask'
      /\ \A p \in Questions : (OnWire(p) \/ InQueue(p) \/ InDelivery(p))' => p \in inTurn'
  BY <1>2, ReadFacts, ReadPlaces DEF hookVars
<1>4. /\ loop' = "showing" /\ showing' = q /\ pending' = q
      /\ onTime' \subseteq onTime \cup {q}
      /\ \/ pending = q /\ UNCHANGED <<index, collected, card, timer>>
         \/ /\ index' = 1 /\ collected' = {} /\ card' = FALSE
            /\ timer' = IF timer = "none" THEN "none" ELSE "stale"
  BY DEF Surface
<1> HIDE DEF q
<1>5. TypeOK'
  <2>3. card' \in BOOLEAN /\ timer' \in {"none", "fresh", "stale"}
    BY <1>1, <1>4 DEF SimpleTypes
  <2>4. ASSUME pending = q, UNCHANGED <<index, collected>>
        PROVE  index' \in Nat \ {0} /\ collected' \subseteq Nat /\ index' <= Subs[pending']
    BY <1>1, <1>3, <1>4, <2>4, QuestionAssumption DEF SimpleTypes
  <2>5. ASSUME index' = 1, collected' = {}
        PROVE  index' \in Nat \ {0} /\ collected' \subseteq Nat /\ index' <= Subs[pending']
    BY <1>3, <1>4, <2>5, QuestionAssumption
  <2>1. /\ index' \in Nat \ {0} /\ collected' \subseteq Nat /\ index' <= Subs[pending']
        /\ card' \in BOOLEAN /\ timer' \in {"none", "fresh", "stale"}
    BY <1>4, <2>3, <2>4, <2>5
  <2>2. SimpleTypes'
    BY <1>1, <1>3, <1>4, <2>1 DEF SimpleTypes, hookVars, slotVars, Maybe
  <2> QED BY <1>3, <2>2, TypesSplit DEF WireType
<1>6. Task'
  <2>1. PendingIsHead' /\ PendingHasTimer'
    BY <1>2, <1>4 DEF PendingIsHead, PendingHasTimer, q
  <2>2. OnlyChatTracks' /\ ShowsHead'
    BY <1>1, <1>2, <1>3, <1>4, QuestionAssumption DEF Task, OnlyChatTracks, ShowsHead, Read
  <2>3. Collected'
    <3>1. collected' = 1..(index' - 1)
      <4>1. CASE pending = q /\ UNCHANGED <<index, collected>>
        BY <1>1, <1>3, <4>1, QuestionAssumption DEF Task, Collected
      <4>2. CASE index' = 1 /\ collected' = {}
        BY <4>2
      <4> QED BY <1>4, <4>1, <4>2
    <3> QED BY <1>1, <3>1 DEF Task, Collected, AllSubs
  <2> QED BY <2>1, <2>2, <2>3 DEF Task
<1>7. Answers'
  BY <1>1 DEF Answers, AnswersComplete, StrayOnlyIfExpired, AnsweredLeavesSlot,
              hookVars, slotVars, AllSubs
<1>8. Places'
  BY <1>1, <1>3 DEF Places, Asked, SlotIsForOthers, Open, hookVars, slotVars
<1> QED BY <1>5, <1>6, <1>7, <1>8 DEF QuestionsInv

LEMMA ReadInApiKeeps ==
  ASSUME QuestionsInv, ReadInApi
  PROVE  QuestionsInv'
<1> USE DEF ReadInApi
<1>1. SimpleTypes /\ Task /\ Answers /\ Places
  BY TypesSplit DEF QuestionsInv
<1>2. Read("api") /\ procQ' # <<>> /\ kind = "api" /\ loop = "reading"
  BY DEF Read
<1>3. /\ WireType' /\ OnceOnWire' /\ procQ' \in Seq(Questions) /\ showing' \in Questions
      /\ OncePerTask'
      /\ \A p \in Questions : (OnWire(p) \/ InQueue(p) \/ InDelivery(p))' => p \in inTurn'
  BY <1>2, ReadFacts, ReadPlaces DEF hookVars
<1>4. TypeOK'
  <2>1. SimpleTypes'
    BY <1>1, <1>3 DEF SimpleTypes, hookVars, slotVars, Maybe
  <2> QED BY <1>3, <2>1, TypesSplit DEF WireType
<1>5. Task'
  BY <1>1, <1>2, <1>3, QuestionAssumption
     DEF Task, PendingIsHead, PendingHasTimer, OnlyChatTracks, ShowsHead, Collected, AllSubs
<1>6. Answers'
  BY <1>1 DEF Answers, AnswersComplete, StrayOnlyIfExpired, AnsweredLeavesSlot,
              hookVars, slotVars, AllSubs
<1>7. Places'
  BY <1>1, <1>3 DEF Places, Asked, SlotIsForOthers, Open, hookVars, slotVars
<1> QED BY <1>4, <1>5, <1>6, <1>7 DEF QuestionsInv

LEMMA ReadInContinuationKeeps ==
  ASSUME QuestionsInv, ReadInContinuation
  PROVE  QuestionsInv'
<1> USE DEF ReadInContinuation
<1> DEFINE q == Head(procQ')
<1>1. SimpleTypes /\ Task /\ Answers /\ Places
  BY TypesSplit DEF QuestionsInv
<1>2. Read("cont") /\ procQ' # <<>> /\ kind = "cont" /\ loop = "reading"
  BY DEF Read
<1>3. /\ WireType' /\ OnceOnWire' /\ procQ' \in Seq(Questions) /\ q \in Questions
      /\ OncePerTask'
      /\ \A p \in Questions : (OnWire(p) \/ InQueue(p) \/ InDelivery(p))' => p \in inTurn'
      /\ q \in inTurn
  BY <1>2, ReadFacts, ReadPlaces DEF hookVars
<1>4. \/ UNCHANGED <<loop, showing, slotVars>>
      \/ /\ q \notin surfaced /\ surfaced' = surfaced \cup {q}
         /\ loop' = "showing" /\ showing' = q
         /\ sending' = sending \cup {q} /\ slot' = NoQuestion
  BY DEF ShowBetweenTurns
<1> HIDE DEF q
<1>5. TypeOK'
  <2>1. SimpleTypes'
    BY <1>1, <1>3, <1>4 DEF SimpleTypes, hookVars, slotVars, Maybe
  <2> QED BY <1>3, <2>1, TypesSplit DEF WireType
<1>6. Task'
  BY <1>1, <1>2, <1>3, <1>4, QuestionAssumption
     DEF Task, PendingIsHead, PendingHasTimer, OnlyChatTracks, ShowsHead, Collected, AllSubs
<1>7. Answers'
  BY <1>1, <1>4 DEF Answers, AnswersComplete, StrayOnlyIfExpired, AnsweredLeavesSlot,
                    hookVars, slotVars, AllSubs
<1>8. Asked' /\ SlotIsForOthers'
  <2>1. UNCHANGED <<hook, inTurn, stray, kind>>
    BY DEF hookVars
  <2>2. q \notin surfaced => Open(q)
    BY <1>1, <1>2, <1>3 DEF Places, SlotIsForOthers
  <2>3. CASE UNCHANGED slotVars
    BY <1>1, <1>3, <2>1, <2>3 DEF Places, Asked, SlotIsForOthers, Open, slotVars
  <2>4. CASE ~UNCHANGED slotVars
    BY <1>1, <1>2, <1>3, <1>4, <2>1, <2>2, <2>4, QuestionAssumption
       DEF Places, Asked, SlotIsForOthers, Open, slotVars, SimpleTypes
  <2> QED BY <2>3, <2>4
<1> QED BY <1>3, <1>5, <1>6, <1>7, <1>8 DEF QuestionsInv, Places

(* The steps that settle a call. ********************************************)

\* The queue without its head, which is not in it again.
LEMMA QueueShifts ==
  ASSUME QuestionsInv, kind # "cont", procQ # <<>>
  PROVE  /\ Tail(procQ) \in Seq(Questions) /\ Distinct(Tail(procQ))
         /\ Head(procQ) \in Questions /\ InQueue(Head(procQ))
         /\ \A q : In(Tail(procQ), q) => InQueue(q) /\ q # Head(procQ)
<1>1. procQ \in Seq(Questions) /\ Distinct(procQ)
  BY TypesSplit DEF QuestionsInv, Places, OncePerTask
<1> QED BY <1>1, TailElements, TailKeeps DEF InQueue

\* A call that was found and resolved is nowhere any more.
LEMMA SettledKeeps ==
  ASSUME QuestionsInv, kind # "cont", NEW q \in Questions, Open(q), q \in inTurn, ~OnWire(q),
         NEW s, Enough(q, s), Resolve(q, s),
         UNCHANGED <<kind, inTurn, wire, slotVars>>,
         procQ' \in Seq(Questions), Distinct(procQ'),
         \A p \in Questions : In(procQ', p) => InQueue(p) /\ p # q,
         answering' \subseteq answering, \A a \in answering' : a.q # q
  PROVE  /\ Answers' /\ Places'
         /\ hook' \in [Questions -> {"unasked", "waiting", "answered", "empty"}]
         /\ got' \in [Questions -> SUBSET Nat] /\ stray' \subseteq Questions
<1>1. SimpleTypes /\ Answers /\ Places
  BY TypesSplit DEF QuestionsInv
<1>2. /\ hook' \in [Questions -> {"unasked", "waiting", "answered", "empty"}]
      /\ got' \in [Questions -> SUBSET Nat] /\ stray' \subseteq stray \cup {q}
      /\ AnswersComplete' /\ StrayOnlyIfExpired'
      /\ \A p \in Questions \ {q} : hook'[p] = hook[p]
      /\ hook'[q] \in {"answered", "empty"}
  BY <1>1, ResolveAnswers DEF Answers
<1>3. q # slot /\ q \notin sending
  BY <1>1 DEF Places, SlotIsForOthers
<1>4. Answers'
  BY <1>1, <1>2, <1>3 DEF Answers, AnsweredLeavesSlot, slotVars, SimpleTypes, Maybe
<1>5. /\ \A p : OnWire(p)' = OnWire(p) /\ InQueue(p)' = In(procQ', p)
      /\ OnceOnWire' = OnceOnWire
      /\ \A p : InDelivery(p)' => InDelivery(p) /\ p # q
  BY DEF OnWire, InQueue, In, OnceOnWire, InDelivery
<1>6. \A p \in Questions : p # q => Open(p)' = Open(p)
  BY <1>2 DEF Open
<1>7. Asked'
  <2>1. \A p \in inTurn' \cup sending' \cup stray' : hook'[p] # "unasked"
    BY <1>1, <1>2 DEF Places, Asked, SimpleTypes, slotVars
  <2>2. slot' # NoQuestion => hook'[slot'] # "unasked"
    BY <1>1, <1>2 DEF Places, Asked, SimpleTypes, slotVars, Maybe
  <2>3. \A p \in Questions : (OnWire(p) \/ InQueue(p) \/ InDelivery(p))' => p \in inTurn'
    BY <1>1, <1>5 DEF Places, Asked
  <2> QED BY <2>1, <2>2, <2>3 DEF Asked
<1>8. OncePerTask'
  BY <1>1, <1>5, <1>6 DEF Places, OncePerTask
<1>9. SlotIsForOthers'
  BY <1>1, <1>3, <1>6 DEF Places, SlotIsForOthers, SimpleTypes, slotVars
<1> QED BY <1>1, <1>2, <1>4, <1>5, <1>7, <1>8, <1>9 DEF Places, SimpleTypes

\* A call in the queue or in delivery can be settled.
LEMMA FoundIsOpen ==
  ASSUME QuestionsInv, kind # "cont", NEW q \in Questions, InQueue(q) \/ InDelivery(q)
  PROVE  Open(q) /\ q \in inTurn /\ ~OnWire(q)
BY DEF QuestionsInv, Places, Asked, OncePerTask

LEMMA CallerAnswersKeeps ==
  ASSUME QuestionsInv, CallerAnswers
  PROVE  QuestionsInv'
<1> USE DEF CallerAnswers
<1>1. SimpleTypes /\ Task /\ Answers /\ Places /\ wire \in Seq(Messages)
  BY TypesSplit DEF QuestionsInv
<1>2. /\ kind = "api" /\ procQ # <<>> /\ Head(procQ) = showing /\ pending = NoQuestion
      /\ answering = {}
  BY <1>1 DEF Task, OnlyChatTracks, ShowsHead
<1>3. /\ procQ' \in Seq(Questions) /\ Distinct(procQ') /\ showing \in Questions
      /\ InQueue(showing) /\ \A q : In(procQ', q) => InQueue(q) /\ q # showing
  BY <1>2, QueueShifts
<1>4. Open(showing) /\ showing \in inTurn /\ ~OnWire(showing)
  BY <1>2, <1>3, FoundIsOpen
<1>8. Enough(showing, {}) /\ Resolve(showing, {})
  BY <1>2, <1>4 DEF Enough
<1>5. /\ Answers' /\ Places'
      /\ hook' \in [Questions -> {"unasked", "waiting", "answered", "empty"}]
      /\ got' \in [Questions -> SUBSET Nat] /\ stray' \subseteq Questions
  BY <1>2, <1>3, <1>4, <1>8, SettledKeeps DEF sdkVars
<1>6. TypeOK'
  <2>1. SimpleTypes'
    BY <1>1, <1>5 DEF SimpleTypes, sdkVars, slotVars, Maybe
  <2> QED BY <1>1, <1>3, <2>1, TypesSplit DEF sdkVars
<1>7. Task'
  BY <1>1, <1>2 DEF Task, PendingIsHead, PendingHasTimer, OnlyChatTracks, ShowsHead, Collected,
                    sdkVars, AllSubs
<1> QED BY <1>5, <1>6, <1>7 DEF QuestionsInv

\* With its last sub-question or its timeout every sub-question has an answer.
LEMMA CountIsComplete ==
  ASSUME QuestionsInv, pending # NoQuestion
  PROVE  /\ collected \cup index..Subs[pending] = AllSubs(pending)
         /\ index + 1 > Subs[pending] => collected \cup {index} = AllSubs(pending)
<1>1. /\ index \in Nat \ {0} /\ Subs[pending] \in Nat /\ index <= Subs[pending]
      /\ collected = 1..(index - 1)
  BY TypesSplit, QuestionAssumption DEF QuestionsInv, SimpleTypes, Task, Collected, Maybe
<1> QED BY <1>1 DEF AllSubs

\* The call the task tracks is the queue's head and can be settled.
LEMMA TrackedIsHead ==
  ASSUME QuestionsInv, pending # NoQuestion
  PROVE  /\ kind = "chat" /\ pending \in Questions /\ loop # "none"
         /\ procQ # <<>> /\ Head(procQ) = pending
         /\ Tail(procQ) \in Seq(Questions) /\ Distinct(Tail(procQ))
         /\ \A q : In(Tail(procQ), q) => InQueue(q) /\ q # pending
         /\ InQueue(pending) /\ Open(pending) /\ pending \in inTurn /\ ~OnWire(pending)
         /\ ~InDelivery(pending)
<1>1. /\ kind = "chat" /\ pending \in Questions /\ loop # "none"
      /\ procQ # <<>> /\ Head(procQ) = pending
  BY TypesSplit DEF QuestionsInv, SimpleTypes, Task, OnlyChatTracks, PendingIsHead, Maybe
<1>2. /\ Tail(procQ) \in Seq(Questions) /\ Distinct(Tail(procQ))
      /\ \A q : In(Tail(procQ), q) => InQueue(q) /\ q # pending
      /\ InQueue(pending)
  BY <1>1, QueueShifts
<1>3. Open(pending) /\ pending \in inTurn /\ ~OnWire(pending)
  BY <1>1, <1>2, FoundIsOpen
<1>4. ~InDelivery(pending)
  BY <1>1, <1>2 DEF QuestionsInv, Places, OncePerTask
<1> QED BY <1>1, <1>2, <1>3, <1>4

\* A timer, whichever it is, settles the call the task tracks.
LEMMA AutoAnswerKeeps ==
  ASSUME QuestionsInv, AutoAnswer,
         timer' \in {"none", timer}, timer' = "none" \/ leaked > 0,
         leaked' \in Nat, leaked' = leaked \/ leaked > 0,
         UNCHANGED <<sdkVars, loopVars, answering, cardSends, onTime, slotVars, texts>>
  PROVE  QuestionsInv'
<1> USE DEF AutoAnswer
<1>1. SimpleTypes /\ Task /\ Answers /\ Places /\ wire \in Seq(Messages) /\ procQ \in Seq(Questions)
  BY TypesSplit DEF QuestionsInv
<1>2. CASE pending = NoQuestion
  <2>1. SameSequences
    BY <1>2, SequencesKept DEF sdkVars
  <2>2. TypeOK'
    <3>1. SimpleTypes'
      BY <1>1, <1>2 DEF SimpleTypes, sdkVars, hookVars, loopVars, slotVars
    <3> QED BY <1>1, <2>1, <3>1, TypesSplit DEF SameSequences
  <2>3. Task'
    BY <1>1, <1>2 DEF Task, PendingIsHead, PendingHasTimer, OnlyChatTracks, ShowsHead, Collected,
                      sdkVars, loopVars, AllSubs, SimpleTypes
  <2>4. Answers'
    BY <1>1, <1>2 DEF Answers, AnswersComplete, StrayOnlyIfExpired, AnsweredLeavesSlot,
                      hookVars, sdkVars, loopVars, slotVars, AllSubs
  <2>5. Places'
    BY <1>1, <1>2, <2>1 DEF Places, SameSequences, Asked, OncePerTask, SlotIsForOthers, InDelivery,
                            Open, sdkVars, hookVars, loopVars, slotVars
  <2> QED BY <2>2, <2>3, <2>4, <2>5 DEF QuestionsInv
<1>3. CASE pending # NoQuestion
  <2>1. /\ Resolve(pending, AllSubs(pending)) /\ procQ' = Tail(procQ)
        /\ pending' = NoQuestion /\ index' = 1 /\ collected' = {} /\ card' = FALSE
    BY <1>3, CountIsComplete
  <2>2. \A a \in answering' : a.q # pending
    BY <1>3, TrackedIsHead DEF InDelivery
  <2>3. /\ Answers' /\ Places'
        /\ hook' \in [Questions -> {"unasked", "waiting", "answered", "empty"}]
        /\ got' \in [Questions -> SUBSET Nat] /\ stray' \subseteq Questions
    BY <1>3, <2>1, <2>2, TrackedIsHead, AllAreEnough, SettledKeeps DEF sdkVars, loopVars
  <2>4. TypeOK'
    <3>2. timer' \in {"none", "fresh", "stale"}
      BY <1>1 DEF SimpleTypes
    <3>3. index' \in Nat \ {0} /\ collected' \subseteq Nat /\ pending' \in Maybe
      BY <2>1 DEF Maybe
    <3>4. card' \in BOOLEAN
      BY <2>1
    <3>1. SimpleTypes'
      BY <1>1, <2>1, <2>3, <3>2, <3>3, <3>4 DEF SimpleTypes, sdkVars, loopVars, slotVars
    <3> QED BY <1>1, <1>3, <2>1, <3>1, TrackedIsHead, TypesSplit DEF sdkVars
  <2>5. Task'
    BY <1>1, <1>3, <2>1, TrackedIsHead
       DEF Task, PendingIsHead, PendingHasTimer, OnlyChatTracks, ShowsHead, Collected,
           sdkVars, loopVars, AllSubs
  <2> QED BY <2>3, <2>4, <2>5 DEF QuestionsInv
<1> QED BY <1>2, <1>3

LEMMA TimerKeeps ==
  ASSUME QuestionsInv, QuestionTimerFires \/ LeakedTimerFires
  PROVE  QuestionsInv'
<1>1. SimpleTypes
  BY TypesSplit DEF QuestionsInv
<1>2. CASE QuestionTimerFires
  BY <1>1, <1>2, AutoAnswerKeeps DEF QuestionTimerFires, SimpleTypes
<1>3. CASE LeakedTimerFires
  BY <1>1, <1>3, AutoAnswerKeeps DEF LeakedTimerFires, SimpleTypes
<1> QED BY <1>2, <1>3

\* The task has taken up the head of the queue, or has nothing left to track.
LEMMA DeliveredTask ==
  ASSUME SimpleTypes, OnlyChatTracks, Collected, kind = "chat", loop # "none",
         NEW queue \in Seq(Questions), procQ' = queue,
         leaked' \in Nat, cardSends' \in Nat, timer' \in {"none", "fresh", "stale"},
         UNCHANGED <<sdkVars, loopVars>>,
         \A a \in answering' : a.subs = AllSubs(a.q),
         \/ queue # <<>> /\ pending' = Head(queue) /\ index' = 1 /\ collected' = {} /\ timer' = "fresh"
         \/ queue = <<>> /\ pending' = NoQuestion /\ index' \in Nat \ {0} /\ collected' \subseteq Nat
  PROVE  /\ Task'
         /\ pending' \in Maybe /\ index' \in Nat \ {0} /\ collected' \subseteq Nat
         /\ pending' # NoQuestion => index' <= Subs[pending']
<1>1. queue # <<>> => Head(queue) \in Questions /\ Subs[Head(queue)] \in Nat \ {0}
  BY QuestionAssumption
<1>2. /\ pending' \in Maybe /\ index' \in Nat \ {0} /\ collected' \subseteq Nat
      /\ pending' # NoQuestion => index' <= Subs[pending'] /\ collected' = 1..(index' - 1)
  <2>1. CASE queue # <<>>
    <3>1. index' = 1 /\ collected' = {} /\ pending' = Head(queue) /\ pending' \in Questions
      BY <1>1, <2>1
    <3>2. 1..(index' - 1) = {}
      BY <3>1
    <3>3. index' <= Subs[pending']
      BY <1>1, <2>1, <3>1
    <3> QED BY <3>1, <3>2, <3>3 DEF Maybe
  <2>2. CASE queue = <<>>
    BY <2>2 DEF Maybe
  <2> QED BY <2>1, <2>2
<1>3. PendingIsHead' /\ PendingHasTimer'
  BY DEF PendingIsHead, PendingHasTimer
<1>4. OnlyChatTracks' /\ ShowsHead'
  BY DEF OnlyChatTracks, ShowsHead, sdkVars, loopVars
<1>5. Collected'
  BY <1>2 DEF Collected, AllSubs
<1> QED BY <1>2, <1>3, <1>4, <1>5 DEF Task

\* Without a card the answer is delivered at once.
LEMMA AnswerLastDelivers ==
  ASSUME QuestionsInv, AnswerLast, ~card
  PROVE  QuestionsInv'
<1> DEFINE queue == Tail(procQ)
           full  == collected \cup {index}
<1>1. /\ SimpleTypes /\ Task /\ Answers /\ Places
      /\ wire \in Seq(Messages) /\ procQ \in Seq(Questions)
  BY TypesSplit DEF QuestionsInv
<1>2. /\ pending # NoQuestion /\ texts' = texts + 1 /\ texts < MaxTexts
      /\ index + 1 > Subs[pending]
      /\ Deliver([q |-> pending, subs |-> full], queue, NoQuestion, 1, {}, "none")
      /\ UNCHANGED <<answering, sdkVars, loopVars, onTime, slotVars>>
  BY DEF AnswerLast, Answering
<1>3. /\ Resolve(pending, AllSubs(pending)) /\ procQ' = queue /\ card' = FALSE
      /\ \/ /\ queue # <<>> /\ pending' = Head(queue) /\ index' = 1 /\ collected' = {}
            /\ timer' = "fresh" /\ leaked' = leaked + 0 /\ cardSends' = cardSends + 1
         \/ /\ queue = <<>> /\ pending' = NoQuestion /\ index' = 1 /\ collected' = {}
            /\ timer' = "none" /\ UNCHANGED <<leaked, cardSends>>
  BY <1>2, CountIsComplete DEF Deliver
<1>4. /\ queue \in Seq(Questions) /\ Distinct(queue) /\ pending \in Questions
      /\ kind = "chat" /\ loop # "none"
      /\ \A q : In(queue, q) => InQueue(q) /\ q # pending
      /\ Open(pending) /\ pending \in inTurn /\ ~OnWire(pending) /\ ~InDelivery(pending)
  BY <1>2, TrackedIsHead
<1> HIDE DEF queue, full
<1>5. /\ Answers' /\ Places'
      /\ hook' \in [Questions -> {"unasked", "waiting", "answered", "empty"}]
      /\ got' \in [Questions -> SUBSET Nat] /\ stray' \subseteq Questions
  <2>1. \A a \in answering' : a.q # pending
    BY <1>2, <1>4 DEF InDelivery
  <2> QED BY <1>2, <1>3, <1>4, <2>1, AllAreEnough, SettledKeeps DEF sdkVars, loopVars
<1>6. /\ leaked' \in Nat /\ cardSends' \in Nat /\ timer' \in {"none", "fresh", "stale"}
      /\ \A a \in answering' : a.subs = AllSubs(a.q)
      /\ \/ queue # <<>> /\ pending' = Head(queue) /\ index' = 1 /\ collected' = {} /\ timer' = "fresh"
         \/ queue = <<>> /\ pending' = NoQuestion /\ index' \in Nat \ {0} /\ collected' \subseteq Nat
  BY <1>1, <1>2, <1>3 DEF SimpleTypes, Task, Collected
<1>7. /\ Task'
      /\ pending' \in Maybe /\ index' \in Nat \ {0} /\ collected' \subseteq Nat
      /\ pending' # NoQuestion => index' <= Subs[pending']
  BY <1>1, <1>2, <1>3, <1>4, <1>6, DeliveredTask DEF Task
<1>8. TypeOK'
  <2>1. texts' \in 0..MaxTexts
    BY <1>1, <1>2, QuestionAssumption DEF SimpleTypes
  <2>3. card' \in BOOLEAN
    BY <1>3
  <2>2. SimpleTypes'
    BY <1>1, <1>2, <1>5, <1>6, <1>7, <2>1, <2>3 DEF SimpleTypes, sdkVars, loopVars, slotVars
  <2> QED BY <1>1, <1>2, <1>3, <1>4, <2>2, TypesSplit DEF sdkVars
<1> QED BY <1>5, <1>7, <1>8 DEF QuestionsInv

\* With a card the call leaves the task, and its answer waits for the update.
LEMMA AnswerLastWaits ==
  ASSUME QuestionsInv, AnswerLast, card
  PROVE  QuestionsInv'
<1> DEFINE a == [q |-> pending, subs |-> collected \cup {index}]
<1>1. /\ SimpleTypes /\ Task /\ Answers /\ Places
      /\ wire \in Seq(Messages) /\ procQ \in Seq(Questions)
  BY TypesSplit DEF QuestionsInv
<1>2. /\ pending # NoQuestion /\ texts' = texts + 1 /\ texts < MaxTexts
      /\ index + 1 > Subs[pending]
      /\ answering' = answering \cup {a} /\ procQ' = Tail(procQ)
      /\ pending' = NoQuestion /\ index' = 1 /\ collected' = {} /\ timer' = "none"
      /\ UNCHANGED <<hookVars, leaked, card, cardSends, sdkVars, loopVars, onTime, slotVars>>
  BY DEF AnswerLast, Answering
<1>3. a.q = pending /\ a.subs = AllSubs(pending) /\ AllSubs(pending) \in SUBSET Nat
  BY <1>2, CountIsComplete DEF AllSubs
<1>4. /\ procQ' \in Seq(Questions) /\ Distinct(procQ') /\ pending \in Questions
      /\ kind = "chat" /\ loop # "none"
      /\ \A q : In(procQ', q) => InQueue(q) /\ q # pending
      /\ InQueue(pending)
      /\ Open(pending) /\ pending \in inTurn /\ ~OnWire(pending) /\ ~InDelivery(pending)
  BY <1>2, TrackedIsHead
<1>5. a \in [q : Questions, subs : SUBSET Nat]
  BY <1>3, <1>4
<1> HIDE DEF a
<1>6. TypeOK'
  <2>1. texts' \in 0..MaxTexts /\ pending' \in Maybe
    BY <1>1, <1>2, QuestionAssumption DEF SimpleTypes, Maybe
  <2>2. SimpleTypes'
    BY <1>1, <1>2, <1>5, <2>1 DEF SimpleTypes, sdkVars, hookVars, loopVars, slotVars
  <2> QED BY <1>1, <1>2, <1>4, <2>2, TypesSplit DEF sdkVars
<1>7. Task'
  BY <1>1, <1>2, <1>3, <1>4
     DEF Task, PendingIsHead, PendingHasTimer, OnlyChatTracks, ShowsHead, Collected,
         sdkVars, loopVars, AllSubs
<1>8. Answers'
  BY <1>1, <1>2 DEF Answers, AnswersComplete, StrayOnlyIfExpired, AnsweredLeavesSlot,
                    hookVars, sdkVars, loopVars, slotVars, AllSubs
<1>9. Places'
  <2>1. /\ \A q : OnWire(q)' = OnWire(q) /\ InQueue(q)' = In(procQ', q) /\ Open(q)' = Open(q)
        /\ OnceOnWire' = OnceOnWire
    BY <1>2 DEF OnWire, InQueue, In, OnceOnWire, Open, sdkVars, hookVars
  <2>2. \A q : InDelivery(q)' <=> InDelivery(q) \/ q = pending
    BY <1>2, <1>3 DEF InDelivery
  <2>3. \A b, c \in answering' : b.q = c.q => b = c
    BY <1>1, <1>2, <1>3, <1>4 DEF Places, OncePerTask, InDelivery
  <2>4. OncePerTask'
    BY <1>1, <1>2, <1>4, <2>1, <2>2, <2>3 DEF Places, OncePerTask, loopVars
  <2>5. Asked' /\ SlotIsForOthers'
    BY <1>1, <1>2, <1>4, <2>1, <2>2
       DEF Places, Asked, SlotIsForOthers, Open, sdkVars, hookVars, loopVars, slotVars
  <2> QED BY <1>1, <2>1, <2>4, <2>5 DEF Places
<1> QED BY <1>6, <1>7, <1>8, <1>9 DEF QuestionsInv

LEMMA AnswerResumesKeeps ==
  ASSUME QuestionsInv, NEW a \in answering, AnswerResumes(a)
  PROVE  QuestionsInv'
<1>1. /\ SimpleTypes /\ Task /\ Answers /\ Places
      /\ wire \in Seq(Messages) /\ procQ \in Seq(Questions)
  BY TypesSplit DEF QuestionsInv
<1>2. a.q \in Questions /\ a.subs = AllSubs(a.q) /\ kind = "chat"
  BY <1>1 DEF SimpleTypes, Task, Collected, OnlyChatTracks
<1>3. /\ answering' = answering \ {a}
      /\ Deliver(a, procQ, pending, index, collected, timer)
      /\ UNCHANGED <<sdkVars, loopVars, onTime, slotVars, texts>>
  BY DEF AnswerResumes
<1>4. /\ Resolve(a.q, AllSubs(a.q)) /\ procQ' = procQ /\ card' = FALSE
      /\ \/ /\ procQ # <<>> /\ pending' = Head(procQ) /\ index' = 1 /\ collected' = {}
            /\ timer' = "fresh" /\ leaked' \in {leaked, leaked + 1} /\ cardSends' = cardSends + 1
         \/ /\ procQ = <<>> /\ UNCHANGED <<pending, index, collected, timer, leaked, cardSends>>
  <2>1. leaked \in Nat
    BY <1>1 DEF SimpleTypes
  <2> QED BY <1>2, <1>3, <2>1 DEF Deliver
<1>5. procQ = <<>> => pending = NoQuestion
  BY <1>1 DEF Task, PendingIsHead
<1>6. /\ InDelivery(a.q) /\ ~InQueue(a.q) /\ Distinct(procQ)
      /\ \A b \in answering' : b.q # a.q
  BY <1>1, <1>2, <1>3 DEF Places, OncePerTask, InDelivery
<1>7. Open(a.q) /\ a.q \in inTurn /\ ~OnWire(a.q)
  BY <1>2, <1>6, FoundIsOpen
<1>8. \A p \in Questions : In(procQ', p) => InQueue(p) /\ p # a.q
  BY <1>4, <1>6 DEF InQueue
<1>9. /\ Answers' /\ Places'
      /\ hook' \in [Questions -> {"unasked", "waiting", "answered", "empty"}]
      /\ got' \in [Questions -> SUBSET Nat] /\ stray' \subseteq Questions
  BY <1>1, <1>2, <1>3, <1>4, <1>6, <1>7, <1>8, AllAreEnough, SettledKeeps DEF sdkVars, loopVars
<1>10. loop # "none"
  BY <1>1, <1>7 DEF Task, OnlyChatTracks
<1>11. /\ leaked' \in Nat /\ cardSends' \in Nat /\ timer' \in {"none", "fresh", "stale"}
       /\ \A b \in answering' : b.subs = AllSubs(b.q)
       /\ \/ procQ # <<>> /\ pending' = Head(procQ) /\ index' = 1 /\ collected' = {} /\ timer' = "fresh"
          \/ procQ = <<>> /\ pending' = NoQuestion /\ index' \in Nat \ {0} /\ collected' \subseteq Nat
  <2>1. leaked' \in Nat /\ cardSends' \in Nat
    BY <1>1, <1>4 DEF SimpleTypes
  <2>2. timer' \in {"none", "fresh", "stale"}
    BY <1>1, <1>4 DEF SimpleTypes
  <2>3. \A b \in answering' : b.subs = AllSubs(b.q)
    BY <1>1, <1>3 DEF Task, Collected
  <2>4. CASE procQ # <<>>
    BY <1>4, <2>1, <2>2, <2>3, <2>4
  <2>5. CASE procQ = <<>>
    BY <1>1, <1>4, <1>5, <2>1, <2>2, <2>3, <2>5 DEF SimpleTypes
  <2> QED BY <2>4, <2>5
<1>12. /\ Task'
       /\ pending' \in Maybe /\ index' \in Nat \ {0} /\ collected' \subseteq Nat
       /\ pending' # NoQuestion => index' <= Subs[pending']
  BY <1>1, <1>2, <1>3, <1>4, <1>10, <1>11, DeliveredTask DEF Task
<1>13. TypeOK'
  <2>1. card' \in BOOLEAN
    BY <1>4
  <2>2. SimpleTypes'
    BY <1>1, <1>3, <1>9, <1>11, <1>12, <2>1 DEF SimpleTypes, sdkVars, loopVars, slotVars
  <2> QED BY <1>1, <1>3, <1>4, <2>2, TypesSplit DEF sdkVars
<1> QED BY <1>9, <1>12, <1>13 DEF QuestionsInv

(* The theorem. *************************************************************)

LEMMA QuestionsInit == Init => QuestionsInv
<1> SUFFICES ASSUME Init PROVE QuestionsInv
  OBVIOUS
<1>1. ~(\E q : OnWire(q) \/ InQueue(q) \/ InDelivery(q)) /\ OnceOnWire /\ Distinct(procQ)
  BY DEF Init, OnWire, InQueue, InDelivery, In, OnceOnWire, Distinct
<1>2. TypeOK
  <2>1. SimpleTypes
    <3>1. hook \in [Questions -> {"unasked", "waiting", "answered", "empty"}]
          /\ got \in [Questions -> SUBSET Nat]
      BY DEF Init
    <3>2. alive \in BOOLEAN /\ aborted \in BOOLEAN /\ card \in BOOLEAN
      BY DEF Init
    <3>3. noise \in 0..MaxNoise /\ texts \in 0..MaxTexts /\ index \in Nat \ {0}
          /\ leaked \in Nat /\ cardSends \in Nat
      BY QuestionAssumption DEF Init
    <3> QED BY <3>1, <3>2, <3>3 DEF Init, SimpleTypes, Maybe
  <2>2. wire \in Seq(Messages) /\ procQ \in Seq(Questions)
    BY DEF Init
  <2> QED BY <2>1, <2>2 DEF TypeOK, SimpleTypes, Messages
<1>3. Task /\ Answers
  BY DEF Init, Task, PendingIsHead, PendingHasTimer, OnlyChatTracks, ShowsHead, Collected,
         Answers, AnswersComplete, StrayOnlyIfExpired, AnsweredLeavesSlot
<1>4. Places
  BY <1>1 DEF Init, Places, Asked, OncePerTask, SlotIsForOthers
<1> QED BY <1>2, <1>3, <1>4 DEF QuestionsInv

LEMMA QuestionsStep == QuestionsInv /\ [Next]_vars => QuestionsInv'
<1> SUFFICES ASSUME QuestionsInv, [Next]_vars PROVE QuestionsInv'
  OBVIOUS
<1>1. CASE UNCHANGED vars
  <2>1. SameSequences
    BY <1>1, SequencesKept DEF vars, sdkVars, taskVars
  <2>2. UNCHANGED <<alive, turn, inTurn, noise, hook, got, stray, kind, loop, showing, aborted,
                    pending, index, collected, timer, leaked, card, answering, cardSends, onTime,
                    slot, sending, surfaced, texts>>
    BY <1>1 DEF vars, sdkVars, hookVars, loopVars, taskVars, slotVars
  <2>3. TypeOK'
    BY <2>1, <2>2 DEF QuestionsInv, TypeOK, SameSequences
  <2>4. Task' /\ Answers'
    BY <2>1, <2>2 DEF QuestionsInv, SameSequences, Task, PendingIsHead, PendingHasTimer,
       OnlyChatTracks, ShowsHead, Collected, Answers, AnswersComplete, StrayOnlyIfExpired,
       AnsweredLeavesSlot, AllSubs
  <2>5. Places'
    BY <2>1, <2>2 DEF QuestionsInv, SameSequences, Places, Asked, OncePerTask, SlotIsForOthers,
                      InDelivery, Open
  <2> QED BY <2>3, <2>4, <2>5 DEF QuestionsInv
<1>2. CASE TurnBegins \/ OtherMessage \/ Result
  BY <1>2, TurnBeginsKeeps, SayingKeeps
<1>3. ASSUME NEW q \in Questions, AskInTurn(<<q>>) PROVE QuestionsInv'
  <2>1. <<q>> \in Messages /\ <<q>> # <<NoQuestion>>
    BY QuestionAssumption DEF Messages
  <2> QED BY <1>3, <2>1, AskInTurnKeeps
<1>4. ASSUME NEW qs \in Pairs, AskInTurn(qs) PROVE QuestionsInv'
  <2>1. qs \in Messages
    BY DEF Messages
  <2>2. qs # <<NoQuestion>>
    BY DEF Pairs
  <2> QED BY <1>4, <2>1, <2>2, AskInTurnKeeps
<1>5. ASSUME NEW q \in Questions,
             AskBetweenTurns(q) \/ HookTimesOut(q) \/ HookAborted(q) \/ QuestionCardSent(q)
      PROVE  QuestionsInv'
  BY <1>5, AskBetweenTurnsKeeps, HookTimesOutKeeps, HookAbortedKeeps, QuestionCardSentKeeps
<1>6. CASE ReadPlain \/ ReadInChat \/ CardsShown \/ ReadInApi \/ CallerAnswers
           \/ ReadInContinuation \/ LoopEnds \/ Finally
  BY <1>6, ReadPlainKeeps, ReadInChatKeeps, CardsShownKeeps, ReadInApiKeeps, CallerAnswersKeeps,
     ReadInContinuationKeeps, LoopEndsKeeps, FinallyKeeps
<1>7. CASE AnswerBetweenTurns \/ AnswerSub \/ AnswerLast
  BY <1>7, AnswerBetweenTurnsKeeps, AnswerSubKeeps, AnswerLastDelivers, AnswerLastWaits
<1>8. ASSUME NEW a \in answering, AnswerResumes(a) PROVE QuestionsInv'
  BY <1>8, AnswerResumesKeeps
<1>9. CASE NextCardSent \/ QuestionTimerFires \/ LeakedTimerFires \/ TaskAborted \/ ExecutorRemoved
  BY <1>9, NextCardSentKeeps, TimerKeeps, TaskAbortedKeeps, ExecutorRemovedKeeps
<1> QED BY <1>1, <1>2, <1>3, <1>4, <1>5, <1>6, <1>7, <1>8, <1>9 DEF Next

\* Whoever answers a call, its hook gets what AnswersComplete says of its loop -
\* an answer to every sub-question from the user of the chat and from the timer,
\* to the first between turns, to none by name from a caller of the API - or had
\* given up; an answer goes astray only then, the task tracks the head of the processor's
\* queue under a timer, and no answered call waits in the slot for the user's
\* next message (handleAnswer, autoAnswer, the three loops).
THEOREM AnswersStaySound == MCSpec => []AnswersAreSound
<1>1. MCInit => QuestionsInv
  BY QuestionsInit DEF MCInit
<1>2. QuestionsInv /\ [MCNext]_mcVars => QuestionsInv'
  BY QuestionsStep DEF MCNext, mcVars
<1>3. QuestionsInv => AnswersAreSound
  BY DEF QuestionsInv, Task, Answers, AnswersAreSound
<1> QED BY <1>1, <1>2, <1>3, PTL DEF MCSpec, mcVars

(* No timer of another call. ************************************************)

\* While nothing races, every step keeps the timers with their call.
LEMMA TimersStep ==
  ASSUME QuestionsInv, TimersMatch, MCNext, ~raced'
  PROVE  TimersMatch'
<1>1. /\ SimpleTypes /\ Task /\ procQ \in Seq(Questions) /\ NoQuestion \notin Questions
  BY TypesSplit, QuestionAssumption DEF QuestionsInv
<1>2. /\ ~(loop = "showing" /\ pending # NoQuestion /\ pending' # pending)
      /\ ~(loop # "showing" /\ loop' = "showing" /\ answering # {})
  BY DEF MCNext
<1> USE DEF TimersMatch
<1>3. CASE UNCHANGED <<loop, kind, pending, timer, leaked, answering>>
  BY <1>3
<1>4. CASE TurnBegins \/ LoopEnds
  BY <1>1, <1>4 DEF TurnBegins, LoopEnds, taskVars, Task, OnlyChatTracks
<1>5. CASE Finally \/ CardsShown \/ CallerAnswers
  BY <1>1, <1>5 DEF Finally, CardsShown, CallerAnswers, sdkVars, Task, OnlyChatTracks
<1>6. CASE ReadInChat
  <2>1. /\ Read("chat") /\ procQ' # <<>> /\ Head(procQ') \in Questions
        /\ procQ # <<>> => Head(procQ') = Head(procQ)
    BY <1>6, ReadFacts DEF ReadInChat
  <2>2. pending # NoQuestion => pending = Head(procQ')
    BY <1>1, <2>1 DEF Task, PendingIsHead
  <2>3. /\ loop = "reading" /\ loop' = "showing" /\ pending' = Head(procQ')
        /\ UNCHANGED <<leaked, answering>>
        /\ \/ pending = pending' /\ UNCHANGED timer
           \/ pending # pending' /\ timer' = IF timer = "none" THEN "none" ELSE "stale"
    BY <1>6, <2>1 DEF ReadInChat, Surface, Read
  <2> QED BY <1>1, <1>2, <2>1, <2>2, <2>3
<1>7. CASE ReadInApi \/ ReadInContinuation \/ \E q \in Questions : QuestionCardSent(q)
  BY <1>1, <1>7 DEF ReadInApi, ReadInContinuation, QuestionCardSent, Read, taskVars,
                    Task, OnlyChatTracks
<1>8. CASE AnswerSub
  BY <1>1, <1>8 DEF AnswerSub, Answering, loopVars
<1>9. CASE AnswerLast
  <2>1. /\ pending # NoQuestion /\ answering = {} /\ UNCHANGED <<loop, kind>>
        /\ procQ # <<>> /\ Head(procQ) = pending /\ Tail(procQ) \in Seq(Questions)
        /\ \A q : In(Tail(procQ), q) => q # pending
    BY <1>9, TrackedIsHead DEF AnswerLast, Answering, loopVars
  <2>2. CASE card
    <3>1. /\ \E a : answering' = {a}
          /\ pending' = NoQuestion /\ timer' = "none" /\ UNCHANGED leaked
      BY <1>9, <2>1, <2>2 DEF AnswerLast
    <3> QED BY <1>2, <2>1, <3>1
  <2>3. CASE ~card
    <3>1. /\ answering' = answering
          /\ \/ /\ Tail(procQ) = <<>> /\ pending' = NoQuestion /\ timer' = "none"
                /\ leaked' = leaked
             \/ /\ Tail(procQ) # <<>> /\ pending' = Head(Tail(procQ)) /\ timer' = "fresh"
                /\ leaked' = leaked + 0
      BY <1>9, <2>3 DEF AnswerLast, Deliver
    <3>2. Tail(procQ) # <<>> => Head(Tail(procQ)) \in Questions
      BY <2>1
    <3>3. leaked + 0 = 0
      OBVIOUS
    <3>4. pending' # pending
      <4>1. Tail(procQ) # <<>> => In(Tail(procQ), Head(Tail(procQ)))
        BY <2>1, TailElements
      <4> QED BY <2>1, <3>1, <4>1
    <3> QED BY <1>1, <1>2, <2>1, <3>1, <3>2, <3>3, <3>4
  <2> QED BY <2>2, <2>3
<1>10. ASSUME NEW a \in answering, AnswerResumes(a) PROVE TimersMatch'
  <2>1. /\ pending = NoQuestion /\ loop # "showing" /\ timer = "none" /\ UNCHANGED <<loop, kind>>
        /\ answering' = {}
    BY <1>1, <1>10 DEF AnswerResumes, loopVars
  <2>2. \/ procQ = <<>> /\ pending' = pending /\ timer' = timer /\ leaked' = leaked
        \/ procQ # <<>> /\ pending' = Head(procQ) /\ timer' = "fresh" /\ leaked' = leaked + 0
    BY <1>10, <2>1 DEF AnswerResumes, Deliver
  <2>3. procQ # <<>> => Head(procQ) \in Questions
    BY <1>1
  <2>4. leaked + 0 = 0
    OBVIOUS
  <2> QED BY <1>1, <2>1, <2>2, <2>3, <2>4
<1>11. CASE QuestionTimerFires
  BY <1>1, <1>2, <1>11 DEF QuestionTimerFires, AutoAnswer, loopVars
<1>12. CASE LeakedTimerFires
  BY <1>12 DEF LeakedTimerFires
<1>13. CASE TaskAborted
  BY <1>1, <1>13 DEF TaskAborted
<1>14. CASE TurnBegins \/ OtherMessage \/ Result \/ ReadPlain \/ AnswerBetweenTurns
            \/ NextCardSent \/ ExecutorRemoved
  BY <1>3, <1>4, <1>14 DEF OtherMessage, Result, ReadPlain, AnswerBetweenTurns, NextCardSent,
                           ExecutorRemoved, loopVars, taskVars
<1>15. ASSUME NEW q \in Questions, AskInTurn(<<q>>) \/ AskBetweenTurns(q) \/ HookTimesOut(q)
                                    \/ HookAborted(q)
       PROVE  TimersMatch'
  BY <1>3, <1>15 DEF AskInTurn, AskBetweenTurns, HookTimesOut, HookAborted, loopVars, taskVars
<1>16. ASSUME NEW qs \in Pairs, AskInTurn(qs) PROVE TimersMatch'
  BY <1>3, <1>16 DEF AskInTurn, loopVars, taskVars
<1> QED BY <1>4, <1>5, <1>6, <1>7, <1>8, <1>9, <1>10, <1>11, <1>12, <1>13, <1>14, <1>15, <1>16
        DEF MCNext, Next

\* Unless the loop and an answer crossed each other, a timer that fires finds the
\* call it was started for, or none at all: nobody's five minutes are cut short
\* (questionTimeoutId in executeQuery, handleAnswer and autoAnswer).
THEOREM TimersKeepTheirCall == MCSpec => NoEarlyTimeout
<1>1. MCInit => QuestionsInv /\ UnlessRaced
  <2>1. Init => TimersMatch
    BY DEF Init, TimersMatch
  <2> QED BY <2>1, QuestionsInit DEF MCInit, UnlessRaced
<1>2. QuestionsInv /\ UnlessRaced /\ [MCNext]_mcVars => (QuestionsInv /\ UnlessRaced)'
  <2> SUFFICES ASSUME QuestionsInv, UnlessRaced, [MCNext]_mcVars
               PROVE  QuestionsInv' /\ UnlessRaced'
    OBVIOUS
  <2>1. QuestionsInv'
    BY QuestionsStep DEF MCNext, mcVars
  <2>2. CASE MCNext
    <3>1. raced => raced'
      BY <2>2 DEF MCNext
    <3>2. ASSUME TimersMatch, ~raced' PROVE TimersMatch'
      BY <2>2, <3>2, TimersStep
    <3> QED BY <2>1, <3>1, <3>2 DEF UnlessRaced
  <2>3. CASE UNCHANGED mcVars
    <3>1. UNCHANGED <<loop, kind, pending, timer, leaked, answering>> /\ raced' = raced
      BY <2>3 DEF mcVars, vars, loopVars, taskVars
    <3>2. TimersMatch => TimersMatch'
      BY <3>1 DEF TimersMatch
    <3> QED BY <2>1, <3>1, <3>2 DEF UnlessRaced
  <2> QED BY <2>1, <2>2, <2>3
<1>3. QuestionsInv /\ UnlessRaced /\ [MCNext]_mcVars => [StartedForIt]_mcVars
  <2> SUFFICES ASSUME QuestionsInv, TimersMatch, ~raced, MCNext
               PROVE  StartedForIt
    BY DEF UnlessRaced, StartedForIt
  <2>1. leaked = 0 /\ timer # "stale"
    BY DEF TimersMatch
  <2>2. leaked' \in Nat
    BY QuestionsStep DEF MCNext, QuestionsInv, TypeOK
  <2> QED BY <2>1, <2>2 DEF StartedForIt
<1> QED BY <1>1, <1>2, <1>3, PTL DEF MCSpec, mcVars, NoEarlyTimeout

(* The skill hub. ***********************************************************)

Author == [md : Nat, refs : Nat \cup {Nothing}]
CallOf == [st : {"reading", "done"}, md : Nat, crossed : BOOLEAN]

\* The author's copy is of one edition, and what a request that nobody crossed
\* has read is the edition the author has.
SkillsInv ==
  /\ author \in Author /\ author.refs \in {Nothing, author.md}
  /\ calls \in Seq(CallOf)
  /\ \A i \in DOMAIN calls :
       calls[i].st = "reading" /\ ~calls[i].crossed => calls[i].md = author.md
  /\ HubHoldsOneEditionUnlessEdited

LEMMA CallAppended ==
  ASSUME SkillsInv, NEW st \in {"reading", "done"}, calls' = Append(calls, Call(st)), author' = author
  PROVE  /\ calls' \in Seq(CallOf)
         /\ \A i \in DOMAIN calls' :
              calls'[i].st = "reading" /\ ~calls'[i].crossed => calls'[i].md = author'.md
<1>1. Call(st) \in CallOf /\ Call(st).md = author.md
  BY DEF SkillsInv, Call, CallOf, Author
<1>2. calls' \in Seq(CallOf)
  BY <1>1, AppendProperties DEF SkillsInv
<1>3. ASSUME NEW i \in DOMAIN calls' PROVE (i \in DOMAIN calls /\ calls'[i] = calls[i]) \/ calls'[i] = Call(st)
  BY <1>1, AppendProperties, LenProperties DEF SkillsInv
<1> QED BY <1>1, <1>2, <1>3 DEF SkillsInv

LEMMA CallTyped == SkillsInv => \A i \in DOMAIN calls : calls[i] \in CallOf
<1> SUFFICES ASSUME calls \in Seq(CallOf), NEW i \in DOMAIN calls PROVE calls[i] \in CallOf
  BY DEF SkillsInv
<1> QED BY ElementOfSeq, LenProperties

LEMMA SkillsStep == SkillsInv /\ [SkillsNext]_skillsVars => SkillsInv'
<1> SUFFICES ASSUME SkillsInv, [SkillsNext]_skillsVars PROVE SkillsInv'
  OBVIOUS
<1>1. CASE Edit
  <2>1. PICK refs \in {author.md + 1, Nothing} : author' = [md |-> author.md + 1, refs |-> refs]
    BY <1>1 DEF Edit
  <2>2. author' \in Author /\ author'.refs \in {Nothing, author'.md}
    BY <2>1 DEF SkillsInv, Author
  <2>3. calls' = [i \in DOMAIN calls |-> [calls[i] EXCEPT !.crossed = calls[i].crossed \/ calls[i].st = "reading"]]
    BY <1>1 DEF Edit
  <2>4. ASSUME NEW i \in DOMAIN calls
        PROVE  /\ calls'[i] \in CallOf
               /\ ~(calls'[i].st = "reading" /\ ~calls'[i].crossed)
    <3> DEFINE crossed == calls[i].crossed \/ calls[i].st = "reading"
    <3>1. calls[i] \in CallOf /\ crossed \in BOOLEAN
      BY CallTyped
    <3>2. calls'[i] = [calls[i] EXCEPT !.crossed = crossed]
      BY <2>3
    <3>3. calls'[i] \in CallOf /\ calls'[i].st = calls[i].st /\ calls'[i].crossed = crossed
      <4> HIDE DEF crossed
      <4> QED BY <3>1, <3>2 DEF CallOf
    <3> QED BY <3>3
  <2>5. calls' \in Seq(CallOf) /\ DOMAIN calls' = DOMAIN calls
    <3>1. DOMAIN calls = 1..Len(calls) /\ Len(calls) \in Nat
      BY LenProperties DEF SkillsInv
    <3>2. DOMAIN calls' = DOMAIN calls
      BY <2>3
    <3>3. calls' = [i \in 1..Len(calls) |-> calls'[i]]
      BY <2>3, <3>1
    <3>4. calls' \in [1..Len(calls) -> CallOf]
      BY <2>4, <3>1, <3>3
    <3> QED BY <3>1, <3>2, <3>4, SeqDef
  <2> QED BY <1>1, <2>2, <2>4, <2>5 DEF Edit, SkillsInv, HubHoldsOneEditionUnlessEdited
<1>2. CASE Post
  BY <1>2, CallAppended DEF Post, Publish, Idle, SkillsInv, HubHoldsOneEditionUnlessEdited
<1>3. CASE Request
  BY <1>3, CallAppended DEF Request, Publish, Idle, SkillsInv, HubHoldsOneEditionUnlessEdited
<1>4. ASSUME NEW i \in DOMAIN calls, Pack(i) PROVE SkillsInv'
  <2>1. calls' = [calls EXCEPT ![i].st = "done"] /\ author' = author
    BY <1>4 DEF Pack, Idle
  <2>2. calls' \in Seq(CallOf) /\ DOMAIN calls' = DOMAIN calls
    <3>1. calls[i] \in CallOf
      BY CallTyped
    <3>2. [calls[i] EXCEPT !.st = "done"] \in CallOf
      BY <3>1 DEF CallOf
    <3>3. calls' = [calls EXCEPT ![i] = [calls[i] EXCEPT !.st = "done"]]
      BY <2>1
    <3> QED BY <3>2, <3>3, ExceptSeq, LenProperties DEF SkillsInv
  <2>3. \A k \in DOMAIN calls :
          calls'[k].st = "reading" /\ ~calls'[k].crossed => calls'[k].md = author'.md
    BY <2>1 DEF SkillsInv
  <2>4. \E refs \in {author.refs, Nothing} : Publish(calls[i].md, refs, calls[i].crossed)
    BY <1>4 DEF Pack
  <2>5. HubHoldsOneEditionUnlessEdited'
    BY <1>4, <2>4 DEF Pack, Publish, SkillsInv, HubHoldsOneEditionUnlessEdited
  <2> QED BY <2>1, <2>2, <2>3, <2>5 DEF SkillsInv
<1>5. CASE RemoveSkill \/ Install \/ Fetch \/ Fetched \/ UNCHANGED skillsVars
  BY <1>5 DEF RemoveSkill, Idle, Install, Fetch, Fetched, skillsVars, SkillsInv, HubHoldsOneEditionUnlessEdited
<1> QED BY <1>1, <1>2, <1>3, <1>4, <1>5 DEF SkillsNext

\* Whatever bots publish and remove at a time, however their tar commands fail:
\* the hub pairs the SKILL.md of one edition with the references of another only
\* when the author edited between the two reads of the request that published
\* it.
THEOREM HubHoldsOneEdition == SkillsSpec => []HubHoldsOneEditionUnlessEdited
<1>1. SkillsInit => SkillsInv
  BY DEF SkillsInit, SkillsInv, Author, HubHoldsOneEditionUnlessEdited
<1>2. SkillsInv => HubHoldsOneEditionUnlessEdited
  BY DEF SkillsInv
<1> QED BY <1>1, <1>2, SkillsStep, PTL DEF SkillsSpec

(* What bots take in. *******************************************************)

\* The media that go with what the bridge was given, the messages it has seen
\* one way or the other, and what is kept of a user.
Attached(j) == {given[j].extra[k] : k \in DOMAIN given[j].extra}
Taken(n) == \E j \in DOMAIN given : given[j].n = n \/ n \in Attached(j)
Kept(u) == {mediaCache[u][k] : k \in DOMAIN mediaCache[u]}

Message == [n : Nat, user : Users, body : Bodies \cup TgBodies, from : {"feishu", "telegram"}]
Given == [n : Nat, user : Users, from : {"feishu", "telegram"},
          text : {Text(b) : b \in Bodies} \cup {"words"},
          images : {Images(b) : b \in Bodies} \cup {0}, extra : Seq(Nat)]

IntakeTypes ==
  /\ sent \in Seq(Message) /\ given \in Seq(Given) /\ mediaCache \in [Users -> Seq(Nat)]
  /\ asking \subseteq DOMAIN sent /\ intakeFaults \in Nat

\* A message has its number; what was given, kept and asked about was sent.
IntakeKnown ==
  /\ \A n \in DOMAIN sent : sent[n].n = n /\ (sent[n].from = "feishu" => sent[n].body \in Bodies)
  /\ \A n \in asking : sent[n].from = "feishu"
  /\ \A j \in DOMAIN given : given[j].n \in DOMAIN sent /\ Attached(j) \subseteq DOMAIN sent
  /\ \A u \in Users : Kept(u) \subseteq DOMAIN sent

\* A count that is kept is right, or the group changed since.
CountIsRight == counted # Absent => counted = group.members \/ group.changed

\* As long as nothing failed, expired or came twice: a message that awaits the
\* count, and a medium that is kept, was not taken in, and every medium is in one
\* of the three places.
MediaAreKept ==
  intakeFaults = 0 =>
    /\ \A n \in asking : ~Taken(n) /\ \A u \in Users : n \notin Kept(u)
    /\ \A u \in Users : \A n \in Kept(u) : sent[n].user = u /\ ~Taken(n)
    /\ \A n \in DOMAIN sent :
         sent[n].from = "feishu" /\ IsMedia(sent[n].body) /\ n \notin asking =>
           Taken(n) \/ n \in Kept(sent[n].user)

\* MediaGoOnceUnlessRedelivered, in these terms.
AttachedOnce ==
  intakeFaults = 0 =>
    \A i \in DOMAIN given : \A n \in Attached(i) :
      /\ sent[n].user = given[i].user
      /\ \A j \in DOMAIN given : given[j].n # n /\ (j # i => n \notin Attached(j))

IntakeInv ==
  /\ IntakeTypes /\ IntakeKnown /\ CountIsRight /\ MediaAreKept
  /\ TakesWhatIsSaidToItUnlessUnsure /\ AttachedOnce

LEMMA OnceMeansOnce == AttachedOnce => MediaGoOnceUnlessRedelivered
BY DEF AttachedOnce, MediaGoOnceUnlessRedelivered, Attached

\* The message a handler is at: one just sent, or one whose count was awaited.
At(msg) ==
  /\ msg \in Message /\ msg.from = "feishu" /\ msg.body \in Bodies
  /\ msg.n \in DOMAIN sent' /\ sent'[msg.n] = msg
  /\ sent' \in Seq(Message)
  /\ \A n \in DOMAIN sent : n \in DOMAIN sent' /\ sent'[n] = sent[n]
  /\ DOMAIN sent' \subseteq DOMAIN sent \cup {msg.n}
  /\ asking' \subseteq DOMAIN sent' /\ asking \subseteq asking' \cup {msg.n}
  /\ asking' \subseteq asking \cup {msg.n}
  /\ intakeFaults' \in Nat /\ setup' = setup

\* And it was not taken in before, as long as nothing came twice.
New(msg) ==
  intakeFaults' = 0 =>
    intakeFaults = 0 /\ ~Taken(msg.n) /\ \A u \in Users : msg.n \notin Kept(u)

\* What process does to what was given and is kept.
LEMMA ProcessGives ==
  ASSUME IntakeInv, NEW msg, At(msg), Process(msg), Usable(msg.body)
  PROVE  /\ given' \in Seq(Given) /\ mediaCache' \in [Users -> Seq(Nat)]
         /\ \A j \in DOMAIN given : given'[j] = given[j] /\ Attached(j)' = Attached(j)
         /\ \E last :
              /\ DOMAIN given' = DOMAIN given \cup {last} /\ last \notin DOMAIN given
              /\ given'[last].n = msg.n /\ given'[last].user = msg.user
              /\ given'[last].from = "feishu"
              /\ Attached(last)' = Kept(msg.user)
         /\ \A u \in Users : Kept(u)' = IF u = msg.user THEN {} ELSE Kept(u)
<1> DEFINE media == mediaCache[msg.user]
           g == [n |-> msg.n, user |-> msg.user, from |-> "feishu", text |-> Text(msg.body),
                 images |-> Images(msg.body), extra |-> media]
<1>1. given' = Append(given, g) /\ mediaCache' = [mediaCache EXCEPT ![msg.user] = <<>>]
  BY DEF Process, CachedMedia, CacheKey, ClearCached, IntakeInv, IntakeTypes, At, Message
<1>2. g \in Given
  BY DEF Given, At, Message, IntakeInv, IntakeTypes
<1>3. /\ given \in Seq(Given) /\ given' \in Seq(Given) /\ DOMAIN given = 1..Len(given)
      /\ Len(given) \in Nat /\ DOMAIN given' = 1..(Len(given) + 1)
      /\ \A j \in 1..Len(given) : given'[j] = given[j]
      /\ given'[Len(given) + 1] = g
  <2> HIDE DEF g
  <2> QED BY <1>1, <1>2, AppendProperties, LenProperties DEF IntakeInv, IntakeTypes
<1>4. mediaCache' \in [Users -> Seq(Nat)]
  <2>1. <<>> \in Seq(Nat)
    OBVIOUS
  <2> QED BY <1>1, <2>1 DEF IntakeInv, IntakeTypes
<1>5. \A u \in Users : Kept(u)' = IF u = msg.user THEN {} ELSE Kept(u)
  BY <1>1 DEF Kept, IntakeInv, IntakeTypes
<1>6. \E last :
        /\ DOMAIN given' = DOMAIN given \cup {last} /\ last \notin DOMAIN given
        /\ given'[last].n = msg.n /\ given'[last].user = msg.user
        /\ given'[last].from = "feishu"
        /\ Attached(last)' = Kept(msg.user)
  <2>1. PICK last : last = Len(given) + 1
    OBVIOUS
  <2>2. given'[last] = g /\ DOMAIN given' = DOMAIN given \cup {last} /\ last \notin DOMAIN given
    <3> HIDE DEF g
    <3> QED BY <1>3, <2>1
  <2>3. Attached(last)' = Kept(msg.user)
    BY <2>2 DEF Attached, Kept
  <2> QED BY <2>2, <2>3
<1>7. \A j \in DOMAIN given : Attached(j)' = Attached(j)
  BY <1>3 DEF Attached
<1> QED BY <1>3, <1>4, <1>5, <1>6, <1>7

\* What not being addressed does.
LEMMA NotAddressedKeeps ==
  ASSUME IntakeInv, NEW msg, At(msg), NotAddressed(msg)
  PROVE  /\ given' = given /\ mediaCache' \in [Users -> Seq(Nat)]
         /\ \A u \in Users :
              Kept(u)' = IF u = msg.user /\ IsMedia(msg.body) THEN Kept(u) \cup {msg.n} ELSE Kept(u)
<1>1. given' = given /\ mediaCache \in [Users -> Seq(Nat)] /\ msg.user \in Users /\ msg.n \in Nat
  BY DEF NotAddressed, IntakeInv, IntakeTypes, At, Message
<1>2. CASE IsMedia(msg.body)
  <2> DEFINE more == Append(mediaCache[msg.user], msg.n)
  <2>1. mediaCache' = [mediaCache EXCEPT ![msg.user] = more]
    BY <1>2 DEF NotAddressed, CacheKey
  <2>2. /\ more \in Seq(Nat)
        /\ {more[k] : k \in DOMAIN more} = Kept(msg.user) \cup {msg.n}
    <3> DEFINE old == mediaCache[msg.user]
    <3>1. /\ old \in Seq(Nat) /\ more \in Seq(Nat) /\ Len(old) \in Nat
          /\ DOMAIN old = 1..Len(old) /\ DOMAIN more = 1..(Len(old) + 1)
          /\ more[Len(old) + 1] = msg.n /\ \A k \in 1..Len(old) : more[k] = old[k]
      BY <1>1, AppendProperties, LenProperties
    <3>2. Kept(msg.user) = {old[k] : k \in DOMAIN old}
      BY DEF Kept
    <3> HIDE DEF old, more
    <3>3. {more[k] : k \in DOMAIN more} \subseteq {old[k] : k \in DOMAIN old} \cup {msg.n}
      BY <3>1
    <3>4. {old[k] : k \in DOMAIN old} \subseteq {more[k] : k \in DOMAIN more}
      BY <3>1
    <3>5. msg.n \in {more[k] : k \in DOMAIN more}
      BY <3>1
    <3> QED BY <3>1, <3>2, <3>3, <3>4, <3>5
  <2>3. mediaCache' \in [Users -> Seq(Nat)] /\ mediaCache'[msg.user] = more
    BY <1>1, <2>1, <2>2
  <2>4. Kept(msg.user)' = Kept(msg.user) \cup {msg.n}
    BY <2>2, <2>3 DEF Kept
  <2>5. \A u \in Users \ {msg.user} : Kept(u)' = Kept(u)
    BY <1>1, <2>1 DEF Kept
  <2> QED BY <1>1, <1>2, <2>3, <2>4, <2>5
<1>3. CASE ~IsMedia(msg.body)
  BY <1>1, <1>3 DEF NotAddressed, Kept
<1> QED BY <1>2, <1>3

\* A handler that ends, by process or not.
Handled(msg) == (Process(msg) \/ NotAddressed(msg)) /\ msg.n \notin asking'

LEMMA MediaIsUsable == \A b : IsMedia(b) => Usable(b)
BY DEF IsMedia, Usable

LEMMA HandledTypes ==
  ASSUME IntakeInv, NEW msg, At(msg), Handled(msg)
  PROVE  IntakeTypes' /\ IntakeKnown'
<1>1. msg.n \in DOMAIN sent' /\ DOMAIN sent \subseteq DOMAIN sent' /\ msg.user \in Users
  BY DEF At, Message
<1>2. /\ \A n \in DOMAIN sent' : sent'[n].n = n /\ (sent'[n].from = "feishu" => sent'[n].body \in Bodies)
      /\ \A n \in asking' : sent'[n].from = "feishu"
  BY DEF At, IntakeInv, IntakeKnown, IntakeTypes
<1>3. CASE Process(msg) /\ Usable(msg.body)
  <2>1. PICK last :
          /\ DOMAIN given' = DOMAIN given \cup {last}
          /\ \A j \in DOMAIN given : given'[j] = given[j] /\ Attached(j)' = Attached(j)
          /\ given'[last].n = msg.n /\ Attached(last)' = Kept(msg.user)
          /\ \A u \in Users : Kept(u)' = IF u = msg.user THEN {} ELSE Kept(u)
    BY <1>3, ProcessGives
  <2>2. IntakeTypes'
    BY <1>3, ProcessGives DEF At, IntakeInv, IntakeTypes
  <2>3. \A j \in DOMAIN given' : given'[j].n \in DOMAIN sent' /\ Attached(j)' \subseteq DOMAIN sent'
    BY <1>1, <2>1 DEF IntakeInv, IntakeKnown
  <2>4. \A u \in Users : Kept(u)' \subseteq DOMAIN sent'
    BY <1>1, <2>1 DEF IntakeInv, IntakeKnown
  <2> QED BY <1>2, <2>2, <2>3, <2>4 DEF IntakeKnown
<1>4. CASE Process(msg) /\ ~Usable(msg.body)
  <2>1. given' = given /\ mediaCache' = mediaCache
    BY <1>4 DEF Process
  <2> QED BY <1>1, <1>2, <2>1 DEF At, IntakeInv, IntakeTypes, IntakeKnown, Kept, Attached
<1>5. CASE NotAddressed(msg)
  <2>1. \A j \in DOMAIN given : Attached(j)' = Attached(j)
    BY <1>5, NotAddressedKeeps DEF Attached
  <2>2. IntakeTypes'
    BY <1>5, NotAddressedKeeps DEF At, IntakeInv, IntakeTypes
  <2>3. \A j \in DOMAIN given' : given'[j].n \in DOMAIN sent' /\ Attached(j)' \subseteq DOMAIN sent'
    BY <1>1, <1>5, <2>1, NotAddressedKeeps DEF IntakeInv, IntakeKnown
  <2>4. \A u \in Users : Kept(u)' \subseteq DOMAIN sent'
    BY <1>1, <1>5, NotAddressedKeeps DEF IntakeInv, IntakeKnown
  <2> QED BY <1>2, <2>2, <2>3, <2>4 DEF IntakeKnown
<1> QED BY <1>3, <1>4, <1>5 DEF Handled

LEMMA HandledMedia ==
  ASSUME IntakeInv, NEW msg, At(msg), New(msg), Handled(msg)
  PROVE  MediaAreKept' /\ AttachedOnce'
<1> SUFFICES ASSUME intakeFaults' = 0 PROVE MediaAreKept' /\ AttachedOnce'
  BY DEF MediaAreKept, AttachedOnce
<1>1. /\ intakeFaults = 0 /\ ~Taken(msg.n) /\ \A u \in Users : msg.n \notin Kept(u)
      /\ msg.user \in Users /\ msg.n \in DOMAIN sent' /\ sent'[msg.n] = msg
      /\ \A n \in DOMAIN sent : n \in DOMAIN sent' /\ sent'[n] = sent[n]
      /\ DOMAIN sent' \subseteq DOMAIN sent \cup {msg.n}
      /\ asking \subseteq asking' \cup {msg.n} /\ asking' \subseteq asking /\ msg.n \notin asking'
  BY DEF New, At, Message, Handled
<1>2. /\ \A n \in asking : ~Taken(n) /\ \A u \in Users : n \notin Kept(u)
      /\ \A u \in Users : \A n \in Kept(u) : n \in DOMAIN sent /\ sent[n].user = u /\ ~Taken(n)
      /\ \A n \in DOMAIN sent :
           sent[n].from = "feishu" /\ IsMedia(sent[n].body) /\ n \notin asking =>
             Taken(n) \/ n \in Kept(sent[n].user)
      /\ \A n \in DOMAIN sent : sent[n].user \in Users
      /\ \A j \in DOMAIN given : given[j].n \in DOMAIN sent /\ Attached(j) \subseteq DOMAIN sent
      /\ \A i \in DOMAIN given : \A n \in Attached(i) :
           /\ sent[n].user = given[i].user
           /\ \A j \in DOMAIN given : given[j].n # n /\ (j # i => n \notin Attached(j))
  <2>1. \A n \in DOMAIN sent : sent[n] \in Message
    BY ElementOfSeq, LenProperties DEF IntakeInv, IntakeTypes
  <2> QED BY <1>1, <2>1 DEF IntakeInv, IntakeKnown, MediaAreKept, AttachedOnce, Message
<1>3. CASE Process(msg) /\ Usable(msg.body)
  <2>1. PICK last :
          /\ DOMAIN given' = DOMAIN given \cup {last} /\ last \notin DOMAIN given
          /\ \A j \in DOMAIN given : given'[j] = given[j] /\ Attached(j)' = Attached(j)
          /\ given'[last].n = msg.n /\ given'[last].user = msg.user
          /\ Attached(last)' = Kept(msg.user)
          /\ \A u \in Users : Kept(u)' = IF u = msg.user THEN {} ELSE Kept(u)
    BY <1>3, ProcessGives
  <2>2. \A n : Taken(n)' <=> Taken(n) \/ n = msg.n \/ n \in Kept(msg.user)
    BY <2>1 DEF Taken
  <2>3. ASSUME NEW n \in asking' PROVE ~Taken(n)' /\ \A u \in Users : n \notin Kept(u)'
    BY <1>1, <1>2, <2>1, <2>2
  <2>4. ASSUME NEW u \in Users, NEW n \in Kept(u)' PROVE sent'[n].user = u /\ ~Taken(n)'
    BY <1>1, <1>2, <2>1, <2>2
  <2>5. ASSUME NEW n \in DOMAIN sent', sent'[n].from = "feishu" /\ IsMedia(sent'[n].body) /\ n \notin asking'
        PROVE  Taken(n)' \/ n \in Kept(sent[n].user)'
    BY <1>1, <1>2, <2>1, <2>2, <2>5
  <2>6. ASSUME NEW i \in DOMAIN given', NEW n \in Attached(i)'
        PROVE  /\ sent'[n].user = given'[i].user
               /\ \A j \in DOMAIN given' : given'[j].n # n /\ (j # i => n \notin Attached(j)')
    <3>1. CASE i = last
      BY <1>1, <1>2, <2>1, <3>1 DEF Taken
    <3>2. CASE i \in DOMAIN given
      BY <1>1, <1>2, <2>1, <3>2 DEF Taken
    <3> QED BY <2>1, <3>1, <3>2
  <2> QED BY <2>3, <2>4, <2>5, <2>6 DEF MediaAreKept, AttachedOnce
<1>4. CASE NotAddressed(msg) \/ (Process(msg) /\ ~Usable(msg.body))
  <2>1. /\ given' = given
        /\ \A u \in Users :
             Kept(u)' = IF u = msg.user /\ IsMedia(msg.body) THEN Kept(u) \cup {msg.n} ELSE Kept(u)
    BY <1>4, NotAddressedKeeps, MediaIsUsable DEF Process, Kept
  <2>2. (\A j \in DOMAIN given : Attached(j)' = Attached(j)) /\ \A n : Taken(n)' <=> Taken(n)
    BY <2>1 DEF Attached, Taken
  <2>3. MediaAreKept'
    BY <1>1, <1>2, <2>1, <2>2 DEF MediaAreKept
  <2>4. AttachedOnce'
    BY <1>1, <1>2, <2>1, <2>2 DEF AttachedOnce
  <2> QED BY <2>3, <2>4
<1> QED BY <1>3, <1>4 DEF Handled

\* What may be said to a bot, as the group and its set-up are.
Addressed(msg) ==
  \/ msg.body.at = "bot" \/ ~setup.knowsSelf
  \/ setup.noMention \/ group.changed \/ group.members = 2

LEMMA HandledTakes ==
  ASSUME IntakeInv, NEW msg, At(msg), Handled(msg), group' = group, given' = given \/ Addressed(msg)
  PROVE  TakesWhatIsSaidToItUnlessUnsure'
<1>1. \A j \in DOMAIN given : sent'[given[j].n] = sent[given[j].n]
  BY DEF IntakeInv, IntakeKnown, At
<1>2. CASE given' = given
  BY <1>1, <1>2 DEF IntakeInv, TakesWhatIsSaidToItUnlessUnsure, At
<1>3. CASE Process(msg) /\ Usable(msg.body)
  <2>1. PICK last :
          /\ DOMAIN given' = DOMAIN given \cup {last} /\ last \notin DOMAIN given
          /\ \A j \in DOMAIN given : given'[j] = given[j]
          /\ given'[last].n = msg.n /\ given'[last].from = "feishu"
    BY <1>3, ProcessGives
  <2>2. sent'[given'[last].n] = msg /\ Addressed(msg)
    BY <1>3, <2>1 DEF At
  <2> QED BY <1>1, <2>1, <2>2 DEF IntakeInv, TakesWhatIsSaidToItUnlessUnsure, At, Addressed
<1> QED BY <1>2, <1>3 DEF Handled, Process, NotAddressed

\* A message whose count is asked for.
LEMMA AwaitedStep ==
  ASSUME IntakeInv, NEW msg, At(msg), New(msg), group' = group, counted' = counted,
         asking' = asking \cup {msg.n}, given' = given, mediaCache' = mediaCache
  PROVE  IntakeInv'
<1>1. /\ \A j \in DOMAIN given : sent'[given[j].n] = sent[given[j].n]
      /\ \A n \in DOMAIN sent : n \in DOMAIN sent' /\ sent'[n] = sent[n]
      /\ msg.n \in DOMAIN sent' /\ sent'[msg.n] = msg /\ msg.from = "feishu"
      /\ DOMAIN sent' \subseteq DOMAIN sent \cup {msg.n}
  BY DEF IntakeInv, IntakeKnown, At
<1>2. /\ \A n : Taken(n)' <=> Taken(n)
      /\ \A u \in Users : Kept(u)' = Kept(u)
      /\ \A j \in DOMAIN given : Attached(j)' = Attached(j)
  BY DEF Taken, Kept, Attached
<1>3. IntakeTypes' /\ CountIsRight'
  BY DEF IntakeInv, IntakeTypes, CountIsRight, At
<1>4. IntakeKnown'
  <2>1. \A n \in DOMAIN sent' : sent'[n].n = n /\ (sent'[n].from = "feishu" => sent'[n].body \in Bodies)
    BY <1>1 DEF IntakeInv, IntakeKnown, At
  <2>2. \A n \in asking' : sent'[n].from = "feishu"
    BY <1>1 DEF IntakeInv, IntakeTypes, IntakeKnown
  <2>3. \A j \in DOMAIN given' : given'[j].n \in DOMAIN sent' /\ Attached(j)' \subseteq DOMAIN sent'
    BY <1>1, <1>2 DEF IntakeInv, IntakeKnown
  <2>4. \A u \in Users : Kept(u)' \subseteq DOMAIN sent'
    BY <1>1, <1>2 DEF IntakeInv, IntakeKnown
  <2> QED BY <2>1, <2>2, <2>3, <2>4 DEF IntakeKnown
<1>5. TakesWhatIsSaidToItUnlessUnsure'
  BY <1>1 DEF IntakeInv, TakesWhatIsSaidToItUnlessUnsure, At
<1>6. MediaAreKept'
  <2> SUFFICES ASSUME intakeFaults' = 0 PROVE MediaAreKept'
    BY DEF MediaAreKept
  <2>1. intakeFaults = 0 /\ ~Taken(msg.n) /\ \A u \in Users : msg.n \notin Kept(u)
    BY DEF New
  <2>2. ASSUME NEW n \in asking' PROVE ~Taken(n)' /\ \A u \in Users : n \notin Kept(u)'
    BY <1>2, <2>1 DEF IntakeInv, MediaAreKept
  <2>3. ASSUME NEW u \in Users, NEW n \in Kept(u)' PROVE sent'[n].user = u /\ ~Taken(n)'
    BY <1>1, <1>2, <2>1 DEF IntakeInv, IntakeKnown, MediaAreKept
  <2>4. ASSUME NEW n \in DOMAIN sent', sent'[n].from = "feishu" /\ IsMedia(sent'[n].body) /\ n \notin asking'
        PROVE  Taken(n)' \/ n \in Kept(sent[n].user)'
    <3>1. n \in DOMAIN sent /\ sent'[n] = sent[n] /\ n \notin asking
      BY <1>1, <2>4
    <3>2. Taken(n) \/ n \in Kept(sent[n].user)
      BY <2>1, <2>4, <3>1 DEF IntakeInv, MediaAreKept
    <3>3. Kept(sent[n].user)' = Kept(sent[n].user)
      BY <3>1 DEF Kept
    <3> QED BY <1>2, <3>2, <3>3
  <2> QED BY <2>2, <2>3, <2>4 DEF MediaAreKept
<1>7. AttachedOnce'
  <2> SUFFICES ASSUME intakeFaults' = 0 PROVE AttachedOnce'
    BY DEF AttachedOnce
  <2> QED BY <1>1, <1>2 DEF IntakeInv, IntakeKnown, AttachedOnce, New
<1> QED BY <1>3, <1>4, <1>5, <1>6, <1>7 DEF IntakeInv

\* The handler up to its first await, whichever way it goes.
LEMMA ReceiveStep ==
  ASSUME IntakeInv, NEW msg, At(msg), New(msg), Receive(msg), msg.n \notin asking,
         group' = group, counted' = counted
  PROVE  IntakeInv'
<1>1. CASE Handled(msg) /\ (given' = given \/ Addressed(msg))
  BY <1>1, HandledTypes, HandledMedia, HandledTakes DEF IntakeInv, CountIsRight
<1>2. CASE asking' = asking \cup {msg.n} /\ given' = given /\ mediaCache' = mediaCache
  BY <1>2, AwaitedStep
<1>3. CASE Mentioned(msg.body) \/ setup.noMention
  <2>1. Addressed(msg)
    BY <1>3 DEF Mentioned, Addressed
  <2> QED BY <1>1, <1>3, <2>1 DEF Receive, Handled
<1>4. CASE ~(Mentioned(msg.body) \/ setup.noMention) /\ counted # Absent
  <2>1. Decide(msg, counted) /\ asking' = asking
    BY <1>4 DEF Receive
  <2>2. counted = group.members \/ group.changed
    BY <1>4 DEF IntakeInv, CountIsRight
  <2>3. CASE PrivateLike(counted)
    BY <1>1, <2>1, <2>2, <2>3 DEF Decide, PrivateLike, Addressed, Handled
  <2>4. CASE ~PrivateLike(counted)
    BY <1>1, <2>1, <2>4 DEF Decide, Handled, NotAddressed
  <2> QED BY <2>3, <2>4
<1>5. CASE ~(Mentioned(msg.body) \/ setup.noMention) /\ counted = Absent
  BY <1>2, <1>5 DEF Receive
<1> QED BY <1>3, <1>4, <1>5

LEMMA SentTyped == IntakeInv => \A n \in DOMAIN sent : sent[n] \in Message
<1> SUFFICES ASSUME sent \in Seq(Message), NEW n \in DOMAIN sent PROVE sent[n] \in Message
  BY DEF IntakeInv, IntakeTypes
<1> QED BY ElementOfSeq, LenProperties

\* A message that is sent is new to everything.
LEMMA SentIsNew ==
  ASSUME IntakeInv, NEW msg \in Message, msg.n = Len(sent) + 1, sent' = Append(sent, msg)
  PROVE  /\ sent' \in Seq(Message) /\ DOMAIN sent' = DOMAIN sent \cup {msg.n}
         /\ msg.n \notin DOMAIN sent /\ sent'[msg.n] = msg
         /\ \A n \in DOMAIN sent : sent'[n] = sent[n]
         /\ msg.n \notin asking /\ ~Taken(msg.n) /\ \A u \in Users : msg.n \notin Kept(u)
<1>1. /\ sent' \in Seq(Message) /\ DOMAIN sent' = DOMAIN sent \cup {msg.n}
      /\ msg.n \notin DOMAIN sent /\ sent'[msg.n] = msg
      /\ \A n \in DOMAIN sent : sent'[n] = sent[n]
  BY AppendProperties, LenProperties DEF IntakeInv, IntakeTypes
<1> QED BY <1>1 DEF IntakeInv, IntakeTypes, IntakeKnown, Taken

LEMMA ReceiveAsks ==
  ASSUME NEW msg, Receive(msg) PROVE asking' = asking \/ asking' = asking \cup {msg.n}
BY DEF Receive

LEMMA FeishuStep ==
  ASSUME IntakeInv, NEW u \in Users, NEW b \in Bodies, FeishuMessage(u, b)
  PROVE  IntakeInv'
<1> DEFINE msg == [n |-> Len(sent) + 1, user |-> u, body |-> b, from |-> "feishu"]
<1>1. PICK m : m = msg
  OBVIOUS
<1>2. /\ m \in Message /\ m.n = Len(sent) + 1 /\ m.from = "feishu" /\ m.body \in Bodies
      /\ sent' = Append(sent, m) /\ Receive(m)
      /\ UNCHANGED <<group, counted, setup, intakeFaults>>
  <2>1. Len(sent) \in Nat
    BY LenProperties DEF IntakeInv, IntakeTypes
  <2> QED BY <1>1, <2>1 DEF FeishuMessage, Message
<1>3. At(m)
  <2>1. asking' = asking \/ asking' = asking \cup {m.n}
    BY <1>2, ReceiveAsks
  <2>2. /\ sent' \in Seq(Message) /\ DOMAIN sent' = DOMAIN sent \cup {m.n} /\ sent'[m.n] = m
        /\ \A n \in DOMAIN sent : sent'[n] = sent[n]
    BY <1>2, SentIsNew
  <2> QED BY <1>2, <2>1, <2>2 DEF At, IntakeInv, IntakeTypes
<1>4. New(m)
  BY <1>2, SentIsNew DEF New
<1> QED BY <1>2, <1>3, <1>4, SentIsNew, ReceiveStep

\* A message that came before.
LEMMA SentBefore ==
  ASSUME IntakeInv, NEW n \in DOMAIN sent, sent[n].from = "feishu", sent' = sent, setup' = setup,
         intakeFaults' \in Nat, asking' \subseteq asking \cup {n}, asking \subseteq asking' \cup {n}
  PROVE  At(sent[n])
BY SentTyped DEF At, IntakeInv, IntakeTypes, IntakeKnown

LEMMA RedeliveredStep ==
  ASSUME IntakeInv, NEW n \in DOMAIN sent, Redelivered(n)
  PROVE  IntakeInv'
<1>1. sent[n].n = n /\ intakeFaults' \in Nat /\ intakeFaults' # 0
  BY DEF Redelivered, Trouble, IntakeInv, IntakeTypes, IntakeKnown
<1>2. At(sent[n]) /\ New(sent[n])
  BY <1>1, SentBefore, ReceiveAsks DEF Redelivered, New
<1> QED BY <1>1, <1>2, ReceiveStep DEF Redelivered

LEMMA CountedStep ==
  ASSUME IntakeInv, NEW n \in DOMAIN sent, Counted(n) \/ CountFails(n)
  PROVE  IntakeInv'
<1>1. /\ sent[n].n = n /\ sent[n].from = "feishu" /\ n \in asking /\ asking' = asking \ {n}
      /\ intakeFaults' \in Nat /\ (intakeFaults' = 0 => intakeFaults = 0)
      /\ sent' = sent /\ setup' = setup /\ group' = group
  BY DEF Counted, CountFails, Trouble, IntakeInv, IntakeTypes, IntakeKnown
<1>2. At(sent[n]) /\ New(sent[n])
  BY <1>1, SentBefore DEF New, IntakeInv, MediaAreKept
<1>3. Handled(sent[n]) /\ (given' = given \/ Addressed(sent[n]))
  BY <1>1 DEF Counted, CountFails, Decide, PrivateLike, NotAddressed, Handled, Addressed
<1>4. CountIsRight'
  BY DEF Counted, CountFails, IntakeInv, CountIsRight
<1> QED BY <1>1, <1>2, <1>3, <1>4, HandledTypes, HandledMedia, HandledTakes DEF IntakeInv

LEMMA TelegramStep ==
  ASSUME IntakeInv, NEW u \in Users, NEW b \in TgBodies, TelegramMessage(u, b)
  PROVE  IntakeInv'
<1>1. PICK m : m = [n |-> Len(sent) + 1, user |-> u, body |-> b, from |-> "telegram"]
  OBVIOUS
<1>2. PICK g : g = [n |-> m.n, user |-> u, from |-> "telegram", text |-> "words", images |-> 0, extra |-> <<>>]
  OBVIOUS
<1>3. /\ m \in Message /\ m.n = Len(sent) + 1 /\ m.from = "telegram" /\ m.body = b
      /\ sent' = Append(sent, m)
      /\ UNCHANGED <<asking, group, counted, mediaCache, setup, intakeFaults>>
      /\ \/ given' = given
         \/ given' = Append(given, g) /\ (TelegramMedia(b) \/ TelegramText(b))
  <2>1. Len(sent) \in Nat
    BY LenProperties DEF IntakeInv, IntakeTypes
  <2> QED BY <1>1, <1>2, <2>1 DEF TelegramMessage, Message
<1>4. /\ sent' \in Seq(Message) /\ DOMAIN sent' = DOMAIN sent \cup {m.n}
      /\ m.n \notin DOMAIN sent /\ sent'[m.n] = m
      /\ \A n \in DOMAIN sent : sent'[n] = sent[n]
      /\ m.n \notin asking /\ ~Taken(m.n) /\ \A v \in Users : m.n \notin Kept(v)
  BY <1>3, SentIsNew
<1>5. g \in Given /\ g.extra = <<>> /\ g.n = m.n /\ g.from = "telegram"
  BY <1>2, <1>3 DEF Given, Message
<1>6. PICK new : new = DOMAIN given' \ DOMAIN given
  OBVIOUS
<1>7. /\ DOMAIN given' = DOMAIN given \cup new
      /\ \A j \in DOMAIN given : given'[j] = given[j]
      /\ \A j \in new : j \notin DOMAIN given /\ given'[j] = g /\ (TelegramMedia(b) \/ TelegramText(b))
      /\ given' \in Seq(Given)
  <2>1. CASE given' = given
    BY <1>6, <2>1 DEF IntakeInv, IntakeTypes
  <2>2. CASE given' = Append(given, g) /\ (TelegramMedia(b) \/ TelegramText(b))
    <3>1. PICK last : last = Len(given) + 1
      OBVIOUS
    <3>2. /\ DOMAIN given' = DOMAIN given \cup {last} /\ last \notin DOMAIN given /\ given'[last] = g
          /\ \A j \in DOMAIN given : given'[j] = given[j]
          /\ given' \in Seq(Given)
      BY <1>5, <2>2, <3>1, AppendProperties, LenProperties DEF IntakeInv, IntakeTypes
    <3> QED BY <1>6, <2>2, <3>2
  <2> QED BY <1>3, <2>1, <2>2
<1>8. /\ \A j \in DOMAIN given : Attached(j)' = Attached(j)
      /\ \A j \in new : Attached(j)' = {}
      /\ \A v \in Users : Kept(v)' = Kept(v)
      /\ \A n : Taken(n) => Taken(n)'
      /\ \A n \in DOMAIN sent : Taken(n)' => Taken(n)
  <2>1. (\A j \in DOMAIN given : Attached(j)' = Attached(j)) /\ \A j \in new : Attached(j)' = {}
    BY <1>5, <1>7 DEF Attached
  <2>2. \A v \in Users : Kept(v)' = Kept(v)
    BY <1>3 DEF Kept
  <2> QED BY <1>4, <1>5, <1>7, <2>1, <2>2 DEF Taken
<1>9. IntakeTypes' /\ CountIsRight'
  BY <1>3, <1>4, <1>7 DEF IntakeInv, IntakeTypes, CountIsRight
<1>10. IntakeKnown'
  <2>1. \A j \in DOMAIN given' : given'[j].n \in DOMAIN sent' /\ Attached(j)' \subseteq DOMAIN sent'
    BY <1>4, <1>5, <1>7, <1>8 DEF IntakeInv, IntakeKnown
  <2> QED BY <1>3, <1>4, <1>8, <2>1 DEF IntakeInv, IntakeTypes, IntakeKnown
<1>11. TakesWhatIsSaidToItUnlessUnsure'
  <2>1. ASSUME NEW i \in new
        PROVE  b.at = "bot" \/ b.media \/ b.command
    BY <1>7 DEF TelegramMedia, TelegramText
  <2>2. \A j \in DOMAIN given : sent'[given[j].n] = sent[given[j].n]
    BY <1>4 DEF IntakeInv, IntakeKnown
  <2> DEFINE right(i) ==
        LET body == sent[given[i].n].body IN
        \/ body.at = "bot" \/ ~setup.knowsSelf
        \/ given[i].from = "telegram" /\ (body.media \/ body.command)
        \/ /\ given[i].from = "feishu"
           /\ setup.noMention \/ group.changed \/ group.members = 2
  <2>3. ASSUME NEW i \in DOMAIN given PROVE right(i)'
    <3>1. right(i)
      BY DEF IntakeInv, TakesWhatIsSaidToItUnlessUnsure
    <3>2. given'[i] = given[i] /\ sent'[given[i].n] = sent[given[i].n] /\ UNCHANGED <<group, setup>>
      BY <1>3, <1>7, <2>2
    <3> QED BY <3>1, <3>2
  <2>4. ASSUME NEW i \in new PROVE right(i)'
    <3>1. sent'[given'[i].n].body = b /\ given'[i].from = "telegram"
      BY <1>3, <1>4, <1>5, <1>7
    <3> QED BY <2>1, <3>1
  <2> QED BY <1>7, <2>3, <2>4 DEF TakesWhatIsSaidToItUnlessUnsure
<1>12. MediaAreKept'
  <2> SUFFICES ASSUME intakeFaults = 0 PROVE MediaAreKept'
    BY <1>3 DEF MediaAreKept
  <2>1. \A n \in DOMAIN sent : Kept(sent[n].user)' = Kept(sent[n].user)
    BY <1>3, <1>4 DEF Kept
  <2> QED BY <1>3, <1>4, <1>8, <2>1 DEF IntakeInv, IntakeTypes, IntakeKnown, MediaAreKept
<1>13. AttachedOnce'
  <2> SUFFICES ASSUME intakeFaults = 0 PROVE AttachedOnce'
    BY <1>3 DEF AttachedOnce
  <2> QED BY <1>4, <1>5, <1>7, <1>8 DEF IntakeInv, IntakeKnown, AttachedOnce
<1> QED BY <1>9, <1>10, <1>11, <1>12, <1>13 DEF IntakeInv

LEMMA RestOf ==
  ASSUME NEW S, NEW s \in Seq(S), NEW k \in 1..Len(s)
  PROVE  /\ SubSeq(s, k + 1, Len(s)) \in Seq(S)
         /\ \A i \in DOMAIN SubSeq(s, k + 1, Len(s)) :
              \E j \in DOMAIN s : SubSeq(s, k + 1, Len(s))[i] = s[j]
<1> DEFINE rest == SubSeq(s, k + 1, Len(s))
<1>1. Len(s) \in Nat /\ DOMAIN s = 1..Len(s) /\ \A i \in 1..Len(s) : s[i] \in S
  BY LenProperties, ElementOfSeq
<1>2. k + 1 \in Int /\ Len(s) \in Int /\ \A i \in (k + 1)..Len(s) : s[i] \in S
  BY <1>1
<1>3. /\ rest \in Seq(S)
      /\ Len(rest) = IF k + 1 <= Len(s) THEN Len(s) - (k + 1) + 1 ELSE 0
      /\ \A i \in 1..(Len(s) - (k + 1) + 1) : rest[i] = s[(k + 1) + i - 1]
  <2> HIDE DEF rest
  <2> QED BY <1>2, SubSeqProperties DEF rest
<1>4. DOMAIN rest = 1..Len(rest)
  BY <1>3, LenProperties
<1> HIDE DEF rest
<1>5. ASSUME NEW i \in DOMAIN rest PROVE \E j \in DOMAIN s : rest[i] = s[j]
  <2>1. CASE k + 1 <= Len(s)
    <3>1. Len(rest) = Len(s) - (k + 1) + 1 /\ i \in 1..(Len(s) - (k + 1) + 1)
      BY <1>3, <1>4, <2>1
    <3>2. (k + 1) + i - 1 \in 1..Len(s)
      BY <1>1, <2>1, <3>1
    <3> QED BY <1>1, <1>3, <3>1, <3>2
  <2>2. CASE ~(k + 1 <= Len(s))
    <3>1. Len(rest) = 0
      BY <1>3, <2>2
    <3> QED BY <1>4, <3>1
  <2> QED BY <2>1, <2>2
<1> QED BY <1>3, <1>5 DEF rest

\* Media expire: they leave the cache, and nothing else is said any more.
LEMMA ExpiryStep ==
  ASSUME IntakeInv, NEW u \in Users, MediaExpires(u)
  PROVE  IntakeInv'
<1>1. PICK k \in DOMAIN mediaCache[u] :
        mediaCache' = [mediaCache EXCEPT ![u] = SubSeq(mediaCache[u], k + 1, Len(mediaCache[u]))]
  BY DEF MediaExpires
<1> DEFINE old == mediaCache[u]
           left == SubSeq(old, k + 1, Len(old))
<1>2. old \in Seq(Nat) /\ k \in 1..Len(old)
  BY LenProperties DEF IntakeInv, IntakeTypes
<1>3. left \in Seq(Nat) /\ \A i \in DOMAIN left : \E j \in DOMAIN old : left[i] = old[j]
  BY <1>2, RestOf
<1>4. Kept(u)' \subseteq Kept(u) /\ \A v \in Users \ {u} : Kept(v)' = Kept(v)
  <2>1. mediaCache'[u] = left /\ \A v \in Users \ {u} : mediaCache'[v] = mediaCache[v]
    BY <1>1 DEF IntakeInv, IntakeTypes
  <2> HIDE DEF left
  <2> QED BY <1>3, <2>1 DEF Kept
<1>5. IntakeTypes'
  <2>1. mediaCache' \in [Users -> Seq(Nat)]
    BY <1>1, <1>3 DEF IntakeInv, IntakeTypes
  <2> QED BY <2>1 DEF MediaExpires, Trouble, IntakeInv, IntakeTypes
<1>6. IntakeKnown'
  BY <1>4 DEF MediaExpires, IntakeInv, IntakeKnown, Attached
<1>7. CountIsRight' /\ TakesWhatIsSaidToItUnlessUnsure'
  BY DEF MediaExpires, IntakeInv, CountIsRight, TakesWhatIsSaidToItUnlessUnsure
<1>8. MediaAreKept' /\ AttachedOnce'
  BY DEF MediaExpires, Trouble, IntakeInv, IntakeTypes, MediaAreKept, AttachedOnce
<1> QED BY <1>5, <1>6, <1>7, <1>8 DEF IntakeInv

LEMMA IntakeStep == IntakeInv /\ [IntakeNext]_intakeVars => IntakeInv'
<1> SUFFICES ASSUME IntakeInv, [IntakeNext]_intakeVars PROVE IntakeInv'
  OBVIOUS
<1>1. ASSUME NEW u \in Users, NEW b \in Bodies, FeishuMessage(u, b) PROVE IntakeInv'
  BY <1>1, FeishuStep
<1>2. ASSUME NEW u \in Users, NEW b \in TgBodies, TelegramMessage(u, b) PROVE IntakeInv'
  BY <1>2, TelegramStep
<1>3. ASSUME NEW n \in DOMAIN sent, Redelivered(n) \/ Counted(n) \/ CountFails(n) PROVE IntakeInv'
  BY <1>3, RedeliveredStep, CountedStep
<1>4. CASE CountExpires \/ MembersChange
  <2>1. intakeFaults' \in Nat /\ intakeFaults' # 0
    <3>1. intakeFaults' = intakeFaults + 1
      BY <1>4 DEF CountExpires, MembersChange, Trouble
    <3> QED BY <3>1 DEF IntakeInv, IntakeTypes
  <2>2. MediaAreKept' /\ AttachedOnce'
    BY <2>1 DEF MediaAreKept, AttachedOnce
  <2>3. IntakeTypes' /\ IntakeKnown'
    <3>1. UNCHANGED <<sent, asking, mediaCache, given>>
      BY <1>4 DEF CountExpires, MembersChange
    <3> QED BY <2>1, <3>1 DEF IntakeInv, IntakeTypes, IntakeKnown, Kept, Attached
  <2>4. CountIsRight' /\ TakesWhatIsSaidToItUnlessUnsure'
    BY <1>4 DEF CountExpires, MembersChange, IntakeInv, CountIsRight, TakesWhatIsSaidToItUnlessUnsure
  <2> QED BY <2>2, <2>3, <2>4 DEF IntakeInv
<1>5. ASSUME NEW u \in Users, MediaExpires(u) PROVE IntakeInv'
  BY <1>5, ExpiryStep
<1>6. CASE UNCHANGED intakeVars
  BY <1>6 DEF intakeVars, IntakeInv, IntakeTypes, IntakeKnown, CountIsRight, MediaAreKept, AttachedOnce,
     TakesWhatIsSaidToItUnlessUnsure, Kept, Attached, Taken
<1> QED BY <1>1, <1>2, <1>3, <1>4, <1>5, <1>6 DEF IntakeNext

LEMMA IntakeStarts == IntakeInit => IntakeInv
<1> SUFFICES ASSUME IntakeInit PROVE IntakeInv
  OBVIOUS
<1>1. sent = <<>> /\ given = <<>> /\ mediaCache = [u \in Users |-> <<>>] /\ asking = {} /\ counted = Absent
  BY DEF IntakeInit
<1>2. IntakeTypes
  BY <1>1 DEF IntakeInit, IntakeTypes
<1>3. \A u \in Users : Kept(u) = {}
  BY <1>1 DEF Kept
<1> QED BY <1>1, <1>2, <1>3 DEF IntakeInv, IntakeKnown, CountIsRight, MediaAreKept, AttachedOnce, TakesWhatIsSaidToItUnlessUnsure

\* In a group, whatever events overtake each other at the member count, come twice
\* or are given up: a bot takes in what is said to it and nothing else, while it
\* knows who it is and the group stays as it is; and as long as nothing came
\* twice, a file or picture goes with one message only, of its own user.
THEOREM IntakeIsSound == IntakeSpec => []IntakeIsSoundUnlessUnsure
<1>1. IntakeInv => IntakeIsSoundUnlessUnsure
  BY OnceMeansOnce DEF IntakeInv, IntakeIsSoundUnlessUnsure
<1> QED BY <1>1, IntakeStarts, IntakeStep, PTL DEF IntakeSpec

\* A medium that waits is kept.
LEMMA WaitingAreKept ==
  ASSUME IntakeInv, intakeFaults = 0, NEW n \in DOMAIN sent, NEW u, Waits(n, u)
  PROVE  n \in Kept(u)
BY DEF IntakeInv, MediaAreKept, Waits, Taken, Attached

LEMMA SentBeforeNumber ==
  ASSUME IntakeInv, NEW msg, At(msg), NEW n \in 1..(msg.n - 1)
  PROVE  n \in DOMAIN sent
<1>1. /\ DOMAIN sent = 1..Len(sent) /\ DOMAIN sent' = 1..Len(sent') /\ Len(sent) \in Nat /\ Len(sent') \in Nat
      /\ DOMAIN sent' \subseteq DOMAIN sent \cup {msg.n} /\ msg.n \in DOMAIN sent'
  BY LenProperties DEF At, IntakeInv, IntakeTypes
<1> QED BY <1>1

LEMMA MentionStep ==
  ASSUME IntakeInv, NEW msg, At(msg), intakeFaults' = intakeFaults, Process(msg)
  PROVE  /\ GivenWithTheMedia
         /\ ~Usable(msg.body) => mediaCache' = mediaCache
<1>1. CASE Usable(msg.body)
  <2>1. PICK last :
          /\ DOMAIN given' = DOMAIN given \cup {last}
          /\ given'[last].n = msg.n /\ given'[last].user = msg.user
          /\ Attached(last)' = Kept(msg.user)
    BY <1>1, ProcessGives
  <2> SUFFICES ASSUME intakeFaults = 0, NEW n \in 1..(msg.n - 1), Waits(n, msg.user)
               PROVE  n \in Kept(msg.user)
    BY <1>1, <2>1 DEF GivenWithTheMedia, Attached
  <2> QED BY SentBeforeNumber, WaitingAreKept
<1>2. CASE ~Usable(msg.body)
  BY <1>2 DEF Process, GivenWithTheMedia
<1> QED BY <1>1, <1>2

\* A mention takes along every file and picture of its user that came before it
\* and that no other message has, whichever events overtake each other at the
\* member count: only those that still wait there are left behind.  A mention
\* without a word is dropped and takes none along, and they wait for the next.
THEOREM MentionsCarryTheirMedia == IntakeSpec => MentionCarriesTheMediaUnlessOvertakenOrBare
<1>1. IntakeInv /\ [IntakeNext]_intakeVars => [MentionCarriesTheMedia]_intakeVars
  <2> SUFFICES ASSUME IntakeInv, IntakeNext PROVE MentionCarriesTheMedia
    BY DEF intakeVars
  <2>1. CASE intakeFaults' # 0
    BY <2>1 DEF MentionCarriesTheMedia, GivenWithTheMedia, BareLeavesTheMedia
  <2>2. ASSUME NEW u \in Users, NEW b \in Bodies, FeishuMessage(u, b) PROVE MentionCarriesTheMedia
    <3>1. PICK m : m = [n |-> Len(sent) + 1, user |-> u, body |-> b, from |-> "feishu"]
      OBVIOUS
    <3>2. Receive(m) /\ sent' = Append(sent, m) /\ UNCHANGED <<setup, intakeFaults>>
      BY <2>2, <3>1 DEF FeishuMessage
    <3>3. m \in Message /\ m.n = Len(sent) + 1 /\ m.from = "feishu" /\ m.body \in Bodies
      BY <3>1, LenProperties DEF Message, IntakeInv, IntakeTypes
    <3>4. /\ sent' \in Seq(Message) /\ DOMAIN sent' = DOMAIN sent \cup {m.n} /\ sent'[m.n] = m
          /\ \A n \in DOMAIN sent : sent'[n] = sent[n]
      BY <3>2, <3>3, SentIsNew
    <3>5. At(m)
      <4>1. asking' = asking \/ asking' = asking \cup {m.n}
        BY <3>2, ReceiveAsks
      <4> QED BY <3>2, <3>3, <3>4, <4>1 DEF At, IntakeInv, IntakeTypes
    <3>6. GivenWithTheMedia
      <4>1. CASE Process(m)
        BY <3>2, <3>5, <4>1, MentionStep
      <4>2. CASE UNCHANGED given
        BY <4>2 DEF GivenWithTheMedia
      <4> QED BY <3>2, <4>1, <4>2 DEF Receive, Decide, NotAddressed
    <3>7. BareLeavesTheMedia
      <4> SUFFICES ASSUME NEW i \in DOMAIN sent' \ DOMAIN sent, Mentioned(sent'[i].body), ~Usable(sent'[i].body),
                          intakeFaults' = 0, NEW n \in 1..(i - 1), Waits(n, sent'[i].user)
                   PROVE  \E k \in DOMAIN mediaCache'[sent'[i].user] : mediaCache'[sent'[i].user][k] = n
        BY DEF BareLeavesTheMedia
      <4>0. /\ i = m.n /\ sent'[i] = m /\ Mentioned(m.body) /\ ~Usable(m.body) /\ intakeFaults = 0
            /\ n \in 1..(m.n - 1) /\ Waits(n, m.user)
        BY <3>2, <3>4
      <4>1. Process(m)
        BY <3>2, <4>0 DEF Receive
      <4>2. mediaCache' = mediaCache
        BY <3>2, <3>5, <4>0, <4>1, MentionStep
      <4>3. n \in Kept(m.user)
        BY <3>5, <4>0, SentBeforeNumber, WaitingAreKept
      <4> QED BY <4>0, <4>2, <4>3 DEF Kept
    <3> QED BY <3>6, <3>7 DEF MentionCarriesTheMedia
  <2>3. ASSUME NEW u \in Users, NEW b \in TgBodies, TelegramMessage(u, b) PROVE MentionCarriesTheMedia
    <3>1. PICK m : m = [n |-> Len(sent) + 1, user |-> u, body |-> b, from |-> "telegram"]
      OBVIOUS
    <3>2. m \in Message /\ m.n = Len(sent) + 1 /\ m.from = "telegram" /\ sent' = Append(sent, m)
      BY <2>3, <3>1, LenProperties DEF TelegramMessage, Message, IntakeInv, IntakeTypes
    <3>3. DOMAIN sent' = DOMAIN sent \cup {m.n} /\ sent'[m.n] = m
      BY <3>2, SentIsNew
    <3>4. BareLeavesTheMedia
      BY <3>2, <3>3 DEF BareLeavesTheMedia
    <3>5. PICK g : g = [n |-> Len(sent) + 1, user |-> u, from |-> "telegram", text |-> "words",
                        images |-> 0, extra |-> <<>>]
      OBVIOUS
    <3>6. (given' = Append(given, g) \/ given' = given) /\ g.from = "telegram" /\ g \in Given
      BY <2>3, <3>5, LenProperties DEF TelegramMessage, Given, IntakeInv, IntakeTypes
    <3>7. \A i \in DOMAIN given' \ DOMAIN given : given'[i].from = "telegram"
      BY <3>6, AppendProperties, LenProperties DEF IntakeInv, IntakeTypes
    <3> QED BY <3>4, <3>7 DEF MentionCarriesTheMedia, GivenWithTheMedia
  <2>4. ASSUME NEW n \in DOMAIN sent, Counted(n) PROVE MentionCarriesTheMedia
    <3>1. UNCHANGED <<sent, setup, intakeFaults>> /\ asking' = asking \ {n} /\ n \in asking
      BY <2>4 DEF Counted
    <3>2. At(sent[n])
      BY <3>1, SentBefore DEF IntakeInv, IntakeTypes, IntakeKnown
    <3>3. GivenWithTheMedia
      <4>1. CASE Process(sent[n])
        BY <3>1, <3>2, <4>1, MentionStep
      <4>2. CASE UNCHANGED given
        BY <4>2 DEF GivenWithTheMedia
      <4> QED BY <2>4, <4>1, <4>2 DEF Counted, Decide, NotAddressed
    <3> QED BY <3>1, <3>3 DEF MentionCarriesTheMedia, BareLeavesTheMedia
  <2>5. ASSUME NEW n \in DOMAIN sent, Redelivered(n) \/ CountFails(n) PROVE intakeFaults' # 0
    BY <2>5 DEF Redelivered, CountFails, Trouble, IntakeInv, IntakeTypes
  <2>6. ASSUME CountExpires \/ MembersChange \/ \E u \in Users : MediaExpires(u) PROVE MentionCarriesTheMedia
    BY <2>6 DEF CountExpires, MembersChange, MediaExpires, MentionCarriesTheMedia, GivenWithTheMedia, BareLeavesTheMedia
  <2> QED BY <2>1, <2>2, <2>3, <2>4, <2>5, <2>6 DEF IntakeNext
<1> QED BY <1>1, IntakeStarts, IntakeStep, PTL DEF IntakeSpec, MentionCarriesTheMediaUnlessOvertakenOrBare

=============================================================================
