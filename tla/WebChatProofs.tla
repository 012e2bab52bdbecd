--------------------------- MODULE WebChatProofs ---------------------------
(***************************************************************************)
(* Proofs about the chat of the web interface, for every number of sockets *)
(* the page opens, of messages typed and of things that go wrong: what the *)
(* page shows as under way has its last word coming.                       *)
(*                                                                         *)
(* The invariant follows a message from the page's request over its task   *)
(* to the last word (Reaches, Settles), through the sockets the page still *)
(* hears (Heeded); one lemma per action says that it is kept.              *)
(***************************************************************************)
EXTENDS WebChat, SequenceTheorems, FiniteSetTheorems, TLAPS

(* What holds of the chat at all times. *************************************)

ChatTypes ==
  /\ isGroup \in BOOLEAN /\ grouped \in BOOLEAN
  /\ session \in Seq(ChatRow) \cup {Null}
  /\ mounted \subseteq Hooks /\ sock \in [Hooks -> Conns \cup {0}]
  /\ conns \in [Conns -> Connection \cup {Null}]
  /\ subs \subseteq Conns /\ pending \subseteq Conns \X Ids
  /\ task \in [Ids -> ChatTask \cup {Null}] /\ running \in Ids \cup {0}
  /\ row \in Nat \cup {Null}
  /\ sent \in 0..MaxSends
  /\ excused \subseteq Ids /\ overlap \in BOOLEAN /\ doubled \in BOOLEAN

\* What is not over is an answer to a message that was sent.
OnlyAnswersWait ==
  session # Null => \A i \in 1..Len(session) :
    session[i].st # "complete" => session[i].kind = "assistant" /\ session[i].id \in Ids

\* What a connection carries of a message: its request, a word that shows it as
\* under way, its last word with no such word behind it.
Carries(c, id) == c # Null /\ \E i \in 1..Len(c.up) : c.up[i].type = "chat" /\ c.up[i].id = id

Stirring(m, id) == m.type = "state" /\ m.id = id /\ m.st \notin {"complete", "error"}
Ending(m, id) ==
  m.type \in {"state", "error"} /\ m.id = id /\ (m.type = "state" => m.st \in {"complete", "error"})

Stirs(c, id) == c # Null /\ \E i \in 1..Len(c.down) : Stirring(c.down[i], id)
Settles(c, id) ==
  c # Null /\ \E i \in 1..Len(c.down) :
    Ending(c.down[i], id) /\ \A j \in 1..Len(c.down) : j > i => ~Stirring(c.down[j], id)

\* No message is requested twice.
Once(c) ==
  \A i, j \in 1..Len(c.up) :
    c.up[i].type = "chat" /\ c.up[j].type = "chat" /\ c.up[i].id = c.up[j].id => i = j

\* The connections the page holds whose link is not broken.
Heeded == {k \in Held : conns[k].alive}

Sockets ==
  /\ \A h \in Hooks : sock[h] # 0 =>
       conns[sock[h]] # Null /\ ~conns[sock[h]].left /\ (conns[sock[h]].alive => conns[sock[h]].open)
  /\ sock["layout"] # 0 => sock["layout"] # sock["view"]
  /\ \A k \in Conns : conns[k] # Null /\ conns[k].up # << >> => conns[k].alive /\ (k \in Held \/ conns[k].left)
  /\ \A k \in Conns : conns[k] # Null /\ conns[k].down # << >> => conns[k].alive

\* Who is subscribed: the connections of tasks, one at most of those held.
Subscribed ==
  /\ grouped => isGroup
  /\ subs \subseteq Open
  /\ \A id \in Ids : task[id] # Null =>
       conns[task[id].conn] # Null /\ (task[id].conn \in Open => task[id].conn \in subs)
  /\ ~isGroup => sock["layout"] \notin subs
  /\ ~doubled => \A k, l \in Held \cap subs : k = l

\* A question is held by the connection of its task; the chat's entry is a task's.
Questions ==
  /\ \A k \in Conns, id \in Ids : <<k, id>> \in pending => task[id] # Null /\ task[id].conn = k
  /\ running # 0 => task[running] # Null

\* A request is on one connection, once, and has no task yet.
Asked ==
  /\ \A k \in Conns : conns[k] # Null => Once(conns[k])
  /\ \A k \in Conns, id \in Ids : Carries(conns[k], id) =>
       /\ task[id] = Null /\ id <= sent
       /\ k = sock["view"] \/ (conns[k].left /\ id \in excused)
  /\ \A k, l \in Conns, id \in Ids : Carries(conns[k], id) /\ Carries(conns[l], id) => k = l
  /\ \A id \in Ids : task[id] # Null => id <= sent

\* What shows a message as under way comes to a subscriber, of its task.
Spoken == \A k \in Heeded, id \in Ids : Stirs(conns[k], id) => k \in subs /\ task[id] # Null

\* The last word on a message will reach the page.
Reaches(id) ==
  \/ \E k \in Heeded : Carries(conns[k], id)
  \/ /\ Live(id) /\ task[id].phase # "outputs"
     /\ Heeded \cap Receivers(task[id].conn, Open, subs) # {}
     /\ task[id].phase = "starting" => task[id].conn \in Heeded

Shows(id, sts) == session # Null /\ \E i \in 1..Len(session) : session[i].id = id /\ session[i].st \in sts

\* What the page shows, or will, as under way has its last word coming; a
\* connection whose link is broken will mark it when the page notices.
ServedFor(id) ==
  /\ \A k \in Heeded : Stirs(conns[k], id) => Settles(conns[k], id) \/ Reaches(id)
  /\ Shows(id, {"waiting"}) \/ (Shows(id, Thinking) /\ Heeded = Held) =>
       Reaches(id) \/ \E k \in Heeded : Settles(conns[k], id)
Served == ~doubled => \A id \in Ids \ excused : ServedFor(id)

\* One task at a time.
OneLive == ~overlap => \A i, j \in Ids : Live(i) /\ Live(j) => i = j
Entered == OneLive /\ AskingCanResumeUnlessRetried /\ AtWorkIsEnteredUnlessOverlapped

ChatInv ==
  ChatTypes /\ OnlyAnswersWait /\ Sockets /\ Subscribed /\ Questions /\ Asked /\ Spoken /\ Served /\ Entered

(* What happens to a connection. ********************************************)

LEMMA HeardWord ==
  ASSUME NEW c \in Connection, NEW m \in Reply, NEW d, d = [c EXCEPT !.down = Append(c.down, m)]
  PROVE  /\ d \in Connection /\ d.up = c.up
         /\ d.alive = c.alive /\ d.open = c.open /\ d.left = c.left
         /\ \A id \in Ids :
              /\ Stirs(d, id) => Stirs(c, id) \/ Stirring(m, id)
              /\ Settles(c, id) /\ ~Stirring(m, id) => Settles(d, id)
              /\ Ending(m, id) => Settles(d, id)
<1>1. c.down \in Seq(Reply) /\ Len(c.down) \in Nat
  BY DEF Connection
<1>2. /\ d \in Connection /\ d.up = c.up /\ d.down = Append(c.down, m)
      /\ d.alive = c.alive /\ d.open = c.open /\ d.left = c.left
  <2>1. Append(c.down, m) \in Seq(Reply)
    BY <1>1
  <2> QED BY <2>1 DEF Connection
<1>3. d # Null /\ c # Null
  BY <1>2, ChatAssumption
<1>4. /\ Len(d.down) = Len(c.down) + 1 /\ d.down[Len(c.down) + 1] = m
      /\ \A i \in 1..Len(c.down) : d.down[i] = c.down[i]
  BY <1>1, <1>2
<1> SUFFICES ASSUME NEW id \in Ids
             PROVE  /\ Stirs(d, id) => Stirs(c, id) \/ Stirring(m, id)
                    /\ Settles(c, id) /\ ~Stirring(m, id) => Settles(d, id)
                    /\ Ending(m, id) => Settles(d, id)
  BY <1>2
<1>5. \A i \in 1..Len(d.down) : i \in 1..Len(c.down) \/ i = Len(c.down) + 1
  BY <1>1, <1>4
<1>6. Stirs(d, id) => Stirs(c, id) \/ Stirring(m, id)
  BY <1>1, <1>3, <1>4, <1>5 DEF Stirs
<1>7. Settles(c, id) /\ ~Stirring(m, id) => Settles(d, id)
  BY <1>1, <1>3, <1>4, <1>5 DEF Settles
<1>8. Ending(m, id) => Settles(d, id)
  <2>1. Len(c.down) + 1 \in 1..Len(d.down) /\ \A j \in 1..Len(d.down) : ~(j > Len(c.down) + 1)
    BY <1>1, <1>4
  <2> QED BY <2>1, <1>3, <1>4 DEF Settles
<1> QED BY <1>6, <1>7, <1>8

MoreWords(c, d, ms) ==
  /\ d \in Connection /\ d.up = c.up
  /\ d.alive = c.alive /\ d.open = c.open /\ d.left = c.left
  /\ \A id \in Ids :
       /\ Stirs(d, id) => Stirs(c, id)
       /\ Settles(c, id) => Settles(d, id)
       /\ (\E i \in 1..Len(ms) : Ending(ms[i], id)) => Settles(d, id)

LEMMA HeardWords ==
  ASSUME NEW c \in Connection, NEW ms \in Seq(Reply), NEW d, d = [c EXCEPT !.down = c.down \o ms],
         \A i \in 1..Len(ms), id \in Ids : ~Stirring(ms[i], id)
  PROVE  MoreWords(c, d, ms)
<1>1. c.down \in Seq(Reply) /\ Len(c.down) \in Nat /\ Len(ms) \in Nat
  BY DEF Connection
<1>2. /\ d \in Connection /\ d.up = c.up /\ d.down = c.down \o ms
      /\ d.alive = c.alive /\ d.open = c.open /\ d.left = c.left
  <2>1. c.down \o ms \in Seq(Reply)
    BY <1>1
  <2> QED BY <2>1 DEF Connection
<1>3. d # Null /\ c # Null
  BY <1>2, ChatAssumption
<1>4. /\ Len(d.down) = Len(c.down) + Len(ms)
      /\ \A i \in 1..Len(c.down) : d.down[i] = c.down[i]
      /\ \A i \in 1..Len(ms) : d.down[Len(c.down) + i] = ms[i]
  <2>1. Len(c.down \o ms) = Len(c.down) + Len(ms)
    BY <1>1
  <2>2. \A i \in 1..Len(c.down) : (c.down \o ms)[i] = c.down[i]
    BY <1>1
  <2>3. ASSUME NEW i \in 1..Len(ms) PROVE (c.down \o ms)[Len(c.down) + i] = ms[i]
    <3>1. Len(c.down) + i \in 1..(Len(c.down) + Len(ms)) /\ Len(c.down) + i > Len(c.down)
          /\ (Len(c.down) + i) - Len(c.down) = i
      BY <1>1
    <3> QED BY <1>1, <3>1
  <2> QED BY <1>2, <2>1, <2>2, <2>3
<1> SUFFICES ASSUME NEW id \in Ids
             PROVE  /\ Stirs(d, id) => Stirs(c, id)
                    /\ Settles(c, id) => Settles(d, id)
                    /\ (\E i \in 1..Len(ms) : Ending(ms[i], id)) => Settles(d, id)
  BY <1>2 DEF MoreWords
<1>5. ASSUME NEW i \in 1..Len(d.down) PROVE i \in 1..Len(c.down) \/ ~Stirring(d.down[i], id)
  <2>1. CASE i \in 1..Len(c.down)
    BY <2>1
  <2>2. CASE i \notin 1..Len(c.down)
    <3>1. i - Len(c.down) \in 1..Len(ms) /\ Len(c.down) + (i - Len(c.down)) = i
      BY <2>2, <1>1, <1>4
    <3>2. d.down[i] = ms[i - Len(c.down)]
      BY <3>1, <1>4
    <3> QED BY <3>1, <3>2
  <2> QED BY <2>1, <2>2
<1>6. Stirs(d, id) => Stirs(c, id)
  BY <1>1, <1>3, <1>4, <1>5 DEF Stirs
<1>7. Settles(c, id) => Settles(d, id)
  <2> SUFFICES ASSUME Settles(c, id) PROVE Settles(d, id)
    OBVIOUS
  <2>1. PICK i \in 1..Len(c.down) :
          Ending(c.down[i], id) /\ \A j \in 1..Len(c.down) : j > i => ~Stirring(c.down[j], id)
    BY DEF Settles
  <2>2. i \in 1..Len(d.down) /\ d.down[i] = c.down[i]
    BY <1>1, <1>4
  <2>3. ASSUME NEW j \in 1..Len(d.down), j > i PROVE ~Stirring(d.down[j], id)
    BY <2>1, <2>3, <1>4, <1>5
  <2> QED BY <2>1, <2>2, <2>3, <1>3 DEF Settles
<1>8. (\E i \in 1..Len(ms) : Ending(ms[i], id)) => Settles(d, id)
  <2> SUFFICES ASSUME NEW i \in 1..Len(ms), Ending(ms[i], id) PROVE Settles(d, id)
    OBVIOUS
  <2>1. Len(c.down) + i \in 1..Len(d.down) /\ d.down[Len(c.down) + i] = ms[i]
    BY <1>1, <1>4
  <2>2. ASSUME NEW j \in 1..Len(d.down), j > Len(c.down) + i PROVE ~Stirring(d.down[j], id)
    <3>1. j \notin 1..Len(c.down)
      BY <2>2, <1>1
    <3> QED BY <3>1, <1>5
  <2> QED BY <2>1, <2>2, <1>3 DEF Settles
<1> QED BY <1>6, <1>7, <1>8

LEMMA ReadWord ==
  ASSUME NEW c \in Connection, c.down # << >>, NEW d, d = [c EXCEPT !.down = Tail(c.down)]
  PROVE  /\ d \in Connection /\ d.up = c.up /\ Head(c.down) \in Reply
         /\ d.alive = c.alive /\ d.open = c.open /\ d.left = c.left
         /\ \A id \in Ids :
              /\ Stirs(d, id) => Stirs(c, id)
              /\ Settles(c, id) /\ (Stirs(d, id) \/ ~Ending(Head(c.down), id)) => Settles(d, id)
              /\ Stirring(Head(c.down), id) => Stirs(c, id)
<1>1. c.down \in Seq(Reply) /\ Len(c.down) \in Nat \ {0}
  BY EmptySeq DEF Connection
<1>2. /\ d \in Connection /\ d.up = c.up /\ d.down = Tail(c.down) /\ Head(c.down) \in Reply
      /\ d.alive = c.alive /\ d.open = c.open /\ d.left = c.left
  <2>1. Tail(c.down) \in Seq(Reply) /\ Head(c.down) \in Reply
    BY <1>1, HeadTailProperties DEF Connection
  <2> QED BY <2>1 DEF Connection
<1>3. d # Null /\ c # Null
  BY <1>2, ChatAssumption
<1>4. /\ Len(d.down) = Len(c.down) - 1 /\ Head(c.down) = c.down[1]
      /\ \A i \in 1..Len(d.down) : d.down[i] = c.down[i + 1] /\ i + 1 \in 1..Len(c.down)
  BY <1>1, <1>2
<1> SUFFICES ASSUME NEW id \in Ids
             PROVE  /\ Stirs(d, id) => Stirs(c, id)
                    /\ Settles(c, id) /\ (Stirs(d, id) \/ ~Ending(Head(c.down), id)) => Settles(d, id)
                    /\ Stirring(Head(c.down), id) => Stirs(c, id)
  BY <1>2
<1>5. Stirs(d, id) => Stirs(c, id)
  BY <1>1, <1>3, <1>4 DEF Stirs
<1>6. Stirring(Head(c.down), id) => Stirs(c, id)
  <2>1. 1 \in 1..Len(c.down)
    BY <1>1
  <2> QED BY <2>1, <1>3, <1>4 DEF Stirs
<1>7. ASSUME Settles(c, id), Stirs(d, id) \/ ~Ending(Head(c.down), id) PROVE Settles(d, id)
  <2>1. PICK i \in 1..Len(c.down) :
          Ending(c.down[i], id) /\ \A j \in 1..Len(c.down) : j > i => ~Stirring(c.down[j], id)
    BY <1>7 DEF Settles
  <2>2. i # 1
    <3> SUFFICES ASSUME i = 1 PROVE FALSE
      OBVIOUS
    <3>1. Stirs(d, id)
      BY <1>7, <2>1, <1>4
    <3>2. PICK j \in 1..Len(d.down) : Stirring(d.down[j], id)
      BY <3>1 DEF Stirs
    <3>3. j + 1 > i
      BY <1>4, <1>1
    <3> QED BY <3>2, <3>3, <2>1, <1>4
  <2>3. i - 1 \in 1..Len(d.down) /\ d.down[i - 1] = c.down[i]
    <3>1. i - 1 \in 1..Len(d.down) /\ (i - 1) + 1 = i
      BY <2>2, <1>1, <1>4
    <3> QED BY <3>1, <1>4
  <2>4. ASSUME NEW j \in 1..Len(d.down), j > i - 1 PROVE ~Stirring(d.down[j], id)
    BY <2>1, <2>4, <1>1, <1>4
  <2> QED BY <2>1, <2>3, <2>4, <1>3 DEF Settles
<1> QED BY <1>5, <1>6, <1>7

LEMMA SentRequest ==
  ASSUME NEW c \in Connection, NEW m \in Request, NEW d, d = [c EXCEPT !.up = Append(c.up, m)]
  PROVE  /\ d \in Connection /\ d.down = c.down /\ d.up # << >>
         /\ d.alive = c.alive /\ d.open = c.open /\ d.left = c.left
         /\ \A id \in Ids : Carries(d, id) <=> Carries(c, id) \/ (m.type = "chat" /\ m.id = id)
         /\ Once(c) /\ (m.type = "chat" => ~Carries(c, m.id)) => Once(d)
<1>1. c.up \in Seq(Request) /\ Len(c.up) \in Nat
  BY DEF Connection
<1>2. /\ d \in Connection /\ d.down = c.down /\ d.up = Append(c.up, m)
      /\ d.alive = c.alive /\ d.open = c.open /\ d.left = c.left
  <2>1. Append(c.up, m) \in Seq(Request)
    BY <1>1
  <2> QED BY <2>1 DEF Connection
<1>3. d # Null /\ c # Null
  BY <1>2, ChatAssumption
<1>4. /\ Len(d.up) = Len(c.up) + 1 /\ d.up[Len(c.up) + 1] = m
      /\ \A i \in 1..Len(c.up) : d.up[i] = c.up[i]
  BY <1>1, <1>2
<1>5. /\ \A i \in 1..Len(d.up) : i \in 1..Len(c.up) \/ i = Len(c.up) + 1
      /\ \A i \in 1..Len(c.up) : i \in 1..Len(d.up) /\ i # Len(c.up) + 1
      /\ Len(c.up) + 1 \in 1..Len(d.up)
  BY <1>1, <1>4
<1>6. d.up # << >>
  BY <1>1, <1>4
<1>7. ASSUME NEW id \in Ids PROVE Carries(d, id) <=> Carries(c, id) \/ (m.type = "chat" /\ m.id = id)
  BY <1>3, <1>4, <1>5 DEF Carries
<1>8. ASSUME Once(c), m.type = "chat" => ~Carries(c, m.id) PROVE Once(d)
  BY <1>8, <1>3, <1>4, <1>5 DEF Once, Carries
<1> QED BY <1>2, <1>6, <1>7, <1>8

OneTaken(c, d) ==
  /\ d \in Connection /\ d.down = c.down /\ Head(c.up) \in Request
  /\ d.alive = c.alive /\ d.open = c.open /\ d.left = c.left
  /\ \A id \in Ids : /\ Carries(d, id) => Carries(c, id)
                     /\ Carries(c, id) => Carries(d, id) \/ (Head(c.up).type = "chat" /\ Head(c.up).id = id)
  /\ Once(c) => Once(d)
  /\ Head(c.up).type = "chat" => Carries(c, Head(c.up).id)
  /\ Once(c) /\ Head(c.up).type = "chat" => ~Carries(d, Head(c.up).id)

LEMMA TakenRequest ==
  ASSUME NEW c \in Connection, c.up # << >>, NEW d, d = [c EXCEPT !.up = Tail(c.up)]
  PROVE  OneTaken(c, d)
<1>1. c.up \in Seq(Request) /\ Len(c.up) \in Nat \ {0}
  BY EmptySeq DEF Connection
<1>2. /\ d \in Connection /\ d.down = c.down /\ d.up = Tail(c.up) /\ Head(c.up) \in Request
      /\ d.alive = c.alive /\ d.open = c.open /\ d.left = c.left
  <2>1. Tail(c.up) \in Seq(Request) /\ Head(c.up) \in Request
    BY <1>1, HeadTailProperties DEF Connection
  <2> QED BY <2>1 DEF Connection
<1>3. d # Null /\ c # Null
  BY <1>2, ChatAssumption
<1>4. /\ Len(d.up) = Len(c.up) - 1 /\ Head(c.up) = c.up[1] /\ 1 \in 1..Len(c.up)
      /\ \A i \in 1..Len(d.up) : d.up[i] = c.up[i + 1] /\ i + 1 \in 1..Len(c.up) /\ i + 1 # 1
  BY <1>1, <1>2
<1>5. ASSUME NEW id \in Ids PROVE Carries(d, id) => Carries(c, id)
  BY <1>3, <1>4 DEF Carries
<1>6. ASSUME Once(c) PROVE Once(d)
  <2> SUFFICES ASSUME NEW i \in 1..Len(d.up), NEW j \in 1..Len(d.up),
                      d.up[i].type = "chat", d.up[j].type = "chat", d.up[i].id = d.up[j].id
               PROVE  i = j
    BY DEF Once
  <2>1. i + 1 = j + 1
    BY <1>4, <1>6 DEF Once
  <2> QED BY <2>1
<1>7. Head(c.up).type = "chat" => Carries(c, Head(c.up).id)
  BY <1>3, <1>4 DEF Carries
<1>8. ASSUME Once(c), Head(c.up).type = "chat", Carries(d, Head(c.up).id) PROVE FALSE
  <2>1. PICK i \in 1..Len(d.up) : d.up[i].type = "chat" /\ d.up[i].id = Head(c.up).id
    BY <1>8 DEF Carries
  <2>2. i + 1 = 1
    BY <2>1, <1>4, <1>8 DEF Once
  <2> QED BY <2>2, <1>4
<1>9. ASSUME NEW id \in Ids, Carries(c, id), ~(Head(c.up).type = "chat" /\ Head(c.up).id = id) PROVE Carries(d, id)
  <2>1. PICK i \in 1..Len(c.up) : c.up[i].type = "chat" /\ c.up[i].id = id
    BY <1>9 DEF Carries
  <2>2. i # 1
    BY <1>4, <1>9, <2>1
  <2>3. i - 1 \in 1..Len(d.up) /\ (i - 1) + 1 = i
    BY <1>1, <1>4, <2>2
  <2>4. d.up[i - 1] = c.up[i]
    BY <1>4, <2>3
  <2> QED BY <1>3, <2>1, <2>3, <2>4 DEF Carries
<1> QED BY <1>2, <1>5, <1>6, <1>7, <1>8, <1>9 DEF OneTaken

(* What happens to the connections. *****************************************)

Wires == [Conns -> Connection \cup {Null}]

\* The same link, and the same with the same requests on it.
Link(c, d) == (c = Null <=> d = Null) /\ (c # Null => d.alive = c.alive /\ d.open = c.open /\ d.left = c.left)
Same(c, d) == Link(c, d) /\ (c # Null => d.up = c.up)

LEMMA SameCarries ==
  ASSUME NEW c, NEW d, Same(c, d)
  PROVE  /\ \A id \in Ids : Carries(d, id) <=> Carries(c, id)
         /\ c # Null /\ Once(c) => Once(d)
BY DEF Same, Link, Carries, Once

LEMMA Delivered ==
  ASSUME NEW cs \in Wires, NEW to, NEW m \in Reply, NEW ds, ds = Deliver(cs, to, m)
  PROVE  /\ ds \in Wires
         /\ \A k \in Conns :
              /\ Same(cs[k], ds[k]) /\ (cs[k] # Null /\ ds[k].down # cs[k].down => Hears(cs[k]))
              /\ \A id \in Ids :
                   /\ Stirs(ds[k], id) => Stirs(cs[k], id) \/ (k \in to /\ Stirring(m, id))
                   /\ Settles(cs[k], id) /\ ~(k \in to /\ Stirring(m, id)) => Settles(ds[k], id)
                   /\ k \in to /\ Hears(cs[k]) /\ Ending(m, id) => Settles(ds[k], id)
<1>1. ASSUME NEW k \in Conns
      PROVE  /\ ds[k] \in Connection \cup {Null}
             /\ Same(cs[k], ds[k]) /\ (cs[k] # Null /\ ds[k].down # cs[k].down => Hears(cs[k]))
             /\ \A id \in Ids :
                  /\ Stirs(ds[k], id) => Stirs(cs[k], id) \/ (k \in to /\ Stirring(m, id))
                  /\ Settles(cs[k], id) /\ ~(k \in to /\ Stirring(m, id)) => Settles(ds[k], id)
                  /\ k \in to /\ Hears(cs[k]) /\ Ending(m, id) => Settles(ds[k], id)
  <2>0. cs[k] \in Connection \cup {Null}
    BY DEF Wires
  <2>1. CASE k \in to /\ Hears(cs[k])
    <3>1. cs[k] \in Connection /\ cs[k] # Null
      BY <2>0, <2>1 DEF Hears
    <3>2. ds[k] = [cs[k] EXCEPT !.down = Append(cs[k].down, m)]
      BY <2>1 DEF Deliver
    <3>3. /\ ds[k] \in Connection /\ ds[k].up = cs[k].up
          /\ ds[k].alive = cs[k].alive /\ ds[k].open = cs[k].open /\ ds[k].left = cs[k].left
      BY <3>1, <3>2, HeardWord
    <3>4. ds[k] # Null
      BY <3>3, ChatAssumption
    <3>5. Same(cs[k], ds[k])
      BY <3>1, <3>3, <3>4 DEF Same, Link
    <3> QED BY <2>1, <3>1, <3>2, <3>3, <3>5, HeardWord
  <2>2. CASE ~(k \in to /\ Hears(cs[k]))
    <3>1. ds[k] = cs[k]
      BY <2>2 DEF Deliver
    <3> QED BY <2>2, <2>0, <3>1 DEF Same, Link
  <2> QED BY <2>1, <2>2
<1>2. ds \in Wires
  <2>1. ds = [k \in Conns |-> ds[k]]
    BY DEF Deliver
  <2> QED BY <1>1, <2>1 DEF Wires
<1> QED BY <1>1, <1>2

LEMMA DeliveredAll ==
  ASSUME NEW cs \in Wires, NEW to, NEW ms \in Seq(Reply), NEW ds, ds = DeliverAll(cs, to, ms),
         \A i \in 1..Len(ms), id \in Ids : ~Stirring(ms[i], id)
  PROVE  /\ ds \in Wires
         /\ \A k \in Conns :
              /\ Same(cs[k], ds[k]) /\ (cs[k] # Null /\ ds[k].down # cs[k].down => Hears(cs[k]))
              /\ \A id \in Ids :
                   /\ Stirs(ds[k], id) => Stirs(cs[k], id)
                   /\ Settles(cs[k], id) => Settles(ds[k], id)
                   /\ k \in to /\ Hears(cs[k]) /\ (\E i \in 1..Len(ms) : Ending(ms[i], id)) => Settles(ds[k], id)
<1>1. ASSUME NEW k \in Conns
      PROVE  /\ ds[k] \in Connection \cup {Null}
             /\ Same(cs[k], ds[k]) /\ (cs[k] # Null /\ ds[k].down # cs[k].down => Hears(cs[k]))
             /\ \A id \in Ids :
                  /\ Stirs(ds[k], id) => Stirs(cs[k], id)
                  /\ Settles(cs[k], id) => Settles(ds[k], id)
                  /\ k \in to /\ Hears(cs[k]) /\ (\E i \in 1..Len(ms) : Ending(ms[i], id)) => Settles(ds[k], id)
  <2>0. cs[k] \in Connection \cup {Null}
    BY DEF Wires
  <2>1. CASE k \in to /\ Hears(cs[k])
    <3>1. cs[k] \in Connection /\ cs[k] # Null
      BY <2>0, <2>1 DEF Hears
    <3> DEFINE c == cs[k]
               d == ds[k]
    <3>2. c \in Connection /\ d = [c EXCEPT !.down = c.down \o ms]
      BY <2>1, <3>1 DEF DeliverAll
    <3> HIDE DEF c, d
    <3>2a. MoreWords(c, d, ms)
      BY <3>2, HeardWords
    <3>3. /\ ds[k] \in Connection /\ ds[k].up = cs[k].up
          /\ ds[k].alive = cs[k].alive /\ ds[k].open = cs[k].open /\ ds[k].left = cs[k].left
          /\ \A id \in Ids :
               /\ Stirs(ds[k], id) => Stirs(cs[k], id)
               /\ Settles(cs[k], id) => Settles(ds[k], id)
               /\ (\E i \in 1..Len(ms) : Ending(ms[i], id)) => Settles(ds[k], id)
      BY <3>2a DEF c, d, MoreWords
    <3>4. ds[k] # Null
      BY <3>3, ChatAssumption
    <3>5. Same(cs[k], ds[k])
      BY <3>1, <3>3, <3>4 DEF Same, Link
    <3> QED BY <3>3, <3>5, <2>1
  <2>2. CASE ~(k \in to /\ Hears(cs[k]))
    <3>1. ds[k] = cs[k]
      BY <2>2 DEF DeliverAll
    <3> QED BY <2>2, <2>0, <3>1 DEF Same, Link
  <2> QED BY <2>1, <2>2
<1>2. ds \in Wires
  <2>1. ds = [k \in Conns |-> ds[k]]
    BY DEF DeliverAll
  <2> QED BY <1>1, <2>1 DEF Wires
<1> QED BY <1>1, <1>2

\* The page sends something other than a message.
LEMMA SentUp ==
  ASSUME NEW cs \in Wires, NEW k \in Conns \cup {0}, k # 0 => cs[k] # Null, NEW m \in Request,
         NEW ds, ds = Up(cs, k, m)
  PROVE  /\ ds \in Wires
         /\ \A j \in Conns :
              /\ Link(cs[j], ds[j]) /\ (cs[j] # Null => ds[j].down = cs[j].down)
              /\ cs[j] # Null /\ ds[j].up # cs[j].up => j = k /\ cs[j].alive
              /\ \A id \in Ids :
                   /\ Carries(cs[j], id) => Carries(ds[j], id)
                   /\ Carries(ds[j], id) => Carries(cs[j], id) \/ (j = k /\ m.type = "chat" /\ m.id = id)
                   /\ j = k /\ cs[j].alive /\ m.type = "chat" /\ m.id = id => Carries(ds[j], id)
              /\ cs[j] # Null /\ Once(cs[j]) /\ (j = k /\ m.type = "chat" => ~Carries(cs[j], m.id)) => Once(ds[j])
<1>1. CASE k # 0 /\ cs[k].alive
  <2>1. cs[k] \in Connection /\ cs[k] # Null /\ k \in Conns
    BY <1>1 DEF Wires
  <2>2. ds = [cs EXCEPT ![k] = [cs[k] EXCEPT !.up = Append(cs[k].up, m)]]
    BY <1>1 DEF Up
  <2>3. /\ ds[k] = [cs[k] EXCEPT !.up = Append(cs[k].up, m)]
        /\ \A j \in Conns : j # k => ds[j] = cs[j]
    BY <2>1, <2>2 DEF Wires
  <2>4. ds[k] \in Connection /\ ds[k] # Null
    BY <2>1, <2>3, SentRequest, ChatAssumption
  <2>5. ds \in Wires
    BY <2>2, <2>3, <2>4 DEF Wires
  <2>6. ASSUME NEW j \in Conns
        PROVE  /\ Link(cs[j], ds[j]) /\ (cs[j] # Null => ds[j].down = cs[j].down)
               /\ cs[j] # Null /\ ds[j].up # cs[j].up => j = k /\ cs[j].alive
               /\ \A id \in Ids :
                    /\ Carries(cs[j], id) => Carries(ds[j], id)
                    /\ Carries(ds[j], id) => Carries(cs[j], id) \/ (j = k /\ m.type = "chat" /\ m.id = id)
                    /\ j = k /\ cs[j].alive /\ m.type = "chat" /\ m.id = id => Carries(ds[j], id)
               /\ cs[j] # Null /\ Once(cs[j]) /\ (j = k /\ m.type = "chat" => ~Carries(cs[j], m.id)) => Once(ds[j])
    <3>1. CASE j = k
      <4>1. /\ ds[k].down = cs[k].down
            /\ ds[k].alive = cs[k].alive /\ ds[k].open = cs[k].open /\ ds[k].left = cs[k].left
            /\ \A id \in Ids : Carries(ds[k], id) <=> Carries(cs[k], id) \/ (m.type = "chat" /\ m.id = id)
            /\ Once(cs[k]) /\ (m.type = "chat" => ~Carries(cs[k], m.id)) => Once(ds[k])
        BY <2>1, <2>3, SentRequest
      <4>2. Link(cs[k], ds[k])
        BY <4>1, <2>1, <2>4 DEF Link
      <4> QED BY <3>1, <1>1, <4>1, <4>2
    <3>2. CASE j # k
      BY <3>2, <2>3 DEF Link
    <3> QED BY <3>1, <3>2
  <2> QED BY <2>5, <2>6
<1>2. CASE ~(k # 0 /\ cs[k].alive)
  <2>1. ds = cs
    <3>1. CASE k = 0
      BY <3>1 DEF Up
    <3>2. CASE k # 0
      <4>1. cs[k] \in Connection
        BY <3>2 DEF Wires
      <4>2. [cs[k] EXCEPT !.up = cs[k].up] = cs[k]
        BY <4>1 DEF Connection
      <4>3. ds = [cs EXCEPT ![k] = [cs[k] EXCEPT !.up = cs[k].up]]
        BY <3>2, <1>2 DEF Up
      <4> QED BY <4>2, <4>3 DEF Wires
    <3> QED BY <3>1, <3>2
  <2>2. ~\E j \in Conns : j = k /\ cs[j].alive
    BY <1>2, ChatAssumption DEF Conns
  <2>3. \A j \in Conns : Link(cs[j], ds[j])
    BY <2>1 DEF Link
  <2> QED BY <2>1, <2>2, <2>3
<1> QED BY <1>1, <1>2

(* What a step keeps. *******************************************************)

Linked == \A k \in Conns : Link(conns[k], conns'[k])

LEMMA HeldAreConns ==
  ASSUME ChatTypes PROVE Held \subseteq Conns /\ Heeded \subseteq Held
BY DEF ChatTypes, Held, Heeded

LEMMA HeldKept ==
  ASSUME ChatTypes, Sockets, sock' = sock, Linked
  PROVE  Held' = Held /\ Heeded' = Heeded /\ Open' = Open
<1>1. Held' = Held
  BY DEF Held
<1>2. \A k \in Held : k \in Conns /\ conns[k] # Null
  BY HeldAreConns DEF Sockets, Held
<1>3. Heeded' = Heeded
  BY <1>1, <1>2 DEF Heeded, Linked, Link
<1>4. Open' = Open
  BY DEF Open, Linked, Link
<1> QED BY <1>1, <1>3, <1>4

\* Who hears of a task.
LEMMA ReceiversAre ==
  ASSUME ChatTypes, Subscribed, NEW id \in Ids, task[id] # Null
  PROVE  Receivers(task[id].conn, Open, subs) = IF isGroup /\ task[id].conn \notin Open THEN {} ELSE subs
<1>1. task[id].conn \in Open => task[id].conn \in subs
  BY DEF Subscribed
<1>2. CASE isGroup
  BY <1>2 DEF Receivers, GroupReceivers
<1>3. CASE ~isGroup
  <2>1. subs = {} => {task[id].conn} \cap Open = {}
    BY <1>1
  <2> QED BY <1>3, <2>1 DEF Receivers, ChatReceivers
<1> QED BY <1>2, <1>3

\* A subscriber the page holds hears what is sent to it.
LEMMA HeededHear ==
  ASSUME ChatTypes, Sockets, NEW k \in Heeded
  PROVE  k \in Conns /\ k \in Held /\ Hears(conns[k]) /\ conns[k] \in Connection /\ conns[k] # Null
<1>1. k \in Conns /\ k \in Held /\ conns[k].alive
  BY HeldAreConns DEF Heeded
<1>2. conns[k] # Null /\ ~conns[k].left /\ (conns[k].alive => conns[k].open)
  BY <1>1 DEF Held, Sockets
<1> QED BY <1>1, <1>2 DEF Hears, ChatTypes

LEMMA SocketsKept ==
  ASSUME ChatTypes, Sockets, sock' = sock, Linked,
         \A k \in Conns : conns[k] # Null /\ conns'[k].up # << >> => conns[k].up # << >> \/ (k \in Held /\ conns[k].alive),
         \A k \in Conns : conns[k] # Null /\ conns'[k].down # << >> => conns[k].down # << >> \/ conns[k].alive
  PROVE  Sockets'
<1>0. Held' = Held
  BY HeldKept
<1>1. ASSUME NEW h \in Hooks, sock'[h] # 0
      PROVE  conns'[sock'[h]] # Null /\ ~conns'[sock'[h]].left /\ (conns'[sock'[h]].alive => conns'[sock'[h]].open)
  <2>1. sock[h] \in Conns /\ sock'[h] = sock[h]
    BY <1>1 DEF ChatTypes
  <2> QED BY <1>1, <2>1 DEF Sockets, Linked, Link
<1>2. ASSUME NEW k \in Conns, conns'[k] # Null, conns'[k].up # << >>
      PROVE  conns'[k].alive /\ (k \in Held' \/ conns'[k].left)
  <2>1. conns[k] # Null /\ Link(conns[k], conns'[k])
    BY <1>2 DEF Linked, Link
  <2> QED BY <1>0, <1>2, <2>1 DEF Sockets, Link
<1>3. ASSUME NEW k \in Conns, conns'[k] # Null, conns'[k].down # << >> PROVE conns'[k].alive
  <2>1. conns[k] # Null /\ Link(conns[k], conns'[k])
    BY <1>3 DEF Linked, Link
  <2> QED BY <1>3, <2>1 DEF Sockets, Link
<1>4. sock'["layout"] # 0 => sock'["layout"] # sock'["view"]
  BY DEF Sockets
<1> QED BY <1>1, <1>2, <1>3, <1>4 DEF Sockets

TasksKept ==
  \A id \in Ids : /\ task'[id] # Null <=> task[id] # Null
                  /\ task[id] # Null => task'[id].conn = task[id].conn

LEMMA SubscribedKept ==
  ASSUME ChatTypes, Sockets, Subscribed, sock' = sock, Linked, isGroup' = isGroup, grouped' => grouped,
         subs' = subs, doubled' = doubled, TasksKept
  PROVE  Subscribed'
<1>0. Held' = Held /\ Open' = Open
  BY HeldKept
<1>1. ASSUME NEW id \in Ids, task'[id] # Null
      PROVE  conns'[task'[id].conn] # Null /\ (task'[id].conn \in Open' => task'[id].conn \in subs')
  <2>1. task[id] # Null /\ task'[id].conn = task[id].conn
    BY <1>1 DEF TasksKept
  <2>2. task[id].conn \in Conns
    BY <2>1 DEF ChatTypes, ChatTask, Conns
  <2> QED BY <1>0, <2>1, <2>2 DEF Subscribed, Linked, Link
<1> QED BY <1>0, <1>1 DEF Subscribed

\* No step but a new message's adds a request.
LEMMA AskedKept ==
  ASSUME ChatTypes, Asked, sock'["view"] = sock["view"], Linked, sent' >= sent, sent' \in Nat, excused \subseteq excused',
         \A k \in Conns : conns[k] # Null /\ Once(conns[k]) => Once(conns'[k]),
         \A k \in Conns, id \in Ids : Carries(conns'[k], id) => Carries(conns[k], id) /\ task'[id] = Null,
         \A id \in Ids : task'[id] # Null => task[id] # Null \/ id <= sent
  PROVE  Asked'
<1>0. \A id \in Ids : id <= sent => id <= sent'
  BY DEF Ids, ChatTypes
<1>1. \A k \in Conns : conns'[k] # Null => Once(conns'[k])
  BY DEF Asked, Linked, Link
<1>2. ASSUME NEW k \in Conns, NEW id \in Ids, Carries(conns'[k], id)
      PROVE  /\ task'[id] = Null /\ id <= sent'
             /\ k = sock'["view"] \/ (conns'[k].left /\ id \in excused')
  <2>1. Carries(conns[k], id) /\ conns[k] # Null
    BY <1>2 DEF Carries
  <2> QED BY <1>0, <1>2, <2>1 DEF Asked, Linked, Link
<1>3. \A k, l \in Conns, id \in Ids : Carries(conns'[k], id) /\ Carries(conns'[l], id) => k = l
  BY DEF Asked
<1>4. \A id \in Ids : task'[id] # Null => id <= sent'
  BY <1>0 DEF Asked
<1> QED BY <1>1, <1>2, <1>3, <1>4 DEF Asked

LEMMA SpokenKept ==
  ASSUME ChatTypes, Sockets, Spoken, Heeded' = Heeded, subs \subseteq subs',
         \A id \in Ids : task[id] # Null => task'[id] # Null,
         \A k \in Heeded, id \in Ids :
           Stirs(conns'[k], id) => Stirs(conns[k], id) \/ (k \in subs' /\ task'[id] # Null)
  PROVE  Spoken'
BY DEF Spoken

GoesOn(id) ==
  Live(id) /\ task[id].phase # "outputs" =>
    /\ task'[id] # Null /\ task'[id].conn = task[id].conn
    /\ task'[id].phase \notin {"outputs", "done"}
    /\ task'[id].phase = "starting" => task[id].phase = "starting"

LEMMA ReachesKept ==
  ASSUME ChatTypes, Sockets, Subscribed, Subscribed', ChatTypes', NEW id \in Ids, Reaches(id),
         Heeded \subseteq Heeded', Open \subseteq Open', isGroup' = isGroup, subs \subseteq subs',
         \A k \in Heeded : Carries(conns[k], id) => Carries(conns'[k], id), GoesOn(id)
  PROVE  Reaches(id)'
<1>1. CASE \E k \in Heeded : Carries(conns[k], id)
  BY <1>1 DEF Reaches
<1>2. CASE /\ Live(id) /\ task[id].phase # "outputs"
           /\ Heeded \cap Receivers(task[id].conn, Open, subs) # {}
           /\ task[id].phase = "starting" => task[id].conn \in Heeded
  <2>1. Receivers(task[id].conn, Open, subs) = IF isGroup /\ task[id].conn \notin Open THEN {} ELSE subs
    BY <1>2, ReceiversAre DEF Live
  <2>2. /\ Live(id)' /\ task'[id].phase # "outputs" /\ task'[id].conn = task[id].conn
        /\ task'[id].phase = "starting" => task[id].phase = "starting"
    BY <1>2 DEF Live, GoesOn
  <2>3. Receivers(task[id].conn, Open, subs)' = IF isGroup' /\ task'[id].conn \notin Open' THEN {} ELSE subs'
    <3>1. task'[id].conn \in Open' => task'[id].conn \in subs'
      BY <2>2 DEF Subscribed, Live
    <3>2. CASE isGroup'
      BY <3>2 DEF Receivers, GroupReceivers
    <3>3. CASE ~isGroup'
      <4>1. subs' = {} => {task'[id].conn} \cap Open' = {}
        BY <3>1
      <4> QED BY <3>3, <4>1 DEF Receivers, ChatReceivers
    <3> QED BY <3>2, <3>3
  <2> QED BY <1>2, <2>1, <2>2, <2>3 DEF Reaches
<1> QED BY <1>1, <1>2 DEF Reaches

\* Nothing under way gets another word that shows it so, and what comes stays.
LEMMA ServedForKept ==
  ASSUME ChatTypes, Sockets, NEW id \in Ids, ServedFor(id), Held' = Held, Heeded' = Heeded,
         \A k \in Heeded :
           /\ Stirs(conns'[k], id) => Stirs(conns[k], id)
           /\ Settles(conns[k], id) => Settles(conns'[k], id),
         \A sts \in {{"waiting"}, Thinking} : Shows(id, sts)' => Shows(id, sts),
         Reaches(id) => Reaches(id)' \/ (/\ \E k \in Heeded : Settles(conns'[k], id)
                                         /\ \A k \in Heeded : Stirs(conns'[k], id) => Settles(conns'[k], id))
  PROVE  ServedFor(id)'
<1>1. ASSUME NEW k \in Heeded, Stirs(conns'[k], id) PROVE Settles(conns'[k], id) \/ Reaches(id)'
  BY <1>1 DEF ServedFor
<1>2. ASSUME Shows(id, {"waiting"})' \/ (Shows(id, Thinking)' /\ Heeded' = Held')
      PROVE  Reaches(id)' \/ \E k \in Heeded : Settles(conns'[k], id)
  BY <1>2 DEF ServedFor
<1> QED BY <1>1, <1>2 DEF ServedFor

\* A step that leaves the page's sockets and the tasks there are, and adds no
\* request; what it sends as under way goes to subscribers, of a task.
Growing ==
  /\ sock' = sock /\ isGroup' = isGroup /\ sent' = sent
  /\ subs \subseteq subs' /\ excused \subseteq excused' /\ (doubled => doubled')
  /\ \A id \in Ids : task[id] # Null => task'[id] # Null /\ task'[id].conn = task[id].conn
  /\ \A k \in Conns, id \in Ids :
       <<k, id>> \in pending' => <<k, id>> \in pending \/ (task[id] # Null /\ task[id].conn = k)
  /\ running' \in Ids => running' = running \/ task'[running'] # Null

\* A step that neither adds a task or a subscriber.
Quiet == Growing /\ grouped' \in BOOLEAN /\ (grouped' => grouped) /\ subs' = subs /\ doubled' = doubled /\ TasksKept

Wired ==
  \A k \in Conns :
    /\ Link(conns[k], conns'[k])
    /\ conns[k] # Null /\ conns'[k].up # << >> => conns[k].up # << >> \/ (k \in Held /\ conns[k].alive)
    /\ conns[k] # Null /\ conns'[k].down # << >> => conns[k].down # << >> \/ conns[k].alive
    /\ conns[k] # Null /\ Once(conns[k]) => Once(conns'[k])
    /\ \A id \in Ids : Carries(conns'[k], id) => Carries(conns[k], id)

Heard(id) == \A k \in Conns : Stirs(conns'[k], id) => Stirs(conns[k], id) \/ (k \in subs' /\ task'[id] # Null)

\* A task begins when its request is taken.
Begun(id) ==
  task'[id] # Null => task[id] # Null \/ (id <= sent /\ \A k \in Conns : ~Carries(conns'[k], id))

LEMMA GrowingStep ==
  ASSUME ChatInv, ChatTypes', Growing, Wired, Subscribed', \A id \in Ids : Heard(id) /\ Begun(id)
  PROVE  /\ Linked /\ Held' = Held /\ Heeded' = Heeded /\ Open' = Open
         /\ Sockets' /\ Questions' /\ Asked' /\ Spoken'
<1> USE DEF ChatInv
<1>1. Linked
  BY DEF Wired, Linked
<1>2. Held' = Held /\ Heeded' = Heeded /\ Open' = Open
  BY <1>1, HeldKept DEF Growing
<1>3. Sockets'
  BY <1>1, SocketsKept DEF Growing, Wired
<1>4. Questions'
  <2>1. running' \in Ids \cup {0} /\ running \in Ids \cup {0}
    BY DEF ChatTypes
  <2>2. running' # 0 => task'[running'] # Null
    BY <2>1, ChatAssumption DEF Growing, Questions, Ids
  <2>3. \A k \in Conns, id \in Ids : <<k, id>> \in pending' => task'[id] # Null /\ task'[id].conn = k
    BY DEF Growing, Questions
  <2> QED BY <2>2, <2>3 DEF Questions
<1>5. Asked'
  <2>1. sent' >= sent /\ sent' \in Nat
    BY DEF Growing, ChatTypes
  <2>2. \A k \in Conns, id \in Ids : Carries(conns'[k], id) => Carries(conns[k], id) /\ task'[id] = Null
    BY DEF Wired, Asked, Begun
  <2>3. \A id \in Ids : task'[id] # Null => task[id] # Null \/ id <= sent
    BY DEF Begun
  <2>4. \A k \in Conns : conns[k] # Null /\ Once(conns[k]) => Once(conns'[k])
    BY DEF Wired
  <2> QED BY <1>1, <2>1, <2>2, <2>3, <2>4, AskedKept DEF Growing
<1>6. Spoken'
  <2>1. \A k \in Heeded : k \in Conns
    BY HeldAreConns
  <2> QED BY <1>2, <2>1, SpokenKept DEF Growing, Heard
<1> QED BY <1>1, <1>2, <1>3, <1>4, <1>5, <1>6

LEMMA QuietStep ==
  ASSUME ChatInv, ChatTypes', Quiet, Wired, \A id \in Ids : Heard(id)
  PROVE  /\ Linked /\ Held' = Held /\ Heeded' = Heeded /\ Open' = Open
         /\ Sockets' /\ Subscribed' /\ Questions' /\ Asked' /\ Spoken' /\ \A id \in Ids : Begun(id)
<1> USE DEF ChatInv
<1>1. Linked
  BY DEF Wired, Linked
<1>2. Subscribed'
  BY <1>1, SubscribedKept DEF Quiet, Growing
<1>3. \A id \in Ids : Begun(id)
  BY DEF Quiet, TasksKept, Begun
<1> QED BY <1>1, <1>2, <1>3, GrowingStep DEF Quiet

\* What is left as it was of a message.
Undisturbed(id) ==
  /\ GoesOn(id)
  /\ \A k \in Heeded :
       /\ Carries(conns[k], id) => Carries(conns'[k], id)
       /\ Stirs(conns'[k], id) => Stirs(conns[k], id)
       /\ Settles(conns[k], id) => Settles(conns'[k], id)
  /\ \A sts \in {{"waiting"}, Thinking} : Shows(id, sts)' => Shows(id, sts)

LEMMA UndisturbedStaysServed ==
  ASSUME ChatInv, ChatTypes', Growing, Wired, Subscribed', \A id \in Ids : Heard(id) /\ Begun(id),
         NEW id \in Ids, ~doubled, id \notin excused, Undisturbed(id)
  PROVE  ServedFor(id)'
<1> USE DEF ChatInv
<1>1. Held' = Held /\ Heeded' = Heeded /\ Open' = Open
  BY GrowingStep
<1>2. Reaches(id) => Reaches(id)'
  BY <1>1, ReachesKept DEF Growing, Undisturbed
<1>3. ServedFor(id)
  BY DEF Served
<1> QED BY <1>1, <1>2, <1>3, ServedForKept DEF Undisturbed

LEMMA UndisturbedIsServed ==
  ASSUME ChatInv, ChatTypes', Quiet, Wired, \A id \in Ids : Heard(id),
         NEW id \in Ids, ~doubled, id \notin excused, Undisturbed(id)
  PROVE  ServedFor(id)'
BY QuietStep, UndisturbedStaysServed DEF Quiet

\* Unchanged connections.
LEMMA StillWired ==
  ASSUME conns' = conns PROVE Wired /\ \A id \in Ids : Heard(id)
BY DEF Wired, Link, Heard

\* A word to subscribers.
LEMMA DeliveredWired ==
  ASSUME ChatTypes, NEW to, NEW m \in Reply, conns' = Deliver(conns, to, m)
  PROVE  /\ conns' \in Wires /\ Wired
         /\ \A id \in Ids : (Stirring(m, id) => to \subseteq subs' /\ task'[id] # Null) => Heard(id)
<1>1. conns \in Wires
  BY DEF ChatTypes, Wires
<1>2. conns' \in Wires /\ \A k \in Conns : Same(conns[k], conns'[k])
  BY <1>1, Delivered
<1>3. Wired
  <2>1. \A k \in Conns : conns[k] # Null /\ conns'[k].down # << >> => conns[k].down # << >> \/ conns[k].alive
    BY <1>1, Delivered DEF Hears
  <2> QED BY <1>2, <2>1, SameCarries DEF Wired, Same, Link
<1>4. \A k \in Conns, id \in Ids : Stirs(conns'[k], id) => Stirs(conns[k], id) \/ (k \in to /\ Stirring(m, id))
  BY <1>1, Delivered
<1> QED BY <1>2, <1>3, <1>4 DEF Heard

LEMMA DeliveredUndisturbed ==
  ASSUME ChatTypes, Sockets, NEW to, NEW m \in Reply, conns' = Deliver(conns, to, m), session' = session,
         NEW id \in Ids, GoesOn(id), ~Stirring(m, id) \/ to \cap Heeded = {}
  PROVE  Undisturbed(id)
<1>1. conns \in Wires
  BY DEF ChatTypes, Wires
<1>2. ASSUME NEW k \in Heeded
      PROVE  /\ Carries(conns[k], id) => Carries(conns'[k], id)
             /\ Stirs(conns'[k], id) => Stirs(conns[k], id)
             /\ Settles(conns[k], id) => Settles(conns'[k], id)
  <2>1. k \in Conns
    BY HeldAreConns
  <2>2. /\ Same(conns[k], conns'[k])
        /\ Stirs(conns'[k], id) => Stirs(conns[k], id) \/ (k \in to /\ Stirring(m, id))
        /\ Settles(conns[k], id) /\ ~(k \in to /\ Stirring(m, id)) => Settles(conns'[k], id)
    BY <1>1, <2>1, Delivered
  <2> QED BY <2>2, SameCarries
<1>3. \A sts \in {{"waiting"}, Thinking} : Shows(id, sts)' => Shows(id, sts)
  BY DEF Shows
<1> QED BY <1>2, <1>3 DEF Undisturbed

\* The last word on a message, to whoever has been told of it.
LEMMA LastWordServes ==
  ASSUME ChatInv, ChatTypes', Quiet, Wired, \A i \in Ids : Heard(i),
         NEW id \in Ids, ~doubled, id \notin excused,
         NEW to, NEW m \in Reply, conns' = Deliver(conns, to, m), Ending(m, id), session' = session,
         Reaches(id) => Heeded \cap subs \subseteq to /\ Heeded \cap subs # {}
  PROVE  ServedFor(id)'
<1> USE DEF ChatInv
<1>1. Held' = Held /\ Heeded' = Heeded
  BY QuietStep
<1>2. ServedFor(id)
  BY DEF Served
<1>3. ~Stirring(m, id)
  BY DEF Stirring, Ending
<1>4. conns \in Wires
  BY DEF ChatTypes, Wires
<1>5. \A k \in Heeded : /\ k \in Conns /\ Hears(conns[k])
                        /\ Stirs(conns'[k], id) => Stirs(conns[k], id)
                        /\ Settles(conns[k], id) => Settles(conns'[k], id)
                        /\ k \in to => Settles(conns'[k], id)
  <2> SUFFICES ASSUME NEW k \in Heeded
               PROVE  /\ k \in Conns /\ Hears(conns[k])
                      /\ Stirs(conns'[k], id) => Stirs(conns[k], id)
                      /\ Settles(conns[k], id) => Settles(conns'[k], id)
                      /\ k \in to => Settles(conns'[k], id)
    OBVIOUS
  <2>1. k \in Conns /\ Hears(conns[k])
    BY HeededHear
  <2> QED BY <1>3, <1>4, <2>1, Delivered
<1>6. Reaches(id) => /\ \E k \in Heeded : Settles(conns'[k], id)
                     /\ \A k \in Heeded : Stirs(conns'[k], id) => Settles(conns'[k], id)
  <2>1. \A k \in Heeded : Stirs(conns[k], id) => k \in subs
    BY DEF Spoken
  <2> QED BY <1>5, <2>1
<1>7. \A sts \in {{"waiting"}, Thinking} : Shows(id, sts)' => Shows(id, sts)
  BY DEF Shows
<1> QED BY <1>1, <1>2, <1>5, <1>6, <1>7, ServedForKept

\* A task that has been asked for is not on its way any more.
LEMMA TaskReaches ==
  ASSUME ChatTypes, Subscribed, Asked, NEW id \in Ids, task[id] # Null, Reaches(id)
  PROVE  /\ Live(id) /\ task[id].phase # "outputs"
         /\ Receivers(task[id].conn, Open, subs) = subs /\ Heeded \cap subs # {}
         /\ task[id].phase = "starting" => task[id].conn \in Heeded
<1>1. ~\E k \in Heeded : Carries(conns[k], id)
  BY HeldAreConns DEF Asked
<1>2. /\ Live(id) /\ task[id].phase # "outputs"
      /\ Heeded \cap Receivers(task[id].conn, Open, subs) # {}
      /\ task[id].phase = "starting" => task[id].conn \in Heeded
  BY <1>1 DEF Reaches
<1> QED BY <1>2, ReceiversAre

(* The tasks of the server. *************************************************)

\* One task changes, in other things than its connection.
TaskSteps(id) ==
  /\ id \in Ids /\ Live(id)
  /\ task' \in [Ids -> ChatTask \cup {Null}] /\ task'[id] # Null /\ task'[id].conn = task[id].conn
  /\ \A i \in Ids : i # id => task'[i] = task[i]

LEMMA TaskStepsKeeps ==
  ASSUME ChatTypes, NEW id, TaskSteps(id)
  PROVE  TasksKept /\ \A i \in Ids : i # id => GoesOn(i)
BY DEF TaskSteps, TasksKept, GoesOn, Live

\* A task is written.
LEMMA TaskSet ==
  ASSUME ChatTypes, NEW id \in Ids, NEW t \in ChatTask, task' = [task EXCEPT ![id] = t]
  PROVE  /\ task' \in [Ids -> ChatTask \cup {Null}] /\ task'[id] = t /\ task'[id] \in ChatTask /\ task'[id] # Null
         /\ \A i \in Ids : i # id => task'[i] = task[i]
<1>1. t # Null
  BY ChatAssumption
<1> QED BY <1>1 DEF ChatTypes

LEMMA TaskRegistersKeeps ==
  ASSUME ChatInv, NEW id \in Ids, TaskRegisters(id) PROVE ChatInv'
<1> USE DEF ChatInv
<1>1. task[id] \in ChatTask /\ task[id] # Null /\ task[id].phase = "starting"
  BY DEF TaskRegisters, Live, ChatTypes
<1>2. /\ task' \in [Ids -> ChatTask \cup {Null}]
      /\ task'[id] = [task[id] EXCEPT !.phase = "running"] /\ task'[id] \in ChatTask /\ task'[id] # Null
      /\ \A i \in Ids : i # id => task'[i] = task[i]
  <2>1. [task[id] EXCEPT !.phase = "running"] \in ChatTask
    BY <1>1 DEF ChatTask
  <2>2. task' = [task EXCEPT ![id] = [task[id] EXCEPT !.phase = "running"]]
    BY DEF TaskRegisters
  <2> QED BY <2>1, <2>2, TaskSet
<1>3. TaskSteps(id) /\ task'[id].phase = "running"
  BY <1>1, <1>2 DEF TaskRegisters, TaskSteps, ChatTask
<1>4. Quiet /\ Wired /\ \A i \in Ids : Heard(i)
  BY <1>3, TaskStepsKeeps, StillWired DEF TaskRegisters, pageVars, ghosts, Quiet, Growing, TasksKept, ChatTypes
<1>5. ChatTypes'
  BY <1>2 DEF TaskRegisters, pageVars, ghosts, ChatTypes
<1>6. OnlyAnswersWait'
  BY DEF TaskRegisters, pageVars, OnlyAnswersWait
<1>7. Sockets' /\ Subscribed' /\ Questions' /\ Asked' /\ Spoken'
  BY <1>4, <1>5, QuietStep
<1>8. Served'
  <2> SUFFICES ASSUME ~doubled, NEW i \in Ids, i \notin excused PROVE ServedFor(i)'
    BY DEF Served, TaskRegisters, ghosts
  <2>1. GoesOn(i)
    BY <1>1, <1>3, TaskStepsKeeps DEF GoesOn, TaskSteps
  <2>2. Undisturbed(i)
    BY <2>1 DEF Undisturbed, TaskRegisters, pageVars, Shows
  <2> QED BY <2>2, <1>4, <1>5, UndisturbedIsServed
<1>9. Entered'
  BY <1>1, <1>2, ChatAssumption
     DEF TaskRegisters, ghosts, Entered, OneLive, AskingCanResumeUnlessRetried, AtWorkIsEnteredUnlessOverlapped, AtWork, Live, ChatTask
<1> QED BY <1>5, <1>6, <1>7, <1>8, <1>9

LEMMA TaskStartFailsKeeps ==
  ASSUME ChatInv, NEW id \in Ids, TaskStartFails(id) PROVE ChatInv'
<1> USE DEF ChatInv
<1> DEFINE m == [type |-> "error", id |-> id]
<1>1. task[id] \in ChatTask /\ task[id] # Null /\ task[id].phase = "starting" /\ task[id].conn \in Conns
  BY DEF TaskStartFails, Live, ChatTypes, ChatTask, Conns
<1>2. /\ task' \in [Ids -> ChatTask \cup {Null}]
      /\ task'[id] = [task[id] EXCEPT !.phase = "done"] /\ task'[id] \in ChatTask /\ task'[id] # Null
      /\ \A i \in Ids : i # id => task'[i] = task[i]
  <2>1. [task[id] EXCEPT !.phase = "done"] \in ChatTask
    BY <1>1 DEF ChatTask
  <2>2. task' = [task EXCEPT ![id] = [task[id] EXCEPT !.phase = "done"]]
    BY DEF TaskStartFails
  <2> QED BY <2>1, <2>2, TaskSet
<1>3. TaskSteps(id) /\ task'[id].phase = "done"
  BY <1>1, <1>2 DEF TaskStartFails, TaskSteps, ChatTask
<1>w. /\ m \in Reply /\ Ending(m, id) /\ \A i \in Ids : ~Stirring(m, i)
      /\ conns' = Deliver(conns, {task[id].conn}, m)
  BY DEF TaskStartFails, Reply, Ending, Stirring, Ids
<1>4. Quiet /\ Wired /\ (\A i \in Ids : Heard(i)) /\ conns' \in Wires
  <2>1. Quiet
    BY <1>3, TaskStepsKeeps DEF TaskStartFails, pageVars, ghosts, Quiet, Growing, TasksKept, ChatTypes
  <2> HIDE DEF m
  <2> QED BY <1>w, <2>1, DeliveredWired
<1>5. ChatTypes'
  BY <1>2, <1>4 DEF TaskStartFails, pageVars, ghosts, ChatTypes, Wires
<1>6. OnlyAnswersWait'
  BY DEF TaskStartFails, pageVars, OnlyAnswersWait
<1>7. Sockets' /\ Subscribed' /\ Questions' /\ Asked' /\ Spoken'
  BY <1>4, <1>5, QuietStep
<1>8. Served'
  <2> SUFFICES ASSUME ~doubled, NEW i \in Ids, i \notin excused PROVE ServedFor(i)'
    BY DEF Served, TaskStartFails, ghosts
  <2>0. session' = session
    BY DEF TaskStartFails, pageVars
  <2> HIDE DEF m
  <2>1. CASE i # id
    <3>1. Undisturbed(i)
      BY <2>0, <2>1, <1>w, <1>3, TaskStepsKeeps, DeliveredUndisturbed
    <3> QED BY <3>1, <1>4, <1>5, UndisturbedIsServed
  <2>2. CASE i = id
    <3>1. ASSUME Reaches(id) PROVE Heeded \cap subs \subseteq {task[id].conn} /\ Heeded \cap subs # {}
      <4>1. task[id].conn \in Heeded
        BY <1>1, <3>1, TaskReaches
      <4>2. task[id].conn \in subs
        BY <4>1, <1>1, HeededHear DEF Hears, Open, Subscribed
      <4> QED BY <4>1, <4>2 DEF Subscribed, Heeded
    <3> QED BY <2>0, <2>2, <3>1, <1>w, <1>4, <1>5, LastWordServes
  <2> QED BY <2>1, <2>2
<1>9. Entered'
  BY <1>1, <1>2, ChatAssumption
     DEF TaskStartFails, ghosts, Entered, OneLive, AskingCanResumeUnlessRetried, AtWorkIsEnteredUnlessOverlapped, AtWork, Live, ChatTask
<1> QED BY <1>5, <1>6, <1>7, <1>8, <1>9

\* A word that shows a task as under way comes to nobody on the page, or the
\* task reaches the page.
LEMMA TaskSpeaks ==
  ASSUME ChatInv, ChatTypes', Quiet, NEW id \in Ids, TaskSteps(id), session' = session,
         task'[id].phase \in {"running", "asking"}, NEW st \in States, conns' = Updates(id, conns, st),
         task[id].phase = "running"
  PROVE  /\ Wired /\ (\A i \in Ids : Heard(i))
         /\ \A i \in Ids : ~doubled /\ i \notin excused => ServedFor(i)'
<1> USE DEF ChatInv
<1> DEFINE m == State(id, st)
           to == Receivers(task[id].conn, Open, subs)
<1>1. task[id] # Null /\ Live(id) /\ task[id].conn \in Conns
  BY DEF TaskSteps, Live, ChatTypes, ChatTask, Conns
<1>2. /\ m \in Reply /\ conns' = Deliver(conns, to, m) /\ to \subseteq subs
      /\ \A i \in Ids : i # id => ~Stirring(m, i)
  <2>1. m \in Reply /\ \A i \in Ids : i # id => ~Stirring(m, i)
    BY DEF State, Reply, Stirring, Ids
  <2>2. to \subseteq subs
    BY <1>1, ReceiversAre
  <2> QED BY <2>1, <2>2 DEF Updates
<1> HIDE DEF m
<1>3. Wired /\ (\A i \in Ids : Heard(i)) /\ conns' \in Wires
  <2>1. \A i \in Ids : Stirring(m, i) => to \subseteq subs' /\ task'[i] # Null
    BY <1>1, <1>2 DEF Quiet, TasksKept
  <2> HIDE DEF to
  <2> QED BY <1>2, <2>1, DeliveredWired
<1>4. ASSUME NEW i \in Ids, ~doubled, i \notin excused PROVE ServedFor(i)'
  <2>1. GoesOn(i)
    <3>1. CASE i = id
      BY <3>1 DEF TaskSteps, GoesOn
    <3>2. CASE i # id
      BY <3>2, TaskStepsKeeps
    <3> QED BY <3>1, <3>2
  <2>2. CASE i # id \/ to \cap Heeded = {}
    <3>1. Undisturbed(i)
      <4> HIDE DEF to
      <4> QED BY <2>1, <2>2, <1>2, DeliveredUndisturbed
    <3> QED BY <1>3, <1>4, <3>1, UndisturbedIsServed
  <2>3. CASE i = id /\ to \cap Heeded # {}
    <3>1. Held' = Held /\ Heeded' = Heeded /\ Open' = Open /\ isGroup' = isGroup /\ subs' = subs
      BY <1>3, QuietStep DEF Quiet, Growing, TasksKept
    <3>2. Receivers(task[id].conn, Open, subs)' = to
      BY <3>1 DEF TaskSteps, Receivers, GroupReceivers, ChatReceivers
    <3>3. Live(id)' /\ task'[id].phase \notin {"outputs", "starting"}
      BY DEF TaskSteps, Live
    <3>4. Reaches(id)'
      BY <2>3, <3>1, <3>2, <3>3 DEF Reaches
    <3> QED BY <2>3, <3>4 DEF ServedFor
  <2> QED BY <2>2, <2>3
<1> QED BY <1>3, <1>4

LEMMA UpdatesAreTyped ==
  ASSUME ChatTypes, NEW id \in Ids, NEW st \in States, conns' = Updates(id, conns, st)
  PROVE  conns' \in Wires
<1>1. State(id, st) \in Reply
  BY DEF State, Reply, Ids
<1>2. conns \in Wires
  BY DEF ChatTypes, Wires
<1> QED BY <1>1, <1>2, Delivered DEF Updates

LEMMA TaskStreamsKeeps ==
  ASSUME ChatInv, NEW id \in Ids, TaskStreams(id) PROVE ChatInv'
<1> USE DEF ChatInv
<1>1. task[id] \in ChatTask /\ task[id] # Null /\ task[id].phase = "running"
  BY DEF TaskStreams, Live, ChatTypes
<1>2. /\ task' \in [Ids -> ChatTask \cup {Null}]
      /\ task'[id] = [task[id] EXCEPT !.said = TRUE] /\ task'[id] \in ChatTask /\ task'[id] # Null
      /\ \A i \in Ids : i # id => task'[i] = task[i]
  <2>1. [task[id] EXCEPT !.said = TRUE] \in ChatTask
    BY <1>1 DEF ChatTask
  <2>2. task' = [task EXCEPT ![id] = [task[id] EXCEPT !.said = TRUE]]
    BY DEF TaskStreams
  <2> QED BY <2>1, <2>2, TaskSet
<1>3. TaskSteps(id) /\ task'[id].phase = "running"
  BY <1>1, <1>2 DEF TaskStreams, TaskSteps, ChatTask
<1>w. conns' = Updates(id, conns, Word(id)) /\ Word(id) \in States
  BY DEF TaskStreams, Word, States
<1>4. Quiet /\ session' = session
  BY <1>3, TaskStepsKeeps DEF TaskStreams, pageVars, ghosts, Quiet, Growing, TasksKept, ChatTypes
<1>5. ChatTypes'
  <2>1. conns' \in Wires
    BY <1>w, UpdatesAreTyped
  <2> QED BY <1>2, <2>1 DEF TaskStreams, pageVars, ghosts, ChatTypes, Wires
<1>6. OnlyAnswersWait'
  BY <1>4 DEF OnlyAnswersWait
<1>a. /\ Wired /\ (\A i \in Ids : Heard(i))
      /\ \A i \in Ids : ~doubled /\ i \notin excused => ServedFor(i)'
  BY <1>1, <1>3, <1>w, <1>4, <1>5, TaskSpeaks
<1>7. Sockets' /\ Subscribed' /\ Questions' /\ Asked' /\ Spoken'
  BY <1>4, <1>5, <1>a, QuietStep
<1>8. Served'
  BY <1>4, <1>a DEF Served, Quiet, Growing, TasksKept
<1>9. Entered'
  BY <1>1, <1>2, ChatAssumption
     DEF TaskStreams, ghosts, Entered, OneLive, AskingCanResumeUnlessRetried, AtWorkIsEnteredUnlessOverlapped, AtWork, Live, ChatTask
<1> QED BY <1>5, <1>6, <1>7, <1>8, <1>9

LEMMA TaskAsksKeeps ==
  ASSUME ChatInv, NEW id \in Ids, TaskAsks(id) PROVE ChatInv'
<1> USE DEF ChatInv
<1>1. task[id] \in ChatTask /\ task[id] # Null /\ task[id].phase = "running" /\ task[id].conn \in Conns
  BY DEF TaskAsks, Live, ChatTypes, ChatTask, Conns
<1>2. /\ task' \in [Ids -> ChatTask \cup {Null}]
      /\ task'[id] = [task[id] EXCEPT !.phase = "asking", !.asked = TRUE] /\ task'[id] \in ChatTask /\ task'[id] # Null
      /\ \A i \in Ids : i # id => task'[i] = task[i]
  <2>1. [task[id] EXCEPT !.phase = "asking", !.asked = TRUE] \in ChatTask
    BY <1>1 DEF ChatTask
  <2>2. task' = [task EXCEPT ![id] = [task[id] EXCEPT !.phase = "asking", !.asked = TRUE]]
    BY DEF TaskAsks
  <2> QED BY <2>1, <2>2, TaskSet
<1>3. TaskSteps(id) /\ task'[id].phase = "asking"
  BY <1>1, <1>2 DEF TaskAsks, TaskSteps, ChatTask
<1>w. conns' = Updates(id, conns, "waiting") /\ "waiting" \in States /\ pending' = pending \cup {<<task[id].conn, id>>}
  BY DEF TaskAsks, States, OnQuestion
<1>4. Quiet /\ session' = session
  BY <1>3, <1>w, TaskStepsKeeps DEF TaskAsks, pageVars, ghosts, Quiet, Growing, TasksKept, ChatTypes
<1>5. ChatTypes'
  <2>1. conns' \in Wires
    BY <1>w, UpdatesAreTyped
  <2> QED BY <1>1, <1>2, <1>w, <2>1 DEF TaskAsks, pageVars, ghosts, ChatTypes, Wires
<1>6. OnlyAnswersWait'
  BY <1>4 DEF OnlyAnswersWait
<1>a. /\ Wired /\ (\A i \in Ids : Heard(i))
      /\ \A i \in Ids : ~doubled /\ i \notin excused => ServedFor(i)'
  BY <1>1, <1>3, <1>w, <1>4, <1>5, TaskSpeaks
<1>7. Sockets' /\ Subscribed' /\ Questions' /\ Asked' /\ Spoken'
  BY <1>4, <1>5, <1>a, QuietStep
<1>8. Served'
  BY <1>4, <1>a DEF Served, Quiet, Growing, TasksKept
<1>9. Entered'
  BY <1>1, <1>2, <1>w, ChatAssumption
     DEF TaskAsks, ghosts, Entered, OneLive, AskingCanResumeUnlessRetried, AtWorkIsEnteredUnlessOverlapped, AtWork, Live, ChatTask
<1> QED BY <1>5, <1>6, <1>7, <1>8, <1>9

LEMMA TaskShowsQuestionKeeps ==
  ASSUME ChatInv, NEW id \in Ids, TaskShowsQuestion(id) PROVE ChatInv'
<1> USE DEF ChatInv
<1>1. task[id] \in ChatTask /\ task[id] # Null /\ task[id].phase = "running" /\ task[id].again
  BY DEF TaskShowsQuestion, Live, ChatTypes, ChatTask
<1>2. /\ task' \in [Ids -> ChatTask \cup {Null}]
      /\ task'[id] = [task[id] EXCEPT !.phase = "asking", !.asked = TRUE] /\ task'[id] \in ChatTask /\ task'[id] # Null
      /\ \A i \in Ids : i # id => task'[i] = task[i]
  <2>1. [task[id] EXCEPT !.phase = "asking", !.asked = TRUE] \in ChatTask
    BY <1>1 DEF ChatTask
  <2>2. task' = [task EXCEPT ![id] = [task[id] EXCEPT !.phase = "asking", !.asked = TRUE]]
    BY DEF TaskShowsQuestion
  <2> QED BY <2>1, <2>2, TaskSet
<1>3. TaskSteps(id) /\ task'[id].phase = "asking" /\ task'[id].again
  BY <1>1, <1>2 DEF TaskShowsQuestion, TaskSteps, ChatTask
<1>w. conns' = Updates(id, conns, "waiting") /\ "waiting" \in States
  BY DEF TaskShowsQuestion, States
<1>4. Quiet /\ session' = session
  BY <1>3, <1>w, TaskStepsKeeps DEF TaskShowsQuestion, pageVars, ghosts, Quiet, Growing, TasksKept, ChatTypes
<1>5. ChatTypes'
  <2>1. conns' \in Wires
    BY <1>w, UpdatesAreTyped
  <2> QED BY <1>1, <1>2, <2>1 DEF TaskShowsQuestion, pageVars, ghosts, ChatTypes, Wires
<1>6. OnlyAnswersWait'
  BY <1>4 DEF OnlyAnswersWait
<1>a. /\ Wired /\ (\A i \in Ids : Heard(i))
      /\ \A i \in Ids : ~doubled /\ i \notin excused => ServedFor(i)'
  BY <1>1, <1>3, <1>w, <1>4, <1>5, TaskSpeaks
<1>7. Sockets' /\ Subscribed' /\ Questions' /\ Asked' /\ Spoken'
  BY <1>4, <1>5, <1>a, QuietStep
<1>8. Served'
  BY <1>4, <1>a DEF Served, Quiet, Growing, TasksKept
<1>9. Entered'
  BY <1>1, <1>2, <1>3, ChatAssumption
     DEF TaskShowsQuestion, ghosts, Entered, OneLive, AskingCanResumeUnlessRetried, AtWorkIsEnteredUnlessOverlapped,
         AtWork, Live, ChatTask
<1> QED BY <1>5, <1>6, <1>7, <1>8, <1>9

\* A task goes on without a word.
LEMMA TaskGoesOnKeeps ==
  ASSUME ChatInv, NEW id \in Ids, TaskRetries(id) \/ HookGivesUp(id) PROVE ChatInv'
<1> USE DEF ChatInv
<1>1. /\ task[id] \in ChatTask /\ task[id] # Null /\ task[id].phase \in {"running", "asking"} /\ Live(id)
      /\ UNCHANGED <<pageVars, conns, subs, pending, running, row, grouped, ghosts>>
  BY DEF TaskRetries, HookGivesUp, Live, ChatTypes
<1>2. /\ task' \in [Ids -> ChatTask \cup {Null}]
      /\ task'[id] \in ChatTask /\ task'[id] # Null /\ task'[id].phase = "running" /\ task'[id].conn = task[id].conn
      /\ \A i \in Ids : i # id => task'[i] = task[i]
  <2>1. CASE TaskRetries(id)
    <3> DEFINE t == [task[id] EXCEPT !.again = TRUE, !.asked = FALSE, !.said = FALSE]
    <3>1. t \in ChatTask /\ t.phase = "running" /\ t.conn = task[id].conn
      BY <1>1, <2>1 DEF TaskRetries, ChatTask
    <3>2. task' = [task EXCEPT ![id] = t]
      BY <2>1 DEF TaskRetries
    <3> HIDE DEF t
    <3> QED BY <3>1, <3>2, TaskSet
  <2>2. CASE HookGivesUp(id)
    <3> DEFINE t == [task[id] EXCEPT !.phase = "running", !.said = FALSE]
    <3>1. t \in ChatTask /\ t.phase = "running" /\ t.conn = task[id].conn
      BY <1>1 DEF ChatTask
    <3>2. task' = [task EXCEPT ![id] = t]
      BY <2>2 DEF HookGivesUp
    <3> HIDE DEF t
    <3> QED BY <3>1, <3>2, TaskSet
  <2> QED BY <2>1, <2>2
<1>3. TaskSteps(id)
  BY <1>1, <1>2 DEF TaskSteps
<1>4. Quiet /\ Wired /\ \A i \in Ids : Heard(i)
  BY <1>1, <1>3, TaskStepsKeeps, StillWired DEF pageVars, ghosts, Quiet, Growing, TasksKept, ChatTypes
<1>5. ChatTypes'
  BY <1>1, <1>2 DEF pageVars, ghosts, ChatTypes
<1>6. OnlyAnswersWait'
  BY <1>1 DEF pageVars, OnlyAnswersWait
<1>7. Sockets' /\ Subscribed' /\ Questions' /\ Asked' /\ Spoken'
  BY <1>4, <1>5, QuietStep
<1>8. Served'
  <2> SUFFICES ASSUME ~doubled, NEW i \in Ids, i \notin excused PROVE ServedFor(i)'
    BY <1>1 DEF Served, ghosts
  <2>1. GoesOn(i)
    BY <1>1, <1>2, <1>3, TaskStepsKeeps DEF GoesOn, TaskSteps, Live
  <2>2. Undisturbed(i)
    BY <1>1, <2>1 DEF Undisturbed, pageVars, Shows
  <2> QED BY <2>2, <1>4, <1>5, UndisturbedIsServed
<1>9. Entered'
  BY <1>1, <1>2, ChatAssumption
     DEF ghosts, Entered, OneLive, AskingCanResumeUnlessRetried, AtWorkIsEnteredUnlessOverlapped, AtWork, Live
<1> QED BY <1>5, <1>6, <1>7, <1>8, <1>9

LEMMA TaskEndsKeeps ==
  ASSUME ChatInv, NEW id \in Ids, NEW st \in {"complete", "error"}, TaskEnds(id, st) PROVE ChatInv'
<1> USE DEF ChatInv
<1> DEFINE m == State(id, st)
           to == Receivers(task[id].conn, Open, subs)
<1>1. task[id] \in ChatTask /\ task[id] # Null /\ task[id].phase = "running" /\ task[id].conn \in Conns
  BY DEF TaskEnds, Live, ChatTypes, ChatTask, Conns
<1>2. /\ task' \in [Ids -> ChatTask \cup {Null}]
      /\ task'[id] = [task[id] EXCEPT !.phase = "outputs"] /\ task'[id] \in ChatTask /\ task'[id] # Null
      /\ \A i \in Ids : i # id => task'[i] = task[i]
  <2>1. [task[id] EXCEPT !.phase = "outputs"] \in ChatTask
    BY <1>1 DEF ChatTask
  <2>2. task' = [task EXCEPT ![id] = [task[id] EXCEPT !.phase = "outputs"]]
    BY DEF TaskEnds
  <2> QED BY <2>1, <2>2, TaskSet
<1>3. TaskSteps(id) /\ task'[id].phase = "outputs"
  BY <1>1, <1>2 DEF TaskEnds, TaskSteps, ChatTask
<1>w. /\ m \in Reply /\ Ending(m, id) /\ \A i \in Ids : ~Stirring(m, i)
      /\ conns' = Deliver(conns, to, m)
  BY DEF TaskEnds, Updates, State, Reply, States, Ending, Stirring, Ids
<1> HIDE DEF m
<1>4. Quiet /\ session' = session /\ Wired /\ (\A i \in Ids : Heard(i)) /\ conns' \in Wires
  <2>1. Quiet /\ session' = session
    BY <1>3, TaskStepsKeeps DEF TaskEnds, pageVars, Quiet, Growing, TasksKept, ChatTypes
  <2> HIDE DEF to
  <2> QED BY <1>w, <2>1, DeliveredWired
<1>5. ChatTypes'
  BY <1>2, <1>4 DEF TaskEnds, pageVars, ChatTypes, Wires
<1>6. OnlyAnswersWait'
  BY <1>4 DEF OnlyAnswersWait
<1>7. Sockets' /\ Subscribed' /\ Questions' /\ Asked' /\ Spoken'
  BY <1>4, <1>5, QuietStep
<1>8. Served'
  <2> SUFFICES ASSUME ~doubled, NEW i \in Ids, i \notin excused PROVE ServedFor(i)'
    BY DEF Served, TaskEnds
  <2>1. CASE i # id
    <3>1. Undisturbed(i)
      <4> HIDE DEF to
      <4> QED BY <2>1, <1>w, <1>3, <1>4, TaskStepsKeeps, DeliveredUndisturbed
    <3> QED BY <3>1, <1>4, <1>5, UndisturbedIsServed
  <2>2. CASE i = id
    <3>1. Reaches(id) => Heeded \cap subs \subseteq to /\ Heeded \cap subs # {}
      BY <1>1, TaskReaches
    <3> HIDE DEF to
    <3> QED BY <2>2, <3>1, <1>w, <1>4, <1>5, LastWordServes
  <2> QED BY <2>1, <2>2
<1>9. Entered'
  BY <1>1, <1>2, ChatAssumption
     DEF TaskEnds, ghosts, Entered, OneLive, AskingCanResumeUnlessRetried, AtWorkIsEnteredUnlessOverlapped, AtWork, Live, ChatTask
<1> QED BY <1>5, <1>6, <1>7, <1>8, <1>9

LEMMA OutputsSentKeeps ==
  ASSUME ChatInv, NEW id \in Ids, OutputsSent(id) PROVE ChatInv'
<1> USE DEF ChatInv
<1>1. task[id] \in ChatTask /\ task[id] # Null /\ task[id].phase = "outputs"
  BY DEF OutputsSent, Live, ChatTypes
<1>2. /\ task' \in [Ids -> ChatTask \cup {Null}]
      /\ task'[id] = [task[id] EXCEPT !.phase = "done"] /\ task'[id] \in ChatTask /\ task'[id] # Null
      /\ \A i \in Ids : i # id => task'[i] = task[i]
  <2>1. [task[id] EXCEPT !.phase = "done"] \in ChatTask
    BY <1>1 DEF ChatTask
  <2>2. task' = [task EXCEPT ![id] = [task[id] EXCEPT !.phase = "done"]]
    BY DEF OutputsSent
  <2> QED BY <2>1, <2>2, TaskSet
<1>3. TaskSteps(id) /\ task'[id].phase = "done"
  BY <1>1, <1>2 DEF OutputsSent, TaskSteps, ChatTask
<1>4. Quiet /\ session' = session /\ Wired /\ \A i \in Ids : Heard(i)
  BY <1>3, TaskStepsKeeps, StillWired DEF OutputsSent, pageVars, ghosts, Quiet, Growing, TasksKept, ChatTypes, Frees, Ids
<1>5. ChatTypes'
  <2>1. row' \in Nat \cup {Null} /\ running' = 0
    BY DEF OutputsSent, Recorded, Frees, ChatTypes
  <2> QED BY <1>2, <2>1 DEF OutputsSent, pageVars, ghosts, ChatTypes
<1>6. OnlyAnswersWait'
  BY <1>4 DEF OnlyAnswersWait
<1>7. Sockets' /\ Subscribed' /\ Questions' /\ Asked' /\ Spoken'
  BY <1>4, <1>5, QuietStep
<1>8. Served'
  <2> SUFFICES ASSUME ~doubled, NEW i \in Ids, i \notin excused PROVE ServedFor(i)'
    BY DEF Served, OutputsSent, ghosts
  <2>1. GoesOn(i)
    BY <1>1, <1>3, TaskStepsKeeps DEF GoesOn
  <2>2. Undisturbed(i)
    BY <2>1 DEF Undisturbed, OutputsSent, pageVars, Shows
  <2> QED BY <2>2, <1>4, <1>5, UndisturbedIsServed
<1>9. Entered'
  <2>1. /\ Live(id) /\ AtWork(id) /\ ~Live(id)' /\ ~AtWork(id)' /\ running' = 0
        /\ \A i \in Ids : i # id => (Live(i)' <=> Live(i)) /\ (AtWork(i)' <=> AtWork(i)) /\ task'[i] = task[i]
        /\ overlap' = overlap /\ pending' = pending
    BY <1>1, <1>2, <1>3 DEF OutputsSent, ghosts, Frees, Live, AtWork
  <2>2. OneLive' /\ AskingCanResumeUnlessRetried'
    BY <2>1 DEF Entered, OneLive, AskingCanResumeUnlessRetried
  <2>3. ASSUME ~overlap, NEW i \in Ids PROVE ~AtWork(i)' /\ running' # i
    <3>1. running' # i
      BY <2>1 DEF Ids
    <3>2. i # id => ~Live(i)
      BY <2>1, <2>3 DEF Entered, OneLive
    <3> QED BY <2>1, <3>1, <3>2 DEF AtWork
  <2>4. AtWorkIsEnteredUnlessOverlapped'
    BY <2>1, <2>3 DEF AtWorkIsEnteredUnlessOverlapped
  <2> QED BY <2>2, <2>4 DEF Entered
<1> QED BY <1>5, <1>6, <1>7, <1>8, <1>9

LEMMA OutputsFailKeeps ==
  ASSUME ChatInv, NEW id \in Ids, OutputsFail(id) PROVE ChatInv'
<1> USE DEF ChatInv
<1> DEFINE m == State(id, "error")
           to == Receivers(task[id].conn, Open, subs)
<1>1. task[id] \in ChatTask /\ task[id] # Null /\ task[id].phase = "outputs" /\ task[id].conn \in Conns
  BY DEF OutputsFail, Live, ChatTypes, ChatTask, Conns
<1>2. /\ task' \in [Ids -> ChatTask \cup {Null}]
      /\ task'[id] = [task[id] EXCEPT !.phase = "done"] /\ task'[id] \in ChatTask /\ task'[id] # Null
      /\ \A i \in Ids : i # id => task'[i] = task[i]
  <2>1. [task[id] EXCEPT !.phase = "done"] \in ChatTask
    BY <1>1 DEF ChatTask
  <2>2. task' = [task EXCEPT ![id] = [task[id] EXCEPT !.phase = "done"]]
    BY DEF OutputsFail
  <2> QED BY <2>1, <2>2, TaskSet
<1>3. TaskSteps(id) /\ task'[id].phase = "done"
  BY <1>1, <1>2 DEF OutputsFail, TaskSteps, ChatTask
<1>w. /\ m \in Reply /\ \A i \in Ids : ~Stirring(m, i)
      /\ conns' = Deliver(conns, to, m)
  BY DEF OutputsFail, Updates, State, Reply, States, Stirring, Ids
<1> HIDE DEF m
<1>4. Quiet /\ session' = session /\ Wired /\ (\A i \in Ids : Heard(i)) /\ conns' \in Wires
  <2>1. Quiet /\ session' = session
    BY <1>3, TaskStepsKeeps DEF OutputsFail, pageVars, Quiet, Growing, TasksKept, ChatTypes, Frees, Ids
  <2> HIDE DEF to
  <2> QED BY <1>w, <2>1, DeliveredWired
<1>5. ChatTypes'
  BY <1>2, <1>4 DEF OutputsFail, Frees, pageVars, ChatTypes, Wires
<1>6. OnlyAnswersWait'
  BY <1>4 DEF OnlyAnswersWait
<1>7. Sockets' /\ Subscribed' /\ Questions' /\ Asked' /\ Spoken'
  BY <1>4, <1>5, QuietStep
<1>8. Served'
  <2> SUFFICES ASSUME ~doubled, NEW i \in Ids, i \notin excused PROVE ServedFor(i)'
    BY DEF Served, OutputsFail
  <2>1. GoesOn(i)
    BY <1>1, <1>3, TaskStepsKeeps DEF GoesOn
  <2>2. Undisturbed(i)
    <3> HIDE DEF to
    <3> QED BY <2>1, <1>w, <1>4, DeliveredUndisturbed
  <2> QED BY <2>2, <1>4, <1>5, UndisturbedIsServed
<1>9. Entered'
  <2>1. /\ Live(id) /\ AtWork(id) /\ ~Live(id)' /\ ~AtWork(id)' /\ running' = 0
        /\ \A i \in Ids : i # id => (Live(i)' <=> Live(i)) /\ (AtWork(i)' <=> AtWork(i)) /\ task'[i] = task[i]
        /\ overlap' = overlap /\ pending' = pending
    BY <1>1, <1>2, <1>3 DEF OutputsFail, Frees, Live, AtWork
  <2>2. OneLive' /\ AskingCanResumeUnlessRetried'
    BY <2>1 DEF Entered, OneLive, AskingCanResumeUnlessRetried
  <2>3. ASSUME ~overlap, NEW i \in Ids PROVE ~AtWork(i)' /\ running' # i
    <3>1. running' # i
      BY <2>1 DEF Ids
    <3>2. i # id => ~Live(i)
      BY <2>1, <2>3 DEF Entered, OneLive
    <3> QED BY <2>1, <3>1, <3>2 DEF AtWork
  <2>4. AtWorkIsEnteredUnlessOverlapped'
    BY <2>1, <2>3 DEF AtWorkIsEnteredUnlessOverlapped
  <2> QED BY <2>2, <2>4 DEF Entered
<1> QED BY <1>5, <1>6, <1>7, <1>8, <1>9

\* The question of a task is answered or given up.
LEMMA ResumesKeeps ==
  ASSUME ChatTypes, Entered, NEW k \in Conns, NEW id \in Ids, <<k, id>> \in pending, Resumes(k, id),
         task[id] # Null, UNCHANGED <<running, overlap>>
  PROVE  /\ task' \in [Ids -> ChatTask \cup {Null}] /\ pending' \subseteq Conns \X Ids
         /\ TasksKept /\ (\A i \in Ids : GoesOn(i)) /\ Entered'
<1>1. task[id] \in ChatTask
  BY DEF ChatTypes
<1>2. CASE task[id].phase = "asking"
  <2>1. /\ task' \in [Ids -> ChatTask \cup {Null}]
        /\ task'[id] = [task[id] EXCEPT !.phase = "running", !.said = FALSE] /\ task'[id] \in ChatTask /\ task'[id] # Null
        /\ \A i \in Ids : i # id => task'[i] = task[i]
    <3>1. [task[id] EXCEPT !.phase = "running", !.said = FALSE] \in ChatTask
      BY <1>1 DEF ChatTask
    <3>2. task' = [task EXCEPT ![id] = [task[id] EXCEPT !.phase = "running", !.said = FALSE]]
      BY <1>2 DEF Resumes
    <3> QED BY <3>1, <3>2, TaskSet
  <2>2. TaskSteps(id) /\ task'[id].phase = "running"
    BY <1>1, <1>2, <2>1 DEF TaskSteps, ChatTask, Live
  <2>3. TasksKept /\ \A i \in Ids : GoesOn(i)
    BY <1>2, <2>2, TaskStepsKeeps DEF GoesOn, TaskSteps
  <2>4. Entered'
    <3>1. /\ \A i \in Ids : (Live(i)' <=> Live(i)) /\ (AtWork(i)' <=> AtWork(i))
          /\ \A i \in Ids : Live(i)' /\ task'[i].phase = "asking" => i # id
      BY <1>1, <1>2, <2>1, <2>2, ChatAssumption DEF Live, AtWork
    <3>2. AskingCanResumeUnlessRetried'
      BY <2>1, <3>1 DEF Resumes, Entered, AskingCanResumeUnlessRetried
    <3> QED BY <3>1, <3>2 DEF Entered, OneLive, AtWorkIsEnteredUnlessOverlapped
  <2> QED BY <2>1, <2>3, <2>4 DEF Resumes, ChatTypes
<1>3. CASE task[id].phase # "asking"
  BY <1>3 DEF Resumes, ChatTypes, TasksKept, GoesOn, Live,
              Entered, OneLive, AskingCanResumeUnlessRetried, AtWorkIsEnteredUnlessOverlapped, AtWork
<1> QED BY <1>2, <1>3

LEMMA QuestionTimesOutKeeps ==
  ASSUME ChatInv, NEW id \in Ids, QuestionTimesOut(id) PROVE ChatInv'
<1> USE DEF ChatInv
<1>1. task[id] # Null /\ task[id].conn \in Conns /\ <<task[id].conn, id>> \in pending
  BY DEF QuestionTimesOut, Live, ChatTypes, ChatTask, Conns
<1>2. /\ task' \in [Ids -> ChatTask \cup {Null}] /\ pending' \subseteq Conns \X Ids
      /\ TasksKept /\ (\A i \in Ids : GoesOn(i)) /\ Entered'
  BY <1>1, ResumesKeeps DEF QuestionTimesOut, ghosts
<1>4. Quiet /\ session' = session /\ Wired /\ \A i \in Ids : Heard(i)
  BY <1>2, StillWired DEF QuestionTimesOut, pageVars, ghosts, Quiet, Growing, TasksKept, Resumes, ChatTypes
<1>5. ChatTypes'
  BY <1>2 DEF QuestionTimesOut, pageVars, ghosts, ChatTypes
<1>6. OnlyAnswersWait'
  BY <1>4 DEF OnlyAnswersWait
<1>7. Sockets' /\ Subscribed' /\ Questions' /\ Asked' /\ Spoken'
  BY <1>4, <1>5, QuietStep
<1>8. Served'
  <2> SUFFICES ASSUME ~doubled, NEW i \in Ids, i \notin excused PROVE ServedFor(i)'
    BY DEF Served, QuestionTimesOut, ghosts
  <2>1. Undisturbed(i)
    BY <1>2 DEF Undisturbed, QuestionTimesOut, pageVars, Shows
  <2> QED BY <2>1, <1>4, <1>5, UndisturbedIsServed
<1> QED BY <1>2, <1>5, <1>6, <1>7, <1>8

\* The page's messages with the two of one sending behind them.
Grown(t, s, u) ==
  /\ t \in Seq(ChatRow) /\ Len(t) = Len(s) + 2 /\ Len(s) \in Nat
  /\ \A i \in 1..Len(s) : t[i] = s[i]
  /\ t[Len(s) + 1] = u[1] /\ t[Len(s) + 2] = u[2]

LEMMA TwoMore ==
  ASSUME NEW s, NEW u, s \in Seq(ChatRow), u \in Seq(ChatRow), Len(u) = 2
  PROVE  Grown(s \o u, s, u)
<1> DEFINE t == s \o u
<1>1. Len(s) \in Nat
  OBVIOUS
<1>2. /\ t \in Seq(ChatRow) /\ Len(t) = Len(s) + Len(u)
      /\ \A i \in 1..Len(s) + Len(u) : t[i] = IF i <= Len(s) THEN s[i] ELSE u[i - Len(s)]
  BY ConcatProperties, Zenon
<1> HIDE DEF t
<1>3. \A i \in 1..Len(s) : t[i] = s[i]
  BY <1>1, <1>2
<1>4. t[Len(s) + 1] = u[1]
  <2>1. Len(s) + 1 \in 1..Len(s) + 2 /\ ~(Len(s) + 1 <= Len(s)) /\ (Len(s) + 1) - Len(s) = 1
    BY <1>1
  <2> QED BY <2>1, <1>2
<1>5. t[Len(s) + 2] = u[2]
  <2>1. Len(s) + 2 \in 1..Len(s) + 2 /\ ~(Len(s) + 2 <= Len(s)) /\ (Len(s) + 2) - Len(s) = 2
    BY <1>1
  <2> QED BY <2>1, <1>2
<1>6. t \in Seq(ChatRow) /\ Len(t) = Len(s) + 2
  BY <1>2
<1>7. Grown(t, s, u)
  BY <1>1, <1>3, <1>4, <1>5, <1>6 DEF Grown
<1> QED BY <1>7 DEF t

(* The page. ****************************************************************)

Sessions == Seq(ChatRow) \cup {Null}

LEMMA RowSet ==
  ASSUME NEW s \in Sessions, NEW id \in 0..MaxSends, NEW st \in States, NEW t, t = SetState(s, id, st)
  PROVE  /\ t \in Sessions /\ (t = Null <=> s = Null)
         /\ s # Null => /\ Len(t) = Len(s)
                        /\ \A i \in 1..Len(s) :
                             /\ t[i].id = s[i].id /\ t[i].kind = s[i].kind
                             /\ t[i].st = IF s[i].id = id /\ s[i].kind = "assistant" THEN st ELSE s[i].st
<1>1. CASE s = Null
  BY <1>1 DEF SetState
<1>2. CASE s # Null
  <2>1. s \in Seq(ChatRow) /\ DOMAIN s = 1..Len(s) /\ Len(s) \in Nat
    BY <1>2 DEF Sessions
  <2>2. t = [i \in 1..Len(s) |-> IF s[i].id = id /\ s[i].kind = "assistant"
                                 THEN [s[i] EXCEPT !.st = st] ELSE s[i]]
    BY <1>2, <2>1 DEF SetState
  <2>3. ASSUME NEW i \in 1..Len(s) PROVE t[i] \in ChatRow
    <3>1. s[i] \in ChatRow
      BY <2>1
    <3>2. [s[i] EXCEPT !.st = st] \in ChatRow
      BY <3>1 DEF ChatRow
    <3> QED BY <2>2, <3>1, <3>2
  <2>4. t \in Seq(ChatRow) /\ Len(t) = Len(s)
    BY <2>1, <2>2, <2>3
  <2>5. \A i \in 1..Len(s) :
          /\ t[i].id = s[i].id /\ t[i].kind = s[i].kind
          /\ t[i].st = IF s[i].id = id /\ s[i].kind = "assistant" THEN st ELSE s[i].st
    BY <2>1, <2>2 DEF ChatRow
  <2> QED BY <1>2, <2>4, <2>5, ChatAssumption DEF Sessions
<1> QED BY <1>1, <1>2

LEMMA RowsMarked ==
  ASSUME NEW s \in Sessions, NEW t, t = MarkRunningDisconnected(s)
  PROVE  /\ t \in Sessions /\ (t = Null <=> s = Null)
         /\ s # Null => /\ Len(t) = Len(s)
                        /\ \A i \in 1..Len(s) :
                             /\ t[i].id = s[i].id /\ t[i].kind = s[i].kind
                             /\ t[i].st = IF s[i].kind = "assistant" /\ s[i].st \in Thinking THEN "error" ELSE s[i].st
<1>1. CASE s = Null
  BY <1>1 DEF MarkRunningDisconnected
<1>2. CASE s # Null
  <2>1. s \in Seq(ChatRow) /\ DOMAIN s = 1..Len(s) /\ Len(s) \in Nat
    BY <1>2 DEF Sessions
  <2>2. t = [i \in 1..Len(s) |-> IF s[i].kind = "assistant" /\ s[i].st \in Thinking
                                 THEN [s[i] EXCEPT !.st = "error"] ELSE s[i]]
    BY <1>2, <2>1 DEF MarkRunningDisconnected
  <2>3. ASSUME NEW i \in 1..Len(s) PROVE t[i] \in ChatRow
    <3>1. s[i] \in ChatRow
      BY <2>1
    <3>2. [s[i] EXCEPT !.st = "error"] \in ChatRow
      BY <3>1 DEF ChatRow, States
    <3> QED BY <2>2, <3>1, <3>2
  <2>4. t \in Seq(ChatRow) /\ Len(t) = Len(s)
    BY <2>1, <2>2, <2>3
  <2>5. \A i \in 1..Len(s) :
          /\ t[i].id = s[i].id /\ t[i].kind = s[i].kind
          /\ t[i].st = IF s[i].kind = "assistant" /\ s[i].st \in Thinking THEN "error" ELSE s[i].st
    BY <2>1, <2>2 DEF ChatRow
  <2> QED BY <1>2, <2>4, <2>5, ChatAssumption DEF Sessions
<1> QED BY <1>1, <1>2

\* A message is shown as something else, or as over.
LEMMA StateSet ==
  ASSUME ChatTypes, OnlyAnswersWait, NEW id \in 0..MaxSends, NEW st \in States,
         st # "complete" => id \in Ids, session' = SetState(session, id, st)
  PROVE  /\ session' \in Sessions /\ OnlyAnswersWait'
         /\ \A i \in Ids, sts \in {{"waiting"}, Thinking} :
              Shows(i, sts)' => IF i = id THEN st \in sts ELSE Shows(i, sts)
<1>1. session \in Sessions
  BY DEF ChatTypes, Sessions
<1>2. /\ session' \in Sessions /\ (session' = Null <=> session = Null)
      /\ session # Null => /\ Len(session') = Len(session)
                           /\ \A i \in 1..Len(session) :
                                /\ session'[i].id = session[i].id /\ session'[i].kind = session[i].kind
                                /\ session'[i].st = IF session[i].id = id /\ session[i].kind = "assistant"
                                                    THEN st ELSE session[i].st
  BY <1>1, RowSet
<1>3. OnlyAnswersWait'
  BY <1>2 DEF OnlyAnswersWait
<1>4. ASSUME NEW i \in Ids, NEW sts \in {{"waiting"}, Thinking}, Shows(i, sts)'
      PROVE  IF i = id THEN st \in sts ELSE Shows(i, sts)
  <2>1. session # Null /\ \E j \in 1..Len(session) : session[j].id = i /\ session'[j].st \in sts
    BY <1>2, <1>4 DEF Shows
  <2>2. PICK j \in 1..Len(session) : session[j].id = i /\ session'[j].st \in sts
    BY <2>1
  <2>3. "complete" \notin sts
    BY DEF Thinking
  <2>4. CASE i = id
    BY <1>2, <2>1, <2>2, <2>3, <2>4 DEF OnlyAnswersWait
  <2>5. CASE i # id
    BY <1>2, <2>1, <2>2, <2>5 DEF Shows
  <2> QED BY <2>4, <2>5
<1> QED BY <1>2, <1>3, <1>4

\* What the page sends, other than a message.
LEMMA SentWired ==
  ASSUME ChatTypes, Sockets, NEW h \in Hooks, NEW m \in Request, m.type # "chat", conns' = Up(conns, sock[h], m)
  PROVE  /\ conns' \in Wires /\ Wired /\ (\A id \in Ids : Heard(id))
         /\ \A k \in Conns, id \in Ids :
              /\ Carries(conns[k], id) => Carries(conns'[k], id)
              /\ Stirs(conns'[k], id) => Stirs(conns[k], id)
              /\ Settles(conns[k], id) => Settles(conns'[k], id)
<1>1. conns \in Wires /\ sock[h] \in Conns \cup {0} /\ (sock[h] # 0 => conns[sock[h]] # Null /\ sock[h] \in Held)
  BY DEF ChatTypes, Wires, Sockets, Held
<1>2. /\ conns' \in Wires
      /\ \A j \in Conns :
           /\ Link(conns[j], conns'[j]) /\ (conns[j] # Null => conns'[j].down = conns[j].down)
           /\ conns[j] # Null /\ conns'[j].up # conns[j].up => j = sock[h] /\ conns[j].alive
           /\ \A id \in Ids : Carries(conns'[j], id) <=> Carries(conns[j], id)
           /\ conns[j] # Null /\ Once(conns[j]) => Once(conns'[j])
  BY <1>1, SentUp
<1>3. \A j \in Conns : sock[h] = j => j \in Held
  BY <1>1, ChatAssumption DEF Conns
<1>4. Wired
  BY <1>2, <1>3 DEF Wired
<1>5. \A k \in Conns, id \in Ids :
        /\ Stirs(conns'[k], id) => Stirs(conns[k], id)
        /\ Settles(conns[k], id) => Settles(conns'[k], id)
  BY <1>2 DEF Stirs, Settles, Link
<1> QED BY <1>2, <1>4, <1>5 DEF Heard

LEMMA PageAsks ==
  ASSUME ChatInv, NEW h \in Hooks, NEW m \in Request, m.type # "chat", conns' = Up(conns, sock[h], m),
         UNCHANGED <<isGroup, mounted, sock, sent, serverVars, ghosts>>,
         session' \in Sessions, OnlyAnswersWait',
         \A id \in Ids, sts \in {{"waiting"}, Thinking} : Shows(id, sts)' => Shows(id, sts)
  PROVE  ChatInv'
<1> USE DEF ChatInv
<1>1. /\ conns' \in Wires /\ Wired /\ (\A id \in Ids : Heard(id))
      /\ \A k \in Conns, id \in Ids :
           /\ Carries(conns[k], id) => Carries(conns'[k], id)
           /\ Stirs(conns'[k], id) => Stirs(conns[k], id)
           /\ Settles(conns[k], id) => Settles(conns'[k], id)
  BY SentWired
<1>2. ChatTypes'
  BY <1>1 DEF ChatTypes, serverVars, ghosts, Wires, Sessions
<1>3. Quiet
  BY DEF Quiet, Growing, TasksKept, serverVars, ghosts, ChatTypes
<1>4. Sockets' /\ Subscribed' /\ Questions' /\ Asked' /\ Spoken'
  BY <1>1, <1>2, <1>3, QuietStep
<1>5. Served'
  <2> SUFFICES ASSUME ~doubled, NEW i \in Ids, i \notin excused PROVE ServedFor(i)'
    BY DEF Served, ghosts
  <2>1. GoesOn(i)
    BY DEF GoesOn, serverVars, Live
  <2>2. Undisturbed(i)
    BY <2>1, <1>1, HeldAreConns DEF Undisturbed
  <2> QED BY <2>2, <1>1, <1>2, <1>3, UndisturbedIsServed
<1>6. Entered'
  BY DEF serverVars, ghosts, Entered, OneLive, AskingCanResumeUnlessRetried, AtWorkIsEnteredUnlessOverlapped, AtWork, Live
<1> QED BY <1>2, <1>4, <1>5, <1>6

LEMMA HandleStopKeeps ==
  ASSUME ChatInv, HandleStop PROVE ChatInv'
<1> USE DEF ChatInv
<1> DEFINE m == [type |-> "stop"]
<1>1. session \in Seq(ChatRow) /\ session # << >>
  BY DEF HandleStop, ChatTypes
<1>2. Last(session).id \in Ids
  <2>1. Len(session) \in 1..Len(session) /\ Last(session) = session[Len(session)]
    BY <1>1, EmptySeq DEF Last
  <2>2. Last(session).st # "complete" /\ session # Null
    BY DEF HandleStop, Thinking
  <2> QED BY <2>1, <2>2 DEF OnlyAnswersWait
<1>3. session' = SetState(session, Last(session).id, "error") /\ "error" \in States /\ Last(session).id \in 0..MaxSends
  BY <1>2 DEF HandleStop, States, Ids
<1>4. /\ session' \in Sessions /\ OnlyAnswersWait'
      /\ \A i \in Ids, sts \in {{"waiting"}, Thinking} : Shows(i, sts)' => Shows(i, sts)
  <2>1. \A sts \in {{"waiting"}, Thinking} : "error" \notin sts
    BY DEF Thinking
  <2> QED BY <1>2, <1>3, <2>1, StateSet
<1>5. m \in Request /\ m.type # "chat" /\ conns' = Up(conns, sock["view"], m) /\ "view" \in Hooks
  BY DEF HandleStop, Request, Hooks
<1> QED BY <1>4, <1>5, PageAsks DEF HandleStop

LEMMA HandleAnswerKeeps ==
  ASSUME ChatInv, NEW id \in Ids, HandleAnswer(id) PROVE ChatInv'
<1> USE DEF ChatInv
<1> DEFINE m == [type |-> "answer", id |-> id]
<1>1. m \in Request /\ m.type # "chat" /\ conns' = Up(conns, sock["view"], m) /\ "view" \in Hooks
  BY DEF HandleAnswer, Request, Hooks, Ids
<1>2. session' = session
  BY DEF HandleAnswer
<1> QED BY <1>1, <1>2, PageAsks DEF HandleAnswer, ChatTypes, Sessions, OnlyAnswersWait, Shows

LEMMA HandleDeleteSessionKeeps ==
  ASSUME ChatInv, HandleDeleteSession PROVE ChatInv'
<1> USE DEF ChatInv
<1> DEFINE m == [type |-> "delete_session"]
<1>1. m \in Request /\ m.type # "chat" /\ conns' = Up(conns, sock["layout"], m) /\ "layout" \in Hooks
  BY DEF HandleDeleteSession, Request, Hooks
<1>2. session' = Null
  BY DEF HandleDeleteSession
<1> QED BY <1>1, <1>2, PageAsks DEF HandleDeleteSession, Sessions, OnlyAnswersWait, Shows

LEMMA HandleDeleteGroupKeeps ==
  ASSUME ChatInv, HandleDeleteGroup PROVE ChatInv'
<1> USE DEF ChatInv
<1> DEFINE m == [type |-> "delete_group"]
<1>1. m \in Request /\ m.type # "chat" /\ conns' = Up(conns, sock["layout"], m) /\ "layout" \in Hooks
  BY DEF HandleDeleteGroup, Request, Hooks
<1>2. session' = session
  BY DEF HandleDeleteGroup
<1> QED BY <1>1, <1>2, PageAsks DEF HandleDeleteGroup, ChatTypes, Sessions, OnlyAnswersWait, Shows

LEMMA ShowChatViewKeeps ==
  ASSUME ChatInv, ShowChatView PROVE ChatInv'
<1> USE DEF ChatInv
<1>1. /\ UNCHANGED <<isGroup, session, sock, sent, conns, subs, pending, task, running, row, grouped, excused, overlap, doubled>>
      /\ mounted' = Hooks
  BY DEF ShowChatView, serverVars, ghosts
<1>2. ChatTypes' /\ OnlyAnswersWait' /\ Sockets' /\ Subscribed' /\ Questions' /\ Asked' /\ Entered'
  BY <1>1 DEF ChatTypes, OnlyAnswersWait, Sockets, Subscribed, Questions, Asked, Held, Open, Entered,
              OneLive, AskingCanResumeUnlessRetried, AtWorkIsEnteredUnlessOverlapped, AtWork, Live
<1>3. Spoken' /\ Served'
  BY <1>1 DEF Spoken, Served, ServedFor, Reaches, Shows, Heeded, Held, Open, Live, Receivers, GroupReceivers, ChatReceivers
<1> QED BY <1>2, <1>3

\* What the user types: its request is on the view's socket, if it has one.
LEMMA HandleSendKeeps ==
  ASSUME ChatInv, NEW fit \in BOOLEAN, HandleSend(fit) PROVE ChatInv'
<1> USE DEF ChatInv
<1> DEFINE id == sent + 1
           m == [type |-> "chat", id |-> id, fit |-> fit]
           new == <<ChatMessage(id, "user", "complete"), ChatMessage(id, "assistant", "thinking")>>
           v == sock["view"]
<1>1. /\ id \in Ids /\ id # sent /\ ~(id <= sent) /\ sent' = id /\ session' = session \o new
      /\ conns' = Up(conns, v, m) /\ session \in Seq(ChatRow) /\ session # Null
      /\ UNCHANGED <<isGroup, sock, subs, pending, task, running, row, grouped, overlap, doubled>>
      /\ excused' = IF v = 0 THEN excused \cup {id} ELSE excused
      /\ mounted' = mounted
  BY ChatAssumption DEF HandleSend, serverVars, Ids, ChatTypes
<1>2. m \in Request /\ m.type = "chat" /\ m.id = id
  BY <1>1 DEF Request, Ids
<1>3. v \in Conns \cup {0} /\ (v # 0 => conns[v] # Null /\ v \in Held) /\ conns \in Wires
  BY DEF ChatTypes, Sockets, Held, Wires, Hooks
<1>4. \A k \in Conns : ~Carries(conns[k], id)
  BY <1>1 DEF Asked
<1> HIDE DEF id, m, v
<1>5. /\ conns' \in Wires
      /\ \A j \in Conns :
           /\ Link(conns[j], conns'[j]) /\ (conns[j] # Null => conns'[j].down = conns[j].down)
           /\ conns[j] # Null /\ conns'[j].up # conns[j].up => j = v /\ conns[j].alive
           /\ \A i \in Ids :
                /\ Carries(conns[j], i) => Carries(conns'[j], i)
                /\ Carries(conns'[j], i) => Carries(conns[j], i) \/ (j = v /\ i = id)
                /\ j = v /\ conns[j].alive /\ i = id => Carries(conns'[j], i)
           /\ conns[j] # Null /\ Once(conns[j]) => Once(conns'[j])
  <2>1. v # 0 => conns[v] # Null
    BY <1>3
  <2>2. /\ conns' \in Wires
        /\ \A j \in Conns :
             /\ Link(conns[j], conns'[j]) /\ (conns[j] # Null => conns'[j].down = conns[j].down)
             /\ conns[j] # Null /\ conns'[j].up # conns[j].up => j = v /\ conns[j].alive
             /\ \A i \in Ids :
                  /\ Carries(conns[j], i) => Carries(conns'[j], i)
                  /\ Carries(conns'[j], i) => Carries(conns[j], i) \/ (j = v /\ m.type = "chat" /\ m.id = i)
                  /\ j = v /\ conns[j].alive /\ m.type = "chat" /\ m.id = i => Carries(conns'[j], i)
             /\ conns[j] # Null /\ Once(conns[j]) /\ (j = v /\ m.type = "chat" => ~Carries(conns[j], m.id)) => Once(conns'[j])
    <3>1. conns \in Wires /\ v \in Conns \cup {0} /\ m \in Request /\ conns' = Up(conns, v, m)
      BY <1>1, <1>2, <1>3
    <3> QED BY <2>1, <3>1, SentUp
  <2> QED BY <2>2, <1>2, <1>4
<1>6. Linked /\ Held' = Held /\ Heeded' = Heeded /\ Open' = Open
  BY <1>1, <1>5, HeldKept DEF Linked
<1>7. ChatTypes' /\ OnlyAnswersWait' /\ \A i \in Ids : /\ Shows(i, {"waiting"})' => Shows(i, {"waiting"})
                                                       /\ Shows(i, Thinking)' => Shows(i, Thinking) \/ i = id
  <2>1. new \in Seq(ChatRow) /\ Len(new) = 2 /\ new[1].st = "complete" /\ new[2].st = "thinking"
        /\ new[2].kind = "assistant" /\ new[1].id = id /\ new[2].id = id
    <3>1. ChatMessage(id, "user", "complete") \in ChatRow /\ ChatMessage(id, "assistant", "thinking") \in ChatRow
      BY <1>1 DEF ChatMessage, ChatRow, States, Ids
    <3> QED BY <3>1 DEF ChatMessage
  <2> HIDE DEF new
  <2>2. /\ session' \in Seq(ChatRow) /\ Len(session') = Len(session) + 2 /\ Len(session) \in Nat
        /\ \A i \in 1..Len(session) : session'[i] = session[i]
        /\ session'[Len(session) + 1] = new[1] /\ session'[Len(session) + 2] = new[2]
    <3>1. session \in Seq(ChatRow) /\ Len(session) \in Nat /\ session' = session \o new
      BY <1>1
    <3>2. new \in Seq(ChatRow) /\ Len(new) = 2
      BY <2>1
    <3>3. Grown(session \o new, session, new)
      BY <3>1, <3>2, TwoMore
    <3>4. Grown(session', session, new)
      BY <3>1, <3>3
    <3> QED BY <3>4 DEF Grown
  <2>3. \A i \in 1..Len(session') : i \in 1..Len(session) \/ i = Len(session) + 1 \/ i = Len(session) + 2
    BY <2>2
  <2>4. OnlyAnswersWait'
    BY <1>1, <2>1, <2>2, <2>3 DEF OnlyAnswersWait
  <2>5. \A i \in Ids : /\ Shows(i, {"waiting"})' => Shows(i, {"waiting"})
                       /\ Shows(i, Thinking)' => Shows(i, Thinking) \/ i = id
    <3>1. ASSUME NEW i \in Ids, NEW n \in 1..Len(session'), session'[n].id = i, session'[n].st # "complete"
          PROVE  (n \in 1..Len(session) /\ session'[n] = session[n]) \/ (i = id /\ session'[n].st = "thinking")
      BY <3>1, <2>1, <2>2, <2>3
    <3>2. session # Null
      BY <1>1
    <3> QED BY <3>1, <3>2 DEF Shows, Thinking
  <2>6. ChatTypes'
    BY <1>1, <1>5, <2>2 DEF ChatTypes, Wires, Ids
  <2> QED BY <2>4, <2>5, <2>6
<1>8. Sockets'
  <2>1. \A j \in Conns : v = j => j \in Held
    BY <1>3, ChatAssumption DEF Conns
  <2> QED BY <1>1, <1>5, <1>6, <2>1, SocketsKept
<1>9. Subscribed' /\ Questions' /\ Entered'
  <2>1. TasksKept
    BY <1>1 DEF TasksKept
  <2>2. Subscribed'
    BY <1>1, <1>6, <2>1, SubscribedKept
  <2> QED BY <1>1, <2>2 DEF Questions, Entered, OneLive, AskingCanResumeUnlessRetried, AtWorkIsEnteredUnlessOverlapped, AtWork, Live
<1>10. Asked'
  <2>0. \A i \in Ids : i <= sent => i <= sent'
    BY <1>1 DEF ChatTypes, Ids, id
  <2>1. \A k \in Conns : conns'[k] # Null => Once(conns'[k])
    BY <1>5 DEF Asked, Link
  <2>2. ASSUME NEW k \in Conns, NEW i \in Ids, Carries(conns'[k], i)
        PROVE  /\ task'[i] = Null /\ i <= sent'
               /\ k = sock'["view"] \/ (conns'[k].left /\ i \in excused')
    <3>1. CASE Carries(conns[k], i)
      <4>1. conns[k] # Null
        BY <3>1 DEF Carries
      <4> QED BY <3>1, <4>1, <2>0, <1>1, <1>5 DEF Asked, Link
    <3>2. CASE k = v /\ i = id
      <4>1. task[i] = Null
        BY <3>2, <1>1 DEF Asked
      <4>2. i <= sent'
        BY <3>2, <1>1 DEF Ids
      <4> QED BY <3>2, <4>1, <4>2, <1>1 DEF v
    <3> QED BY <3>1, <3>2, <2>2, <1>5
  <2>3. \A k, l \in Conns, i \in Ids : Carries(conns'[k], i) /\ Carries(conns'[l], i) => k = l
    BY <1>4, <1>5 DEF Asked
  <2>4. \A i \in Ids : task'[i] # Null => i <= sent'
    BY <2>0, <1>1 DEF Asked
  <2> QED BY <2>1, <2>2, <2>3, <2>4 DEF Asked
<1>11. \A k \in Conns, i \in Ids : (Stirs(conns'[k], i) <=> Stirs(conns[k], i)) /\ (Settles(conns[k], i) => Settles(conns'[k], i))
  BY <1>5 DEF Stirs, Settles, Link
<1>12. Spoken'
  BY <1>1, <1>6, <1>11, HeldAreConns DEF Spoken
<1>13. Served'
  <2> SUFFICES ASSUME ~doubled, NEW i \in Ids, i \notin excused' PROVE ServedFor(i)'
    BY <1>1 DEF Served
  <2>1. ServedFor(i)
    BY <1>1 DEF Served
  <2>2. GoesOn(i)
    BY <1>1 DEF GoesOn, Live
  <2>3. Reaches(i) => Reaches(i)'
    BY <2>2, <1>1, <1>5, <1>6, <1>7, <1>9, HeldAreConns, ReachesKept
  <2>4. CASE i # id
    <3>1. \A sts \in {{"waiting"}, Thinking} : Shows(i, sts)' => Shows(i, sts)
      BY <2>4, <1>7
    <3> QED BY <2>1, <2>3, <3>1, <1>6, <1>11, HeldAreConns, ServedForKept
  <2>5. CASE i = id
    <3>1. v # 0 /\ v \in Held
      BY <2>5, <1>1, <1>3
    <3>2. Heeded' = Held' => Reaches(i)'
      BY <2>5, <3>1, <1>3, <1>5, <1>6 DEF Reaches, Heeded
    <3> QED BY <2>1, <2>3, <3>2, <1>6, <1>7, <1>11, HeldAreConns DEF ServedFor
  <2> QED BY <2>4, <2>5
<1> QED BY <1>7, <1>8, <1>9, <1>10, <1>12, <1>13

\* A connection that has told of a task goes on to be told of it, whichever
\* other connection goes.
LEMMA TellerReaches ==
  ASSUME ChatTypes, Sockets, Subscribed, Asked, ~doubled, NEW id \in Ids, task[id] # Null, Reaches(id),
         NEW k \in Heeded, k \in subs, k \in Heeded', Open \subseteq Open',
         UNCHANGED <<isGroup, subs, task>>
  PROVE  Reaches(id)'
<1>1. /\ Live(id) /\ task[id].phase # "outputs"
      /\ Receivers(task[id].conn, Open, subs) = subs
      /\ task[id].phase = "starting" => task[id].conn \in Heeded
  BY TaskReaches
<1>2. task[id].conn \in Heeded => task[id].conn = k
  <2>1. ASSUME task[id].conn \in Heeded PROVE task[id].conn \in Held /\ task[id].conn \in subs
    <3>1. task[id].conn \in Conns /\ task[id].conn \in Held /\ Hears(conns[task[id].conn])
      BY <2>1, HeededHear
    <3>2. task[id].conn \in Open
      BY <3>1 DEF Hears, Open
    <3> QED BY <3>1, <3>2 DEF Subscribed
  <2> QED BY <2>1, HeededHear DEF Subscribed
<1>3. Live(id)' /\ task'[id].phase # "outputs" /\ (task'[id].phase = "starting" => task'[id].conn \in Heeded')
  BY <1>1, <1>2 DEF Live
<1>4. Receivers(task[id].conn, Open, subs)' = subs'
  <2>1. subs # {}
    OBVIOUS
  <2>2. isGroup => task[id].conn \in Open
    BY <1>1, <2>1, ReceiversAre
  <2> QED BY <2>1, <2>2 DEF Receivers, GroupReceivers, ChatReceivers
<1> QED BY <1>3, <1>4 DEF Reaches

LEMMA BreakKeeps ==
  ASSUME ChatInv, NEW k \in Conns, Break(k) PROVE ChatInv'
<1> USE DEF ChatInv
<1>1. /\ conns[k] \in Connection /\ conns[k] # Null /\ k \in Held /\ conns[k].alive
      /\ UNCHANGED <<isGroup, session, mounted, sock, sent, subs, pending, task, running, row, grouped, overlap, doubled>>
      /\ excused \subseteq excused'
  BY DEF Break, Sockets, Held, ChatTypes, serverVars
<1>2. /\ conns'[k] = [conns[k] EXCEPT !.alive = FALSE, !.up = << >>, !.down = << >>]
      /\ \A j \in Conns : j # k => conns'[j] = conns[j]
      /\ conns' = [j \in Conns |-> conns'[j]]
  BY DEF Break, ChatTypes
<1>3. /\ conns'[k] \in Connection /\ conns'[k] # Null
      /\ conns'[k].up = << >> /\ conns'[k].down = << >> /\ ~conns'[k].alive
      /\ conns'[k].open = conns[k].open /\ conns'[k].left = conns[k].left
  <2>1. << >> \in Seq(Request) /\ << >> \in Seq(Reply)
    BY EmptySeq
  <2>2. conns'[k] \in Connection
    BY <1>1, <1>2, <2>1 DEF Connection
  <2> QED BY <1>1, <1>2, <2>2, ChatAssumption DEF Connection
<1>4. Held' = Held /\ Open' = Open /\ Heeded' = Heeded \ {k}
  <2>1. Held' = Held
    BY <1>1 DEF Held
  <2>2. Open' = Open
    BY <1>1, <1>2, <1>3 DEF Open
  <2> QED BY <1>2, <1>3, <2>1, <2>2, HeldAreConns DEF Heeded
<1>5. /\ \A j \in Conns, i \in Ids : /\ Carries(conns'[j], i) => j # k /\ Carries(conns[j], i)
                                     /\ Stirs(conns'[j], i) => j # k /\ Stirs(conns[j], i)
      /\ \A j \in Conns : conns'[j] # Null /\ Once(conns[j]) => Once(conns'[j])
  <2>1. \A i \in Ids : ~Carries(conns'[k], i) /\ ~Stirs(conns'[k], i)
    BY <1>3, EmptySeq DEF Carries, Stirs
  <2>2. Once(conns'[k])
    BY <1>3, EmptySeq DEF Once
  <2> QED BY <1>2, <2>1, <2>2
<1>6. ChatTypes' /\ excused' \subseteq Ids
  <2>1. conns' \in Wires
    BY <1>2, <1>3 DEF Wires, ChatTypes
  <2>2. ASSUME session # Null, NEW x \in ToSet(session), x.st = "waiting" PROVE x.id \in Ids
    <3>1. session \in Seq(ChatRow)
      BY <2>2 DEF ChatTypes
    <3>2. \E i \in 1..Len(session) : session[i] = x
      BY <2>2, <3>1 DEF ToSet
    <3> QED BY <2>2, <3>2 DEF OnlyAnswersWait
  <2>3. excused' \subseteq Ids
    BY <2>2 DEF Break, ChatTypes
  <2> QED BY <1>1, <2>1, <2>3 DEF ChatTypes, Wires
<1>7. OnlyAnswersWait' /\ Questions' /\ Entered'
  BY <1>1 DEF OnlyAnswersWait, Questions, Entered, OneLive, AskingCanResumeUnlessRetried, AtWorkIsEnteredUnlessOverlapped, AtWork, Live
<1>8. Sockets'
  <2>1. ASSUME NEW h \in Hooks, sock'[h] # 0
        PROVE  conns'[sock'[h]] # Null /\ ~conns'[sock'[h]].left /\ (conns'[sock'[h]].alive => conns'[sock'[h]].open)
    <3>1. sock'[h] \in Conns /\ sock'[h] = sock[h]
      BY <1>1, <2>1 DEF ChatTypes
    <3>2. conns[sock[h]] # Null /\ ~conns[sock[h]].left /\ (conns[sock[h]].alive => conns[sock[h]].open)
      BY <2>1, <3>1 DEF Sockets
    <3>3. CASE sock[h] = k
      BY <1>3, <3>1, <3>2, <3>3
    <3>4. CASE sock[h] # k
      BY <1>2, <3>1, <3>2, <3>4
    <3> QED BY <3>3, <3>4
  <2>2. \A j \in Conns : conns'[j] # Null /\ conns'[j].up # << >> => conns'[j].alive /\ (j \in Held' \/ conns'[j].left)
    BY <1>2, <1>3, <1>4 DEF Sockets
  <2>3. \A j \in Conns : conns'[j] # Null /\ conns'[j].down # << >> => conns'[j].alive
    BY <1>2, <1>3 DEF Sockets
  <2>4. sock'["layout"] # 0 => sock'["layout"] # sock'["view"]
    BY <1>1 DEF Sockets
  <2> QED BY <2>1, <2>2, <2>3, <2>4 DEF Sockets
<1>9. Subscribed'
  <2>1. \A i \in Ids : task'[i] # Null => conns'[task'[i].conn] # Null
    BY <1>1, <1>2, <1>3 DEF Subscribed, ChatTypes, ChatTask, Conns
  <2> QED BY <1>1, <1>4, <2>1 DEF Subscribed
<1>10. Asked'
  <2>1. \A j \in Conns : conns'[j] # Null => Once(conns'[j])
    BY <1>1, <1>2, <1>5 DEF Asked
  <2>2. ASSUME NEW j \in Conns, NEW i \in Ids, Carries(conns'[j], i)
        PROVE  /\ task'[i] = Null /\ i <= sent'
               /\ j = sock'["view"] \/ (conns'[j].left /\ i \in excused')
    BY <2>2, <1>1, <1>2, <1>5 DEF Asked
  <2>3. \A j, l \in Conns, i \in Ids : Carries(conns'[j], i) /\ Carries(conns'[l], i) => j = l
    BY <1>5 DEF Asked
  <2> QED BY <1>1, <2>1, <2>2, <2>3 DEF Asked
<1>11. Spoken'
  BY <1>1, <1>4, <1>5, HeldAreConns DEF Spoken
<1>12. Served'
  <2> SUFFICES ASSUME ~doubled, NEW i \in Ids, i \notin excused' PROVE ServedFor(i)'
    BY <1>1 DEF Served
  <2>1. ServedFor(i)
    BY <1>1 DEF Served
  <2>2. ASSUME NEW j \in Heeded', Stirs(conns'[j], i) PROVE Settles(conns'[j], i) \/ Reaches(i)'
    <3>1. j \in Heeded /\ conns'[j] = conns[j] /\ j \in Conns
      BY <1>2, <1>4, HeldAreConns
    <3>2. task[i] # Null /\ j \in subs
      BY <3>1, <2>2 DEF Spoken
    <3>3. Reaches(i) => Reaches(i)'
      BY <3>1, <3>2, <2>2, <1>1, <1>4, TellerReaches
    <3> QED BY <3>1, <3>3, <2>1, <2>2 DEF ServedFor
  <2>3. ~Shows(i, {"waiting"})'
    <3> SUFFICES ASSUME Shows(i, {"waiting"}) PROVE i \in excused'
      BY <1>1 DEF Shows
    <3>1. session # Null /\ session \in Seq(ChatRow)
      BY DEF Shows, ChatTypes
    <3>2. PICK n \in 1..Len(session) : session[n].id = i /\ session[n].st = "waiting"
      BY DEF Shows
    <3>3. session[n] \in ToSet(session)
      BY <3>1 DEF ToSet
    <3> QED BY <3>1, <3>2, <3>3 DEF Break
  <2>4. Heeded' # Held'
    BY <1>1, <1>4
  <2> QED BY <2>2, <2>3, <2>4 DEF ServedFor
<1> QED BY <1>6, <1>7, <1>8, <1>9, <1>10, <1>11, <1>12

LEMMA OnCloseKeeps ==
  ASSUME ChatInv, NEW h \in Hooks, OnClose(h) PROVE ChatInv'
<1> USE DEF ChatInv
<1> DEFINE k == sock[h]
<1>1. /\ k \in Conns /\ conns[k] # Null /\ ~conns[k].alive /\ k \in Held
      /\ sock' = [sock EXCEPT ![h] = 0] /\ session' = MarkRunningDisconnected(session)
      /\ UNCHANGED <<isGroup, mounted, sent, conns, subs, pending, task, running, row, grouped, excused, overlap, doubled>>
  BY DEF OnClose, Sockets, Held, ChatTypes, serverVars, ghosts
<1>2. /\ sock' \in [Hooks -> Conns \cup {0}] /\ sock'[h] = 0
      /\ \A g \in Hooks : g # h => sock'[g] = sock[g] /\ (sock[g] # 0 => sock[g] # k)
  <2>1. \A g \in Hooks : g # h => (sock[g] # 0 => sock[g] # k)
    BY <1>1, ChatAssumption DEF Sockets, Hooks, Conns
  <2> QED BY <1>1, <2>1 DEF ChatTypes
<1>3. Held' = Held \ {k} /\ Heeded' = Heeded /\ Open' = Open
  <2>1. Held' = Held \ {k}
    BY <1>1, <1>2 DEF Held
  <2> QED BY <1>1, <2>1 DEF Heeded, Open
<1>4. \A i \in Ids : ~Carries(conns[k], i)
  BY <1>1 DEF Sockets, Carries
<1>5. /\ session' \in Sessions /\ OnlyAnswersWait'
      /\ \A i \in Ids : (Shows(i, {"waiting"})' => Shows(i, {"waiting"})) /\ ~Shows(i, Thinking)'
  <2>1. /\ session' \in Sessions /\ (session' = Null <=> session = Null)
        /\ session # Null => /\ Len(session') = Len(session)
                             /\ \A i \in 1..Len(session) :
                                  /\ session'[i].id = session[i].id /\ session'[i].kind = session[i].kind
                                  /\ session'[i].st = IF session[i].kind = "assistant" /\ session[i].st \in Thinking
                                                      THEN "error" ELSE session[i].st
    <3>1. session \in Sessions
      BY DEF ChatTypes, Sessions
    <3> QED BY <1>1, <3>1, RowsMarked
  <2>2. OnlyAnswersWait'
    BY <2>1 DEF OnlyAnswersWait, Thinking
  <2>3. ASSUME NEW i \in Ids, Shows(i, Thinking)' PROVE FALSE
    <3>1. PICK n \in 1..Len(session') : session'[n].st \in Thinking
      BY <2>3 DEF Shows
    <3>2. session # Null /\ n \in 1..Len(session) /\ session'[n].kind = "assistant"
      BY <2>1, <2>2, <2>3, <3>1 DEF Shows, OnlyAnswersWait, Thinking
    <3> QED BY <2>1, <3>1, <3>2 DEF Thinking
  <2>4. ASSUME NEW i \in Ids, Shows(i, {"waiting"})' PROVE Shows(i, {"waiting"})
    BY <2>1, <2>4 DEF Shows
  <2> QED BY <2>1, <2>2, <2>3, <2>4
<1>6. ChatTypes'
  BY <1>1, <1>2, <1>5 DEF ChatTypes, Sessions
<1>7. Questions' /\ Entered'
  BY <1>1 DEF Questions, Entered, OneLive, AskingCanResumeUnlessRetried, AtWorkIsEnteredUnlessOverlapped, AtWork, Live
<1>8. Sockets'
  <2>1. \A g \in Hooks : sock'[g] # 0 => sock'[g] = sock[g]
    BY <1>2
  <2>2. \A j \in Conns : conns[j] # Null /\ conns[j].up # << >> => j # k
    BY <1>1 DEF Sockets
  <2>3. \A g \in Hooks : sock'[g] # 0 =>
          conns[sock'[g]] # Null /\ ~conns[sock'[g]].left /\ (conns[sock'[g]].alive => conns[sock'[g]].open)
    BY <2>1 DEF Sockets
  <2>4. sock'["layout"] # 0 => sock'["layout"] # sock'["view"]
    BY <1>2, <2>1 DEF Sockets, Hooks
  <2> QED BY <1>1, <1>3, <2>2, <2>3, <2>4 DEF Sockets
<1>9. Subscribed'
  <2>1. ~isGroup => sock'["layout"] \notin subs
    BY <1>2, ChatAssumption DEF Subscribed, Hooks, ChatTypes, Conns
  <2> QED BY <1>1, <1>3, <2>1 DEF Subscribed
<1>10. Asked'
  <2>1. \A j \in Conns, i \in Ids : Carries(conns[j], i) => j # k
    BY <1>4
  <2>2. \A j \in Conns : j = sock["view"] /\ j # k => j = sock'["view"]
    BY <1>2 DEF Hooks
  <2> QED BY <1>1, <2>1, <2>2 DEF Asked
<1>11. Spoken'
  BY <1>1, <1>3 DEF Spoken
<1>12. Served'
  <2> SUFFICES ASSUME ~doubled, NEW i \in Ids, i \notin excused PROVE ServedFor(i)'
    BY <1>1 DEF Served
  <2>1. ServedFor(i)
    BY DEF Served
  <2>2. Reaches(i) => Reaches(i)'
    <3>1. GoesOn(i)
      BY <1>1 DEF GoesOn, Live
    <3> QED BY <3>1, <1>1, <1>3, <1>6, <1>9, ReachesKept
  <2> QED BY <2>1, <2>2, <1>1, <1>3, <1>5 DEF ServedFor
<1> QED BY <1>5, <1>6, <1>7, <1>8, <1>9, <1>10, <1>11, <1>12

\* A view that goes, or the page with all its sockets.
LEMMA CloseSocketsKeeps ==
  ASSUME ChatInv, NEW hs, CloseSockets(hs), hs \subseteq Hooks, mounted' \subseteq Hooks PROVE ChatInv'
<1> USE DEF ChatInv
<1> DEFINE gone == {sock[h] : h \in hs}
<1>1. /\ UNCHANGED <<isGroup, session, sent, subs, pending, task, running, row, grouped, overlap, doubled>>
      /\ excused \subseteq excused' /\ InProgress \subseteq excused'
      /\ \A h \in hs : sock[h] # 0 => Carried(sock[h]) \subseteq excused'
  BY DEF CloseSockets, serverVars
<1>2. /\ sock' = [h \in Hooks |-> IF h \in hs THEN 0 ELSE sock[h]] /\ sock' \in [Hooks -> Conns \cup {0}]
      /\ \A h \in Hooks : sock'[h] # 0 => sock'[h] = sock[h] /\ h \notin hs
  BY DEF CloseSockets, ChatTypes
<1>3. \A h \in Hooks : sock'[h] # 0 => sock'[h] \notin gone
  <2>1. \A h, g \in Hooks : sock[h] = sock[g] /\ sock[h] # 0 => h = g
    BY DEF Sockets, Hooks
  <2> QED BY <1>2, <2>1
<1>4. \A k \in gone \cap Conns : k \in Held /\ conns[k] # Null /\ conns[k] \in Connection
  BY ChatAssumption DEF Held, Sockets, ChatTypes, Conns
<1>5. \A j \in Conns :
        /\ j \in gone => /\ conns'[j] \in Connection /\ conns'[j] # Null /\ conns'[j].left /\ conns'[j].down = << >>
                         /\ conns'[j].up = conns[j].up /\ conns'[j].alive = conns[j].alive /\ conns'[j].open = conns[j].open
        /\ j \notin gone => conns'[j] = conns[j]
  <2> SUFFICES ASSUME NEW j \in Conns, j \in gone
               PROVE  /\ conns'[j] \in Connection /\ conns'[j] # Null /\ conns'[j].left /\ conns'[j].down = << >>
                      /\ conns'[j].up = conns[j].up /\ conns'[j].alive = conns[j].alive /\ conns'[j].open = conns[j].open
    BY DEF CloseSockets
  <2>1. conns'[j] = [conns[j] EXCEPT !.left = TRUE, !.down = << >>]
    BY DEF CloseSockets
  <2>2. conns[j] \in Connection /\ << >> \in Seq(Reply)
    BY <1>4, EmptySeq
  <2>3. conns'[j] \in Connection
    BY <2>1, <2>2 DEF Connection
  <2> QED BY <2>1, <2>2, <2>3, ChatAssumption DEF Connection
<1>6. Held' = Held \ gone /\ Heeded' = Heeded \ gone /\ Open' = Open
  <2>1. Held' = Held \ gone
    <3>1. Held' \subseteq Held \ gone
      BY <1>2, <1>3 DEF Held
    <3>2. ASSUME NEW k \in Held, k \notin gone PROVE k \in Held'
      <4>1. PICK h \in Hooks : sock[h] = k /\ k # 0
        BY DEF Held
      <4>2. h \notin hs
        BY <3>2, <4>1
      <4> QED BY <1>2, <4>1, <4>2 DEF Held
    <3> QED BY <3>1, <3>2
  <2>2. Heeded' = Heeded \ gone
    BY <1>5, <2>1, HeldAreConns DEF Heeded
  <2>3. Open' = Open
    BY <1>4, <1>5 DEF Open
  <2> QED BY <2>1, <2>2, <2>3
<1>7. /\ \A j \in Conns, i \in Ids : /\ Carries(conns'[j], i) => Carries(conns[j], i)
                                     /\ j \in gone => ~Stirs(conns'[j], i)
      /\ \A j \in Conns : conns'[j] # Null /\ (conns[j] # Null => Once(conns[j])) => Once(conns'[j])
  <2>1. ASSUME NEW j \in Conns, j \in gone, NEW i \in Ids PROVE ~Stirs(conns'[j], i)
    BY <1>5, <2>1, EmptySeq DEF Stirs
  <2>2. ASSUME NEW j \in Conns, NEW i \in Ids, Carries(conns'[j], i) PROVE Carries(conns[j], i)
    BY <1>4, <1>5, <2>2 DEF Carries
  <2>3. ASSUME NEW j \in Conns, conns'[j] # Null, conns[j] # Null => Once(conns[j]) PROVE Once(conns'[j])
    BY <1>4, <1>5, <2>3 DEF Once
  <2> QED BY <2>1, <2>2, <2>3
<1>8. ChatTypes'
  <2>1. conns' = [j \in Conns |-> conns'[j]] /\ \A j \in Conns : conns'[j] \in Connection \cup {Null}
    BY <1>5 DEF CloseSockets, ChatTypes
  <2>2. ASSUME session # Null, NEW x \in ToSet(session), x.st \in Thinking \cup {"waiting"} PROVE x.id \in Ids
    <3>1. session \in Seq(ChatRow) /\ x.st # "complete"
      BY <2>2 DEF ChatTypes, Thinking
    <3>2. \E i \in 1..Len(session) : session[i] = x
      BY <2>2, <3>1 DEF ToSet
    <3> QED BY <2>2, <3>1, <3>2 DEF OnlyAnswersWait
  <2>3. excused' \subseteq Ids
    <3>1. InProgress \subseteq Ids
      BY <2>2 DEF InProgress
    <3>2. \A j : Carried(j) \subseteq Ids
      BY DEF Carried
    <3>3. excused \subseteq Ids
      BY DEF ChatTypes
    <3>4. excused' = excused \cup InProgress \cup UNION {Carried(sock[h]) : h \in {h \in hs : sock[h] # 0}}
      BY DEF CloseSockets
    <3> QED BY <3>1, <3>2, <3>3, <3>4
  <2>4. conns' \in [Conns -> Connection \cup {Null}]
    BY <2>1
  <2> QED BY <1>1, <1>2, <2>3, <2>4 DEF ChatTypes
<1>9. OnlyAnswersWait' /\ Questions' /\ Entered'
  BY <1>1 DEF OnlyAnswersWait, Questions, Entered, OneLive, AskingCanResumeUnlessRetried, AtWorkIsEnteredUnlessOverlapped, AtWork, Live
<1>10. Sockets'
  <2>1. ASSUME NEW h \in Hooks, sock'[h] # 0
        PROVE  conns'[sock'[h]] # Null /\ ~conns'[sock'[h]].left /\ (conns'[sock'[h]].alive => conns'[sock'[h]].open)
    <3>1. sock'[h] \in Conns /\ sock'[h] = sock[h] /\ conns'[sock'[h]] = conns[sock'[h]]
      BY <1>2, <1>3, <1>5, <2>1
    <3> QED BY <2>1, <3>1 DEF Sockets
  <2>2. ASSUME NEW j \in Conns, conns'[j] # Null, conns'[j].up # << >>
        PROVE  conns'[j].alive /\ (j \in Held' \/ conns'[j].left)
    <3>1. CASE j \in gone
      <4>1. conns[j] # Null /\ conns[j].up # << >> /\ conns'[j].left /\ conns'[j].alive = conns[j].alive
        BY <3>1, <2>2, <1>4, <1>5
      <4> QED BY <4>1 DEF Sockets
    <3>2. CASE j \notin gone
      <4>1. conns'[j] = conns[j]
        BY <3>2, <1>5
      <4> QED BY <3>2, <4>1, <2>2, <1>6 DEF Sockets
    <3> QED BY <3>1, <3>2
  <2>3. \A j \in Conns : conns'[j] # Null /\ conns'[j].down # << >> => conns'[j].alive
    BY <1>5 DEF Sockets
  <2>4. sock'["layout"] # 0 => sock'["layout"] # sock'["view"]
    BY <1>2 DEF Sockets, Hooks
  <2> QED BY <2>1, <2>2, <2>3, <2>4 DEF Sockets
<1>11. Subscribed'
  <2>1. \A i \in Ids : task'[i] # Null => conns'[task'[i].conn] # Null
    BY <1>1, <1>5 DEF Subscribed, ChatTypes, ChatTask, Conns
  <2>2. ~isGroup => sock'["layout"] \notin subs
    BY <1>2, ChatAssumption DEF Subscribed, Hooks, ChatTypes, Conns
  <2> QED BY <1>1, <1>6, <2>1, <2>2 DEF Subscribed
<1>12. Asked'
  <2>1. \A j \in Conns : conns'[j] # Null => Once(conns'[j])
    BY <1>7 DEF Asked
  <2>2. ASSUME NEW j \in Conns, NEW i \in Ids, Carries(conns'[j], i)
        PROVE  /\ task'[i] = Null /\ i <= sent'
               /\ j = sock'["view"] \/ (conns'[j].left /\ i \in excused')
    <3>1. Carries(conns[j], i)
      BY <2>2, <1>7
    <3>2. task[i] = Null /\ i <= sent /\ (j = sock["view"] \/ (conns[j].left /\ i \in excused))
      BY <3>1 DEF Asked
    <3>3. CASE j \in gone
      <4>1. conns[j] # Null /\ conns[j] \in Connection /\ conns'[j].left
        BY <3>3, <1>4, <1>5
      <4>2. i \in Carried(j)
        <5>1. PICK n \in 1..Len(conns[j].up) : conns[j].up[n].type = "chat" /\ conns[j].up[n].id = i
          BY <3>1 DEF Carries
        <5>2. conns[j].up[n] \in ToSet(conns[j].up)
          BY <4>1 DEF Connection, ToSet
        <5> QED BY <5>1, <5>2 DEF Carried
      <4>3. i \in excused'
        <5>1. PICK h \in hs : sock[h] = j
          BY <3>3
        <5>2. sock[h] # 0
          BY <5>1, ChatAssumption DEF Conns
        <5> QED BY <5>1, <5>2, <4>2, <1>1
      <4> QED BY <1>1, <3>2, <4>1, <4>3
    <3>4. CASE j \notin gone
      <4>1. conns'[j] = conns[j] /\ excused \subseteq excused'
        BY <3>4, <1>1, <1>5
      <4>2. j = sock["view"] => j = sock'["view"]
        BY <3>4, <1>2 DEF Hooks
      <4> QED BY <1>1, <3>2, <4>1, <4>2
    <3> QED BY <3>3, <3>4
  <2>3. \A j, l \in Conns, i \in Ids : Carries(conns'[j], i) /\ Carries(conns'[l], i) => j = l
    BY <1>7 DEF Asked
  <2> QED BY <1>1, <2>1, <2>2, <2>3 DEF Asked
<1>13. Spoken'
  BY <1>1, <1>5, <1>6, HeldAreConns DEF Spoken
<1>14. Served'
  <2> SUFFICES ASSUME ~doubled, NEW i \in Ids, i \notin excused' PROVE ServedFor(i)'
    BY <1>1 DEF Served
  <2>1. ServedFor(i)
    BY <1>1 DEF Served
  <2>2. ASSUME NEW j \in Heeded', Stirs(conns'[j], i) PROVE Settles(conns'[j], i) \/ Reaches(i)'
    <3>1. j \in Heeded /\ conns'[j] = conns[j] /\ j \in Conns
      BY <1>5, <1>6, HeldAreConns
    <3>2. task[i] # Null /\ j \in subs
      BY <3>1, <2>2 DEF Spoken
    <3>3. Reaches(i) => Reaches(i)'
      BY <3>1, <3>2, <2>2, <1>1, <1>6, TellerReaches
    <3> QED BY <3>1, <3>3, <2>1, <2>2 DEF ServedFor
  <2>3. ASSUME NEW sts \in {{"waiting"}, Thinking}, Shows(i, sts) PROVE FALSE
    <3>1. session # Null /\ session \in Seq(ChatRow)
      BY <2>3 DEF Shows, ChatTypes
    <3>2. PICK n \in 1..Len(session) : session[n].id = i /\ session[n].st \in sts
      BY <2>3 DEF Shows
    <3>3. session[n] \in ToSet(session) /\ session[n].st \in Thinking \cup {"waiting"}
      BY <3>1, <3>2 DEF ToSet
    <3>4. i \in InProgress
      BY <3>1, <3>2, <3>3 DEF InProgress
    <3> QED BY <3>4, <1>1
  <2>4. ~Shows(i, {"waiting"})' /\ ~Shows(i, Thinking)'
    BY <2>3, <1>1 DEF Shows
  <2> QED BY <2>2, <2>4 DEF ServedFor
<1> QED BY <1>8, <1>9, <1>10, <1>11, <1>12, <1>13, <1>14

\* A socket is opened.
LEMMA ConnectKeeps ==
  ASSUME ChatInv, NEW h \in Hooks, Connect(h) PROVE ChatInv'
<1> USE DEF ChatInv
<1>1. PICK k \in Conns : conns[k] = Null /\ conns' = [conns EXCEPT ![k] = Fresh(Shared)] /\ sock' = [sock EXCEPT ![h] = k]
  BY DEF Connect
<1>2. /\ UNCHANGED <<isGroup, session, mounted, sent, subs, pending, task, running, row, grouped, excused, overlap, doubled>>
      /\ sock[h] = 0
  BY DEF Connect, serverVars, ghosts
<1>3. /\ conns'[k] \in Connection /\ conns'[k] # Null /\ conns'[k].alive /\ conns'[k].open /\ ~conns'[k].left
      /\ \A j \in Conns : j # k => conns'[j] = conns[j]
      /\ conns' \in Wires
      /\ conns'[k].up = Shared /\ conns'[k].down = <<[type |-> "connected"]>>
  <2>1. Shared \in Seq(Request) /\ <<[type |-> "connected"]>> \in Seq(Reply)
    <3>1. [type |-> "subscribe_group"] \in Request /\ [type |-> "connected"] \in Reply
      BY DEF Request, Reply
    <3>2. << >> \in Seq(Request) /\ <<[type |-> "subscribe_group"]>> \in Seq(Request)
      BY <3>1, EmptySeq
    <3> QED BY <3>1, <3>2 DEF Shared
  <2>2. conns'[k] = Fresh(Shared) /\ \A j \in Conns : j # k => conns'[j] = conns[j]
    BY <1>1 DEF ChatTypes
  <2>3. Fresh(Shared) \in Connection
    BY <2>1 DEF Fresh, Connection
  <2>4. conns' \in Wires
    BY <1>1, <2>2, <2>3 DEF ChatTypes, Wires
  <2>5. /\ Fresh(Shared).alive /\ Fresh(Shared).open /\ ~Fresh(Shared).left
        /\ Fresh(Shared).up = Shared /\ Fresh(Shared).down = <<[type |-> "connected"]>>
    BY DEF Fresh
  <2>6. Fresh(Shared) # Null
    BY <2>3, ChatAssumption
  <2> HIDE DEF Fresh
  <2> QED BY <2>2, <2>3, <2>4, <2>5, <2>6
<1>4. k # 0 /\ k \notin Held /\ k \notin Open /\ k \notin subs
  BY <1>1, ChatAssumption DEF Conns, Held, Sockets, Open, Subscribed
<1>5. /\ Held' = Held \cup {k} /\ Heeded' = Heeded \cup {k} /\ Open' = Open \cup {k}
      /\ sock' \in [Hooks -> Conns \cup {0}] /\ sock'[h] = k /\ \A g \in Hooks : g # h => sock'[g] = sock[g]
  <2>1. sock' \in [Hooks -> Conns \cup {0}] /\ sock'[h] = k /\ \A g \in Hooks : g # h => sock'[g] = sock[g]
    BY <1>1 DEF ChatTypes
  <2>2. Held' = Held \cup {k}
    BY <1>2, <1>4, <2>1 DEF Held
  <2>3. Open' = Open \cup {k}
    BY <1>3 DEF Open
  <2> QED BY <1>3, <1>4, <2>1, <2>2, <2>3, HeldAreConns DEF Heeded
<1>6. /\ \A i \in Ids : ~Carries(conns'[k], i) /\ ~Stirs(conns'[k], i) /\ ~Carries(conns[k], i)
      /\ Once(conns'[k])
  <2>1. \A n \in 1..Len(Shared) : Shared[n].type = "subscribe_group"
    <3>1. CASE Shared = << >>
      BY <3>1, EmptySeq
    <3>2. CASE Shared = <<[type |-> "subscribe_group"]>>
      BY <3>2
    <3> QED BY <3>1, <3>2 DEF Shared
  <2>2. \A n \in 1..Len(conns'[k].down) : conns'[k].down[n].type = "connected"
    BY <1>3
  <2> QED BY <1>1, <1>3, <2>1, <2>2 DEF Carries, Stirs, Once, Stirring
<1>7. ChatTypes'
  BY <1>2, <1>3, <1>5 DEF ChatTypes, Wires
<1>8. OnlyAnswersWait' /\ Questions' /\ Entered'
  BY <1>2 DEF OnlyAnswersWait, Questions, Entered, OneLive, AskingCanResumeUnlessRetried, AtWorkIsEnteredUnlessOverlapped, AtWork, Live
<1>9. Sockets'
  <2>1. ASSUME NEW g \in Hooks, sock'[g] # 0
        PROVE  conns'[sock'[g]] # Null /\ ~conns'[sock'[g]].left /\ (conns'[sock'[g]].alive => conns'[sock'[g]].open)
    <3>1. CASE g = h
      BY <3>1, <1>3, <1>5
    <3>2. CASE g # h
      <4>1. sock'[g] = sock[g] /\ sock[g] \in Conns /\ conns[sock[g]] # Null
        BY <3>2, <2>1, <1>5 DEF Sockets, ChatTypes
      <4>2. conns'[sock[g]] = conns[sock[g]]
        BY <4>1, <1>1, <1>3
      <4> QED BY <2>1, <4>1, <4>2 DEF Sockets
    <3> QED BY <3>1, <3>2
  <2>2. \A j \in Conns : conns'[j] # Null /\ conns'[j].up # << >> => conns'[j].alive /\ (j \in Held' \/ conns'[j].left)
    BY <1>3, <1>5 DEF Sockets
  <2>3. \A j \in Conns : conns'[j] # Null /\ conns'[j].down # << >> => conns'[j].alive
    BY <1>3 DEF Sockets
  <2>4. sock'["layout"] # 0 => sock'["layout"] # sock'["view"]
    <3>1. \A g \in Hooks : sock[g] # k
      BY <1>4 DEF Held
    <3> QED BY <3>1, <1>5, <1>4 DEF Sockets, Hooks
  <2> QED BY <2>1, <2>2, <2>3, <2>4 DEF Sockets
<1>10. Subscribed'
  <2>1. \A i \in Ids : task[i] # Null => task[i].conn \in Conns /\ task[i].conn # k
    BY <1>1 DEF Subscribed, ChatTypes, ChatTask, Conns
  <2>2. \A i \in Ids : task'[i] # Null =>
          conns'[task'[i].conn] # Null /\ (task'[i].conn \in Open' => task'[i].conn \in subs')
    BY <2>1, <1>2, <1>3, <1>5 DEF Subscribed
  <2>3. ~isGroup => sock'["layout"] \notin subs
    BY <1>4, <1>5 DEF Subscribed, Hooks
  <2> QED BY <1>2, <1>4, <1>5, <2>2, <2>3 DEF Subscribed
<1>11. Asked'
  <2>1. \A j \in Conns : conns'[j] # Null => Once(conns'[j])
    BY <1>3, <1>6 DEF Asked
  <2>2. ASSUME NEW j \in Conns, NEW i \in Ids, Carries(conns'[j], i)
        PROVE  /\ task'[i] = Null /\ i <= sent'
               /\ j = sock'["view"] \/ (conns'[j].left /\ i \in excused')
    <3>1. j # k /\ conns'[j] = conns[j] /\ Carries(conns[j], i)
      BY <2>2, <1>3, <1>6
    <3>2. task[i] = Null /\ i <= sent /\ (j = sock["view"] \/ (conns[j].left /\ i \in excused))
      BY <3>1 DEF Asked
    <3>3. j = sock["view"] => j = sock'["view"]
      BY <1>2, <1>5, ChatAssumption DEF Hooks, Conns
    <3> QED BY <1>2, <3>1, <3>2, <3>3
  <2>3. \A j, l \in Conns, i \in Ids : Carries(conns'[j], i) /\ Carries(conns'[l], i) => j = l
    BY <1>3, <1>6 DEF Asked
  <2> QED BY <1>2, <2>1, <2>2, <2>3 DEF Asked
<1>12. Spoken'
  BY <1>2, <1>3, <1>5, <1>6, HeldAreConns DEF Spoken
<1>13. Served'
  <2> SUFFICES ASSUME ~doubled, NEW i \in Ids, i \notin excused PROVE ServedFor(i)'
    BY <1>2 DEF Served
  <2>1. ServedFor(i)
    BY DEF Served
  <2>2. Reaches(i) => Reaches(i)'
    <3>1. GoesOn(i)
      BY <1>2 DEF GoesOn, Live
    <3>2. \A j \in Heeded : conns'[j] = conns[j]
      BY <1>3, <1>4, HeldAreConns
    <3> QED BY <3>1, <3>2, <1>2, <1>5, <1>7, <1>10, ReachesKept
  <2>3. \A j \in Heeded : conns'[j] = conns[j]
    BY <1>3, <1>4, HeldAreConns
  <2>4. \A sts : Shows(i, sts)' => Shows(i, sts)
    BY <1>2 DEF Shows
  <2>5. Heeded' = Held' => Heeded = Held
    BY <1>4, <1>5, HeldAreConns
  <2> QED BY <2>1, <2>2, <2>3, <2>4, <2>5, <1>5, <1>6 DEF ServedFor
<1> QED BY <1>7, <1>8, <1>9, <1>10, <1>11, <1>12, <1>13

LEMMA LeaveChatViewKeeps ==
  ASSUME ChatInv, LeaveChatView PROVE ChatInv'
<1>1. CloseSockets({"view"}) /\ {"view"} \subseteq Hooks /\ mounted' \subseteq Hooks
  BY DEF LeaveChatView, Hooks, ChatInv, ChatTypes
<1> QED BY <1>1, CloseSocketsKeeps

LEMMA ReloadKeeps ==
  ASSUME ChatInv, Reload PROVE ChatInv'
<1>1. CloseSockets(mounted) /\ mounted \subseteq Hooks /\ mounted' \subseteq Hooks
  BY DEF Reload, Hooks, ChatInv, ChatTypes
<1> QED BY <1>1, CloseSocketsKeeps

\* The page reads a word, and may send something back.
LEMMA ReadWired ==
  ASSUME ChatTypes, Sockets, NEW h \in Hooks, NEW k, k = sock[h], k # 0, conns[k].down # << >>, NEW w, w = Head(conns[k].down),
         conns' = Received(k) \/ \E m \in Request : m.type # "chat" /\ conns' = Sends(k, m)
  PROVE  /\ k \in Heeded /\ w \in Reply /\ conns' \in Wires /\ Wired
         /\ \A i \in Ids : Heard(i) /\ (Stirring(w, i) => Stirs(conns[k], i))
         /\ \A j \in Conns, i \in Ids :
              /\ Carries(conns[j], i) => Carries(conns'[j], i)
              /\ Stirs(conns'[j], i) => Stirs(conns[j], i)
              /\ Settles(conns[j], i) /\ (Stirs(conns'[j], i) \/ ~Ending(w, i)) => Settles(conns'[j], i)
<1>1. k \in Conns /\ k \in Held /\ conns[k] # Null /\ conns[k] \in Connection /\ conns[k].alive /\ k \in Heeded
  BY DEF ChatTypes, Sockets, Held, Heeded
<1> DEFINE cs == Received(k)
<1>2. /\ cs[k] = [conns[k] EXCEPT !.down = Tail(conns[k].down)]
      /\ \A j \in Conns : j # k => cs[j] = conns[j]
      /\ cs = [j \in Conns |-> cs[j]]
  BY <1>1 DEF Received, ChatTypes
<1>3. /\ cs[k] \in Connection /\ cs[k].up = conns[k].up /\ w \in Reply
      /\ cs[k].alive = conns[k].alive /\ cs[k].open = conns[k].open /\ cs[k].left = conns[k].left
      /\ \A i \in Ids :
           /\ Stirs(cs[k], i) => Stirs(conns[k], i)
           /\ Settles(conns[k], i) /\ (Stirs(cs[k], i) \/ ~Ending(w, i)) => Settles(cs[k], i)
           /\ Stirring(w, i) => Stirs(conns[k], i)
  <2>1. cs[k] = [conns[k] EXCEPT !.down = Tail(conns[k].down)]
    BY <1>2
  <2> HIDE DEF cs
  <2> QED BY <1>1, <2>1, ReadWord
<1>4. cs[k] # Null
  BY <1>3, ChatAssumption
<1> HIDE DEF cs
<1>5. cs \in Wires
  BY <1>2, <1>3 DEF Wires, ChatTypes
<1>6. \A j \in Conns :
        /\ Same(conns[j], cs[j]) /\ (conns[j] # Null /\ cs[j].down # conns[j].down => conns[j].alive)
        /\ \A i \in Ids :
             /\ Stirs(cs[j], i) => Stirs(conns[j], i)
             /\ Settles(conns[j], i) /\ (Stirs(cs[j], i) \/ ~Ending(w, i)) => Settles(cs[j], i)
  <2> SUFFICES ASSUME NEW j \in Conns
               PROVE  /\ Same(conns[j], cs[j]) /\ (conns[j] # Null /\ cs[j].down # conns[j].down => conns[j].alive)
                      /\ \A i \in Ids :
                           /\ Stirs(cs[j], i) => Stirs(conns[j], i)
                           /\ Settles(conns[j], i) /\ (Stirs(cs[j], i) \/ ~Ending(w, i)) => Settles(cs[j], i)
    OBVIOUS
  <2>1. CASE j = k
    <3>1. Same(conns[k], cs[k])
      BY <1>1, <1>3, <1>4 DEF Same, Link
    <3> QED BY <2>1, <3>1, <1>1, <1>3
  <2>2. CASE j # k
    BY <2>2, <1>2 DEF Same, Link
  <2> QED BY <2>1, <2>2
<1>7. /\ conns' \in Wires
      /\ \A j \in Conns :
           /\ Link(cs[j], conns'[j]) /\ (cs[j] # Null => conns'[j].down = cs[j].down)
           /\ cs[j] # Null /\ conns'[j].up # cs[j].up => j = k /\ cs[j].alive
           /\ \A i \in Ids : Carries(conns'[j], i) <=> Carries(cs[j], i)
           /\ cs[j] # Null /\ Once(cs[j]) => Once(conns'[j])
  <2>1. CASE conns' = cs
    BY <2>1, <1>5 DEF Link
  <2>2. CASE \E m \in Request : m.type # "chat" /\ conns' = Sends(k, m)
    <3>1. PICK m \in Request : m.type # "chat" /\ conns' = Sends(k, m)
      BY <2>2
    <3>2. conns' = Up(cs, k, m)
      BY <3>1 DEF Sends, Received, cs
    <3> QED BY <1>1, <1>4, <1>5, <3>1, <3>2, SentUp
  <2> QED BY <2>1, <2>2 DEF cs
<1>8. \A j \in Conns : Link(conns[j], conns'[j])
  BY <1>6, <1>7 DEF Same, Link
<1>9. \A j \in Conns, i \in Ids :
        /\ Carries(conns[j], i) <=> Carries(conns'[j], i)
        /\ Stirs(conns'[j], i) <=> Stirs(cs[j], i)
        /\ Settles(cs[j], i) => Settles(conns'[j], i)
  BY <1>6, <1>7, SameCarries DEF Stirs, Settles, Link
<1>10. Wired
  <2>1. \A j \in Conns : conns[j] # Null /\ Once(conns[j]) => Once(conns'[j])
    BY <1>6, <1>7, SameCarries DEF Same, Link
  <2>2. \A j \in Conns : conns[j] # Null =>
          /\ conns'[j].up # << >> => conns[j].up # << >> \/ (j \in Held /\ conns[j].alive)
          /\ conns'[j].down # << >> => conns[j].down # << >> \/ conns[j].alive
    BY <1>1, <1>6, <1>7 DEF Same, Link
  <2> QED BY <1>8, <1>9, <2>1, <2>2 DEF Wired
<1>11. \A j \in Conns, i \in Ids :
         /\ Stirs(conns'[j], i) => Stirs(conns[j], i)
         /\ Settles(conns[j], i) /\ (Stirs(conns'[j], i) \/ ~Ending(w, i)) => Settles(conns'[j], i)
  BY <1>6, <1>9
<1> QED BY <1>1, <1>3, <1>7, <1>9, <1>10, <1>11 DEF Heard

LEMMA PageReads ==
  ASSUME ChatInv, NEW h \in Hooks, NEW k, k = sock[h], k # 0, conns[k].down # << >>, NEW w, w = Head(conns[k].down),
         conns' = Received(k) \/ \E m \in Request : m.type # "chat" /\ conns' = Sends(k, m),
         UNCHANGED <<isGroup, mounted, sock, sent, serverVars, ghosts>>,
         session' \in Sessions, OnlyAnswersWait',
         \A i \in Ids, sts \in {{"waiting"}, Thinking} :
           Shows(i, sts)' => (Shows(i, sts) /\ ~Ending(w, i)) \/ Stirring(w, i)
  PROVE  ChatInv'
<1> USE DEF ChatInv
<1>1. /\ k \in Heeded /\ w \in Reply /\ conns' \in Wires /\ Wired
      /\ \A i \in Ids : Heard(i) /\ (Stirring(w, i) => Stirs(conns[k], i))
      /\ \A j \in Conns, i \in Ids :
           /\ Carries(conns[j], i) => Carries(conns'[j], i)
           /\ Stirs(conns'[j], i) => Stirs(conns[j], i)
           /\ Settles(conns[j], i) /\ (Stirs(conns'[j], i) \/ ~Ending(w, i)) => Settles(conns'[j], i)
  BY ReadWired
<1>2. ChatTypes'
  BY <1>1 DEF ChatTypes, serverVars, ghosts, Wires, Sessions
<1>3. Quiet
  BY DEF Quiet, Growing, TasksKept, serverVars, ghosts, ChatTypes
<1>4. /\ Sockets' /\ Subscribed' /\ Questions' /\ Asked' /\ Spoken'
      /\ Held' = Held /\ Heeded' = Heeded /\ Open' = Open
  BY <1>1, <1>2, <1>3, QuietStep
<1>5. Served'
  <2> SUFFICES ASSUME ~doubled, NEW i \in Ids, i \notin excused PROVE ServedFor(i)'
    BY DEF Served, ghosts
  <2>0. ServedFor(i)
    BY DEF Served
  <2>1. Reaches(i) => Reaches(i)'
    <3>1. GoesOn(i)
      BY DEF GoesOn, serverVars, Live
    <3> QED BY <3>1, <1>1, <1>2, <1>3, <1>4, HeldAreConns, ReachesKept DEF Quiet, Growing
  <2>2. ASSUME NEW j \in Heeded', Stirs(conns'[j], i) PROVE Settles(conns'[j], i) \/ Reaches(i)'
    BY <2>0, <2>1, <2>2, <1>1, <1>4, HeldAreConns DEF ServedFor
  <2>3. ASSUME Shows(i, {"waiting"})' \/ (Shows(i, Thinking)' /\ Heeded' = Held')
        PROVE  Reaches(i)' \/ \E j \in Heeded' : Settles(conns'[j], i)
    <3>1. CASE Stirring(w, i)
      <4>1. ~Ending(w, i)
        BY <3>1 DEF Stirring, Ending
      <4>2. Settles(conns[k], i) \/ Reaches(i)
        BY <2>0, <3>1, <1>1 DEF ServedFor
      <4> QED BY <4>1, <4>2, <2>1, <1>1, <1>4, HeldAreConns
    <3>2. CASE ~Stirring(w, i)
      <4>1. /\ Shows(i, {"waiting"}) \/ (Shows(i, Thinking) /\ Heeded = Held)
            /\ ~Ending(w, i)
        BY <2>3, <3>2, <1>4
      <4>2. Reaches(i) \/ \E j \in Heeded : Settles(conns[j], i)
        BY <2>0, <4>1 DEF ServedFor
      <4> QED BY <4>1, <4>2, <2>1, <1>1, <1>4, HeldAreConns
    <3> QED BY <3>1, <3>2
  <2> QED BY <2>2, <2>3 DEF ServedFor
<1>6. Entered'
  BY DEF serverVars, ghosts, Entered, OneLive, AskingCanResumeUnlessRetried, AtWorkIsEnteredUnlessOverlapped, AtWork, Live
<1> QED BY <1>2, <1>4, <1>5, <1>6

LEMMA OnMessageKeeps ==
  ASSUME ChatInv, NEW h \in Hooks, OnMessage(h) PROVE ChatInv'
<1> USE DEF ChatInv
<1> DEFINE k == sock[h]
           w == Head(conns[k].down)
<1>1. /\ k # 0 /\ conns[k].down # << >>
      /\ UNCHANGED <<isGroup, mounted, sock, sent, serverVars, ghosts>>
      /\ \/ OnConnected(k, w) \/ OnSessionsList(k, w) \/ OnSessionHistory(k, w) \/ OnState(k, w)
         \/ OnError(k, w) \/ OnNotice(k, w) \/ OnSessionDeleted(k, w)
  BY DEF OnMessage
<1>2. session \in Sessions
  BY DEF ChatTypes, Sessions
<1>3. w \in Reply
  <2>1. k \in Conns /\ conns[k] \in Connection
    BY <1>1 DEF ChatTypes, Sockets
  <2>2. conns[k].down \in Seq(Reply)
    BY <2>1 DEF Connection
  <2> QED BY <1>1, <2>2, HeadTailProperties
<1> HIDE DEF k, w
<1>4. /\ conns' = Received(k) \/ \E m \in Request : m.type # "chat" /\ conns' = Sends(k, m)
      /\ session' \in Sessions /\ OnlyAnswersWait'
      /\ \A i \in Ids, sts \in {{"waiting"}, Thinking} :
           Shows(i, sts)' => (Shows(i, sts) /\ ~Ending(w, i)) \/ Stirring(w, i)
  <2>1. CASE OnConnected(k, w)
    <3>1. [type |-> "list_sessions"] \in Request
      BY DEF Request
    <3> QED BY <2>1, <3>1, <1>2 DEF OnConnected, OnlyAnswersWait, Shows, Ending
  <2>2. CASE OnSessionsList(k, w)
    <3>1. [type |-> "get_session_history"] \in Request
      BY DEF Request
    <3>2. session' = session \/ session' = << >>
      BY <2>2 DEF OnSessionsList, MergeServerSessions
    <3>3. session' \in Sessions /\ OnlyAnswersWait'
      <4>1. CASE session' = session
        BY <4>1, <1>2 DEF OnlyAnswersWait
      <4>2. CASE session' = << >>
        <5>1. << >> \in Seq(ChatRow) /\ 1..Len(<< >>) = {}
          BY EmptySeq
        <5> QED BY <4>2, <5>1 DEF Sessions, OnlyAnswersWait
      <4> QED BY <3>2, <4>1, <4>2
    <3>4. \A i \in Ids, sts \in {{"waiting"}, Thinking} : Shows(i, sts)' => Shows(i, sts)
      BY <3>2, EmptySeq DEF Shows
    <3> QED BY <2>2, <3>1, <3>3, <3>4 DEF OnSessionsList, Ending
  <2>3. CASE OnSessionHistory(k, w)
    <3>0. w.n \in Nat
      BY <2>3, <1>3 DEF OnSessionHistory, Reply
    <3> DEFINE new == [i \in 1..w.n |-> ChatMessage(0, IF i % 2 = 1 THEN "user" ELSE "assistant", "complete")]
    <3>1. session' = session \/ (session' = new /\ session # Null)
      BY <2>3 DEF OnSessionHistory, LoadServerHistory
    <3>2. new \in Seq(ChatRow) /\ \A i \in 1..Len(new) : new[i].st = "complete"
      <4>1. \A i \in 1..w.n : ChatMessage(0, IF i % 2 = 1 THEN "user" ELSE "assistant", "complete") \in ChatRow
        BY ChatAssumption DEF ChatMessage, ChatRow, States
      <4>2. new \in Seq(ChatRow) /\ Len(new) = w.n
        BY <3>0, <4>1
      <4> QED BY <4>2 DEF ChatMessage
    <3> HIDE DEF new
    <3>3. session' \in Sessions /\ OnlyAnswersWait'
      BY <3>1, <3>2, <1>2 DEF Sessions, OnlyAnswersWait
    <3>4. \A i \in Ids, sts \in {{"waiting"}, Thinking} : Shows(i, sts)' => Shows(i, sts)
      BY <3>1, <3>2 DEF Shows, Thinking
    <3> QED BY <2>3, <3>3, <3>4 DEF OnSessionHistory, Ending
  <2>4. CASE OnState(k, w)
    <3>1. w.type = "state" /\ w.id \in Ids /\ w.st \in States /\ session' = SetState(session, w.id, w.st) /\ w.id \in 0..MaxSends
      BY <2>4, <1>3 DEF OnState, Reply, Ids
    <3>2. /\ session' \in Sessions /\ OnlyAnswersWait'
          /\ \A i \in Ids, sts \in {{"waiting"}, Thinking} :
               Shows(i, sts)' => IF i = w.id THEN w.st \in sts ELSE Shows(i, sts)
      BY <3>1, StateSet
    <3>3. \A i \in Ids, sts \in {{"waiting"}, Thinking} : w.st \in sts => (i = w.id => Stirring(w, i))
      BY <3>1 DEF Stirring, Thinking
    <3>4. \A i \in Ids : i # w.id => ~Ending(w, i)
      BY DEF Ending
    <3> QED BY <2>4, <3>2, <3>3, <3>4 DEF OnState
  <2>5. CASE OnError(k, w)
    <3>1. w.type = "error" /\ w.id \in 0..MaxSends /\ (w.id # 0 => w.id \in Ids) /\ "error" \in States
      BY <2>5, <1>3 DEF OnError, Reply, Ids, States
    <3>2. CASE w.id = 0
      <4>1. \A i \in Ids : ~Ending(w, i)
        BY <3>2 DEF Ending, Ids
      <4> QED BY <2>5, <3>2, <4>1, <1>2 DEF OnError, OnlyAnswersWait, Shows
    <3>3. CASE w.id # 0
      <4>1. session' = SetState(session, w.id, "error")
        BY <2>5, <3>3 DEF OnError
      <4>2. /\ session' \in Sessions /\ OnlyAnswersWait'
            /\ \A i \in Ids, sts \in {{"waiting"}, Thinking} :
                 Shows(i, sts)' => IF i = w.id THEN "error" \in sts ELSE Shows(i, sts)
        BY <3>1, <3>3, <4>1, StateSet
      <4>3. \A i \in Ids : i # w.id => ~Ending(w, i)
        BY DEF Ending
      <4> QED BY <2>5, <4>2, <4>3 DEF OnError, Thinking
    <3> QED BY <3>2, <3>3
  <2>6. CASE OnNotice(k, w)
    <3> DEFINE r == ChatMessage(0, "notice", "complete")
    <3>1. r \in ChatRow /\ r.st = "complete"
      BY ChatAssumption DEF ChatMessage, ChatRow, States
    <3> HIDE DEF r
    <3>2. IF session = Null THEN session' = Null ELSE session' = Append(session, r) /\ session \in Seq(ChatRow)
      BY <2>6, <1>2 DEF OnNotice, r, Sessions
    <3>3. CASE session = Null
      BY <2>6, <3>2, <3>3 DEF OnNotice, Sessions, OnlyAnswersWait, Shows
    <3>4. CASE session # Null
      <4>1. /\ session' \in Seq(ChatRow) /\ Len(session) \in Nat /\ Len(session') = Len(session) + 1
            /\ session'[Len(session) + 1] = r /\ \A i \in 1..Len(session) : session'[i] = session[i]
        BY <3>1, <3>2, <3>4
      <4>2. \A i \in 1..Len(session') : i \in 1..Len(session) \/ i = Len(session) + 1
        BY <4>1
      <4>3. session' \in Sessions /\ OnlyAnswersWait'
        BY <3>1, <3>4, <4>1, <4>2 DEF Sessions, OnlyAnswersWait
      <4>4. \A i \in Ids, sts \in {{"waiting"}, Thinking} : Shows(i, sts)' => Shows(i, sts)
        BY <3>1, <3>4, <4>1, <4>2 DEF Shows, Thinking
      <4> QED BY <2>6, <4>3, <4>4 DEF OnNotice, Ending
    <3> QED BY <3>3, <3>4
  <2>7. CASE OnSessionDeleted(k, w)
    BY <2>7 DEF OnSessionDeleted, Sessions, OnlyAnswersWait, Shows
  <2> QED BY <2>1, <2>2, <2>3, <2>4, <2>5, <2>6, <2>7, <1>1
<1> QED BY <1>1, <1>4, PageReads DEF k, w

(* What the server is sent. *************************************************)

\* The connections once the server has taken the request w.
Took(cs, w) ==
  /\ cs \in Wires
  /\ \A j \in Conns :
       /\ Link(conns[j], cs[j])
       /\ conns[j] # Null => cs[j].down = conns[j].down /\ (cs[j].up # << >> => conns[j].up # << >>)
                             /\ (Once(conns[j]) => Once(cs[j]))
       /\ \A i \in Ids :
            /\ Carries(cs[j], i) => Carries(conns[j], i) /\ ~(w.type = "chat" /\ w.id = i)
            /\ Carries(conns[j], i) => Carries(cs[j], i) \/ (w.type = "chat" /\ w.id = i)

LEMMA RequestTaken ==
  ASSUME ChatTypes, Sockets, Asked, NEW k \in Open, conns[k].up # << >>, NEW w, w = Head(conns[k].up),
         NEW cs, cs = [conns EXCEPT ![k].up = Tail(@)]
  PROVE  /\ Took(cs, w) /\ w \in Request /\ k \in Conns /\ cs[k] # Null
         /\ w.type = "chat" => w.id \in Ids /\ Carries(conns[k], w.id)
         /\ conns[k].alive /\ (k \in Heeded \/ conns[k].left)
<1>1. k \in Conns /\ conns[k] # Null /\ conns[k] \in Connection /\ conns[k].alive /\ (k \in Heeded \/ conns[k].left)
  BY DEF ChatTypes, Sockets, Open, Heeded
<1>2. /\ cs[k] = [conns[k] EXCEPT !.up = Tail(conns[k].up)]
      /\ \A j \in Conns : j # k => cs[j] = conns[j]
      /\ cs = [j \in Conns |-> cs[j]]
  BY <1>1 DEF ChatTypes
<1>3. /\ cs[k] \in Connection /\ cs[k].down = conns[k].down /\ w \in Request
      /\ cs[k].alive = conns[k].alive /\ cs[k].open = conns[k].open /\ cs[k].left = conns[k].left
      /\ \A i \in Ids : /\ Carries(cs[k], i) => Carries(conns[k], i)
                        /\ Carries(conns[k], i) => Carries(cs[k], i) \/ (w.type = "chat" /\ w.id = i)
      /\ Once(conns[k]) => Once(cs[k])
      /\ w.type = "chat" => Carries(conns[k], w.id)
      /\ Once(conns[k]) /\ w.type = "chat" => ~Carries(cs[k], w.id)
  <2> DEFINE d == cs[k]
  <2>1. d = [conns[k] EXCEPT !.up = Tail(conns[k].up)]
    BY <1>2
  <2> HIDE DEF d
  <2>2. OneTaken(conns[k], d)
    BY <1>1, <2>1, TakenRequest
  <2> QED BY <2>2 DEF OneTaken, d
<1>4. cs[k] # Null /\ cs \in Wires
  BY <1>2, <1>3, ChatAssumption DEF Wires, ChatTypes
<1>5. w.type = "chat" => w.id \in Ids
  BY <1>3 DEF Request, Ids
<1>6. ASSUME w.type = "chat", NEW j \in Conns, Carries(cs[j], w.id) PROVE FALSE
  <2>1. Once(conns[k])
    BY <1>1 DEF Asked
  <2>2. j # k
    BY <1>3, <1>6, <2>1
  <2>3. Carries(conns[j], w.id) /\ Carries(conns[k], w.id)
    BY <1>2, <1>3, <1>6, <2>2
  <2> QED BY <1>1, <1>5, <1>6, <2>2, <2>3 DEF Asked
<1>7. ASSUME NEW j \in Conns
      PROVE  /\ Link(conns[j], cs[j])
             /\ conns[j] # Null => cs[j].down = conns[j].down /\ (cs[j].up # << >> => conns[j].up # << >>)
                                   /\ (Once(conns[j]) => Once(cs[j]))
             /\ \A i \in Ids :
                  /\ Carries(cs[j], i) => Carries(conns[j], i) /\ ~(w.type = "chat" /\ w.id = i)
                  /\ Carries(conns[j], i) => Carries(cs[j], i) \/ (w.type = "chat" /\ w.id = i)
  <2>1. CASE j = k
    <3>1. Link(conns[k], cs[k])
      BY <1>1, <1>3, <1>4 DEF Link
    <3> QED BY <2>1, <3>1, <1>3, <1>6
  <2>2. CASE j # k
    <3>1. cs[j] = conns[j] /\ Link(conns[j], conns[j])
      BY <2>2, <1>2 DEF Link
    <3> QED BY <3>1, <1>6
  <2> QED BY <2>1, <2>2
<1> QED BY <1>1, <1>3, <1>4, <1>5, <1>7 DEF Took

\* What is on a connection does not depend on what the server knows of it.
LEMMA TookKnown ==
  ASSUME ChatTypes, NEW cs, NEW w, Took(cs, w), NEW k \in Conns, cs[k] # Null, NEW ds, ds = [cs EXCEPT ![k].knows = TRUE]
  PROVE  Took(ds, w)
<1>1. cs[k] \in Connection /\ cs \in Wires
  BY DEF Took, Wires
<1>2. /\ ds[k] = [cs[k] EXCEPT !.knows = TRUE]
      /\ \A j \in Conns : j # k => ds[j] = cs[j]
      /\ ds = [j \in Conns |-> ds[j]]
  BY <1>1 DEF Wires
<1>3. /\ ds[k] \in Connection /\ ds[k].up = cs[k].up /\ ds[k].down = cs[k].down
      /\ ds[k].alive = cs[k].alive /\ ds[k].open = cs[k].open /\ ds[k].left = cs[k].left
  BY <1>1, <1>2 DEF Connection
<1>4. ds[k] # Null /\ ds \in Wires
  BY <1>1, <1>2, <1>3, ChatAssumption DEF Wires
<1>5. \A j \in Conns : Same(cs[j], ds[j]) /\ (cs[j] # Null => ds[j].down = cs[j].down)
  <2> SUFFICES ASSUME NEW j \in Conns PROVE Same(cs[j], ds[j]) /\ (cs[j] # Null => ds[j].down = cs[j].down)
    OBVIOUS
  <2>1. CASE j = k
    BY <2>1, <1>3, <1>4 DEF Same, Link
  <2>2. CASE j # k
    BY <2>2, <1>2 DEF Same, Link
  <2> QED BY <2>1, <2>2
<1>6. \A j \in Conns : /\ \A i \in Ids : Carries(ds[j], i) <=> Carries(cs[j], i)
                       /\ cs[j] # Null /\ Once(cs[j]) => Once(ds[j])
  BY <1>5, SameCarries
<1>7. \A j \in Conns : Link(conns[j], ds[j]) /\ (conns[j] # Null => cs[j] # Null /\ ds[j].up = cs[j].up)
  BY <1>5 DEF Took, Same, Link
<1> QED BY <1>4, <1>5, <1>6, <1>7 DEF Took

\* The server's answer to a request: none, or a word on some connections.
Answers(cs, ds, to, m) == ds = cs \/ ds = Deliver(cs, to, m)

Rewired(w, to, m) ==
  /\ conns' \in Wires /\ Wired /\ Linked
  /\ \A j \in Conns, i \in Ids :
       /\ Carries(conns'[j], i) => ~(w.type = "chat" /\ w.id = i)
       /\ Carries(conns[j], i) => Carries(conns'[j], i) \/ (w.type = "chat" /\ w.id = i)
       /\ Stirs(conns'[j], i) => Stirs(conns[j], i) \/ (j \in to /\ Stirring(m, i))
       /\ Settles(conns[j], i) /\ ~(j \in to /\ Stirring(m, i)) => Settles(conns'[j], i)

LEMMA ServeWired ==
  ASSUME ChatTypes, NEW cs, NEW w, Took(cs, w), NEW to, NEW m \in Reply, Answers(cs, conns', to, m)
  PROVE  Rewired(w, to, m)
<1>1. cs \in Wires
  BY DEF Took
<1>2. /\ conns' \in Wires
      /\ \A j \in Conns :
           /\ Same(cs[j], conns'[j]) /\ (cs[j] # Null /\ conns'[j].down # cs[j].down => Hears(cs[j]))
           /\ \A i \in Ids :
                /\ Stirs(conns'[j], i) => Stirs(cs[j], i) \/ (j \in to /\ Stirring(m, i))
                /\ Settles(cs[j], i) /\ ~(j \in to /\ Stirring(m, i)) => Settles(conns'[j], i)
  <2>1. CASE conns' = cs
    BY <1>1, <2>1 DEF Same, Link
  <2>2. CASE conns' = Deliver(cs, to, m)
    BY <1>1, <2>2, Delivered
  <2> QED BY <2>1, <2>2 DEF Answers
<1>3. \A j \in Conns : /\ \A i \in Ids : Carries(conns'[j], i) <=> Carries(cs[j], i)
                       /\ cs[j] # Null /\ Once(cs[j]) => Once(conns'[j])
  BY <1>2, SameCarries
<1>4. \A j \in Conns :
        /\ Link(conns[j], conns'[j])
        /\ conns[j] # Null => /\ cs[j] # Null /\ conns'[j].up = cs[j].up /\ cs[j].down = conns[j].down
                              /\ (conns'[j].down # cs[j].down => conns[j].alive)
  BY <1>2 DEF Took, Same, Link, Hears
<1>5. Wired
  BY <1>3, <1>4 DEF Wired, Took
<1>6. \A j \in Conns, i \in Ids : (Stirs(cs[j], i) => Stirs(conns[j], i)) /\ (Settles(conns[j], i) => Settles(cs[j], i))
  <2>1. \A j \in Conns : (cs[j] # Null <=> conns[j] # Null) /\ (conns[j] # Null => cs[j].down = conns[j].down)
    BY DEF Took, Link
  <2> QED BY <2>1 DEF Stirs, Settles
<1> QED BY <1>2, <1>3, <1>4, <1>5, <1>6 DEF Took, Linked, Rewired

\* A request that begins no task.
LEMMA ServeKeeps ==
  ASSUME ChatInv, NEW cs, NEW w, Took(cs, w), NEW to, NEW m \in Reply, Answers(cs, conns', to, m),
         \A i \in Ids : ~Stirring(m, i),
         Growing, TasksKept, ChatTypes', Subscribed', Entered', session' = session,
         \A i \in Ids : GoesOn(i), w.type = "chat" /\ w.id \in Ids => w.id \in excused'
  PROVE  ChatInv'
<1> USE DEF ChatInv
<1>1. /\ conns' \in Wires /\ Wired /\ Linked
      /\ \A j \in Conns, i \in Ids :
           /\ Carries(conns[j], i) => Carries(conns'[j], i) \/ (w.type = "chat" /\ w.id = i)
           /\ Stirs(conns'[j], i) => Stirs(conns[j], i)
           /\ Settles(conns[j], i) => Settles(conns'[j], i)
  BY ServeWired DEF Rewired
<1>2. \A i \in Ids : Heard(i) /\ Begun(i)
  BY <1>1 DEF Heard, Begun, TasksKept
<1>3. /\ Held' = Held /\ Heeded' = Heeded /\ Open' = Open
      /\ Sockets' /\ Questions' /\ Asked' /\ Spoken'
  BY <1>1, <1>2, GrowingStep
<1>4. OnlyAnswersWait'
  BY DEF OnlyAnswersWait
<1>5. Served'
  <2> SUFFICES ASSUME ~doubled, NEW i \in Ids, i \notin excused' PROVE ServedFor(i)'
    BY DEF Served, Growing
  <2>1. i \notin excused /\ ~(w.type = "chat" /\ w.id = i)
    BY DEF Growing
  <2>2. Undisturbed(i)
    BY <1>1, <2>1, HeldAreConns DEF Undisturbed, Shows
  <2> QED BY <2>1, <2>2, <1>1, <1>2, UndisturbedStaysServed
<1> QED BY <1>3, <1>4, <1>5

\* A subscriber more: the connection that carries the chat's messages, or one
\* of a group's.
LEMMA SubscribedGrows ==
  ASSUME ChatTypes, Sockets, Subscribed, Linked, NEW k \in Open, subs' = subs \cup {k},
         UNCHANGED <<isGroup, sock, grouped>>, ~isGroup => sock["layout"] # k,
         ~doubled' => \A j, l \in Held \cap subs' : j = l,
         \A i \in Ids : task'[i] # Null => (task[i] # Null /\ task'[i].conn = task[i].conn) \/ task'[i].conn = k
  PROVE  Subscribed'
<1>0. Held' = Held /\ Open' = Open
  BY HeldKept
<1>1. ASSUME NEW i \in Ids, task'[i] # Null
      PROVE  conns'[task'[i].conn] # Null /\ (task'[i].conn \in Open' => task'[i].conn \in subs')
  <2>1. CASE task[i] # Null /\ task'[i].conn = task[i].conn
    <3>1. task[i].conn \in Conns
      BY <2>1 DEF ChatTypes, ChatTask, Conns
    <3> QED BY <1>0, <2>1, <3>1 DEF Subscribed, Linked, Link
  <2>2. CASE task'[i].conn = k
    BY <2>2 DEF Open, Linked, Link
  <2> QED BY <1>1, <2>1, <2>2
<1>2. subs' \subseteq Open'
  BY <1>0 DEF Subscribed
<1> QED BY <1>0, <1>1, <1>2 DEF Subscribed

\* Requests that change nothing of the tasks.
LEMMA QuietServeKeeps ==
  ASSUME ChatInv, NEW cs, NEW w, Took(cs, w), NEW to, NEW m \in Reply, Answers(cs, conns', to, m),
         \A i \in Ids : ~Stirring(m, i), w.type # "chat", UNCHANGED pageVars, UNCHANGED ghosts, subs' = subs,
         pending' \subseteq pending, grouped' \in BOOLEAN, grouped' => grouped,
         task' \in [Ids -> ChatTask \cup {Null}], running' = running, row' \in Nat \cup {Null},
         TasksKept, \A i \in Ids : GoesOn(i), Entered'
  PROVE  ChatInv'
<1> USE DEF ChatInv
<1>1. conns' \in Wires /\ Linked
  BY ServeWired DEF Rewired
<1>2. ChatTypes'
  BY <1>1 DEF ChatTypes, Wires, pageVars, ghosts
<1>3. Growing
  BY DEF Growing, TasksKept, pageVars, ghosts
<1>4. Subscribed'
  BY <1>1, SubscribedKept DEF pageVars, ghosts
<1> QED BY <1>2, <1>3, <1>4, ServeKeeps DEF pageVars

LEMMA NoticeIsQuiet ==
  ASSUME NEW m, m.type \notin {"state"} PROVE \A i \in Ids : ~Stirring(m, i)
BY DEF Stirring

LEMMA HandleStopRequestKeeps ==
  ASSUME ChatInv, NEW k \in Conns, NEW cs, NEW w, Took(cs, w), HandleStopRequest(k, cs, w), UNCHANGED pageVars
  PROVE  ChatInv'
<1> USE DEF ChatInv
<1>1. \E m \in Reply : m.type # "state" /\ conns' = Deliver(cs, {k}, m)
  <2>1. [type |-> "error", id |-> 0] \in Reply /\ [type |-> "notice"] \in Reply
    BY ChatAssumption DEF Reply
  <2> QED BY <2>1 DEF HandleStopRequest
<1>2. PICK m \in Reply : m.type # "state" /\ conns' = Deliver(cs, {k}, m)
  BY <1>1
<1>3. task' = task \/ (running # 0 /\ task' = [task EXCEPT ![running].stopped = TRUE])
  BY DEF HandleStopRequest
<1>4. /\ task' \in [Ids -> ChatTask \cup {Null}]
      /\ \A i \in Ids : /\ task'[i] # Null <=> task[i] # Null
                        /\ task[i] # Null => /\ task'[i].conn = task[i].conn /\ task'[i].phase = task[i].phase
                                            /\ task'[i].again = task[i].again
  <2>1. CASE task' = task
    BY <2>1 DEF ChatTypes
  <2>2. CASE running # 0 /\ task' = [task EXCEPT ![running].stopped = TRUE]
    <3>0. running \in Ids
      BY <2>2 DEF ChatTypes
    <3>1. task[running] \in ChatTask /\ task[running] # Null
      BY <2>2, <3>0 DEF ChatTypes, Questions
    <3>2. /\ task'[running] = [task[running] EXCEPT !.stopped = TRUE] /\ task'[running] \in ChatTask
          /\ \A i \in Ids : i # running => task'[i] = task[i]
          /\ task' \in [Ids -> ChatTask \cup {Null}]
      BY <2>2, <3>0, <3>1 DEF ChatTypes, ChatTask
    <3> QED BY <3>0, <3>1, <3>2, ChatAssumption DEF ChatTask
  <2> QED BY <1>3, <2>1, <2>2
<1>5. TasksKept /\ (\A i \in Ids : GoesOn(i)) /\ Entered'
  BY <1>4 DEF HandleStopRequest, ghosts, TasksKept, GoesOn,
              Entered, OneLive, AskingCanResumeUnlessRetried, AtWorkIsEnteredUnlessOverlapped, AtWork, Live
<1> QED BY <1>2, <1>4, <1>5, NoticeIsQuiet, QuietServeKeeps DEF Answers, HandleStopRequest, ChatTypes

LEMMA HandleAnswerRequestKeeps ==
  ASSUME ChatInv, NEW k \in Conns, NEW cs, NEW w \in Request, Took(cs, w), HandleAnswerRequest(k, cs, w), UNCHANGED pageVars
  PROVE  ChatInv'
<1> USE DEF ChatInv
<1> DEFINE m == [type |-> "notice"]
<1>1. m \in Reply /\ (\A i \in Ids : ~Stirring(m, i)) /\ Answers(cs, conns', {}, m) /\ w.type # "chat" /\ w.id \in Ids
  BY DEF HandleAnswerRequest, Reply, Stirring, Answers, Request, Ids
<1>2. /\ task' \in [Ids -> ChatTask \cup {Null}] /\ pending' \subseteq pending
      /\ TasksKept /\ (\A i \in Ids : GoesOn(i)) /\ Entered'
  <2>1. CASE <<k, w.id>> \in pending
    <3>1. Resumes(k, w.id) /\ task[w.id] # Null
      BY <1>1, <2>1 DEF HandleAnswerRequest, Questions
    <3>2. UNCHANGED <<running, overlap>>
      BY DEF HandleAnswerRequest, ghosts
    <3>3. pending' \subseteq pending
      BY <3>1 DEF Resumes
    <3> QED BY <1>1, <2>1, <3>1, <3>2, <3>3, ResumesKeeps
  <2>2. CASE <<k, w.id>> \notin pending
    <3>1. UNCHANGED <<pending, task, running, overlap>>
      BY <2>2 DEF HandleAnswerRequest, ghosts
    <3> QED BY <3>1 DEF ChatTypes, TasksKept, GoesOn,
                        Entered, OneLive, AskingCanResumeUnlessRetried, AtWorkIsEnteredUnlessOverlapped, AtWork, Live
  <2> QED BY <2>1, <2>2
<1>3. /\ UNCHANGED ghosts /\ subs' = subs /\ grouped' \in BOOLEAN /\ (grouped' => grouped)
      /\ running' = running /\ row' \in Nat \cup {Null}
  BY DEF HandleAnswerRequest, ChatTypes
<1> HIDE DEF m
<1> QED BY <1>1, <1>2, <1>3, QuietServeKeeps

\* Requests that are about the list of sessions.
LEMMA UntaskedKeeps ==
  ASSUME ChatInv, UNCHANGED <<task, running, pending, overlap>>
  PROVE  task' \in [Ids -> ChatTask \cup {Null}] /\ TasksKept /\ (\A i \in Ids : GoesOn(i)) /\ Entered'
BY DEF ChatInv, ChatTypes, TasksKept, GoesOn,
       Entered, OneLive, AskingCanResumeUnlessRetried, AtWorkIsEnteredUnlessOverlapped, AtWork, Live

LEMMA DeleteGroupKeeps ==
  ASSUME ChatInv, NEW k \in Conns, NEW cs, NEW w, Took(cs, w), DeleteGroup(k, cs, w), UNCHANGED pageVars
  PROVE  ChatInv'
<1> USE DEF ChatInv
<1> DEFINE m == [type |-> "error", id |-> 0]
<1>1. m \in Reply /\ (\A i \in Ids : ~Stirring(m, i)) /\ Answers(cs, conns', {k}, m) /\ w.type # "chat"
  BY ChatAssumption DEF DeleteGroup, Reply, Stirring, Answers
<1>2. /\ UNCHANGED ghosts /\ subs' = subs /\ grouped' = FALSE /\ UNCHANGED <<task, running, pending, overlap>>
      /\ row' \in Nat \cup {Null} /\ pending' \subseteq pending
  BY DEF DeleteGroup, ghosts, ChatTypes
<1> HIDE DEF m
<1> QED BY <1>1, <1>2, UntaskedKeeps, QuietServeKeeps

LEMMA ListSessionsKeeps ==
  ASSUME ChatInv, NEW k \in Conns, NEW cs, NEW w, Took(cs, w), ListSessions(k, cs, w), UNCHANGED pageVars
  PROVE  ChatInv'
<1> USE DEF ChatInv
<1> DEFINE m == [type |-> "sessions_list", listed |-> row # Null]
<1>1. m \in Reply /\ (\A i \in Ids : ~Stirring(m, i)) /\ Answers(cs, conns', {k}, m) /\ w.type # "chat"
  BY DEF ListSessions, Reply, Stirring, Answers
<1>2. /\ UNCHANGED ghosts /\ subs' = subs /\ UNCHANGED <<task, running, pending, overlap>>
      /\ grouped' \in BOOLEAN /\ (grouped' => grouped) /\ row' \in Nat \cup {Null} /\ pending' \subseteq pending
  BY DEF ListSessions, serverVars, ghosts, ChatTypes
<1> HIDE DEF m
<1> QED BY <1>1, <1>2, UntaskedKeeps, QuietServeKeeps

LEMMA GetSessionHistoryKeeps ==
  ASSUME ChatInv, NEW k \in Conns, NEW cs, NEW w, Took(cs, w), GetSessionHistory(k, cs, w), UNCHANGED pageVars
  PROVE  ChatInv'
<1> USE DEF ChatInv
<1> DEFINE m == [type |-> "session_history", n |-> IF row = Null THEN 0 ELSE row]
<1>1. m \in Reply /\ (\A i \in Ids : ~Stirring(m, i)) /\ Answers(cs, conns', {k}, m) /\ w.type # "chat"
  BY DEF GetSessionHistory, Reply, Stirring, Answers, ChatTypes
<1>2. /\ UNCHANGED ghosts /\ subs' = subs /\ UNCHANGED <<task, running, pending, overlap>>
      /\ grouped' \in BOOLEAN /\ (grouped' => grouped) /\ row' \in Nat \cup {Null} /\ pending' \subseteq pending
  BY DEF GetSessionHistory, serverVars, ghosts, ChatTypes
<1> HIDE DEF m
<1> QED BY <1>1, <1>2, UntaskedKeeps, QuietServeKeeps

LEMMA DeleteSessionKeeps ==
  ASSUME ChatInv, NEW k \in Conns, NEW cs, NEW w, Took(cs, w), DeleteSession(k, cs, w), UNCHANGED pageVars
  PROVE  ChatInv'
<1> USE DEF ChatInv
<1> DEFINE m == [type |-> "session_deleted"]
<1>1. m \in Reply /\ (\A i \in Ids : ~Stirring(m, i)) /\ Answers(cs, conns', {k}, m) /\ w.type # "chat"
  BY DEF DeleteSession, Reply, Stirring, Answers
<1>2. /\ UNCHANGED ghosts /\ subs' = subs /\ UNCHANGED <<task, running, pending, overlap>>
      /\ grouped' \in BOOLEAN /\ (grouped' => grouped) /\ row' \in Nat \cup {Null} /\ pending' \subseteq pending
  BY DEF DeleteSession, ghosts, ChatTypes
<1> HIDE DEF m
<1> QED BY <1>1, <1>2, UntaskedKeeps, QuietServeKeeps

\* One of the sockets the page holds at most is subscribed, or it is known
\* that both were.
LEMMA DoublesTells ==
  ASSUME ChatTypes, Doubles
  PROVE  doubled' \in BOOLEAN /\ (~doubled' => ~doubled /\ \A j, l \in Held \cap subs' : j = l)
<1>1. doubled' \in BOOLEAN /\ (doubled => doubled')
  BY DEF Doubles, ChatTypes
<1>2. ASSUME NEW j \in Held, NEW l \in Held, j # l, j \in subs', l \in subs' PROVE doubled'
  <2>1. Held = {j, l}
    <3>1. \E a, b : Held \subseteq {a, b}
      BY DEF Held, Hooks
    <3> QED BY <1>2, <3>1
  <2>2. Cardinality({j, l}) = 2
    <3>1. Cardinality({j}) = 1 /\ IsFiniteSet({j})
      BY FS_Singleton
    <3>2. {j, l} = {j} \cup {l} /\ l \notin {j}
      BY <1>2
    <3> QED BY <3>1, <3>2, FS_AddElement
  <2> QED BY <1>2, <2>1, <2>2 DEF Doubles
<1> QED BY <1>1, <1>2

LEMMA SubscribeGroupKeeps ==
  ASSUME ChatInv, NEW k \in Open, NEW cs, NEW w, Took(cs, w), SubscribeGroup(k, cs, w), UNCHANGED pageVars
  PROVE  ChatInv'
<1> USE DEF ChatInv
<1> DEFINE m == [type |-> "notice"]
<1>1. m \in Reply /\ (\A i \in Ids : ~Stirring(m, i)) /\ Answers(cs, conns', {}, m) /\ w.type # "chat"
  BY DEF SubscribeGroup, Reply, Stirring, Answers
<1>2. /\ UNCHANGED <<task, running, pending, row, grouped, excused, overlap>>
      /\ doubled' \in BOOLEAN /\ (~doubled' => ~doubled /\ \A j, l \in Held \cap subs' : j = l)
      /\ UNCHANGED <<isGroup, session, mounted, sock, sent>> /\ k \in Conns
      /\ subs' = IF grouped THEN subs \cup {k} ELSE subs
  BY DoublesTells DEF SubscribeGroup, pageVars, Open
<1>3. conns' \in Wires /\ Linked
  <2> HIDE DEF m
  <2>1. Rewired(w, {}, m)
    BY <1>1, ServeWired
  <2> QED BY <2>1 DEF Rewired
<1>4. ChatTypes'
  BY <1>2, <1>3 DEF ChatTypes, Wires
<1>5. TasksKept /\ (\A i \in Ids : GoesOn(i)) /\ Entered'
  BY <1>2, UntaskedKeeps
<1>6. Growing
  BY <1>2 DEF Growing, ChatTypes
<1>7. Subscribed'
  <2>1. CASE grouped
    <3>1. subs' = subs \cup {k} /\ isGroup
      BY <1>2, <2>1 DEF Subscribed
    <3> QED BY <1>2, <1>3, <3>1, SubscribedGrows
  <2>2. CASE ~grouped
    <3>1. Held' = Held /\ Open' = Open
      BY <1>2, <1>3, HeldKept
    <3>2. \A i \in Ids : task'[i] # Null =>
            conns'[task'[i].conn] # Null /\ (task'[i].conn \in Open' => task'[i].conn \in subs')
      BY <1>2, <1>3, <2>2, <3>1 DEF Subscribed, Linked, Link, ChatTypes, ChatTask, Conns
    <3> QED BY <1>2, <2>2, <3>1, <3>2 DEF Subscribed
  <2> QED BY <2>1, <2>2
<1> HIDE DEF m
<1> QED BY <1>1, <1>2, <1>4, <1>5, <1>6, <1>7, ServeKeeps

\* The layout's socket carries no message of a chat.
LEMMA ViewCarries ==
  ASSUME ChatTypes, Sockets, Asked, NEW k \in Conns, NEW id \in Ids, Carries(conns[k], id)
  PROVE  sock["layout"] # k /\ (id \in excused \/ k = sock["view"])
<1>1. k = sock["view"] \/ (conns[k].left /\ id \in excused)
  BY DEF Asked
<1>2. k # 0
  BY ChatAssumption DEF Conns
<1> QED BY <1>1, <1>2 DEF Sockets, Hooks

\* A request is accepted: a task begins, and the subscribers are told.
LEMMA BeginsKeeps ==
  ASSUME ChatInv, NEW k \in Open, NEW w, NEW cs, Took(cs, w), w.type = "chat", w.id \in Ids, Carries(conns[k], w.id),
         k \in Heeded \/ conns[k].left, Begins(k, w.id), running = 0, subs' = subs \cup {k},
         conns' = Deliver(cs, subs', State(w.id, "thinking")),
         UNCHANGED <<pageVars, pending, running, row, grouped, excused>>,
         doubled' \in BOOLEAN, ~doubled' => ~doubled /\ \A j, l \in Held \cap subs' : j = l
  PROVE  ChatInv'
<1> USE DEF ChatInv
<1> DEFINE id == w.id
           m == State(id, "thinking")
<1>1. /\ k \in Conns /\ id \in Ids /\ task[id] = Null /\ id <= sent
      /\ UNCHANGED <<isGroup, session, mounted, sock, sent, pending, running, row, grouped, excused>>
      /\ ~isGroup => sock["layout"] # k
      /\ id \in excused \/ k = sock["view"]
  BY ViewCarries DEF Open, Asked, pageVars
<1>2. /\ task' \in [Ids -> ChatTask \cup {Null}] /\ task'[id] # Null /\ task'[id].conn = k /\ task'[id].phase = "starting"
      /\ \A i \in Ids : i # id => task'[i] = task[i]
  <2> DEFINE new == [conn |-> k, phase |-> "starting", stopped |-> FALSE, said |-> FALSE, asked |-> FALSE, again |-> FALSE]
  <2>1. new \in ChatTask /\ new.conn = k /\ new.phase = "starting"
    BY <1>1 DEF ChatTask, Conns
  <2>2. task' = [task EXCEPT ![id] = new]
    BY DEF Begins
  <2> HIDE DEF new
  <2>3. new # Null
    BY <2>1, ChatAssumption
  <2> QED BY <1>1, <2>1, <2>2, <2>3 DEF ChatTypes
<1>3. m \in Reply /\ \A i \in Ids : i # id => ~Stirring(m, i)
  BY <1>1 DEF State, Reply, States, Stirring, Ids
<1>4. /\ conns' \in Wires /\ Wired /\ Linked
      /\ \A j \in Conns, i \in Ids :
           /\ Carries(conns'[j], i) => i # id
           /\ Carries(conns[j], i) => Carries(conns'[j], i) \/ i = id
           /\ Stirs(conns'[j], i) => Stirs(conns[j], i) \/ (j \in subs' /\ Stirring(m, i))
           /\ Settles(conns[j], i) /\ ~(j \in subs' /\ Stirring(m, i)) => Settles(conns'[j], i)
  <2>1. Answers(cs, conns', subs', m)
    BY DEF Answers
  <2> HIDE DEF m
  <2>2. Rewired(w, subs', m)
    BY <2>1, <1>3, ServeWired
  <2> QED BY <2>2 DEF Rewired
<1> HIDE DEF m, id
<1>5. ChatTypes'
  <2>1. overlap' \in BOOLEAN
    BY DEF Begins, ChatTypes
  <2> QED BY <1>1, <1>2, <1>4, <2>1 DEF ChatTypes, Wires
<1>6. Growing
  BY <1>1, <1>2 DEF Growing, ChatTypes
<1>7. Subscribed'
  <2>1. \A i \in Ids : task'[i] # Null => (task[i] # Null /\ task'[i].conn = task[i].conn) \/ task'[i].conn = k
    BY <1>2
  <2> QED BY <1>1, <1>4, <2>1, SubscribedGrows
<1>8. \A i \in Ids : Heard(i) /\ Begun(i)
  BY <1>1, <1>2, <1>3, <1>4 DEF Heard, Begun
<1>9. /\ Held' = Held /\ Heeded' = Heeded /\ Open' = Open
      /\ Sockets' /\ Questions' /\ Asked' /\ Spoken'
  BY <1>4, <1>5, <1>6, <1>7, <1>8, GrowingStep
<1>10. Served'
  <2> SUFFICES ASSUME ~doubled', NEW i \in Ids, i \notin excused PROVE ServedFor(i)'
    BY <1>1 DEF Served
  <2>1. CASE i # id
    <3>1. GoesOn(i)
      BY <2>1, <1>2 DEF GoesOn, Live
    <3>2. Undisturbed(i)
      BY <2>1, <3>1, <1>1, <1>3, <1>4, HeldAreConns DEF Undisturbed, Shows
    <3> QED BY <3>2, <1>4, <1>5, <1>6, <1>7, <1>8, UndisturbedStaysServed
  <2>2. CASE i = id
    <3>1. k = sock["view"] /\ k \in Held /\ k \in Heeded
      <4>1. k = sock["view"] /\ k # 0
        BY <2>2, <1>1, ChatAssumption DEF Conns
      <4>2. ~conns[k].left /\ k \in Held
        BY <4>1 DEF Sockets, Hooks, Held
      <4> QED BY <4>1, <4>2
    <3>2. Live(id)' /\ task'[id].phase # "outputs"
      BY <1>2 DEF Live
    <3>3. k \in Receivers(task[id].conn, Open, subs)'
      <4>1. k \in Open' /\ k \in subs' /\ task'[id].conn = k
        BY <1>2, <1>9
      <4> QED BY <4>1 DEF Receivers, GroupReceivers, ChatReceivers
    <3>4. Reaches(id)'
      BY <3>1, <3>2, <3>3, <1>2, <1>9 DEF Reaches
    <3> QED BY <2>2, <3>4 DEF ServedFor
  <2> QED BY <2>1, <2>2
<1>11. Entered'
  <2>1. Live(id)' /\ ~AtWork(id)' /\ ~Live(id) /\ \A i \in Ids : i # id => (Live(i)' <=> Live(i)) /\ (AtWork(i)' <=> AtWork(i))
    BY <1>1, <1>2 DEF Live, AtWork
  <2>2. overlap' = (overlap \/ \E i \in Ids : Live(i))
    BY DEF Begins
  <2>3. OneLive'
    BY <2>1, <2>2 DEF OneLive
  <2>4. AskingCanResumeUnlessRetried'
    BY <1>1, <1>2, <2>1 DEF Entered, AskingCanResumeUnlessRetried
  <2>5. AtWorkIsEnteredUnlessOverlapped'
    <3> SUFFICES ASSUME ~overlap', NEW i \in Ids PROVE AtWork(i)' <=> running' = i
      BY DEF AtWorkIsEnteredUnlessOverlapped
    <3>1. ~AtWork(i)'
      BY <2>1, <2>2 DEF AtWork
    <3> QED BY <1>1, <3>1 DEF Ids
  <2> QED BY <2>3, <2>4, <2>5 DEF Entered
<1>12. OnlyAnswersWait'
  BY <1>1 DEF OnlyAnswersWait
<1> QED BY <1>5, <1>7, <1>9, <1>10, <1>11, <1>12

LEMMA HandleChatKeeps ==
  ASSUME ChatInv, NEW k \in Open, NEW w \in Request, NEW cs, Took(cs, w), cs[k] # Null, HandleChat(k, cs, w), w.id \in Ids,
         Carries(conns[k], w.id), k \in Heeded \/ conns[k].left, UNCHANGED pageVars
  PROVE  ChatInv'
<1> USE DEF ChatInv
<1> DEFINE known == [cs EXCEPT ![k].knows = TRUE]
           m == [type |-> "error", id |-> 0]
<1>1. /\ k \in Conns /\ sock["layout"] # k /\ w.type = "chat" /\ ~isGroup /\ subs' = subs \cup {k}
      /\ UNCHANGED <<isGroup, session, mounted, sock, sent, pending, running, row, grouped, doubled>>
  BY ViewCarries DEF HandleChat, Open, pageVars
<1>2. Took(known, w)
  BY <1>1, TookKnown
<1>3. doubled' \in BOOLEAN /\ (~doubled' => ~doubled /\ \A j, l \in Held \cap subs' : j = l)
  <2>1. sock["layout"] \notin subs'
    BY <1>1 DEF Subscribed
  <2>2. \A j \in Held \cap subs' : j = sock["view"]
    BY <2>1 DEF Held, Hooks
  <2> QED BY <1>1, <2>2 DEF ChatTypes
<1> HIDE DEF known
<1>4. CASE w.fit /\ running = 0
  <2>1. /\ Begins(k, w.id) /\ UNCHANGED excused
        /\ conns' = Deliver(known, subs', State(w.id, "thinking"))
    BY <1>1, <1>4 DEF HandleChat, known
  <2> QED BY <1>1, <1>2, <1>3, <1>4, <2>1, BeginsKeeps
<1>5. CASE ~(w.fit /\ running = 0)
  <2>1. /\ excused' = excused \cup {w.id} /\ UNCHANGED <<task, overlap>> /\ Answers(known, conns', {k}, m)
    BY <1>1, <1>5 DEF HandleChat, known, Answers, Request
  <2>2. m \in Reply /\ \A i \in Ids : ~Stirring(m, i)
    BY ChatAssumption DEF Reply, Stirring
  <2> HIDE DEF m
  <2>3. conns' \in Wires /\ Linked
    BY <1>2, <2>1, <2>2, ServeWired DEF Rewired
  <2>4. ChatTypes'
    BY <1>1, <2>1, <2>3 DEF ChatTypes, Wires
  <2>5. TasksKept /\ (\A i \in Ids : GoesOn(i)) /\ Entered'
    BY <1>1, <2>1, UntaskedKeeps
  <2>6. Growing
    BY <1>1, <2>1 DEF Growing, ChatTypes
  <2>7. Subscribed'
    BY <1>1, <1>3, <2>1, <2>3, SubscribedGrows
  <2>8. w.id \in excused'
    BY <2>1
  <2> QED BY <1>1, <1>2, <2>1, <2>2, <2>4, <2>5, <2>6, <2>7, <2>8, ServeKeeps
<1> QED BY <1>4, <1>5

LEMMA HandleGroupChatKeeps ==
  ASSUME ChatInv, NEW k \in Open, NEW w \in Request, NEW cs, Took(cs, w), HandleGroupChat(k, cs, w), w.id \in Ids,
         Carries(conns[k], w.id), k \in Heeded \/ conns[k].left, UNCHANGED pageVars
  PROVE  ChatInv'
<1> USE DEF ChatInv
<1> DEFINE m == [type |-> "error", id |-> 0]
<1>1. /\ k \in Conns /\ sock["layout"] # k /\ w.type = "chat" /\ isGroup
      /\ UNCHANGED <<isGroup, session, mounted, sock, sent, pending, running, row, grouped>>
  BY ViewCarries DEF HandleGroupChat, Open, pageVars
<1>3. doubled' \in BOOLEAN /\ (~doubled' => ~doubled /\ \A j, l \in Held \cap subs' : j = l)
  BY DoublesTells DEF HandleGroupChat
<1>4. CASE w.fit /\ grouped /\ running = 0
  <2>1. /\ Begins(k, w.id) /\ UNCHANGED excused /\ subs' = subs \cup {k}
        /\ conns' = Deliver(cs, subs', State(w.id, "thinking"))
    BY <1>1, <1>4 DEF HandleGroupChat
  <2> QED BY <1>1, <1>3, <1>4, <2>1, BeginsKeeps
<1>5. CASE ~(w.fit /\ grouped /\ running = 0)
  <2>1. /\ excused' = excused \cup {w.id} /\ UNCHANGED <<task, overlap>> /\ Answers(cs, conns', {k}, m)
        /\ subs' = subs \/ subs' = subs \cup {k}
    BY <1>1, <1>5 DEF HandleGroupChat, Answers
  <2>2. m \in Reply /\ \A i \in Ids : ~Stirring(m, i)
    BY ChatAssumption DEF Reply, Stirring
  <2> HIDE DEF m
  <2>3. conns' \in Wires /\ Linked
    BY <2>1, <2>2, ServeWired DEF Rewired
  <2>4. ChatTypes'
    BY <1>1, <1>3, <2>1, <2>3 DEF ChatTypes, Wires
  <2>5. TasksKept /\ (\A i \in Ids : GoesOn(i)) /\ Entered'
    BY <1>1, <2>1, UntaskedKeeps
  <2>6. Growing
    BY <1>1, <1>3, <2>1 DEF Growing, ChatTypes
  <2>7. Subscribed'
    <3>1. CASE subs' = subs \cup {k}
      BY <3>1, <1>1, <1>3, <2>1, <2>3, SubscribedGrows
    <3>2. CASE subs' = subs
      <4>1. Held' = Held /\ Open' = Open
        BY <1>1, <2>3, HeldKept
      <4>2. \A i \in Ids : task'[i] # Null =>
              conns'[task'[i].conn] # Null /\ (task'[i].conn \in Open' => task'[i].conn \in subs')
        BY <2>1, <2>3, <3>2, <4>1 DEF Subscribed, Linked, Link, ChatTypes, ChatTask, Conns
      <4> QED BY <1>1, <1>3, <3>2, <4>1, <4>2 DEF Subscribed
    <3> QED BY <2>1, <3>1, <3>2
  <2>8. w.id \in excused'
    BY <2>1
  <2> QED BY <1>1, <2>1, <2>2, <2>4, <2>5, <2>6, <2>7, <2>8, ServeKeeps
<1> QED BY <1>4, <1>5

LEMMA ServeMessageKeeps ==
  ASSUME ChatInv, NEW k \in Conns, ServeMessage(k) PROVE ChatInv'
<1> USE DEF ChatInv
<1> DEFINE w == Head(conns[k].up)
           cs == [conns EXCEPT ![k].up = Tail(@)]
<1>1. /\ k \in Open /\ conns[k].up # << >> /\ UNCHANGED pageVars
      /\ \/ HandleChat(k, cs, w) \/ HandleGroupChat(k, cs, w) \/ HandleStopRequest(k, cs, w)
         \/ HandleAnswerRequest(k, cs, w) \/ SubscribeGroup(k, cs, w) \/ DeleteGroup(k, cs, w)
         \/ ListSessions(k, cs, w) \/ GetSessionHistory(k, cs, w) \/ DeleteSession(k, cs, w)
  BY DEF ServeMessage
<1>2. /\ Took(cs, w) /\ w \in Request /\ cs[k] # Null
      /\ w.type = "chat" => w.id \in Ids /\ Carries(conns[k], w.id)
      /\ k \in Heeded \/ conns[k].left
  BY <1>1, RequestTaken
<1> HIDE DEF w, cs
<1>3. CASE HandleChat(k, cs, w)
  <2>1. w.type = "chat"
    BY <1>3 DEF HandleChat
  <2> QED BY <2>1, <1>1, <1>2, <1>3, HandleChatKeeps
<1>4. CASE HandleGroupChat(k, cs, w)
  <2>1. w.type = "chat"
    BY <1>4 DEF HandleGroupChat
  <2> QED BY <2>1, <1>1, <1>2, <1>4, HandleGroupChatKeeps
<1>5. CASE HandleStopRequest(k, cs, w)
  BY <1>1, <1>2, <1>5, HandleStopRequestKeeps
<1>6. CASE HandleAnswerRequest(k, cs, w)
  BY <1>1, <1>2, <1>6, HandleAnswerRequestKeeps
<1>7. CASE SubscribeGroup(k, cs, w)
  BY <1>1, <1>2, <1>7, SubscribeGroupKeeps
<1>8. CASE DeleteGroup(k, cs, w)
  BY <1>1, <1>2, <1>8, DeleteGroupKeeps
<1>9. CASE ListSessions(k, cs, w)
  BY <1>1, <1>2, <1>9, ListSessionsKeeps
<1>10. CASE GetSessionHistory(k, cs, w)
  BY <1>1, <1>2, <1>10, GetSessionHistoryKeeps
<1>11. CASE DeleteSession(k, cs, w)
  BY <1>1, <1>2, <1>11, DeleteSessionKeeps
<1> QED BY <1>1, <1>3, <1>4, <1>5, <1>6, <1>7, <1>8, <1>9, <1>10, <1>11
(* A socket closes. *********************************************************)

\* The messages of a finite set, in some order.
LEMMA OrderIsOfTheSet ==
  ASSUME NEW F \in SUBSET Ids
  PROVE  /\ SetToSeq(F) \in Seq(F)
         /\ \A x \in F : \E i \in 1..Len(SetToSeq(F)) : SetToSeq(F)[i] = x
<1> DEFINE n == Cardinality(F)
           Good(f) == f \in [1..n -> F] /\ IsInjective(f)
<1>1. IsFiniteSet(F)
  <2>1. IsFiniteSet(Ids)
    BY ChatAssumption, FS_Interval DEF Ids
  <2> QED BY <2>1, FS_Subset
<1>2. n \in Nat /\ ExistsBijection(1..n, F)
  BY <1>1, FS_CardinalityType
<1>3. \E f : Good(f)
  BY <1>2 DEF ExistsBijection, Bijection, Injection
<1>4. SetToSeq(F) \in [1..n -> F] /\ IsInjective(SetToSeq(F))
  BY <1>3 DEF SetToSeq
<1> DEFINE s == SetToSeq(F)
<1> HIDE DEF s
<1>5. s \in [1..n -> F] /\ IsInjective(s)
  BY <1>4 DEF s
<1>6. s \in Seq(F) /\ Len(s) = n
  BY <1>2, <1>5
<1>7. s \in Surjection(1..n, F)
  <2>1. s \in Injection(1..n, F)
    BY <1>5 DEF Injection
  <2>2. Cardinality(1..n) = n
    BY <1>2, FS_Interval
  <2> HIDE DEF n
  <2>3. Cardinality(1..n) = Cardinality(F)
    BY <2>2 DEF n
  <2> QED BY <1>1, <2>1, <2>3, FS_Injection
<1>8. \A x \in F : \E i \in 1..Len(s) : s[i] = x
  BY <1>6, <1>7 DEF Surjection
<1> QED BY <1>6, <1>8 DEF s

\* The tasks whose question is rejected have their last word said.
EndWords(ds, cs, to, F) ==
  \E ms \in Seq(Reply) :
    /\ ds = DeliverAll(cs, to, ms)
    /\ \A i \in 1..Len(ms), id \in Ids : ~Stirring(ms[i], id)
    /\ \A id \in F : \E i \in 1..Len(ms) : Ending(ms[i], id)

LEMMA FinalsAre ==
  ASSUME NEW F \in SUBSET Ids, NEW cs, NEW k, NEW open, NEW watching, NEW ds,
         ds = Finals(k, F, cs, open, watching, "error")
  PROVE  EndWords(ds, cs, Receivers(k, open, watching), F)
<1> DEFINE s == SetToSeq(F)
           ms == [i \in 1..Len(s) |-> State(s[i], "error")]
<1>1. s \in Seq(F) /\ \A x \in F : \E i \in 1..Len(s) : s[i] = x
  BY OrderIsOfTheSet
<1>2. ds = DeliverAll(cs, Receivers(k, open, watching), ms)
  BY DEF Finals
<1> HIDE DEF s
<1>3. ASSUME NEW i \in 1..Len(s)
      PROVE  ms[i] \in Reply /\ ms[i] = State(s[i], "error") /\ s[i] \in F
  <2>1. s[i] \in F /\ s[i] \in Ids
    BY <1>1
  <2> QED BY <2>1 DEF State, Reply, States, Ids
<1>4. ms \in Seq(Reply) /\ Len(ms) = Len(s)
  <2>1. Len(s) \in Nat /\ ms \in [1..Len(s) -> Reply]
    BY <1>1, <1>3
  <2> HIDE DEF ms
  <2> QED BY <2>1
<1>5. \A i \in 1..Len(ms), id \in Ids : ~Stirring(ms[i], id)
  BY <1>3, <1>4 DEF Stirring, State
<1>6. ASSUME NEW id \in F PROVE \E i \in 1..Len(ms) : Ending(ms[i], id)
  <2>1. PICK i \in 1..Len(s) : s[i] = id
    BY <1>1
  <2> QED BY <2>1, <1>3, <1>4 DEF Ending, State
<1> HIDE DEF ms
<1> QED BY <1>2, <1>4, <1>5, <1>6 DEF EndWords

LEMMA CloseKeeps ==
  ASSUME ChatInv, NEW k \in Conns, Close(k) PROVE ChatInv'
<1> USE DEF ChatInv
<1> DEFINE F == {id \in Ids : <<k, id>> \in pending /\ task[id].phase = "asking"}
           cs == [conns EXCEPT ![k] = Shut(@)]
           to == Receivers(k, Open \ {k}, subs \ {k})
<1>1. /\ k \in Open /\ conns[k] \in Connection /\ conns[k] # Null
      /\ ~conns[k].alive \/ conns[k].left
      /\ task' = [id \in Ids |-> IF id \in F THEN [task[id] EXCEPT !.phase = "done"] ELSE task[id]]
      /\ running' = IF F = {} THEN running ELSE 0
      /\ conns' = Finals(k, F, cs, Open \ {k}, subs \ {k}, "error")
      /\ excused' = IF isGroup THEN excused \cup {id \in Ids : Live(id) /\ task[id].conn = k} ELSE excused
      /\ subs' = subs \ {k} /\ pending' = {q \in pending : q[1] # k}
      /\ UNCHANGED <<isGroup, session, mounted, sock, sent, row, grouped, overlap, doubled>>
  BY DEF Close, Open, ChatTypes, pageVars
<1>2. to = IF isGroup THEN {} ELSE subs \ {k}
  BY DEF Receivers, GroupReceivers, ChatReceivers
<1>3. PICK ms \in Seq(Reply) :
        /\ conns' = DeliverAll(cs, to, ms)
        /\ \A i \in 1..Len(ms), id \in Ids : ~Stirring(ms[i], id)
        /\ \A id \in F : \E i \in 1..Len(ms) : Ending(ms[i], id)
  <2> HIDE DEF cs
  <2>1. F \in SUBSET Ids
    OBVIOUS
  <2> HIDE DEF F
  <2>2. EndWords(conns', cs, to, F)
    BY <1>1, <2>1, FinalsAre
  <2> QED BY <2>2 DEF EndWords
<1>4. /\ cs \in Wires /\ \A j \in Conns : j # k => cs[j] = conns[j]
      /\ cs[k] # Null /\ cs[k].up = << >> /\ cs[k].down = conns[k].down /\ ~cs[k].open
      /\ cs[k].alive = conns[k].alive /\ cs[k].left = conns[k].left
  <2>1. << >> \in Seq(Request)
    BY EmptySeq
  <2>2. /\ cs[k] = Shut(conns[k]) /\ \A j \in Conns : j # k => cs[j] = conns[j]
        /\ cs = [j \in Conns |-> cs[j]]
    BY DEF ChatTypes
  <2>3. /\ Shut(conns[k]) \in Connection
        /\ Shut(conns[k]).up = << >> /\ Shut(conns[k]).down = conns[k].down /\ ~Shut(conns[k]).open
        /\ Shut(conns[k]).alive = conns[k].alive /\ Shut(conns[k]).left = conns[k].left
    BY <1>1, <2>1 DEF Shut, Connection
  <2> HIDE DEF cs
  <2> QED BY <2>2, <2>3, ChatAssumption DEF Wires, ChatTypes
<1> HIDE DEF cs, to
<1>5. /\ conns' \in Wires
      /\ \A j \in Conns :
           /\ Same(cs[j], conns'[j]) /\ (cs[j] # Null /\ conns'[j].down # cs[j].down => Hears(cs[j]))
           /\ \A id \in Ids :
                /\ Stirs(conns'[j], id) => Stirs(cs[j], id)
                /\ Settles(cs[j], id) => Settles(conns'[j], id)
                /\ j \in to /\ Hears(cs[j]) /\ id \in F => Settles(conns'[j], id)
  BY <1>3, <1>4, DeliveredAll
\* What became of the connections.
<1>6. \A j \in Conns :
        /\ conns'[j] = Null <=> conns[j] = Null
        /\ conns[j] # Null => /\ conns'[j].alive = conns[j].alive /\ conns'[j].left = conns[j].left
                              /\ conns'[j].open <=> conns[j].open /\ j # k
                              /\ conns'[j].up = IF j = k THEN << >> ELSE conns[j].up
                              /\ conns'[j].down # << >> => conns[j].down # << >> \/ conns[j].alive
  <2> SUFFICES ASSUME NEW j \in Conns
               PROVE  /\ conns'[j] = Null <=> conns[j] = Null
                      /\ conns[j] # Null =>
                           /\ conns'[j].alive = conns[j].alive /\ conns'[j].left = conns[j].left
                           /\ conns'[j].open <=> conns[j].open /\ j # k
                           /\ conns'[j].up = IF j = k THEN << >> ELSE conns[j].up
                           /\ conns'[j].down # << >> => conns[j].down # << >> \/ conns[j].alive
    OBVIOUS
  <2>0. conns[j] # Null => conns[j] \in Connection
    BY DEF ChatTypes
  <2>1. Same(cs[j], conns'[j]) /\ (cs[j] # Null /\ conns'[j].down # cs[j].down => Hears(cs[j]))
    BY <1>5
  <2>2. cs[j] \in Connection \cup {Null} /\ conns'[j] \in Connection \cup {Null}
    BY <1>4, <1>5 DEF Wires
  <2>3. CASE j = k
    BY <1>1, <1>4, <2>1, <2>2, <2>3 DEF Same, Link, Hears, Connection
  <2>4. CASE j # k
    BY <1>4, <2>0, <2>1, <2>2, <2>4 DEF Same, Link, Hears, Connection
  <2> QED BY <2>3, <2>4
<1>7. k \notin Heeded
  <2>1. k \in Held => ~conns[k].left
    BY DEF Held, Sockets
  <2> QED BY <1>1, <2>1 DEF Heeded
<1>8. Held' = Held /\ Heeded' = Heeded /\ Open' = Open \ {k}
  <2>1. Held' = Held
    BY <1>1 DEF Held
  <2>2. \A j \in Held : j \in Conns /\ conns[j] # Null
    BY HeldAreConns DEF Sockets, Held
  <2>3. Heeded' = Heeded
    BY <1>6, <2>1, <2>2 DEF Heeded
  <2>4. Open' = Open \ {k}
    BY <1>6 DEF Open
  <2> QED BY <2>1, <2>3, <2>4
<1>9. \A j \in Conns, id \in Ids :
        /\ Carries(conns'[j], id) <=> j # k /\ Carries(conns[j], id)
        /\ Stirs(conns'[j], id) => Stirs(conns[j], id)
        /\ j # k /\ Settles(conns[j], id) => Settles(conns'[j], id)
  <2> SUFFICES ASSUME NEW j \in Conns, NEW id \in Ids
               PROVE  /\ Carries(conns'[j], id) <=> j # k /\ Carries(conns[j], id)
                      /\ Stirs(conns'[j], id) => Stirs(conns[j], id)
                      /\ j # k /\ Settles(conns[j], id) => Settles(conns'[j], id)
    OBVIOUS
  <2>1. Carries(conns'[j], id) <=> j # k /\ Carries(conns[j], id)
    <3>1. CASE j = k
      <4>1. conns'[k].up = << >>
        BY <1>1, <1>6
      <4> QED BY <3>1, <4>1, EmptySeq DEF Carries
    <3>2. CASE j # k
      BY <3>2, <1>6 DEF Carries
    <3> QED BY <3>1, <3>2
  <2>2. Stirs(cs[j], id) => Stirs(conns[j], id)
    <3>1. CASE j = k
      BY <3>1, <1>1, <1>4 DEF Stirs
    <3>2. CASE j # k
      BY <3>2, <1>4
    <3> QED BY <3>1, <3>2
  <2> QED BY <2>1, <2>2, <1>4, <1>5
\* What became of the tasks.
<1>10. /\ \A id \in F : task[id] # Null /\ task[id] \in ChatTask /\ task[id].conn = k /\ task[id].phase = "asking"
       /\ \A id \in Ids : IF id \in F
                          THEN /\ task'[id] \in ChatTask /\ task'[id] # Null
                               /\ task'[id].phase = "done" /\ task'[id].conn = task[id].conn
                          ELSE task'[id] = task[id]
       /\ task' \in [Ids -> ChatTask \cup {Null}] /\ TasksKept
  <2>1. \A id \in F : task[id] # Null /\ task[id] \in ChatTask /\ task[id].conn = k /\ task[id].phase = "asking"
    BY DEF Questions, ChatTypes
  <2>2. ASSUME NEW id \in F
        PROVE  /\ task'[id] \in ChatTask /\ task'[id] # Null
               /\ task'[id].phase = "done" /\ task'[id].conn = task[id].conn
    <3>1. task'[id] = [task[id] EXCEPT !.phase = "done"]
      BY <1>1
    <3> QED BY <2>1, <3>1, ChatAssumption DEF ChatTask
  <2>3. \A id \in Ids : id \notin F => task'[id] = task[id]
    BY <1>1
  <2>4. task' \in [Ids -> ChatTask \cup {Null}]
    <3>1. task' = [id \in Ids |-> task'[id]]
      BY <1>1
    <3> HIDE DEF F
    <3> QED BY <2>2, <2>3, <3>1 DEF ChatTypes
  <2> HIDE DEF F
  <2>5. TasksKept
    BY <2>1, <2>2, <2>3 DEF TasksKept
  <2> QED BY <2>1, <2>2, <2>3, <2>4, <2>5
<1>11. \A id \in Ids : /\ Live(id)' <=> Live(id) /\ id \notin F
                       /\ AtWork(id)' <=> AtWork(id) /\ id \notin F
                       /\ id \in F => AtWork(id)
  <2> HIDE DEF F
  <2> QED BY <1>10 DEF Live, AtWork
<1>12. excused \subseteq excused' /\ excused' \subseteq Ids
  BY <1>1 DEF ChatTypes
<1>13. ChatTypes'
  <2>1. running' \in Ids \cup {0} /\ subs' \subseteq Conns /\ pending' \subseteq Conns \X Ids
    BY <1>1 DEF ChatTypes
  <2> QED BY <1>1, <1>5, <1>10, <1>12, <2>1 DEF ChatTypes, Wires
<1>14. OnlyAnswersWait'
  BY <1>1 DEF OnlyAnswersWait
<1>15. Sockets'
  <2>1. ASSUME NEW h \in Hooks, sock'[h] # 0
        PROVE  conns'[sock'[h]] # Null /\ ~conns'[sock'[h]].left /\ (conns'[sock'[h]].alive => conns'[sock'[h]].open)
    <3>1. sock'[h] \in Conns /\ sock'[h] = sock[h]
      BY <1>1, <2>1 DEF ChatTypes
    <3>2. conns[sock[h]] # Null /\ ~conns[sock[h]].left /\ (conns[sock[h]].alive => conns[sock[h]].open)
      BY <2>1, <3>1 DEF Sockets
    <3> QED BY <1>1, <1>6, <3>1, <3>2
  <2>2. \A j \in Conns : conns'[j] # Null /\ conns'[j].up # << >> => conns'[j].alive /\ (j \in Held' \/ conns'[j].left)
    BY <1>6, <1>8 DEF Sockets
  <2>3. \A j \in Conns : conns'[j] # Null /\ conns'[j].down # << >> => conns'[j].alive
    BY <1>6 DEF Sockets
  <2>4. sock'["layout"] # 0 => sock'["layout"] # sock'["view"]
    BY <1>1 DEF Sockets
  <2> QED BY <2>1, <2>2, <2>3, <2>4 DEF Sockets
<1>16. Subscribed'
  <2>1. ASSUME NEW id \in Ids, task'[id] # Null
        PROVE  conns'[task'[id].conn] # Null /\ (task'[id].conn \in Open' => task'[id].conn \in subs')
    <3>1. task[id] # Null /\ task'[id].conn = task[id].conn
      BY <1>10, <2>1 DEF TasksKept
    <3>2. task[id].conn \in Conns
      BY <3>1 DEF ChatTypes, ChatTask, Conns
    <3>3. conns[task[id].conn] # Null /\ (task[id].conn \in Open => task[id].conn \in subs)
      BY <3>1 DEF Subscribed
    <3>4. conns'[task[id].conn] # Null
      BY <1>6, <3>2, <3>3
    <3>5. task[id].conn \in Open' => task[id].conn \in subs'
      BY <1>1, <1>8, <3>3
    <3> QED BY <3>1, <3>4, <3>5
  <2>2. subs' \subseteq Open'
    BY <1>1, <1>8 DEF Subscribed
  <2> QED BY <1>1, <1>8, <2>1, <2>2 DEF Subscribed
<1>17. Questions'
  <2>1. \A j \in Conns, id \in Ids : <<j, id>> \in pending' => task'[id] # Null /\ task'[id].conn = j
    BY <1>1, <1>10 DEF Questions, TasksKept
  <2>2. running' # 0 => running' \in Ids /\ running' = running
    BY <1>1 DEF ChatTypes
  <2>3. running' # 0 => task'[running'] # Null
    BY <2>2, <1>10 DEF Questions, TasksKept
  <2> QED BY <2>1, <2>3 DEF Questions
<1>18. Asked'
  <2>1. ASSUME NEW j \in Conns, conns'[j] # Null PROVE Once(conns'[j])
    <3>1. CASE j = k
      <4>1. conns'[k].up = << >>
        BY <1>1, <1>6
      <4> QED BY <3>1, <4>1, EmptySeq DEF Once
    <3>2. CASE j # k
      BY <3>2, <1>6, <2>1 DEF Asked, Once
    <3> QED BY <3>1, <3>2
  <2>2. ASSUME NEW j \in Conns, NEW id \in Ids, Carries(conns'[j], id)
        PROVE  /\ task'[id] = Null /\ id <= sent'
               /\ j = sock'["view"] \/ (conns'[j].left /\ id \in excused')
    <3>1. Carries(conns[j], id) /\ conns[j] # Null
      BY <2>2, <1>9 DEF Carries
    <3>2. task[id] = Null /\ id <= sent /\ (j = sock["view"] \/ (conns[j].left /\ id \in excused))
      BY <3>1 DEF Asked
    <3>3. task'[id] = Null
      BY <3>2, <1>10 DEF TasksKept
    <3>4. conns'[j].left = conns[j].left
      BY <3>1, <1>6
    <3> QED BY <3>2, <3>3, <3>4, <1>1, <1>12
  <2>3. \A j, l \in Conns, id \in Ids : Carries(conns'[j], id) /\ Carries(conns'[l], id) => j = l
    BY <1>9 DEF Asked
  <2>4. \A id \in Ids : task'[id] # Null => id <= sent'
    BY <1>1, <1>10 DEF Asked, TasksKept
  <2> QED BY <2>1, <2>2, <2>3, <2>4 DEF Asked
<1>19. Spoken'
  <2> SUFFICES ASSUME NEW j \in Heeded', NEW id \in Ids, Stirs(conns'[j], id) PROVE j \in subs' /\ task'[id] # Null
    BY DEF Spoken
  <2>1. j \in Heeded /\ j \in Conns /\ j # k
    BY <1>7, <1>8, HeldAreConns
  <2>2. j \in subs /\ task[id] # Null
    BY <1>9, <2>1 DEF Spoken
  <2>3. task'[id] # Null
    BY <1>10, <2>2 DEF TasksKept
  <2> QED BY <1>1, <2>1, <2>2, <2>3
<1>20. Served'
  <2> SUFFICES ASSUME ~doubled, NEW id \in Ids, id \notin excused' PROVE ServedFor(id)'
    BY <1>1 DEF Served
  <2>1. ServedFor(id)
    BY <1>12 DEF Served
  <2>2. \A j \in Heeded : j \in Conns /\ j # k /\ Hears(cs[j])
    BY <1>4, <1>7, HeededHear
  <2>3. \A j \in Heeded : /\ Stirs(conns'[j], id) => Stirs(conns[j], id)
                          /\ Settles(conns[j], id) => Settles(conns'[j], id)
    BY <1>9, <2>2
  <2>4. \A sts \in {{"waiting"}, Thinking} : Shows(id, sts)' => Shows(id, sts)
    BY <1>1 DEF Shows
  <2>5. ASSUME id \in F, Reaches(id)
        PROVE  /\ \E j \in Heeded : Settles(conns'[j], id)
               /\ \A j \in Heeded : Stirs(conns'[j], id) => Settles(conns'[j], id)
    <3>1. ~isGroup
      <4>1. Live(id) /\ task[id].conn = k
        BY <1>10, <2>5 DEF Live
      <4> QED BY <1>1, <4>1
    <3>2. Heeded \cap subs # {}
      BY <1>10, <2>5, TaskReaches
    <3>3. \A j \in Heeded : j \in subs => Settles(conns'[j], id)
      BY <1>2, <1>5, <2>2, <2>5, <3>1
    <3> QED BY <2>2, <2>3, <3>2, <3>3 DEF Spoken
  <2>6. ASSUME id \notin F, Reaches(id) PROVE Reaches(id)'
    <3>1. CASE \E j \in Heeded : Carries(conns[j], id)
      BY <3>1, <1>8, <1>9, <2>2 DEF Reaches
    <3>2. CASE /\ Live(id) /\ task[id].phase # "outputs"
               /\ Heeded \cap Receivers(task[id].conn, Open, subs) # {}
               /\ task[id].phase = "starting" => task[id].conn \in Heeded
      <4>1. Live(id)' /\ task'[id] = task[id] /\ task[id] # Null
        BY <3>2, <2>6, <1>10, <1>11 DEF Live
      <4>2. /\ Receivers(task[id].conn, Open, subs) = subs
            /\ isGroup => task[id].conn \in Open
        BY <3>2, <4>1, ReceiversAre
      <4>3. isGroup => task[id].conn # k
        BY <3>2, <1>1
      <4>4. Heeded \cap subs' # {}
        BY <1>1, <1>7, <3>2, <4>2
      <4>5. Receivers(task[id].conn, Open, subs)' = subs'
        <5>1. CASE isGroup
          <6>1. isGroup' /\ task'[id].conn \in Open'
            BY <5>1, <1>1, <1>8, <4>1, <4>2, <4>3
          <6> QED BY <6>1 DEF Receivers, GroupReceivers
        <5>2. CASE ~isGroup
          BY <5>2, <1>1, <4>4 DEF Receivers, ChatReceivers
        <5> QED BY <5>1, <5>2
      <4> QED BY <3>2, <1>8, <4>1, <4>4, <4>5 DEF Reaches
    <3> QED BY <2>6, <3>1, <3>2 DEF Reaches
  <2> QED BY <1>8, <2>1, <2>3, <2>4, <2>5, <2>6, ServedForKept
<1>21. Entered'
  <2>1. OneLive'
    BY <1>1, <1>11 DEF Entered, OneLive
  <2>2. ASSUME NEW id \in Ids, Live(id)', task'[id].phase = "asking", ~task'[id].again PROVE <<task'[id].conn, id>> \in pending'
    <3>1. Live(id) /\ id \notin F /\ task'[id] = task[id]
      BY <2>2, <1>10, <1>11
    <3>2. <<task[id].conn, id>> \in pending
      BY <2>2, <3>1 DEF Entered, AskingCanResumeUnlessRetried
    <3>3. task[id].conn # k
      BY <2>2, <3>1, <3>2
    <3> QED BY <1>1, <3>1, <3>2, <3>3
  <2>3. AtWorkIsEnteredUnlessOverlapped'
    <3> SUFFICES ASSUME ~overlap, NEW id \in Ids PROVE AtWork(id)' <=> running' = id
      BY <1>1 DEF AtWorkIsEnteredUnlessOverlapped
    <3>1. CASE F = {}
      BY <3>1, <1>1, <1>11 DEF Entered, AtWorkIsEnteredUnlessOverlapped
    <3>2. CASE F # {}
      <4>1. PICK f \in Ids : f \in F
        BY <3>2
      <4>2. running' = 0 /\ 0 \notin Ids
        <5>1. running' = 0
          BY <3>2, <1>1
        <5> QED BY <5>1 DEF Ids
      <4>3. id # f => ~Live(id)
        BY <4>1, <1>11 DEF Entered, OneLive, AtWork
      <4>4. ~AtWork(id)'
        BY <4>1, <4>3, <1>11 DEF AtWork
      <4> QED BY <4>2, <4>4
    <3> QED BY <3>1, <3>2
  <2>4. AskingCanResumeUnlessRetried'
    BY <2>2 DEF AskingCanResumeUnlessRetried
  <2> QED BY <2>1, <2>3, <2>4 DEF Entered
<1> QED BY <1>13, <1>14, <1>15, <1>16, <1>17, <1>18, <1>19, <1>20, <1>21
(* The chat as a whole. *****************************************************)

LEMMA FreshIs ==
  ASSUME NEW up \in Seq(Request)
  PROVE  Fresh(up) \in Connection /\ Fresh(up).up = up /\ Fresh(up).alive /\ Fresh(up).open /\ ~Fresh(up).left
<1>1. [type |-> "connected"] \in Reply
  BY DEF Reply
<1>2. <<[type |-> "connected"]>> \in Seq(Reply)
  BY <1>1
<1> QED BY <1>2 DEF Fresh, Connection

LEMMA ChatInitSound == ChatInit => ChatInv
<1> SUFFICES ASSUME ChatInit PROVE ChatInv
  OBVIOUS
<1> DEFINE c == [Fresh(<< >>) EXCEPT !.down = << >>]
<1>1. << >> \in Seq(Request) /\ << >> \in Seq(Reply) /\ << >> \in Seq(ChatRow)
  BY EmptySeq
<1>2. /\ c \in Connection /\ c # Null
      /\ c.up = << >> /\ c.down = << >> /\ c.alive /\ c.open /\ ~c.left
  <2> DEFINE f == Fresh(<< >>)
  <2>1. f \in Connection /\ f.up = << >> /\ f.alive /\ f.open /\ ~f.left
    BY <1>1, FreshIs
  <2> HIDE DEF f
  <2>2. c = [f EXCEPT !.down = << >>]
    BY DEF f
  <2> HIDE DEF c
  <2>4. /\ c \in Connection /\ c.up = << >> /\ c.down = << >> /\ c.alive /\ c.open /\ ~c.left
    BY <1>1, <2>1, <2>2 DEF Connection
  <2> QED BY <2>4, ChatAssumption
<1> HIDE DEF c
<1>3. 1 \in Conns /\ 2 \in Conns /\ 0 \notin Ids
  BY ChatAssumption DEF Conns, Ids
<1>4. \A k \in Conns : conns[k] \in {c, Null}
  BY DEF ChatInit, InUse, Opened, c
<1>5. /\ sock \in [Hooks -> Conns \cup {0}]
      /\ sock["layout"] # 0 => sock["layout"] # sock["view"]
      /\ \A h \in Hooks : sock[h] # 0 => conns[sock[h]] = c
  <2>1. CASE InUse
    <3>1. \A h \in Hooks : sock[h] = IF h = "layout" THEN 1 ELSE 2
      BY <2>1 DEF InUse
    <3>2. conns[1] = c /\ conns[2] = c
      BY <1>3, <2>1 DEF InUse, c
    <3> QED BY <1>3, <2>1, <3>1, <3>2 DEF InUse, Hooks
  <2>2. CASE Opened
    BY <2>2 DEF Opened, Hooks
  <2> QED BY <2>1, <2>2 DEF ChatInit
<1>6. /\ session \in {<< >>, Null} /\ row \in Nat \cup {Null} /\ subs = {}
      /\ conns = [k \in Conns |-> conns[k]]
      /\ isGroup \in BOOLEAN /\ grouped = isGroup /\ mounted = Hooks /\ pending = {} /\ running = 0
      /\ sent = 0 /\ excused = {} /\ overlap = FALSE /\ doubled = FALSE
      /\ \A id \in Ids : task[id] = Null
      /\ task = [id \in Ids |-> Null]
  BY ChatAssumption DEF ChatInit, InUse, Opened
<1>7. ChatTypes
  <2>1. conns \in [Conns -> Connection \cup {Null}] /\ 0 \in 0..MaxSends
    BY <1>2, <1>4, <1>6, ChatAssumption
  <2> QED BY <1>1, <1>5, <1>6, <2>1 DEF ChatTypes
<1>8. OnlyAnswersWait /\ \A id \in Ids : \A sts : ~Shows(id, sts)
  <2>1. session # Null => Len(session) = 0
    BY <1>6
  <2> QED BY <2>1 DEF OnlyAnswersWait, Shows
<1>9. \A k \in Conns : conns[k] # Null => conns[k].up = << >> /\ conns[k].down = << >> /\ conns[k].alive
  BY <1>2, <1>4
<1>10. \A k \in Conns, id \in Ids : ~Carries(conns[k], id) /\ ~Stirs(conns[k], id)
  <2> SUFFICES ASSUME NEW k \in Conns, NEW id \in Ids, conns[k] # Null
               PROVE  ~Carries(conns[k], id) /\ ~Stirs(conns[k], id)
    BY DEF Carries, Stirs
  <2>1. Len(conns[k].up) = 0 /\ Len(conns[k].down) = 0
    BY <1>9, EmptySeq
  <2> QED BY <2>1 DEF Carries, Stirs
<1>11. \A k \in Conns : conns[k] # Null => Once(conns[k])
  <2> SUFFICES ASSUME NEW k \in Conns, conns[k] # Null PROVE Once(conns[k])
    OBVIOUS
  <2>1. Len(conns[k].up) = 0
    BY <1>9, EmptySeq
  <2> QED BY <2>1 DEF Once
<1>12. Sockets
  BY <1>2, <1>5, <1>9 DEF Sockets
<1>13. Subscribed /\ Questions
  BY <1>6 DEF Subscribed, Questions
<1>14. Asked /\ Spoken
  BY <1>6, <1>7, <1>10, <1>11, HeldAreConns DEF Asked, Spoken
<1>15. Served
  BY <1>7, <1>8, <1>10, HeldAreConns DEF Served, ServedFor
<1>16. Entered
  BY <1>3, <1>6 DEF Entered, OneLive, AskingCanResumeUnlessRetried, AtWorkIsEnteredUnlessOverlapped, AtWork, Live
<1> QED BY <1>7, <1>8, <1>12, <1>13, <1>14, <1>15, <1>16 DEF ChatInv

LEMMA ChatStutterKeeps ==
  ASSUME ChatInv, UNCHANGED chatVars PROVE ChatInv'
<1>1. UNCHANGED <<isGroup, session, mounted, sock, sent, conns, subs, pending, task, running, row, grouped,
                  excused, overlap, doubled>>
  BY DEF chatVars, pageVars, serverVars, ghosts
<1>2. Held' = Held /\ Heeded' = Heeded /\ Open' = Open
  BY <1>1 DEF Held, Heeded, Open
<1>3. \A id \in Ids : /\ Live(id)' <=> Live(id)
                      /\ AtWork(id)' <=> AtWork(id)
                      /\ Reaches(id)' <=> Reaches(id)
                      /\ \A sts : Shows(id, sts)' <=> Shows(id, sts)
  BY <1>1, <1>2 DEF Live, AtWork, Reaches, Shows, Receivers
<1>4. \A id \in Ids : ServedFor(id)' <=> ServedFor(id)
  BY <1>1, <1>2, <1>3 DEF ServedFor
<1>5. ChatTypes' /\ OnlyAnswersWait'
  BY <1>1 DEF ChatInv, ChatTypes, OnlyAnswersWait
<1>6. Sockets' /\ Subscribed' /\ Questions'
  BY <1>1, <1>2 DEF ChatInv, Sockets, Subscribed, Questions
<1>7. Asked' /\ Spoken'
  BY <1>1, <1>2 DEF ChatInv, Asked, Spoken
<1>8. Served' /\ Entered'
  BY <1>1, <1>3, <1>4 DEF ChatInv, Served, Entered, OneLive, AskingCanResumeUnlessRetried, AtWorkIsEnteredUnlessOverlapped
<1> QED BY <1>5, <1>6, <1>7, <1>8 DEF ChatInv

LEMMA ChatStepKeeps ==
  ASSUME ChatInv, ChatNext PROVE ChatInv'
<1>1. ASSUME NEW h \in Hooks, Connect(h) \/ OnClose(h) \/ OnMessage(h) PROVE ChatInv'
  BY <1>1, ConnectKeeps, OnCloseKeeps, OnMessageKeeps
<1>2. ASSUME NEW k \in Conns, Break(k) \/ ServeMessage(k) \/ Close(k) PROVE ChatInv'
  BY <1>2, BreakKeeps, ServeMessageKeeps, CloseKeeps
<1>3. ASSUME NEW fit \in BOOLEAN, HandleSend(fit) PROVE ChatInv'
  BY <1>3, HandleSendKeeps
<1>4. ASSUME LeaveChatView \/ ShowChatView \/ Reload PROVE ChatInv'
  BY <1>4, LeaveChatViewKeeps, ShowChatViewKeeps, ReloadKeeps
<1>5. ASSUME HandleStop \/ HandleDeleteSession \/ HandleDeleteGroup PROVE ChatInv'
  BY <1>5, HandleStopKeeps, HandleDeleteSessionKeeps, HandleDeleteGroupKeeps
<1>6. ASSUME NEW id \in Ids, HandleAnswer(id) \/ QuestionTimesOut(id) PROVE ChatInv'
  BY <1>6, HandleAnswerKeeps, QuestionTimesOutKeeps
<1>7. ASSUME NEW id \in Ids, TaskRegisters(id) \/ TaskStartFails(id) \/ TaskStreams(id) \/ TaskAsks(id) PROVE ChatInv'
  BY <1>7, TaskRegistersKeeps, TaskStartFailsKeeps, TaskStreamsKeeps, TaskAsksKeeps
<1>10. ASSUME NEW id \in Ids, TaskRetries(id) \/ TaskShowsQuestion(id) \/ HookGivesUp(id) PROVE ChatInv'
  BY <1>10, TaskGoesOnKeeps, TaskShowsQuestionKeeps
<1>8. ASSUME NEW id \in Ids, OutputsSent(id) \/ OutputsFail(id) PROVE ChatInv'
  BY <1>8, OutputsSentKeeps, OutputsFailKeeps
<1>9. ASSUME NEW id \in Ids, NEW st \in {"complete", "error"}, TaskEnds(id, st) PROVE ChatInv'
  BY <1>9, TaskEndsKeeps
<1> QED BY <1>1, <1>2, <1>3, <1>4, <1>5, <1>6, <1>7, <1>8, <1>9, <1>10 DEF ChatNext

LEMMA ChatInvTells == ChatInv => ChatIsSoundUnlessExcused
<1> SUFFICES ASSUME ChatInv PROVE ChatIsSoundUnlessExcused
  OBVIOUS
<1> USE DEF ChatInv
<1>1. ASSUME ~doubled, NEW id \in InProgress \ excused, \A k \in Held : conns[k].alive
      PROVE  \/ \E k \in Held : OnItsWay(k, id)
             \/ Live(id) /\ task[id].phase # "outputs"
                /\ (Held \cap Receivers(task[id].conn, Open, subs) # {}
                    \/ (task[id].phase = "starting" /\ task[id].conn \in Held))
  <2>1. PICK x \in ToSet(session) : session # Null /\ x.id = id /\ x.st \in Thinking \cup {"waiting"}
    BY <1>1 DEF InProgress
  <2>2. session \in Seq(ChatRow)
    BY <2>1 DEF ChatTypes
  <2>3. PICK n \in 1..Len(session) : session[n] = x
    BY <2>1, <2>2 DEF ToSet
  <2>4. id \in Ids
    BY <2>1, <2>3 DEF OnlyAnswersWait, Thinking
  <2>5. Heeded = Held
    BY <1>1 DEF Heeded
  <2>6. Shows(id, {"waiting"}) \/ Shows(id, Thinking)
    BY <2>1, <2>3 DEF Shows
  <2>7. Reaches(id) \/ \E k \in Heeded : Settles(conns[k], id)
    BY <1>1, <2>4, <2>5, <2>6 DEF Served, ServedFor
  <2>8. ASSUME NEW k \in Heeded, Carries(conns[k], id) \/ Settles(conns[k], id) PROVE OnItsWay(k, id)
    <3>1. conns[k] \in Connection /\ conns[k].alive
      BY HeededHear DEF Heeded
    <3>2. conns[k].up \in Seq(Request) /\ conns[k].down \in Seq(Reply)
      BY <3>1 DEF Connection
    <3>3. CASE Carries(conns[k], id)
      <4>1. PICK i \in 1..Len(conns[k].up) : conns[k].up[i].type = "chat" /\ conns[k].up[i].id = id
        BY <3>3 DEF Carries
      <4>2. conns[k].up[i] \in ToSet(conns[k].up)
        BY <3>2 DEF ToSet
      <4> QED BY <3>1, <4>1, <4>2 DEF OnItsWay
    <3>4. CASE Settles(conns[k], id)
      <4>1. PICK i \in 1..Len(conns[k].down) : Ending(conns[k].down[i], id)
        BY <3>4 DEF Settles
      <4>2. conns[k].down[i] \in ToSet(conns[k].down)
        BY <3>2 DEF ToSet
      <4> QED BY <3>1, <4>1, <4>2 DEF OnItsWay, Ending
    <3> QED BY <2>8, <3>3, <3>4
  <2> QED BY <2>5, <2>7, <2>8 DEF Reaches
<1>2. WaitingIsServedUnlessExcused
  BY <1>1 DEF WaitingIsServedUnlessExcused
<1> QED BY <1>2 DEF Entered, ChatIsSoundUnlessExcused

\* What the page shows as under way has its last word coming, a task that asks in
\* its first turn can be resumed, and a task at work is the chat's entry: through breaks of the
\* link, reloads, views that come and go, sessions and groups that are deleted,
\* for any number of messages and sockets, apart from what is excused.
THEOREM ChatStaysSound == ChatSpec => []ChatIsSoundUnlessExcused
<1>1. ChatInit => ChatInv
  BY ChatInitSound
<1>2. ChatInv /\ [ChatNext]_chatVars => ChatInv'
  BY ChatStepKeeps, ChatStutterKeeps
<1> QED BY <1>1, <1>2, ChatInvTells, PTL DEF ChatSpec
=============================================================================
