--------------------------- MODULE ConnectionProofs ---------------------------
(***************************************************************************)
(* Proofs about Connection.tla: no packet is lost, doubled or reordered    *)
(* between a client and the setup thread of its agent, the game starts     *)
(* with whole decks of different clients, and orphan_clients offers every  *)
(* agent once unless a client is early.                                    *)
(*                                                                         *)
(* None of the three is inductive.  That a client's packets are in order   *)
(* needs that no two agents have it, hence that it is handed out once;     *)
(* that the deck is whole when the last packet has been read needs the     *)
(* order of the packets; and who is offered needs what the two threads     *)
(* remember of orphan_clients between reading its end and writing it.      *)
(***************************************************************************)
EXTENDS Connection, FoldProofs

Packet == [from : Clients, nr : 1 .. DeckPackets]

(* Where every variable ranges.                                            *)
TypeInv ==
  /\ main \in {"declare", "push", "join", "playing"}
  /\ net \in {"idle", "pop", "connect", "notify"}
  /\ netAgent \in Agents /\ netClient \in Clients \union {Nobody}
  /\ orphans \in [Agents -> Agents]
  /\ early \in BOOLEAN /\ crashed \in BOOLEAN
  /\ client \in [Clients -> {"away", "hello", "greeted"}]
  /\ sent \in [Clients -> 0 .. DeckPackets]
  /\ wire \in [Clients -> Seq(Packet)]
  /\ socket \in [Agents -> Clients \union {Nobody}]
  /\ queue \in [Agents -> Seq(Seq(Packet))]
  /\ setup \in [Agents -> {"none", "check", "wait", "woken", "read", "asleep",
                           "done"}]
  /\ deck \in [Agents -> Seq(Packet)]

(* orphan_clients never ends beyond the agents declared so far, nor does   *)
(* either of the two threads remember such an end.                         *)
EndsInv ==
  /\ declared \in 0 .. NbAgents /\ end \in 0 .. declared
  /\ mainEnd \in Nat /\ netEnd \in Nat
  /\ main = "declare" => declared < NbAgents
  /\ main = "push" => end < declared /\ mainEnd < declared
  /\ net = "pop" => netEnd \in 1 .. declared
  /\ net = "pop" /\ main = "push" => netEnd < declared

(* A client is handed to an agent only once, after its hello.              *)
HandedOnce ==
  /\ net \in {"pop", "connect"} =>
       /\ netClient \in Clients /\ client[netClient] = "greeted"
       /\ \A a \in Agents : socket[a] # netClient
  /\ \A a \in Agents : socket[a] # Nobody => client[socket[a]] = "greeted"
  /\ \A a, b \in Agents : socket[a] = socket[b] /\ a # b => socket[a] = Nobody

(* What an agent without a client has got: nothing.                        *)
NothingFromNobody ==
  \A a \in Agents : socket[a] = Nobody =>
    queue[a] = <<>> /\ deck[a] = <<>> /\ setup[a] # "done"

(* What the queue holds was not empty when it came.                        *)
NoEmptyMessage ==
  \A a \in Agents : \A i \in 1 .. Len(queue[a]) : queue[a][i] # <<>>

Sent(c) == SubSeq(File(c), 1, sent[c])

(* What a client has sent is on its way until its agent reads it.          *)
InOrder ==
  ~crashed =>
    /\ \A a \in Agents : socket[a] # Nobody =>
         Cat(Cat(deck[a], FlattenSeq(queue[a])), wire[socket[a]])
           = Sent(socket[a])
    /\ \A c \in Clients : (\A a \in Agents : socket[a] # c) => wire[c] = Sent(c)

(* A setup thread ends with the whole deck of its agent's client.          *)
DoneWithDeck ==
  ~crashed => \A a \in Agents : setup[a] = "done" =>
                                  deck[a] = File(socket[a])

(* Once the game runs no setup thread is left that could change a deck.    *)
NoSetupLeft == main = "playing" => \A a \in Agents : setup[a] = "done"

(* If no client comes before all agents are declared, orphan_clients is    *)
(* the agents in their order, up to the last that has no client; while the *)
(* network thread is between pop_back and its lock that one is netAgent.   *)
LateClients ==
  ~early =>
    /\ \A i \in 1 .. end : orphans[i] = i
    /\ main = "push" => mainEnd = end /\ declared = end + 1
    /\ main = "declare" => declared = end
    /\ main \in {"declare", "push"} =>
         /\ net = "idle"
         /\ \A c \in Clients : client[c] = "away"
         /\ \A a \in Agents : socket[a] = Nobody
    /\ net = "pop" => netEnd = end /\ netAgent = end
    /\ net = "connect" => netAgent = end + 1
    /\ main \in {"join", "playing"} =>
         \A a \in Agents :
           a <= (IF net = "connect" THEN netAgent ELSE end) <=> socket[a] = Nobody

IInv ==
  /\ TypeInv /\ EndsInv /\ HandedOnce /\ NothingFromNobody /\ NoEmptyMessage /\ InOrder
  /\ DoneWithDeck /\ NoSetupLeft /\ LateClients /\ PlaysWithDecks

-----------------------------------------------------------------------------
(* Sequences of packets.                                                   *)

(* A deck file is a sequence of packets, numbered from one.                *)
LEMMA FileType ==
  ASSUME NEW c \in Clients
  PROVE  /\ File(c) \in Seq(Packet) /\ Len(File(c)) = DeckPackets
         /\ \A i \in 1 .. DeckPackets :
              File(c)[i] = [from |-> c, nr |-> i] /\ File(c)[i] \in Packet
BY ConnectionAssumption DEF File, Packet

(* What a client has sent after n packets.                                 *)
LEMMA SentProperties ==
  ASSUME NEW c \in Clients, NEW n \in 0 .. DeckPackets
  PROVE  /\ SubSeq(File(c), 1, n) \in Seq(Packet)
         /\ Len(SubSeq(File(c), 1, n)) = n
         /\ \A i \in 1 .. n : SubSeq(File(c), 1, n)[i] = File(c)[i]
         /\ n = DeckPackets => SubSeq(File(c), 1, n) = File(c)
         /\ n = 0 => SubSeq(File(c), 1, n) = <<>>
BY FileType, ConnectionAssumption

(* One packet more.                                                        *)
LEMMA SentNext ==
  ASSUME NEW c \in Clients, NEW n \in 0 .. DeckPackets - 1
  PROVE  SubSeq(File(c), 1, n + 1) = Append(SubSeq(File(c), 1, n), File(c)[n + 1])
BY FileType, ConnectionAssumption

(* A packet put at the end of the second sequence is at the end of both.   *)
LEMMA CatAppend ==
  ASSUME NEW S, NEW s \in Seq(S), NEW t \in Seq(S), NEW x \in S
  PROVE  Cat(s, Append(t, x)) = Append(Cat(s, t), x)
BY DEF Cat

(* A sequence that is cut in two, as on_read cuts what is on the wire.     *)
LEMMA CatSplit ==
  ASSUME NEW S, NEW s \in Seq(S), NEW n \in 1 .. Len(s)
  PROVE  /\ SubSeq(s, 1, n) \in Seq(S) /\ SubSeq(s, n + 1, Len(s)) \in Seq(S)
         /\ SubSeq(s, 1, n) # <<>>
         /\ Cat(SubSeq(s, 1, n), SubSeq(s, n + 1, Len(s))) = s
BY DEF Cat

-----------------------------------------------------------------------------
(* The steps.                                                              *)

(* EndsInv is inductive; declareAgent and readHello remember the end of    *)
(* orphan_clients, pushed and popped write it.                             *)
LEMMA EndsStep == TypeInv /\ EndsInv /\ Next => EndsInv'
<1> SUFFICES ASSUME TypeInv, EndsInv, Next PROVE EndsInv'
  OBVIOUS
<1> USE ConnectionAssumption
<1>1. CASE declareAgent
  BY <1>1 DEF declareAgent, EndsInv, netVars, orphanVars
<1>2. CASE pushed
  BY <1>2 DEF pushed, EndsInv, netVars
<1>3. CASE launchGame
  BY <1>3 DEF launchGame, EndsInv, netVars, orphanVars
<1>4. ASSUME NEW c \in Clients, readHello(c) PROVE EndsInv'
  BY <1>4 DEF readHello, EndsInv, mainVars, orphanVars
<1>5. CASE popped
  BY <1>5 DEF popped, EndsInv, mainVars
<1>6. CASE on_connect
  BY <1>6 DEF on_connect, EndsInv, mainVars, orphanVars
<1>7. CASE notifyConnected
  BY <1>7 DEF notifyConnected, EndsInv, mainVars, orphanVars
<1>8. CASE UNCHANGED <<mainVars, netVars, orphanVars>>
  BY <1>8 DEF EndsInv, mainVars, netVars, orphanVars
<1>9. QED
  BY <1>1, <1>2, <1>3, <1>4, <1>5, <1>6, <1>7, <1>8
     DEF Next, mainThread, networkThread, environment, setupThread, clientThread,
         connect, sendPacket, readHelloNoAgent, on_read, await_reconnect,
         spuriousWakeup, waitTimesOut, reconnected, awaitMessage,
         receiveLongMessage_sync

(* With EndsInv, no thread writes or reads orphan_clients outside the      *)
(* memory of the agents: TypeInv is inductive.                             *)
LEMMA TypeStep == TypeInv /\ EndsInv /\ Next => TypeInv'
<1> SUFFICES ASSUME TypeInv, EndsInv, Next PROVE TypeInv'
  OBVIOUS
<1> USE ConnectionAssumption
<1>1. CASE declareAgent
  BY <1>1 DEF declareAgent, TypeInv, netVars, orphanVars, clientVars, agentVars,
              setupVars, Agents
<1>2. CASE pushed
  <2>1. declared \in Agents
    BY <1>2 DEF pushed, EndsInv, Agents
  <2>2. QED
    BY <1>2, <2>1 DEF pushed, TypeInv, netVars, clientVars, agentVars
<1>3. CASE launchGame
  BY <1>3 DEF launchGame, TypeInv, netVars, orphanVars, clientVars, agentVars,
              setupVars
<1>4. ASSUME NEW c \in Clients, connect(c) PROVE TypeInv'
  BY <1>4 DEF connect, TypeInv, mainVars, netVars, orphanVars, agentVars,
              setupVars
<1>5. ASSUME NEW c \in Clients, sendPacket(c) PROVE TypeInv'
  <2>1. File(c)[sent[c] + 1] \in Packet
    BY <1>5, FileType DEF sendPacket, TypeInv
  <2>2. wire' \in [Clients -> Seq(Packet)]
    BY <1>5, <2>1 DEF sendPacket, TypeInv
  <2>3. QED
    BY <1>5, <2>2 DEF sendPacket, TypeInv, mainVars, netVars, orphanVars,
                      agentVars, setupVars
<1>6. ASSUME NEW c \in Clients, readHello(c) PROVE TypeInv'
  <2>1. end \in Agents
    BY <1>6 DEF readHello, EndsInv, Agents
  <2>2. QED
    BY <1>6, <2>1 DEF readHello, TypeInv, mainVars, orphanVars, agentVars,
                      setupVars
<1>7. ASSUME NEW c \in Clients, readHelloNoAgent(c) PROVE TypeInv'
  BY <1>7 DEF readHelloNoAgent, TypeInv, mainVars, netVars, orphanVars,
              agentVars, setupVars
<1>8. CASE popped
  BY <1>8 DEF popped, TypeInv, mainVars, clientVars, agentVars, setupVars
<1>9. CASE on_connect
  BY <1>9 DEF on_connect, TypeInv, mainVars, orphanVars, clientVars, setupVars
<1>10. CASE notifyConnected
  BY <1>10 DEF notifyConnected, notify_one, TypeInv, mainVars, orphanVars,
               clientVars, agentVars
<1>11. ASSUME NEW a \in Agents, on_read(a) PROVE TypeInv'
  <2>1. PICK n \in 1 .. Len(wire[socket[a]]) :
          /\ queue' = [queue EXCEPT ![a] =
                         Append(@, SubSeq(wire[socket[a]], 1, n))]
          /\ wire' = [wire EXCEPT ![socket[a]] = SubSeq(@, n + 1, Len(@))]
    BY <1>11 DEF on_read
  <2>2. wire[socket[a]] \in Seq(Packet)
    BY <1>11 DEF on_read, TypeInv
  <2>3. /\ SubSeq(wire[socket[a]], 1, n) \in Seq(Packet)
        /\ SubSeq(wire[socket[a]], n + 1, Len(wire[socket[a]])) \in Seq(Packet)
    BY <2>2, CatSplit
  <2>4. queue' \in [Agents -> Seq(Seq(Packet))]
    BY <2>1, <2>3 DEF TypeInv
  <2>5. wire' \in [Clients -> Seq(Packet)]
    BY <2>1, <2>3 DEF TypeInv
  <2>6. QED
    BY <1>11, <2>4, <2>5 DEF on_read, notify_one, TypeInv, mainVars, netVars,
                             orphanVars
<1>12. ASSUME NEW a \in Agents, await_reconnect(a) PROVE TypeInv'
  BY <1>12 DEF await_reconnect, TypeInv, mainVars, netVars, orphanVars,
               clientVars, agentVars
<1>13. ASSUME NEW a \in Agents, spuriousWakeup(a) PROVE TypeInv'
  BY <1>13 DEF spuriousWakeup, notify_one, TypeInv, mainVars, netVars,
               orphanVars, clientVars, agentVars
<1>14. ASSUME NEW a \in Agents, waitTimesOut(a) PROVE TypeInv'
  BY <1>14 DEF waitTimesOut, TypeInv, mainVars, netVars, orphanVars,
               clientVars, agentVars, setupVars
<1>15. ASSUME NEW a \in Agents, reconnected(a) PROVE TypeInv'
  BY <1>15 DEF reconnected, TypeInv, mainVars, netVars, orphanVars,
               clientVars, agentVars
<1>16. ASSUME NEW a \in Agents, awaitMessage(a) PROVE TypeInv'
  BY <1>16 DEF awaitMessage, TypeInv, mainVars, netVars, orphanVars,
               clientVars, agentVars
<1>17. ASSUME NEW a \in Agents, receiveLongMessage_sync(a) PROVE TypeInv'
  <2>1. queue[a] \in Seq(Seq(Packet)) /\ queue[a] # <<>> /\ deck[a] \in Seq(Packet)
    BY <1>17 DEF receiveLongMessage_sync, TypeInv
  <2>2. Head(queue[a]) \in Seq(Packet) /\ Tail(queue[a]) \in Seq(Seq(Packet))
    BY <2>1, TailProperties
  <2>3. deck[a] \o Head(queue[a]) \in Seq(Packet)
    BY <2>1, <2>2
  <2>4. deck' \in [Agents -> Seq(Packet)] /\ queue' \in [Agents -> Seq(Seq(Packet))]
    BY <1>17, <2>2, <2>3 DEF receiveLongMessage_sync, TypeInv
  <2>5. QED
    BY <1>17, <2>4 DEF receiveLongMessage_sync, TypeInv, mainVars, netVars,
                       orphanVars, clientVars
<1>18. QED
  BY <1>1, <1>2, <1>3, <1>4, <1>5, <1>6, <1>7, <1>8, <1>9, <1>10, <1>11, <1>12,
     <1>13, <1>14, <1>15, <1>16, <1>17
     DEF Next, mainThread, networkThread, environment, setupThread, clientThread

(* HandedOnce is inductive: readHello takes a client whose hello has come, *)
(* and greets it.                                                          *)
LEMMA HandedStep == TypeInv /\ HandedOnce /\ Next => HandedOnce'
<1> SUFFICES ASSUME TypeInv, HandedOnce, Next PROVE HandedOnce'
  OBVIOUS
<1> USE ConnectionAssumption
<1>1. ASSUME NEW c \in Clients, connect(c) PROVE HandedOnce'
  BY <1>1 DEF connect, HandedOnce, TypeInv, netVars, agentVars
<1>2. ASSUME NEW c \in Clients, readHello(c) PROVE HandedOnce'
  <2>1. \A a \in Agents : socket[a] # c
    BY <1>2 DEF readHello, HandedOnce
  <2>2. QED
    BY <1>2, <2>1 DEF readHello, HandedOnce, TypeInv, agentVars
<1>3. ASSUME NEW c \in Clients, readHelloNoAgent(c) PROVE HandedOnce'
  BY <1>3 DEF readHelloNoAgent, HandedOnce, TypeInv, netVars, agentVars
<1>4. CASE popped
  BY <1>4 DEF popped, HandedOnce, clientVars, agentVars
<1>5. CASE on_connect
  BY <1>5 DEF on_connect, HandedOnce, TypeInv, clientVars
<1>6. CASE notifyConnected
  BY <1>6 DEF notifyConnected, HandedOnce, clientVars, agentVars
<1>7. CASE UNCHANGED <<netVars, client, socket>>
  BY <1>7 DEF HandedOnce, netVars
<1>8. QED
  BY <1>1, <1>2, <1>3, <1>4, <1>5, <1>6, <1>7
     DEF Next, mainThread, networkThread, environment, setupThread, clientThread,
         clientVars, agentVars, declareAgent, pushed, launchGame, sendPacket,
         on_read, await_reconnect, spuriousWakeup, waitTimesOut, reconnected,
         awaitMessage, receiveLongMessage_sync

(* NothingFromNobody is inductive: on_read wants a socket, and the setup   *)
(* thread reads only from a queue that is not empty.                       *)
LEMMA NothingStep ==
  TypeInv /\ EndsInv /\ HandedOnce /\ NothingFromNobody /\ Next
    => NothingFromNobody'
<1> SUFFICES ASSUME TypeInv, EndsInv, HandedOnce, NothingFromNobody, Next
             PROVE  NothingFromNobody'
  OBVIOUS
<1> USE ConnectionAssumption
<1>1. CASE pushed
  BY <1>1 DEF pushed, NothingFromNobody, TypeInv, agentVars
<1>2. CASE on_connect
  BY <1>2 DEF on_connect, NothingFromNobody, TypeInv, HandedOnce, setupVars
<1>3. CASE notifyConnected
  BY <1>3 DEF notifyConnected, notify_one, NothingFromNobody, TypeInv, agentVars
<1>4. ASSUME NEW a \in Agents, on_read(a) PROVE NothingFromNobody'
  <2>1. PICK q : queue' = [queue EXCEPT ![a] = q]
    BY <1>4 DEF on_read
  <2>2. QED
    BY <1>4, <2>1 DEF on_read, notify_one, NothingFromNobody, TypeInv
<1>5. ASSUME NEW a \in Agents, await_reconnect(a) PROVE NothingFromNobody'
  BY <1>5 DEF await_reconnect, NothingFromNobody, TypeInv, agentVars
<1>6. ASSUME NEW a \in Agents, spuriousWakeup(a) PROVE NothingFromNobody'
  BY <1>6 DEF spuriousWakeup, notify_one, NothingFromNobody, TypeInv, agentVars
<1>7. ASSUME NEW a \in Agents, reconnected(a) PROVE NothingFromNobody'
  BY <1>7 DEF reconnected, NothingFromNobody, TypeInv, agentVars
<1>8. ASSUME NEW a \in Agents, awaitMessage(a) PROVE NothingFromNobody'
  BY <1>8 DEF awaitMessage, NothingFromNobody, TypeInv, agentVars
<1>9. ASSUME NEW a \in Agents, receiveLongMessage_sync(a)
      PROVE  NothingFromNobody'
  <2>1. socket[a] # Nobody
    BY <1>9 DEF receiveLongMessage_sync, NothingFromNobody
  <2>2. PICK d, q, s :
          /\ deck' = [deck EXCEPT ![a] = d] /\ queue' = [queue EXCEPT ![a] = q]
          /\ setup' = [setup EXCEPT ![a] = s]
    BY <1>9 DEF receiveLongMessage_sync
  <2>3. QED
    BY <1>9, <2>1, <2>2 DEF receiveLongMessage_sync, NothingFromNobody, TypeInv
<1>10. CASE UNCHANGED <<agentVars, setupVars>>
  BY <1>10 DEF NothingFromNobody, agentVars, setupVars
<1>11. QED
  BY <1>1, <1>2, <1>3, <1>4, <1>5, <1>6, <1>7, <1>8, <1>9, <1>10
     DEF Next, mainThread, networkThread, environment, setupThread, clientThread,
         declareAgent, launchGame, connect, sendPacket, readHello,
         readHelloNoAgent, popped, waitTimesOut

(* NoEmptyMessage is inductive: on_read puts at least one packet in the    *)
(* queue.                                                                  *)
LEMMA NoEmptyStep == TypeInv /\ NoEmptyMessage /\ Next => NoEmptyMessage'
<1> SUFFICES ASSUME TypeInv, NoEmptyMessage, Next PROVE NoEmptyMessage'
  OBVIOUS
<1>1. ASSUME NEW a \in Agents, on_read(a) PROVE NoEmptyMessage'
  <2>1. PICK n \in 1 .. Len(wire[socket[a]]) :
          queue' = [queue EXCEPT ![a] =
                      Append(@, SubSeq(wire[socket[a]], 1, n))]
    BY <1>1 DEF on_read
  <2>2. wire[socket[a]] \in Seq(Packet)
    BY <1>1 DEF on_read, TypeInv
  <2>3. PICK m \in Seq(Packet) : m = SubSeq(wire[socket[a]], 1, n) /\ m # <<>>
    BY <2>2, CatSplit
  <2>4. queue' = [queue EXCEPT ![a] = Append(queue[a], m)]
    BY <2>1, <2>3
  <2>5. \A i \in 1 .. Len(Append(queue[a], m)) : Append(queue[a], m)[i] # <<>>
    BY <2>3, SMTT(30) DEF NoEmptyMessage, TypeInv
  <2>6. QED
    BY <2>4, <2>5 DEF NoEmptyMessage, TypeInv
<1>2. ASSUME NEW a \in Agents, receiveLongMessage_sync(a)
      PROVE  NoEmptyMessage'
  <2>1. PICK q : q = Tail(queue[a]) /\ queue' = [queue EXCEPT ![a] = q]
    BY <1>2 DEF receiveLongMessage_sync
  <2>2. \A i \in 1 .. Len(q) : q[i] # <<>>
    <3>1. queue[a] \in Seq(Seq(Packet)) /\ queue[a] # <<>>
      BY <1>2 DEF receiveLongMessage_sync, TypeInv
    <3>2. /\ Len(q) \in Nat /\ Len(queue[a]) = Len(q) + 1
          /\ \A i \in 1 .. Len(q) : q[i] = queue[a][i + 1]
      BY <2>1, <3>1, TailProperties
    <3>3. QED
      BY <3>2 DEF NoEmptyMessage
  <2>3. QED
    BY <2>1, <2>2 DEF NoEmptyMessage, TypeInv
<1>3. CASE UNCHANGED queue
  BY <1>3 DEF NoEmptyMessage
<1>4. QED
  BY <1>1, <1>2, <1>3
     DEF Next, mainThread, networkThread, environment, setupThread, clientThread,
         agentVars, declareAgent, pushed, launchGame, connect, sendPacket,
         readHello, readHelloNoAgent, popped, on_connect, notifyConnected,
         await_reconnect, spuriousWakeup, waitTimesOut, reconnected, awaitMessage

(* Packets that are the first ones of a file, and end with a packet that   *)
(* has the last number, are the whole file.                                *)
LEMMA PrefixDone ==
  ASSUME NEW c \in Clients, NEW n \in 0 .. DeckPackets,
         NEW p \in Seq(Packet), NEW r \in Seq(Packet),
         Cat(p, r) = SubSeq(File(c), 1, n),
         p # <<>>, p[Len(p)].nr = DeckPackets
  PROVE  p = File(c)
<1>1. /\ Len(Cat(p, r)) = Len(p) + Len(r) /\ Len(p) \in Nat \ {0} /\ Len(r) \in Nat
      /\ \A i \in 1 .. Len(p) : Cat(p, r)[i] = p[i]
  BY DEF Cat
<1>2. Len(p) <= n /\ \A i \in 1 .. Len(p) : p[i] = [from |-> c, nr |-> i]
  BY SMTT(30), <1>1, SentProperties, FileType
<1>3. Len(p) = DeckPackets
  <2>1. p[Len(p)] = [from |-> c, nr |-> Len(p)]
    BY <1>1, <1>2
  <2>2. QED
    BY <2>1
<1>4. /\ Len(p) = Len(File(c)) /\ File(c) \in Seq(Packet)
      /\ \A i \in 1 .. Len(p) : p[i] = File(c)[i]
  BY SMTT(30), <1>2, <1>3, FileType
<1>5. QED
  BY <1>4

(* InOrder is inductive: sendPacket, on_connect, on_read and               *)
(* receiveLongMessage_sync each move packets from one place to the next,   *)
(* in order.                                                               *)
LEMMA InOrderStep ==
  TypeInv /\ HandedOnce /\ NothingFromNobody /\ InOrder /\ Next => InOrder'
<1> SUFFICES ASSUME TypeInv, HandedOnce, NothingFromNobody, InOrder, Next, ~crashed'
             PROVE  InOrder'
  BY DEF InOrder
<1> USE ConnectionAssumption
<1> DEFINE F(a) == FlattenSeq(queue[a])
<1>0. \A a \in Agents : F(a) \in Seq(Packet)
  BY FlattenType DEF TypeInv
<1>a. ~crashed
  BY DEF Next, mainThread, networkThread, environment, setupThread, clientThread
<1>1. ASSUME NEW c \in Clients, sendPacket(c) PROVE InOrder'
  <2>1. PICK p : p = File(c)[sent[c] + 1]
    OBVIOUS
  <2>2. /\ sent[c] \in 0 .. DeckPackets - 1 /\ p \in Packet
        /\ sent'[c] = sent[c] + 1
        /\ wire' = [wire EXCEPT ![c] = Append(wire[c], p)]
        /\ \A d \in Clients \ {c} : sent'[d] = sent[d]
        /\ UNCHANGED <<deck, queue, socket>>
    BY <1>1, <2>1, FileType DEF sendPacket, TypeInv, agentVars, setupVars
  <2>3. Sent(c)' = Append(Sent(c), p)
    BY <2>1, <2>2, SentNext DEF Sent, File
  <2>4. \A d \in Clients \ {c} : Sent(d)' = Sent(d)
    BY <2>2 DEF Sent, File
  <2>5. ASSUME NEW a \in Agents, socket'[a] # Nobody
        PROVE  Cat(Cat(deck[a], F(a)), wire[socket[a]])' = Sent(socket[a])'
    <3> DEFINE d == socket[a]
    <3>1. /\ d \in Clients /\ d = socket'[a] /\ wire[d] \in Seq(Packet)
          /\ Cat(Cat(deck[a], F(a)), wire[d]) = Sent(d)
          /\ Cat(deck[a], F(a)) \in Seq(Packet)
      BY <2>2, <2>5, <1>0, <1>a, CatProperties DEF InOrder, TypeInv
    <3>2. CASE d = c
      <4>1. wire'[d] = Append(wire[d], p)
        BY <2>2, <3>1, <3>2 DEF TypeInv
      <4>2. Cat(Cat(deck[a], F(a)), wire'[d]) = Append(Sent(d), p)
        <5>1. PICK x \in Seq(Packet), w \in Seq(Packet) :
                x = Cat(deck[a], F(a)) /\ w = wire[d]
          BY <3>1
        <5>2. Cat(x, Append(w, p)) = Append(Cat(x, w), p)
          BY <2>2, CatAppend
        <5>3. QED
          BY <3>1, <4>1, <5>1, <5>2
      <4>3. QED
        BY <2>2, <2>3, <3>1, <3>2, <4>2
    <3>3. CASE d # c
      BY <2>2, <2>4, <3>1, <3>3 DEF TypeInv
    <3>4. QED
      BY <3>2, <3>3
  <2>6. ASSUME NEW d \in Clients, \A a \in Agents : socket'[a] # d
        PROVE  wire'[d] = Sent(d)'
    BY <1>a, <2>2, <2>3, <2>4, <2>6, SMTT(30) DEF InOrder, TypeInv
  <2>7. QED
    BY <2>5, <2>6 DEF InOrder
<1>2. CASE on_connect
  <2>1. /\ socket[netAgent] = Nobody /\ netClient \in Clients /\ netAgent \in Agents
        /\ \A a \in Agents : socket[a] # netClient
        /\ socket' = [socket EXCEPT ![netAgent] = netClient]
        /\ UNCHANGED <<deck, queue, wire, sent>>
    BY <1>2 DEF on_connect, HandedOnce, TypeInv, setupVars, clientVars
  <2>2. queue[netAgent] = <<>> /\ deck[netAgent] = <<>>
    BY <2>1 DEF NothingFromNobody
  <2>3. Cat(Cat(deck[netAgent], F(netAgent)), wire[netClient]) = wire[netClient]
    <3>1. F(netAgent) = <<>>
      BY <2>2, FlattenEmpty
    <3>2. wire[netClient] \in Seq(Packet) /\ <<>> \in Seq(Packet)
      BY <2>1 DEF TypeInv
    <3>3. QED
      BY ZenonT(40), <2>2, <3>1, <3>2, CatProperties
  <2>4. wire[netClient] = Sent(netClient)
    BY <1>a, <2>1 DEF InOrder
  <2>5. \A c : Sent(c)' = Sent(c)
    BY <2>1 DEF Sent, File
  <2>6. QED
    BY <1>a, <2>1, <2>3, <2>4, <2>5 DEF InOrder, TypeInv
<1>3. ASSUME NEW a \in Agents, on_read(a) PROVE InOrder'
  <2> DEFINE c == socket[a]
  <2>1. c \in Clients /\ wire[c] \in Seq(Packet) /\ UNCHANGED <<deck, socket, sent>>
    BY <1>3 DEF on_read, TypeInv
  <2>2. PICK n \in 1 .. Len(wire[c]) :
          /\ queue' = [queue EXCEPT ![a] = Append(@, SubSeq(wire[c], 1, n))]
          /\ wire' = [wire EXCEPT ![c] = SubSeq(@, n + 1, Len(@))]
    BY <1>3 DEF on_read
  <2>3. PICK m \in Seq(Packet), r \in Seq(Packet) :
          /\ m = SubSeq(wire[c], 1, n) /\ r = SubSeq(wire[c], n + 1, Len(wire[c]))
          /\ Cat(m, r) = wire[c]
    <3>1. PICK w \in Seq(Packet) : w = wire[c]
      BY <2>1
    <3>2. /\ SubSeq(w, 1, n) \in Seq(Packet)
          /\ SubSeq(w, n + 1, Len(w)) \in Seq(Packet)
          /\ Cat(SubSeq(w, 1, n), SubSeq(w, n + 1, Len(w))) = w
      BY <3>1, CatSplit
    <3>3. QED
      BY <3>1, <3>2
  <2>4. /\ queue' = [queue EXCEPT ![a] = Append(queue[a], m)]
        /\ wire' = [wire EXCEPT ![c] = r]
    BY <2>2, <2>3
  <2>5. FlattenSeq(Append(queue[a], m)) = Cat(F(a), m)
    BY FlattenAppend DEF Cat, TypeInv
  <2>6. Cat(Cat(deck[a], Cat(F(a), m)), r) = Cat(Cat(deck[a], F(a)), Cat(m, r))
    <3>1. PICK x \in Seq(Packet), y \in Seq(Packet) : x = deck[a] /\ y = F(a)
      BY <1>0 DEF TypeInv
    <3>2. /\ Cat(x, Cat(y, m)) = Cat(Cat(x, y), m) /\ Cat(x, y) \in Seq(Packet)
      BY CatProperties
    <3>3. Cat(Cat(Cat(x, y), m), r) = Cat(Cat(x, y), Cat(m, r))
      BY <3>2, CatProperties
    <3>4. QED
      BY <3>1, <3>2, <3>3
  <2>7. F(a)' = Cat(F(a), m) /\ wire'[c] = r
    BY <2>1, <2>4, <2>5 DEF TypeInv
  <2>8. \A b \in Agents \ {a} : queue'[b] = queue[b]
    BY <2>4 DEF TypeInv
  <2>9. \A d \in Clients \ {c} : wire'[d] = wire[d]
    BY <2>4 DEF TypeInv
  <2>10. \A b \in Agents \ {a} : socket[b] # c
    BY <2>1 DEF HandedOnce
  <2>11. \A d : Sent(d)' = Sent(d)
    BY <2>1 DEF Sent, File
  <2>12. ASSUME NEW b \in Agents, socket'[b] # Nobody
         PROVE  Cat(Cat(deck[b], F(b)), wire[socket[b]])' = Sent(socket[b])'
    <3>1. Cat(Cat(deck[b], F(b)), wire[socket[b]]) = Sent(socket[b])
      BY <1>a, <2>1, <2>12 DEF InOrder
    <3>2. CASE b = a
      BY <2>1, <2>3, <2>6, <2>7, <2>11, <3>1, <3>2
    <3>3. CASE b # a
      <4>1. socket[b] \in Clients \ {c}
        BY <2>1, <2>10, <2>12, <3>3 DEF TypeInv
      <4>2. QED
        BY <2>1, <2>8, <2>9, <2>11, <3>1, <3>3, <4>1
    <3>4. QED
      BY <3>2, <3>3
  <2>13. ASSUME NEW d \in Clients, \A b \in Agents : socket'[b] # d
         PROVE  wire'[d] = Sent(d)'
    BY <1>a, <2>1, <2>9, <2>11, <2>13 DEF InOrder
  <2>14. QED
    BY <2>12, <2>13 DEF InOrder
<1>4. ASSUME NEW a \in Agents, receiveLongMessage_sync(a) PROVE InOrder'
  <2>1. queue[a] \in Seq(Seq(Packet)) /\ queue[a] # <<>> /\ deck[a] \in Seq(Packet)
    BY <1>4 DEF receiveLongMessage_sync, TypeInv
  <2>2. PICK h \in Seq(Packet), t \in Seq(Seq(Packet)) :
          h = Head(queue[a]) /\ t = Tail(queue[a])
    BY <2>1, TailProperties
  <2>3. /\ deck' = [deck EXCEPT ![a] = Cat(deck[a], h)]
        /\ queue' = [queue EXCEPT ![a] = t]
        /\ UNCHANGED <<wire, socket, sent>>
    BY <1>4, <2>2 DEF receiveLongMessage_sync, Cat, clientVars
  <2>4. F(a) = Cat(h, FlattenSeq(t)) /\ FlattenSeq(t) \in Seq(Packet)
    BY <2>1, <2>2, FlattenHeadTail, FlattenType DEF Cat
  <2>5. Cat(Cat(deck[a], h), FlattenSeq(t)) = Cat(deck[a], F(a))
    <3>1. PICK x \in Seq(Packet), f \in Seq(Packet) :
            x = deck[a] /\ f = FlattenSeq(t)
      BY <2>1, <2>4
    <3>2. Cat(Cat(x, h), f) = Cat(x, Cat(h, f))
      BY CatProperties
    <3>3. QED
      BY <2>4, <3>1, <3>2
  <2>6. Cat(deck[a], F(a))' = Cat(deck[a], F(a))
    BY <2>3, <2>5 DEF TypeInv
  <2>7. \A b \in Agents \ {a} : deck'[b] = deck[b] /\ F(b)' = F(b)
    BY <2>3 DEF TypeInv
  <2>8. \A d : Sent(d)' = Sent(d)
    BY <2>3 DEF Sent, File
  <2>9. \A b \in Agents : Cat(deck[b], F(b))' = Cat(deck[b], F(b))
    BY <2>6, <2>7
  <2>10. QED
    BY <1>a, <2>3, <2>8, <2>9 DEF InOrder
<1>5. CASE UNCHANGED <<deck, queue, wire, socket, sent>>
  BY <1>a, <1>5 DEF InOrder, Sent, File
<1>6. QED
  BY <1>1, <1>2, <1>3, <1>4, <1>5
     DEF Next, mainThread, networkThread, environment, setupThread, clientThread,
         clientVars, agentVars, setupVars, declareAgent, pushed, launchGame,
         connect, readHello, readHelloNoAgent, popped, notifyConnected,
         await_reconnect, spuriousWakeup, waitTimesOut, reconnected, awaitMessage

(* DoneWithDeck is inductive: the setup thread that reads the last packet  *)
(* of a file has read the whole file.                                      *)
LEMMA DoneStep ==
  ASSUME TypeInv, HandedOnce, NothingFromNobody, NoEmptyMessage, DoneWithDeck,
         Next, TypeInv', InOrder'
  PROVE  DoneWithDeck'
<1> SUFFICES ASSUME ~crashed' PROVE DoneWithDeck'
  BY DEF DoneWithDeck
<1> USE ConnectionAssumption
<1>0. ~crashed
  BY DEF Next, mainThread, networkThread, environment, setupThread, clientThread
<1>1. CASE pushed
  BY <1>0, <1>1 DEF pushed, DoneWithDeck, TypeInv, agentVars
<1>2. CASE on_connect
  <2>1. socket[netAgent] = Nobody /\ setup[netAgent] # "done"
    BY <1>2 DEF on_connect, NothingFromNobody, TypeInv
  <2>2. QED
    BY <1>0, <1>2, <2>1 DEF on_connect, DoneWithDeck, TypeInv, setupVars
<1>3. CASE notifyConnected
  BY <1>0, <1>3 DEF notifyConnected, notify_one, DoneWithDeck, TypeInv,
                    agentVars
<1>4. ASSUME NEW a \in Agents, on_read(a) PROVE DoneWithDeck'
  BY <1>0, <1>4 DEF on_read, notify_one, DoneWithDeck, TypeInv
<1>5. ASSUME NEW a \in Agents, await_reconnect(a) PROVE DoneWithDeck'
  BY <1>0, <1>5 DEF await_reconnect, DoneWithDeck, TypeInv, agentVars
<1>6. ASSUME NEW a \in Agents, spuriousWakeup(a) PROVE DoneWithDeck'
  BY <1>0, <1>6 DEF spuriousWakeup, notify_one, DoneWithDeck, TypeInv,
                    agentVars
<1>7. ASSUME NEW a \in Agents, reconnected(a) PROVE DoneWithDeck'
  BY <1>0, <1>7 DEF reconnected, DoneWithDeck, TypeInv, agentVars
<1>8. ASSUME NEW a \in Agents, awaitMessage(a) PROVE DoneWithDeck'
  BY <1>0, <1>8 DEF awaitMessage, DoneWithDeck, TypeInv, agentVars
<1>9. ASSUME NEW a \in Agents, receiveLongMessage_sync(a) PROVE DoneWithDeck'
  <2>1. /\ queue[a] \in Seq(Seq(Packet)) /\ queue[a] # <<>>
        /\ deck[a] \in Seq(Packet) /\ socket[a] # Nobody
    BY <1>9 DEF receiveLongMessage_sync, TypeInv, NothingFromNobody
  <2>2. PICK h \in Seq(Packet) : h = Head(queue[a]) /\ h # <<>>
    BY <2>1, TailProperties DEF NoEmptyMessage
  <2>3. /\ deck' = [deck EXCEPT ![a] = Cat(deck[a], h)]
        /\ UNCHANGED <<socket, sent>>
        /\ setup' = [setup EXCEPT ![a] = IF Last(h).nr = DeckPackets
                                           THEN "done" ELSE "read"]
    BY <1>9, <2>2 DEF receiveLongMessage_sync, Cat, clientVars
  <2>4. ASSUME Last(h).nr = DeckPackets
        PROVE  deck'[a] = File(socket[a])
    <3>1. PICK c \in Clients : c = socket[a]
      BY <2>1 DEF TypeInv
    <3>2. PICK p \in Seq(Packet) : p = deck'[a] /\ p = Cat(deck[a], h)
      BY <2>3 DEF TypeInv
    <3>3. p # <<>> /\ p[Len(p)].nr = DeckPackets
      <4>1. PICK x \in Seq(Packet) : x = deck[a] /\ p = x \o h
        BY <2>1, <3>2 DEF Cat
      <4>2. Len(h) \in Nat \ {0} /\ Len(p) = Len(x) + Len(h) /\ Len(x) \in Nat
        BY <2>2, <4>1
      <4>3. p[Len(p)] = h[Len(h)]
        BY <4>1, <4>2
      <4>4. QED
        BY <2>4, <4>2, <4>3 DEF Last
    <3>4. PICK f \in Seq(Packet), w \in Seq(Packet) :
            f = FlattenSeq(queue'[a]) /\ w = wire'[c]
      BY FlattenType DEF TypeInv
    <3>5. Cat(Cat(p, f), w) = SubSeq(File(c), 1, sent[c])
      BY <2>1, <2>3, <3>1, <3>2, <3>4 DEF InOrder, Sent, File
    <3>6. Cat(p, Cat(f, w)) = SubSeq(File(c), 1, sent[c])
      <4>1. Cat(Cat(p, f), w) = Cat(p, Cat(f, w))
        BY CatProperties
      <4>2. QED
        BY <3>5, <4>1
    <3>7. PICK r \in Seq(Packet), n \in 0 .. DeckPackets :
            r = Cat(f, w) /\ n = sent[c]
      BY CatProperties DEF TypeInv
    <3>8. p = File(c)
      BY <3>3, <3>6, <3>7, PrefixDone
    <3>9. QED
      BY <3>1, <3>2, <3>8
  <2>5. QED
    BY <1>0, <2>3, <2>4 DEF DoneWithDeck, TypeInv
<1>10. CASE UNCHANGED <<deck, setup, socket>>
  BY <1>0, <1>10 DEF DoneWithDeck
<1>11. QED
  BY <1>1, <1>2, <1>3, <1>4, <1>5, <1>6, <1>7, <1>8, <1>9, <1>10
     DEF Next, mainThread, networkThread, environment, setupThread, clientThread,
         agentVars, setupVars, declareAgent, launchGame, connect, sendPacket,
         readHello, readHelloNoAgent, popped, waitTimesOut

(* The game is launched when all setup threads are done, and nothing       *)
(* changes a deck from then on.                                            *)
LEMMA PlayStep ==
  ASSUME TypeInv, HandedOnce, NothingFromNobody, DoneWithDeck,
         NoSetupLeft, PlaysWithDecks, Next
  PROVE  NoSetupLeft' /\ PlaysWithDecks'
<1> SUFFICES ASSUME main' = "playing"
             PROVE  NoSetupLeft' /\ PlaysWithDecks'
  BY DEF NoSetupLeft, PlaysWithDecks
<1>0. ~crashed
  BY DEF Next, mainThread, networkThread, environment, setupThread, clientThread
<1>1. CASE launchGame
  <2>1. (\A a \in Agents : setup[a] = "done") /\ UNCHANGED <<setup, deck>>
    BY <1>1 DEF launchGame, setupVars
  <2>2. socket \in [Agents -> Clients] /\ IsInjective(socket)
    BY <2>1 DEF TypeInv, HandedOnce, NothingFromNobody, IsInjective
  <2>3. \A a \in Agents : deck[a] = File(socket[a])
    BY <1>0, <2>1 DEF DoneWithDeck
  <2>4. PlaysWithDecks'
    BY <2>1, <2>2, <2>3 DEF PlaysWithDecks, File
  <2>5. QED
    BY <2>1, <2>4 DEF NoSetupLeft
<1>2. CASE ~launchGame
  <2>1. main = "playing"
    BY <1>2 DEF Next, mainThread, networkThread, environment, setupThread,
                clientThread, mainVars, declareAgent, pushed, connect,
                sendPacket, readHello, readHelloNoAgent, popped, on_connect,
                notifyConnected, on_read, await_reconnect, spuriousWakeup,
                waitTimesOut, reconnected, awaitMessage, receiveLongMessage_sync
  <2>2. \A a \in Agents : setup[a] = "done"
    BY <2>1 DEF NoSetupLeft
  <2>3. /\ UNCHANGED deck
        /\ \/ UNCHANGED setup \/ \E a \in Agents : notify_one(a)
    BY <2>1, <2>2
       DEF Next, mainThread, networkThread, environment, setupThread,
           clientThread, declareAgent, pushed, launchGame, connect, sendPacket,
           readHello, readHelloNoAgent, popped, on_connect, notifyConnected,
           on_read, await_reconnect, spuriousWakeup, waitTimesOut, reconnected,
           awaitMessage, receiveLongMessage_sync, setupVars, TypeInv
  <2>4. UNCHANGED setup
    BY <2>2, <2>3 DEF notify_one, TypeInv
  <2>5. QED
    BY <2>1, <2>3, <2>4 DEF NoSetupLeft, PlaysWithDecks, File
<1>3. QED
  BY <1>1, <1>2

(* LateClients is inductive: without early clients the two threads never   *)
(* use orphan_clients at the same time.                                    *)
LEMMA LateStep ==
  TypeInv /\ EndsInv /\ HandedOnce /\ LateClients /\ Next => LateClients'
<1> SUFFICES ASSUME TypeInv, EndsInv, HandedOnce, LateClients, Next
             PROVE  LateClients'
  OBVIOUS
<1> USE ConnectionAssumption DEF Agents
<1>0. early' = early
  BY DEF Next, mainThread, networkThread, environment, setupThread, clientThread,
         clientVars, declareAgent, pushed, launchGame, connect, sendPacket,
         readHello, readHelloNoAgent, popped, on_connect, notifyConnected,
         on_read, await_reconnect, spuriousWakeup, waitTimesOut, reconnected,
         awaitMessage, receiveLongMessage_sync
<1> SUFFICES ASSUME ~early PROVE LateClients'
  BY <1>0 DEF LateClients
<1>1. CASE declareAgent
  BY <1>0, <1>1 DEF declareAgent, LateClients, EndsInv, TypeInv, netVars,
                    orphanVars, clientVars, agentVars
<1>2. CASE pushed
  <2>1. /\ declared = end + 1 /\ mainEnd = end /\ net = "idle"
        /\ \A i \in 1 .. end : orphans[i] = i
        /\ (\A c \in Clients : client[c] = "away")
        /\ \A a \in Agents : socket[a] = Nobody
    BY <1>2 DEF pushed, LateClients
  <2>2. /\ end' = declared /\ main' \in {"declare", "join"}
        /\ main' = "join" => declared = NbAgents
        /\ orphans' = [orphans EXCEPT ![declared] = declared]
        /\ UNCHANGED <<declared, mainEnd, net, client, socket>>
    BY <1>2, <2>1 DEF pushed, netVars, clientVars, agentVars
  <2>3. end \in Nat /\ declared \in 1 .. NbAgents
    BY <2>1 DEF EndsInv
  <2>4. \A i \in 1 .. end' : orphans'[i] = i
    <3>1. orphans \in [1 .. NbAgents -> Agents]
      BY DEF TypeInv
    <3>2. orphans'[declared] = declared
      BY <2>2, <2>3, <3>1
    <3>3. \A i \in 1 .. end : orphans'[i] = i
      BY <2>1, <2>2, <2>3, <3>1
    <3>4. QED
      BY <2>1, <2>2, <2>3, <3>2, <3>3
  <2>5. QED
    BY <2>1, <2>2, <2>3, <2>4 DEF LateClients
<1>3. CASE launchGame
  BY <1>0, <1>3 DEF launchGame, LateClients, EndsInv, TypeInv, netVars,
                    orphanVars, clientVars, agentVars
<1>4. ASSUME NEW c \in Clients, connect(c) PROVE LateClients'
  BY <1>0, <1>4 DEF connect, LateClients, TypeInv, mainVars, netVars, orphanVars,
                    agentVars
<1>5. ASSUME NEW c \in Clients, readHello(c) PROVE LateClients'
  <2>1. main \in {"join", "playing"}
    BY <1>5 DEF readHello, LateClients, TypeInv
  <2>2. /\ net = "idle" /\ net' = "pop" /\ netEnd' = end /\ netAgent' = orphans[end]
        /\ end # 0 /\ UNCHANGED <<main, orphans, end, socket>>
    BY <1>5 DEF readHello, mainVars, orphanVars, agentVars
  <2>3. end \in 1 .. end /\ orphans[end] = end
    BY <2>2 DEF LateClients, EndsInv
  <2>4. QED
    BY <2>1, <2>2, <2>3 DEF LateClients
<1>6. ASSUME NEW c \in Clients, readHelloNoAgent(c) PROVE LateClients'
  BY <1>0, <1>6 DEF readHelloNoAgent, LateClients, TypeInv, mainVars, netVars,
                    orphanVars, agentVars
<1>7. CASE popped
  BY <1>0, <1>7 DEF popped, LateClients, EndsInv, TypeInv, mainVars, clientVars,
                    agentVars
<1>8. CASE on_connect
  <2>1. main \in {"join", "playing"}
    BY <1>8 DEF on_connect, LateClients, TypeInv
  <2>2. /\ net = "connect" /\ net' = "notify" /\ netAgent = end + 1
        /\ netClient # Nobody /\ UNCHANGED <<main, orphans, end>>
        /\ socket' = [socket EXCEPT ![netAgent] = netClient]
    BY <1>8 DEF on_connect, LateClients, HandedOnce, mainVars, orphanVars
  <2>3. \A a \in Agents : a <= end <=> socket'[a] = Nobody
    <3>1. \A a \in Agents : a <= netAgent <=> socket[a] = Nobody
      BY <2>1, <2>2 DEF LateClients
    <3>2. /\ netAgent \in Agents /\ end \in Nat
          /\ socket \in [Agents -> Clients \union {Nobody}]
      BY DEF TypeInv, EndsInv
    <3>3. socket'[netAgent] # Nobody /\ \A a \in Agents \ {netAgent} : socket'[a] = socket[a]
      BY <2>2, <3>2
    <3>4. QED
      BY <2>2, <3>1, <3>2, <3>3
  <2>4. QED
    BY <2>1, <2>2, <2>3 DEF LateClients
<1>9. CASE notifyConnected
  BY <1>0, <1>9 DEF notifyConnected, LateClients, TypeInv, mainVars, orphanVars,
                    clientVars, agentVars
<1>10. CASE UNCHANGED <<mainVars, netVars, orphanVars, client, socket>>
  BY <1>0, <1>10 DEF LateClients, mainVars, netVars, orphanVars
<1>11. QED
  BY <1>1, <1>2, <1>3, <1>4, <1>5, <1>6, <1>7, <1>8, <1>9, <1>10
     DEF Next, mainThread, networkThread, environment, setupThread, clientThread,
         clientVars, agentVars, sendPacket, on_read, await_reconnect,
         spuriousWakeup, waitTimesOut, reconnected, awaitMessage,
         receiveLongMessage_sync

-----------------------------------------------------------------------------

(* The inductive invariant holds when the server starts.                   *)
LEMMA InitIInv == Init => IInv
<1> SUFFICES ASSUME Init PROVE IInv
  OBVIOUS
<1> USE ConnectionAssumption
<1>1. TypeInv /\ EndsInv
  <2>1. /\ \A a \in Agents : a \in Nat
        /\ 1 \in Agents /\ <<>> \in Seq(Packet) /\ <<>> \in Seq(Seq(Packet))
    BY EmptySeq DEF Agents
  <2>2. EndsInv
    BY DEF Init, EndsInv
  <2>3. /\ main \in {"declare"} /\ net \in {"idle"} /\ netAgent \in Agents
        /\ netClient = Nobody
        /\ orphans \in [Agents -> Agents] /\ socket \in [Agents -> {Nobody}]
        /\ client \in [Clients -> {"away"}] /\ setup \in [Agents -> {"none"}]
    BY <2>1 DEF Init
  <2>6. sent \in [Clients -> 0 .. DeckPackets]
    BY DEF Init
  <2>7. early \in BOOLEAN /\ crashed \in BOOLEAN
    BY DEF Init
  <2>4. /\ wire \in [Clients -> Seq(Packet)] /\ deck \in [Agents -> Seq(Packet)]
        /\ queue \in [Agents -> Seq(Seq(Packet))]
    BY <2>1 DEF Init
  <2>5. QED
    BY <2>2, <2>3, <2>4, <2>6, <2>7 DEF TypeInv
<1>2. HandedOnce /\ NothingFromNobody /\ NoEmptyMessage
  BY DEF Init, HandedOnce, NothingFromNobody, NoEmptyMessage
<1>3. InOrder
  BY SentProperties DEF Init, InOrder, Sent
<1>4. DoneWithDeck /\ NoSetupLeft /\ PlaysWithDecks /\ LateClients
  BY DEF Init, DoneWithDeck, NoSetupLeft, PlaysWithDecks, LateClients
<1>5. QED
  BY <1>1, <1>2, <1>3, <1>4 DEF IInv

(* Every step of every thread preserves it.                                *)
LEMMA NextIInv == IInv /\ [Next]_vars => IInv'
<1> SUFFICES ASSUME IInv, [Next]_vars PROVE IInv'
  OBVIOUS
<1>1. CASE Next
  <2>1. TypeInv' /\ EndsInv' /\ HandedOnce' /\ NothingFromNobody'
    BY <1>1, TypeStep, EndsStep, HandedStep, NothingStep DEF IInv
  <2>2. NoEmptyMessage' /\ InOrder' /\ LateClients'
    BY <1>1, NoEmptyStep, InOrderStep, LateStep DEF IInv
  <2>3. DoneWithDeck'
    BY <1>1, <2>1, <2>2, DoneStep DEF IInv
  <2>4. NoSetupLeft' /\ PlaysWithDecks'
    BY <1>1, PlayStep DEF IInv
  <2>5. QED
    BY <2>1, <2>2, <2>3, <2>4 DEF IInv
<1>2. CASE UNCHANGED vars
  <2> USE <1>2 DEF vars, mainVars, netVars, orphanVars, clientVars, agentVars,
                   setupVars, IInv
  <2>1. TypeInv' /\ EndsInv'
    BY DEF TypeInv, EndsInv
  <2>2. HandedOnce' /\ NothingFromNobody' /\ NoEmptyMessage'
    BY DEF HandedOnce, NothingFromNobody, NoEmptyMessage
  <2>3. InOrder' /\ DoneWithDeck' /\ NoSetupLeft'
    BY DEF InOrder, Sent, DoneWithDeck, NoSetupLeft
  <2>4. LateClients' /\ PlaysWithDecks'
    BY DEF LateClients, PlaysWithDecks
  <2>5. QED
    BY <2>1, <2>2, <2>3, <2>4
<1>3. QED
  BY <1>1, <1>2

(* Every reachable state satisfies the inductive invariant.                *)
THEOREM Invariance == Spec => []IInv
BY InitIInv, NextIInv, PTL DEF Spec

(* async.cpp:22-47: whatever the threads' order, what the setup thread has *)
(* read, what waits in the queue and what is on its way is what the client *)
(* sent, until the server crashes.                                         *)
THEOREM NothingLost == Spec => []NothingLostOnTheWay
<1>1. IInv => NothingLostOnTheWay
  BY DEF IInv, InOrder, NothingLostOnTheWay, Sent, Cat
<1>2. QED
  BY <1>1, Invariance, PTL

(* agent.h:28-32: no game starts before every agent has the whole deck of  *)
(* a client of its own, also if clients come while agents are still being  *)
(* declared.                                                               *)
THEOREM DecksComplete == Spec => []PlaysWithDecks
<1>1. IInv => PlaysWithDecks
  BY DEF IInv
<1>2. QED
  BY <1>1, Invariance, PTL

(* networkmanager.cpp:77-79, 92-98: when no client is early, every agent   *)
(* either is still offered, once, or has a client of its own.              *)
THEOREM OneClientEach == Spec => []OneClientPerAgent
<1>1. IInv => OneClientPerAgent
  <2> SUFFICES ASSUME IInv, ~early, net = "idle", main \in {"join", "playing"}
               PROVE  /\ \A a \in Agents : a \in offered <=> socket[a] = Nobody
                      /\ \A i, j \in 1 .. end : orphans[i] = orphans[j] => i = j
    BY DEF IInv, HandedOnce, OneClientPerAgent
  <2>1. \A i \in 1 .. end : orphans[i] = i
    BY DEF IInv, LateClients
  <2>2. \A a \in Agents : a <= end <=> socket[a] = Nobody
    BY DEF IInv, LateClients
  <2>3. end \in Nat
    BY DEF IInv, EndsInv
  <2>4. QED
    BY <2>1, <2>2, <2>3 DEF offered, Agents
<1>2. QED
  BY <1>1, Invariance, PTL

(* async.cpp:6-15: the assertion of on_connect, that the agent has no      *)
(* client yet, can fail only if a client comes before all agents are       *)
(* declared.                                                               *)
THEOREM LateClientFindsFreeAgent ==
  Spec => [][on_connect /\ ~early => socket[netAgent] = Nobody]_vars
<1>1. IInv /\ on_connect /\ ~early => socket[netAgent] = Nobody
  <2> SUFFICES ASSUME IInv, net = "connect", ~early
               PROVE  socket[netAgent] = Nobody
    BY DEF on_connect
  <2>1. main \in {"join", "playing"} /\ netAgent \in Agents
    BY DEF IInv, TypeInv, LateClients
  <2>2. netAgent <= netAgent
    BY <2>1 DEF Agents
  <2>3. QED
    BY <2>1, <2>2 DEF IInv, LateClients
<1>2. QED
  BY <1>1, Invariance, PTL
=============================================================================
