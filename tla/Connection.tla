----------------------------- MODULE Connection -----------------------------
(***************************************************************************)
(* How the server gathers its players: Server::addPlayers declares one     *)
(* agent after the other and starts a setup thread for each, while the     *)
(* network thread of NetworkManager accepts clients and hands each of them *)
(* the last agent of orphan_clients.  The setup thread waits for that on   *)
(* AsyncNetworker's condition variable, then reads the deck file from the  *)
(* queue that the network thread fills.                                    *)
(*                                                                         *)
(* A thread's critical section, which runs under protectReadingQueue, is   *)
(* one step.  orphan_clients is used by two threads without a lock: its    *)
(* end is read and written in separate steps.                              *)
(***************************************************************************)
EXTENDS Naturals, Sequences, SequencesExt, Functions

CONSTANTS NbAgents,     (* how many network players the server waits for   *)
          Clients,
          Nobody,       (* stands for no client                            *)
          DeckPackets   (* how many packets a deck file takes              *)

ASSUME ConnectionAssumption ==
  /\ NbAgents \in Nat \ {0} /\ DeckPackets \in Nat \ {0}
  /\ Nobody \notin Clients

Agents == 1 .. NbAgents      (* in the order of their declaration          *)

(* A packet of the deck file of client c; the last one ends the file.      *)
File(c) == [i \in 1 .. DeckPackets |-> [from |-> c, nr |-> i]]

VARIABLES
  main,        (* the main thread: "declare", "push" inside push_back,     *)
               (* "join", "playing"                                        *)
  declared,    (* the agents declared so far                               *)
  mainEnd,     (* the end of orphan_clients that the main thread has read  *)
  net,         (* the network thread: "idle", "pop" inside pop_back,       *)
               (* "connect" before on_connect, "notify" after its lock     *)
  netEnd,      (* the end of orphan_clients that the network thread read   *)
  netAgent, netClient,  (* the agent and the client of on_connect          *)
  orphans, end,         (* the memory of orphan_clients, and its end       *)
  early,       (* clients may come before all agents are declared          *)
  client,      (* "away", "hello" sent, "greeted" by the server            *)
  sent,        (* how many packets of its file the client has sent         *)
  wire,        (* the packets between client and server                    *)
  socket,      (* the client behind the socket of an agent, or Nobody      *)
  queue,       (* AsyncNetworker::reading_queue                            *)
  setup,       (* the setup thread of an agent: "none", "check" before     *)
               (* await_reconnect, "wait" and "woken" inside, "read" before *)
               (* receiveMessage_sync, "asleep" inside, "done"             *)
  deck,        (* what receiveLongMessage_sync has read                    *)
  crashed      (* an assertion failed, an exception left a thread, or      *)
               (* orphan_clients was empty when its end was used           *)

mainVars   == <<main, declared, mainEnd>>
netVars    == <<net, netEnd, netAgent, netClient>>
orphanVars == <<orphans, end>>
clientVars == <<early, client, sent, wire>>
agentVars  == <<socket, queue>>
setupVars  == <<setup, deck>>
vars == <<mainVars, netVars, orphanVars, clientVars, agentVars, setupVars,
          crashed>>

Init ==
  /\ main = "declare" /\ declared = 0 /\ mainEnd = 0
  /\ net = "idle" /\ netEnd = 0 /\ netAgent = 1 /\ netClient = Nobody
  /\ orphans = [i \in Agents |-> 1] /\ end = 0
  /\ early \in BOOLEAN
  /\ client = [c \in Clients |-> "away"]
  /\ sent = [c \in Clients |-> 0]
  /\ wire = [c \in Clients |-> <<>>]
  /\ socket = [a \in Agents |-> Nobody]
  /\ queue = [a \in Agents |-> <<>>]
  /\ setup = [a \in Agents |-> "none"]
  /\ deck = [a \in Agents |-> <<>>]
  /\ crashed = FALSE

-----------------------------------------------------------------------------
(* The main thread.                                                        *)

(* NetworkManager::declareAgent: push_back reads the end of the vector.    *)
declareAgent ==
  /\ main = "declare"
  /\ main' = "push"
  /\ declared' = declared + 1
  /\ mainEnd' = end
  /\ UNCHANGED <<netVars, orphanVars, clientVars, agentVars, setupVars,
                 crashed>>

(* It writes the agent and the end; the agent's setup thread is started.   *)
pushed ==
  /\ main = "push"
  /\ orphans' = [orphans EXCEPT ![mainEnd + 1] = declared]
  /\ end' = mainEnd + 1
  /\ setup' = [setup EXCEPT ![declared] = "check"]
  /\ main' = IF declared = NbAgents THEN "join" ELSE "declare"
  /\ UNCHANGED <<declared, mainEnd, netVars, clientVars, agentVars, deck,
                 crashed>>

(* Seeded fault: the game is launched without joining all setup threads.   *)
FaultyLaunchGame ==
  /\ main = "join"
  /\ \E a \in Agents : setup[a] = "done"
  /\ main' = "playing"
  /\ UNCHANGED <<declared, mainEnd, netVars, orphanVars, clientVars, agentVars,
                 setupVars, crashed>>

(* Every setup thread has been joined: Server::launchGame.                 *)
launchGame ==
  /\ main = "join"
  /\ \A a \in Agents : setup[a] = "done"
  /\ main' = "playing"
  /\ UNCHANGED <<declared, mainEnd, netVars, orphanVars, clientVars, agentVars,
                 setupVars, crashed>>

-----------------------------------------------------------------------------
(* A client.                                                               *)

(* NetworkClient::init connects and sends its hello.                       *)
connect(c) ==
  /\ client[c] = "away"
  /\ early \/ main \in {"join", "playing"}
  /\ client' = [client EXCEPT ![c] = "hello"]
  /\ UNCHANGED <<mainVars, netVars, orphanVars, early, sent, wire, agentVars,
                 setupVars, crashed>>

(* Networker::sendFile, once the server's hello has come.                  *)
sendPacket(c) ==
  /\ client[c] = "greeted"
  /\ sent[c] < DeckPackets
  /\ sent' = [sent EXCEPT ![c] = @ + 1]
  /\ wire' = [wire EXCEPT ![c] = Append(@, File(c)[sent[c] + 1])]
  /\ UNCHANGED <<mainVars, netVars, orphanVars, early, client, agentVars, setupVars,
                 crashed>>

-----------------------------------------------------------------------------
(* The network thread.                                                     *)

(* Seeded fault: the agent handed out is the first one.                    *)
FaultyReadHello(c) ==
  /\ net = "idle"
  /\ client[c] = "hello"
  /\ client' = [client EXCEPT ![c] = "greeted"]
  /\ net' = "pop" /\ netEnd' = end /\ netClient' = c
  /\ netAgent' = orphans[1]
  /\ UNCHANGED <<mainVars, orphanVars, early, sent, wire, agentVars, setupVars,
                 crashed>>

(* NetworkManager::on_connect when a client's hello has been read: it is   *)
(* answered, and the client gets the agent that back() returns.  pop_back, *)
(* two lines below, reads the end of the vector once more; the model reads *)
(* it here for both, which differs only if the main thread has declared an *)
(* agent between the two lines, for a client that is early.                *)
readHello(c) ==
  /\ net = "idle"
  /\ client[c] = "hello"
  /\ client' = [client EXCEPT ![c] = "greeted"]
  /\ end # 0
  /\ net' = "pop" /\ netEnd' = end /\ netClient' = c
  /\ netAgent' = orphans[end]
  /\ UNCHANGED <<mainVars, orphanVars, early, sent, wire, agentVars, setupVars,
                 crashed>>

(* back() of an empty vector: what follows is undefined.                   *)
readHelloNoAgent(c) ==
  /\ net = "idle"
  /\ client[c] = "hello"
  /\ end = 0
  /\ crashed' = TRUE
  /\ client' = [client EXCEPT ![c] = "greeted"]
  /\ UNCHANGED <<mainVars, netVars, orphanVars, early, sent, wire, agentVars,
                 setupVars>>

(* orphan_clients.pop_back() writes the end.                               *)
popped ==
  /\ net = "pop"
  /\ end' = netEnd - 1
  /\ net' = "connect"
  /\ UNCHANGED <<mainVars, netEnd, netAgent, netClient, orphans, clientVars,
                 agentVars, setupVars, crashed>>

(* AsyncNetworker::on_connect under the lock.                              *)
on_connect ==
  /\ net = "connect"
  /\ crashed' = (crashed \/ socket[netAgent] # Nobody)
  /\ socket' = [socket EXCEPT ![netAgent] = netClient]
  /\ net' = "notify"
  /\ UNCHANGED <<mainVars, netEnd, netAgent, netClient, orphanVars, clientVars,
                 queue, setupVars>>

(* notify_one wakes the setup thread of agent a if it waits, be it for the *)
(* connection or for a packet.                                             *)
notify_one(a) ==
  setup' = [setup EXCEPT ![a] = CASE @ = "wait"   -> "woken"
                                  [] @ = "asleep" -> "read"
                                  [] OTHER        -> @]

(* AsyncNetworker::on_connect after the lock; it goes on listening.        *)
notifyConnected ==
  /\ net = "notify"
  /\ notify_one(netAgent)
  /\ net' = "idle"
  /\ UNCHANGED <<mainVars, netEnd, netAgent, netClient, orphanVars, clientVars,
                 agentVars, deck, crashed>>

(* Seeded fault: of several packets that come at once the last is kept.    *)
FaultyOnRead(a) ==
  /\ net = "idle" /\ socket[a] # Nobody
  /\ \E n \in 1 .. Len(wire[socket[a]]) :
       /\ queue' = [queue EXCEPT ![a] = Append(@, <<wire[socket[a]][n]>>)]
       /\ wire' = [wire EXCEPT ![socket[a]] = SubSeq(@, n + 1, Len(@))]
  /\ notify_one(a)
  /\ UNCHANGED <<mainVars, netVars, orphanVars, early, client, sent, socket, deck,
                 crashed>>

(* Seeded fault: nobody is told that something has come.                   *)
FaultyOnReadSilent(a) ==
  /\ net = "idle" /\ socket[a] # Nobody
  /\ \E n \in 1 .. Len(wire[socket[a]]) :
       /\ queue' = [queue EXCEPT ![a] = Append(@, SubSeq(wire[socket[a]], 1, n))]
       /\ wire' = [wire EXCEPT ![socket[a]] = SubSeq(@, n + 1, Len(@))]
  /\ UNCHANGED <<mainVars, netVars, orphanVars, early, client, sent, socket,
                 setupVars, crashed>>

(* AsyncNetworker::on_read: what has come, one packet or several, is one   *)
(* element of the queue.                                                   *)
on_read(a) ==
  /\ net = "idle" /\ socket[a] # Nobody
  /\ \E n \in 1 .. Len(wire[socket[a]]) :
       /\ queue' = [queue EXCEPT ![a] = Append(@, SubSeq(wire[socket[a]], 1, n))]
       /\ wire' = [wire EXCEPT ![socket[a]] = SubSeq(@, n + 1, Len(@))]
  /\ notify_one(a)
  /\ UNCHANGED <<mainVars, netVars, orphanVars, early, client, sent, socket, deck,
                 crashed>>

-----------------------------------------------------------------------------
(* The setup thread of agent a.                                            *)

(* AsyncNetworker::await_reconnect takes the lock, and waits if it must.   *)
await_reconnect(a) ==
  /\ setup[a] = "check"
  /\ setup' = [setup EXCEPT ![a] = IF socket[a] # Nobody THEN "read" ELSE "wait"]
  /\ UNCHANGED <<mainVars, netVars, orphanVars, clientVars, agentVars, deck,
                 crashed>>

(* A condition variable may wake up for no reason.                         *)
spuriousWakeup(a) ==
  /\ setup[a] \in {"wait", "asleep"}
  /\ notify_one(a)
  /\ UNCHANGED <<mainVars, netVars, orphanVars, clientVars, agentVars, deck,
                 crashed>>

(* Three minutes have passed: TimeoutException leaves the thread, which    *)
(* ends the server, also if a client has just come.                        *)
waitTimesOut(a) ==
  /\ setup[a] = "wait"
  /\ crashed' = TRUE
  /\ UNCHANGED <<mainVars, netVars, orphanVars, clientVars, agentVars,
                 setupVars>>

(* wait_for returns; the state is asserted, not waited for.                *)
reconnected(a) ==
  /\ setup[a] = "woken"
  /\ crashed' = (crashed \/ socket[a] = Nobody)
  /\ setup' = [setup EXCEPT ![a] = "read"]
  /\ UNCHANGED <<mainVars, netVars, orphanVars, clientVars, agentVars, deck>>

(* receiveMessage_sync with nothing to read: it sleeps under the lock.     *)
awaitMessage(a) ==
  /\ setup[a] = "read"
  /\ queue[a] = <<>>
  /\ setup' = [setup EXCEPT ![a] = "asleep"]
  /\ UNCHANGED <<mainVars, netVars, orphanVars, clientVars, agentVars, deck,
                 crashed>>

(* receiveLongMessage_sync reads until a packet is the last of the file.   *)
receiveLongMessage_sync(a) ==
  /\ setup[a] = "read"
  /\ queue[a] # <<>>
  /\ deck' = [deck EXCEPT ![a] = @ \o Head(queue[a])]
  /\ queue' = [queue EXCEPT ![a] = Tail(@)]
  /\ setup' = [setup EXCEPT ![a] = IF Last(Head(queue[a])).nr = DeckPackets
                                     THEN "done" ELSE "read"]
  /\ UNCHANGED <<mainVars, netVars, orphanVars, clientVars, socket, crashed>>

-----------------------------------------------------------------------------

(* The threads.                                                            *)
mainThread == ~crashed /\ (declareAgent \/ pushed \/ launchGame)

networkThread ==
  /\ ~crashed
  /\ \/ popped \/ on_connect \/ notifyConnected
     \/ \E c \in Clients : readHello(c) \/ readHelloNoAgent(c)
     \/ \E a \in Agents : on_read(a)

setupThread(a) ==
  /\ ~crashed
  /\ \/ await_reconnect(a) \/ reconnected(a)
     \/ awaitMessage(a) \/ receiveLongMessage_sync(a)

(* A client that has been greeted goes on.                                 *)
clientThread(c) == ~crashed /\ sendPacket(c)

(* What may happen or not.                                                 *)
environment ==
  /\ ~crashed
  /\ \/ \E c \in Clients : connect(c)
     \/ \E a \in Agents : spuriousWakeup(a) \/ waitTimesOut(a)

Next ==
  \/ mainThread \/ networkThread \/ environment
  \/ \E a \in Agents : setupThread(a)
  \/ \E c \in Clients : clientThread(c)

Spec == Init /\ [][Next]_vars

(* No thread is starved.                                                   *)
FairSpec ==
  /\ Spec
  /\ WF_vars(mainThread) /\ WF_vars(networkThread)
  /\ \A a \in Agents : WF_vars(setupThread(a))
  /\ \A c \in Clients : WF_vars(clientThread(c))

-----------------------------------------------------------------------------

(* The agents that orphan_clients offers to the next clients.              *)
offered == {orphans[i] : i \in 1 .. end}

(* networkmanager.cpp:77-79, 92-98 (orphan_clients): if the clients come   *)
(* when all agents are declared, between two handlers every agent either   *)
(* is still offered, once, or has a client that no other agent has.        *)
OneClientPerAgent ==
  ~early /\ net = "idle" /\ main \in {"join", "playing"} =>
    /\ \A a \in Agents : a \in offered <=> socket[a] = Nobody
    /\ \A i, j \in 1 .. end : orphans[i] = orphans[j] => i = j
    /\ \A a, b \in Agents : socket[a] = socket[b] /\ a # b => socket[a] = Nobody

(* async.cpp:22-47: what the setup thread has read, what waits in the      *)
(* queue and what is still on its way is, in order, what the client sent.  *)
NothingLostOnTheWay ==
  \A a \in Agents : socket[a] # Nobody /\ ~crashed =>
    deck[a] \o FlattenSeq(queue[a]) \o wire[socket[a]]
      = SubSeq(File(socket[a]), 1, sent[socket[a]])

(* agent.h:28-32: "makes sure every player is connected and has a deck":   *)
(* no game starts before every agent has the whole deck of one client, and *)
(* no two agents that of the same client, however early the clients come.  *)
PlaysWithDecks ==
  main = "playing" =>
    \E f \in [Agents -> Clients] :
      IsInjective(f) /\ \A a \in Agents : deck[a] = File(f[a])

(* server.cpp:26-39: once every agent has a client the game starts, unless *)
(* the server crashes: no wakeup is lost between await_reconnect and       *)
(* on_connect, or between the end of a read and the next.                  *)
GameStarts ==
  (\A a \in Agents : socket[a] # Nobody) ~> (main = "playing" \/ crashed)
=============================================================================
