----------------------------- MODULE MessageRouter -----------------------------
(***************************************************************************)
(* A routed job (communication/MessageRouter.cpp, with the parts of        *)
(* ComputeCore.cpp that call it, the metadata of Message.cpp and the       *)
(* reception in MessagesHandler.cpp).  Every rank builds the same graph;   *)
(* then each one repeats its loop: receive one message, deliver or relay   *)
(* it, let the application push messages, send.  When the application is   *)
(* done the master tells all ranks to stop, and a stopped rank goes on     *)
(* relaying for Duration seconds before it leaves its loop.                *)
(*                                                                         *)
(* One turn of the loop is one step: ranks share nothing but the network.  *)
(***************************************************************************)
EXTENDS ConnectionGraph, SequencesExt

CONSTANTS
  Scenarios,    \* jobs: [type, size, degree, sends, stops, checksum], see RouterInit
  TagBase,      \* __ROUTING_TAG_BASE
  WorkTag,      \* a tag of the application
  StopTag,      \* the tag that opens RAY_SLAVE_MODE_STOP
  Duration,     \* duration of hasCompletedRelayEvents, in seconds
  MaxLatency    \* bound: seconds from the sending of a message to its reception

ASSUME MessageRouterAssumption ==
  /\ TagBase \in Nat /\ WorkTag \in 0 .. TagBase - 1 /\ StopTag \in 0 .. TagBase - 1
  /\ WorkTag # StopTag
  /\ Duration \in Nat /\ MaxLatency \in Nat \ {0}

\* The sends of a job are between its ranks, at most one from a rank to another.
ASSUME ScenarioAssumption ==
  \A j \in Scenarios :
    /\ j.size \in Nat \ {0} /\ j.stops \in BOOLEAN /\ j.checksum \in BOOLEAN
    /\ j.sends \subseteq [from : ranksOf(j.size), to : ranksOf(j.size), actor : BOOLEAN]
    /\ \A s, t \in j.sends : s.from = t.from /\ s.to = t.to => s = t

VARIABLES
  job,       \* the scenario this behaviour runs
  graph,     \* m_graph
  phase,     \* "enable", then "run" or "hung"
  todo,      \* what the application has still to send
  network,   \* the packets under way
  loads,     \* the load counters of each rank's graph
  alive,     \* m_alive of each rank
  left,      \* the seconds a stopped rank has left before it may leave its loop
  inLoop,    \* the ranks that are in their main loop
  arrived    \* the messages given to the handlers

routerVars == <<job, graph, phase, todo, network, loads, alive, left, inLoop, arrived>>

NO_VALUE == -1
MASTER_RANK == 0
AllRanks == ranksOf(job.size)

\* What an application pushes into its outbox.  The content of a work message
\* is its source and its destination, so that no two are alike.
workMessage(source, destination, toActor) ==
  [source |-> source, destination |-> destination, tag |-> WorkTag,
   sourceActor |-> IF toActor THEN source + job.size ELSE NO_VALUE,
   destinationActor |-> IF toActor THEN destination + job.size ELSE NO_VALUE,
   routingSource |-> NO_VALUE, routingDestination |-> NO_VALUE,
   bytes |-> <<[from |-> source, to |-> destination]>>]

\* sendToAll
stopMessage(destination) ==
  [workMessage(MASTER_RANK, destination, FALSE) EXCEPT !.tag = StopTag]

------------------------------------------------------------------------------
\* The metadata are written after the content, the checksum after both.
saveActorMetaData(m) ==
  IF m.sourceActor < 0 /\ m.destinationActor < 0
  THEN [m EXCEPT !.sourceActor = m.source, !.destinationActor = m.destination]
  ELSE m

saveRoutingMetaData(m) == [rs |-> m.routingSource, rd |-> m.routingDestination]

saveMetaData(m) ==
  LET a == saveActorMetaData(m)
      r == saveRoutingMetaData(a)
  IN  [a EXCEPT !.bytes = Append(@, [sa |-> a.sourceActor, da |-> a.destinationActor,
                                     rs |-> r.rs, rd |-> r.rd])]

addMessageChecksums(m) ==
  IF job.checksum THEN [m EXCEPT !.bytes = Append(@, [crc32 |-> @])] ELSE m

\* A wrong checksum is reported and the message kept.
verifyMessageChecksums(m) ==
  IF job.checksum THEN [m EXCEPT !.bytes = Front(@)] ELSE m

\* Mutant: what was saved last is not what is loaded first.
loadMetaData_First(m) ==
  LET meta == Last(m.bytes)
  IN  [m EXCEPT !.bytes = Front(@), !.sourceActor = meta.rs, !.destinationActor = meta.rd,
                !.routingSource = meta.sa, !.routingDestination = meta.da]

loadRoutingMetaData(m, meta) ==
  [m EXCEPT !.routingSource = meta.rs, !.routingDestination = meta.rd]
loadActorMetaData(m, meta) ==
  [m EXCEPT !.sourceActor = meta.sa, !.destinationActor = meta.da]

loadMetaData(m) ==
  LET meta == Last(m.bytes)
  IN  loadActorMetaData(loadRoutingMetaData([m EXCEPT !.bytes = Front(@)], meta), meta)

isActorModelMessage(m) == m.destinationActor >= job.size

------------------------------------------------------------------------------
isRoutingTag(tag) == tag >= TagBase
getRoutingTag(tag) == tag + TagBase
getMessageTagFromRoutingTag(tag) == tag - TagBase

\* One message of routeOutcomingMessages on rank r: what it becomes, and the
\* loads after it.  A message that is being relayed is left alone.
outgoing(r, load, m) ==
  IF isRoutingTag(m.tag) \/ isConnected(graph, m.source, m.destination)
  THEN {[message |-> m, load |-> load]}
  ELSE {[message |-> [m EXCEPT !.tag = getRoutingTag(@), !.routingSource = m.source,
                               !.routingDestination = m.destination, !.destination = next.rank],
         load |-> next.load] : next \in nextRanks(graph, load, r, m.destination)}

routeOutcomingMessages(r, load, outbox) ==
  LET routed[k \in 0 .. Len(outbox)] ==
        IF k = 0 THEN {[sent |-> {}, load |-> load]}
        ELSE UNION {{[sent |-> before.sent \union {o.message}, load |-> o.load] :
                       o \in outgoing(r, before.load, outbox[k])} : before \in routed[k - 1]}
  IN  routed[Len(outbox)]

\* sendMessages: a packet carries the bytes, the tag, and the ranks of MPI.
packet(r, m) ==
  LET w == addMessageChecksums(saveMetaData(m))
  IN  [from |-> r, to |-> m.destination, tag |-> m.tag, bytes |-> w.bytes, age |-> 0]

sendMessages(r, load, outbox, others) ==
  \E s \in routeOutcomingMessages(r, load, outbox) :
     /\ network' = others \union {packet(r, m) : m \in s.sent}
     /\ loads' = [loads EXCEPT ![r] = s.load]

\* probeAndRead: a message with the fields of the packet and its bytes.
probeAndRead(p) ==
  [source |-> p.from, destination |-> p.to, tag |-> p.tag, bytes |-> p.bytes,
   sourceActor |-> NO_VALUE, destinationActor |-> NO_VALUE,
   routingSource |-> NO_VALUE, routingDestination |-> NO_VALUE]

\* receiveMessages: the checksum is peeled off first, then the metadata.
receive(p) == loadMetaData(verifyMessageChecksums(probeAndRead(p)))

\* routeIncomingMessages at the final destination: the original fields return.
restored(m) ==
  IF isRoutingTag(m.tag)
  THEN [m EXCEPT !.source = m.routingSource, !.tag = getMessageTagFromRoutingTag(@)]
  ELSE m

mustRelay(r, m) == isRoutingTag(m.tag) /\ m.routingDestination # r

------------------------------------------------------------------------------
RouterInit ==
  /\ job \in Scenarios
  /\ graph \in graphs(job.type, job.size, job.degree)
  /\ phase = "enable"
  /\ todo = {workMessage(s.from, s.to, s.actor) : s \in job.sends}
  /\ network = {} /\ arrived = {}
  /\ loads = [r \in AllRanks |-> startLoad(graph)]
  /\ alive = [r \in AllRanks |-> TRUE]
  /\ left = [r \in AllRanks |-> NO_VALUE]
  /\ inLoop = AllRanks

\* enable() builds the graph and its routes on every rank before run().
Enable ==
  /\ phase = "enable"
  /\ phase' = IF makeRoutesReturns(graph) THEN "run" ELSE "hung"
  /\ UNCHANGED <<job, graph, todo, network, loads, alive, left, inLoop, arrived>>

\* processData of a slave mode: the application pushes one message.
PushWork(r, m) ==
  /\ phase = "run" /\ r \in inLoop /\ alive[r]
  /\ m \in todo /\ m.source = r
  /\ todo' = todo \ {m}
  /\ sendMessages(r, loads[r], <<m>>, network)
  /\ UNCHANGED <<job, graph, phase, alive, left, inLoop, arrived>>

\* The computation is over: all that was sent has arrived.  The master pushes
\* the stop message to all ranks, itself included.
SendStops ==
  /\ phase = "run" /\ MASTER_RANK \in inLoop /\ alive[MASTER_RANK]
  /\ job.stops /\ todo = {} /\ network = {}
  /\ ~\E m \in arrived : m.tag = StopTag
  /\ sendMessages(MASTER_RANK, loads[MASTER_RANK],
                  [i \in 1 .. job.size |-> stopMessage(i - 1)], {})
  /\ UNCHANGED <<job, graph, phase, todo, alive, left, inLoop, arrived>>

\* The message is not for this rank: relayMessage copies it into the outbox,
\* the inbox is cleared, and nothing else sees it.
Relay(r, p) ==
  LET m == receive(p)
  IN  /\ phase = "run" /\ r \in inLoop
      /\ p \in network /\ p.to = r
      /\ mustRelay(r, m)
      /\ \E next \in nextRanks(graph, loads[r], r, m.routingDestination) :
           sendMessages(r, next.load, <<[m EXCEPT !.source = r, !.destination = next.rank]>>,
                        network \ {p})
      /\ UNCHANGED <<job, graph, phase, todo, alive, left, inLoop, arrived>>

\* Mutant: a rank that was told to stop leaves its loop at the next turn.
secondsLeft_None == 0

\* The loop condition calls hasCompletedRelayEvents once the rank is not alive.
secondsLeft == Duration

\* The message is for this rank: its handler runs, and the stop tag opens the
\* slave mode that calls ComputeCore::stop in the same turn.
Deliver(r, p) ==
  LET m == receive(p)
  IN  /\ phase = "run" /\ r \in inLoop
      /\ p \in network /\ p.to = r
      /\ ~mustRelay(r, m)
      /\ network' = network \ {p}
      /\ arrived' = arrived \union {restored(m)}
      /\ alive' = [alive EXCEPT ![r] = @ /\ restored(m).tag # StopTag]
      /\ left' = [left EXCEPT ![r] = IF ~alive'[r] /\ @ = NO_VALUE THEN secondsLeft ELSE @]
      /\ UNCHANGED <<job, graph, phase, todo, loads, inLoop>>

\* time(NULL) moves on.  Nobody reads the clock before a rank is stopped.
Tick ==
  /\ \E r \in inLoop : left[r] > 0
  /\ \A p \in network : p.age < MaxLatency
  /\ network' = {[p EXCEPT !.age = @ + 1] : p \in network}
  /\ left' = [r \in AllRanks |-> IF left[r] > 0 THEN left[r] - 1 ELSE left[r]]
  /\ UNCHANGED <<job, graph, phase, todo, loads, alive, inLoop, arrived>>

\* The loop condition fails.
Leave(r) ==
  /\ phase = "run" /\ r \in inLoop
  /\ ~alive[r] /\ left[r] = 0
  /\ inLoop' = inLoop \ {r}
  /\ UNCHANGED <<job, graph, phase, todo, network, loads, alive, left, arrived>>

RouterNext ==
  \/ Enable
  \/ SendStops
  \/ Tick
  \/ \E r \in AllRanks :
       \/ \E m \in todo : PushWork(r, m)
       \/ \E p \in network : Relay(r, p) \/ Deliver(r, p)
       \/ Leave(r)

\* A rank turns its loop again and again, and the clock goes on.
RouterFairness == WF_routerVars(RouterNext)

RouterSpec == RouterInit /\ [][RouterNext]_routerVars /\ RouterFairness

------------------------------------------------------------------------------
\* A message travels on links of the graph only, when it is first sent and at
\* every relay: the assertions at the end of routeOutcomingMessages and in
\* relayMessage.
EveryHopIsALink == \A p \in network : isConnected(graph, p.from, p.to)

sentMessages ==
  {workMessage(s.from, s.to, s.actor) : s \in job.sends}
  \union {stopMessage(r) : r \in IF job.stops THEN AllRanks ELSE {}}

\* After any number of relays, metadata loads and saves, a handler sees the
\* source, the tag, the content and, for a message between actors, the actors
\* that the sender gave, at the rank the sender meant; no other message is
\* given to an actor; and what has arrived is not under way a second time.
DeliveredAsSent ==
  /\ \A m \in arrived : \E s \in sentMessages :
       /\ m.source = s.source /\ m.destination = s.destination
       /\ m.tag = s.tag /\ m.bytes = s.bytes
       /\ isActorModelMessage(m) = isActorModelMessage(s)
       /\ isActorModelMessage(s) => /\ m.sourceActor = s.sourceActor
                                    /\ m.destinationActor = s.destinationActor
  /\ \A m \in arrived, p \in network : p.bytes[1] = m.bytes[1] => restored(receive(p)).tag # m.tag

\* hasCompletedRelayEvents keeps a stopped rank in its loop long enough: no
\* message is under way to a rank that has left.
RelaysOutliveMessages == \A p \in network : p.to \in inLoop

\* Building the graph and its routes ends, unless the graph is one of the two
\* that have pairs of ranks without a route: the experimental graph, and a
\* random graph whose edges do not connect it ("this should not happen").
RoutesAreBuilt ==
  phase = "hung" =>
    \/ graph.type = "experimental"
    \/ graph.type = "random" /\ \E a, b \in AllRanks : ~reaches(graph, a, b)

\* A job that starts ends: every message arrives, and once they are told to stop
\* all ranks leave their loops.
EveryMessageArrives ==
  phase = "run" ~> /\ job.stops => inLoop = {}
                   /\ Cardinality(arrived) = Cardinality(sentMessages)
================================================================================
