------------------------------- MODULE Playground -------------------------------
(***************************************************************************)
(* actors/Playground.cpp and Actor.cpp, with the dispatch of a message in  *)
(* ComputeCore::processMessages.  Each rank keeps its actors in a list; an *)
(* actor's name tells its rank and its place in the list.  What an actor   *)
(* does with a message is up to the application: it may spawn an actor,    *)
(* send a message and die.  A rank of a job that only uses actors leaves   *)
(* its loop when its last actor has died.                                  *)
(***************************************************************************)
EXTENDS Integers, Sequences, FiniteSets

CONSTANTS
  Size,            \* number of ranks
  MaxActors,       \* bound: actors a rank spawns
  MaxMail,         \* bound: messages the actors send
  ActorTag,        \* a tag of the application's actors, not below Actor::FIRST_TAG
  HandlerTable     \* MAXIMUM_NUMBER_OF_TAG_HANDLERS

ASSUME PlaygroundAssumption ==
  /\ Size \in Nat \ {0} /\ MaxActors \in Nat /\ MaxMail \in Nat
  /\ ActorTag \in Nat /\ HandlerTable \in Nat

VARIABLES
  actors,      \* m_actors of every rank: the names, NULL where nobody is
  aliveActors, bornActors, deadActors,   \* the counters
  status,      \* "setup", "boot", "loop", "left" or "crashed"
  bootNext,    \* the place bootActors is at
  toBoot,      \* the length of the list when bootActors began
  mail,        \* the messages under way
  mailed,      \* their number so far
  looked       \* the tags callHandler was called with

playgroundVars == <<actors, aliveActors, bornActors, deadActors, status, bootNext, toBoot,
                    mail, mailed, looked>>

ActorRanks == 0 .. Size - 1
NULL == -1
Names == 0 .. Size * (MaxActors + 2) - 1

getActorRank(name) == name % Size

\* The first place stands for the rank itself.
placesBefore(list) == IF list = << >> THEN <<NULL>> ELSE list

\* spawnActor: places count from 0, and so the length is the next one.
spawnActor(r, list) ==
  LET places == placesBefore(list)
  IN  Append(places, r + Len(places) * Size)

\* Mutant: the place of a deleted actor still points to it.
buried_Dangling(list, place) == list

\* The actor is deleted and its place holds the null pointer.
buried(list, place) == [list EXCEPT ![place + 1] = NULL]

liveIn(list) == {i \in DOMAIN list : list[i] # NULL}

PlaygroundInit ==
  /\ actors = [r \in ActorRanks |-> << >>]
  /\ aliveActors = [r \in ActorRanks |-> 0]
  /\ bornActors = aliveActors /\ deadActors = aliveActors
  /\ status = [r \in ActorRanks |-> "setup"]
  /\ bootNext = [r \in ActorRanks |-> 0] /\ toBoot = bootNext
  /\ mail = {} /\ mailed = 0
  /\ looked = {}

\* ComputeCore::spawn, before run().
SpawnFirst(r) ==
  /\ status[r] = "setup" /\ bornActors[r] < MaxActors
  /\ actors' = [actors EXCEPT ![r] = spawnActor(r, @)]
  /\ aliveActors' = [aliveActors EXCEPT ![r] = @ + 1]
  /\ bornActors' = [bornActors EXCEPT ![r] = @ + 1]
  /\ UNCHANGED <<deadActors, status, bootNext, toBoot, mail, mailed, looked>>

\* run() calls bootActors, which boots the actors that are in the list now.
StartBoot(r) ==
  /\ status[r] = "setup"
  /\ status' = [status EXCEPT ![r] = "boot"]
  /\ toBoot' = [toBoot EXCEPT ![r] = Len(actors[r])]
  /\ UNCHANGED <<actors, aliveActors, bornActors, deadActors, bootNext, mail, mailed, looked>>

\* receiveActorMessage for the actor at a place, others being the messages under
\* way besides this one: the actor reacts, and a dead one is deleted.
receiveActorMessage(r, place, others) ==
  IF place < Len(actors[r]) /\ actors[r][place + 1] # NULL
  THEN \E spawns, dies \in BOOLEAN, sends \in {{}} \union {{n} : n \in Names} :
         LET list == IF spawns THEN spawnActor(r, actors[r]) ELSE actors[r]
             name == actors[r][place + 1]
         IN  /\ spawns => bornActors[r] < MaxActors
             /\ Cardinality(sends) + mailed <= MaxMail
             /\ actors' = [actors EXCEPT ![r] = IF dies THEN buried(list, place) ELSE list]
             /\ bornActors' = [bornActors EXCEPT ![r] = @ + IF spawns THEN 1 ELSE 0]
             /\ deadActors' = [deadActors EXCEPT ![r] = @ + IF dies THEN 1 ELSE 0]
             /\ aliveActors' = [aliveActors EXCEPT ![r] = @ + (IF spawns THEN 1 ELSE 0)
                                                            - (IF dies THEN 1 ELSE 0)]
             /\ mail' = others \union {[id |-> mailed, from |-> name, to |-> n,
                                        rank |-> getActorRank(n)] : n \in sends}
             /\ mailed' = mailed + Cardinality(sends)
  ELSE /\ mail' = others
       /\ UNCHANGED <<actors, aliveActors, bornActors, deadActors, mailed>>

BootOne(r) ==
  /\ status[r] = "boot" /\ bootNext[r] < toBoot[r]
  /\ receiveActorMessage(r, bootNext[r], mail)
  /\ bootNext' = [bootNext EXCEPT ![r] = @ + 1]
  /\ UNCHANGED <<status, toBoot, looked>>

EnterLoop(r) ==
  /\ status[r] = "boot" /\ bootNext[r] = toBoot[r]
  /\ status' = [status EXCEPT ![r] = "loop"]
  /\ UNCHANGED <<actors, aliveActors, bornActors, deadActors, bootNext, toBoot, mail, mailed, looked>>

\* isRankAlive with useActorModelOnly
hasAliveActors(r) == aliveActors[r] > 0

placeOf(name) == name \div Size

\* Names below the number of ranks are the ranks themselves.
isActorModelMessage(m) == m.to >= Size

\* processMessages: the actor has the message, and then the table of handlers is
\* asked for one under the same tag.  Past the end of the table there is
\* memory of something else: null, or no handler at all.
Receive(r, m) ==
  /\ status[r] = "loop" /\ hasAliveActors(r)
  /\ m \in mail /\ m.rank = r
  /\ IF isActorModelMessage(m)
     THEN receiveActorMessage(r, placeOf(m.to), mail \ {m})
     ELSE /\ mail' = mail \ {m}
          /\ UNCHANGED <<actors, aliveActors, bornActors, deadActors, mailed>>
  /\ looked' = looked \union {ActorTag}
  /\ \/ UNCHANGED status
     \/ /\ ActorTag >= HandlerTable
        /\ status' = [status EXCEPT ![r] = "crashed"]
  /\ UNCHANGED <<bootNext, toBoot>>

LeaveLoop(r) ==
  /\ status[r] = "loop" /\ ~hasAliveActors(r)
  /\ status' = [status EXCEPT ![r] = "left"]
  /\ UNCHANGED <<actors, aliveActors, bornActors, deadActors, bootNext, toBoot, mail, mailed, looked>>

PlaygroundNext ==
  \E r \in ActorRanks :
    \/ SpawnFirst(r) \/ StartBoot(r) \/ BootOne(r) \/ EnterLoop(r) \/ LeaveLoop(r)
    \/ \E m \in mail : Receive(r, m)

PlaygroundSpec == PlaygroundInit /\ [][PlaygroundNext]_playgroundVars

------------------------------------------------------------------------------
\* However births, deaths and messages follow each other, the counter that keeps
\* a rank in its loop is the number of its actors; a living actor is found, by
\* its name alone, on its rank and at its place, no rank has its name, and a
\* message for it is under way to that rank; and a rank leaves no living actor behind.
ActorsAccounted ==
  /\ \A r \in ActorRanks :
       /\ aliveActors[r] = Cardinality(liveIn(actors[r]))
       /\ bornActors[r] = aliveActors[r] + deadActors[r]
       /\ status[r] = "left" => liveIn(actors[r]) = {}
       /\ \A i \in liveIn(actors[r]) :
            /\ getActorRank(actors[r][i]) = r /\ placeOf(actors[r][i]) = i - 1
            /\ actors[r][i] >= Size
  /\ \A m \in mail, r \in ActorRanks :
       (\E i \in DOMAIN actors[r] : actors[r][i] = m.to) => m.rank = r

\* The tag of a message that is dispatched has been allocated, and has its place
\* in the table of handlers (the assertions on m_allocatedMessageTags in
\* processMessages and on the tag in MessageTagExecutor).
TagsHaveAPlace == \A t \in looked : t < HandlerTable
================================================================================
