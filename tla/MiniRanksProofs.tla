---------------------------- MODULE MiniRanksProofs ----------------------------
(***************************************************************************)
(* For every number of ranks, of mini-ranks per rank and of bins: the      *)
(* messages of MessagesHandler::sendAndReceiveMessagesForRankProcess only  *)
(* reach the mini-rank they are for, and, when the queues exist before the *)
(* ranks start to poll, RankProcess::startMiniRanks returns only once its  *)
(* mini-ranks have left and nothing of theirs is unsent.  No message of    *)
(* the application is lost or duplicated on the way.                       *)
(***************************************************************************)
EXTENDS MiniRanks, FiniteSetTheorems, FunctionTheorems, TLAPS

\* The messages for the mini-ranks of rank r, and for mini-rank m.
ForRank(r) == { x \in Message : rankOf(x.dst) = r }
ForMiniRank(m) == { x \in Message : x.dst = m }

\* The mini-ranks of a rank that it has asked in this pass whether they are dead.
visited(r) == IF rankPc[r] = "isDead" THEN i[r] ELSE i[r] + 1

\* TypeOK without the bounds on outstanding, which follow from Conserved.
ThreadsTypeOK ==
  /\ \A m \in MiniRank : Len(m_bufferedInbox[m]) <= Bins /\ Len(m_bufferedOutbox[m]) <= Bins
  /\ m_dead \in [MiniRank -> BOOLEAN]
  /\ built \in [MiniRank -> BOOLEAN]
  /\ m_alive \in [MiniRank -> BOOLEAN]
  /\ miniPc \in [MiniRank -> {"boot", "loop", "work", "push", "returning", "exited"}]
  /\ rankPc \in [Rank -> {"isDead", "send", "probe", "push", "next", "done", "undefined"}]
  /\ i \in [Rank -> 0 .. PerRank - 1]
  /\ deadMiniRanks \in [Rank -> 0 .. PerRank]
  /\ stopSent \in BOOLEAN
  /\ outstanding \in Int

\* Every sequence of messages holds messages that belong there.
Routed ==
  /\ m_outbox \in [MiniRank -> Seq(Message)]
  /\ m_bufferedOutbox \in [MiniRank -> Seq(Message)]
  /\ m_bufferedInbox \in [MiniRank -> Seq(Message)]
  /\ \A m \in MiniRank : m_bufferedInbox[m] \in Seq(ForMiniRank(m))
  /\ net \in [Rank -> [Rank -> Seq(Message)]]
  /\ \A s, r \in Rank : net[s][r] \in Seq(ForRank(r))
  /\ hand \in [Rank -> Seq(Message)]
  /\ \A r \in Rank : hand[r] \in Seq(ForRank(r)) /\ (rankPc[r] = "push" => Len(hand[r]) = 1)

\* A mini-rank sends the kill signal last, and a tick ends with an empty outbox.
SignalIsLast ==
  \A m \in MiniRank :
    /\ m_dead[m] => miniPc[m] \in {"returning", "exited"}
    /\ miniPc[m] \in {"boot", "loop", "returning", "exited"} => m_outbox[m] = << >>

\* A rank counts a mini-rank at most once in a pass.
CountedOnce == \A r \in Rank : deadMiniRanks[r] <= visited(r)

\* A rank that has found all the mini-ranks it visited dead has also emptied the
\* queues of those it is through with; when it is done, of all of them.
CountedAreEmpty ==
  \A m \in MiniRank :
    LET r == rankOf(m)
        passed == miniRankIndex(m) < i[r] \/ rankPc[r] \notin {"isDead", "send"}
    IN  /\ rankPc[r] # "undefined"
        /\ rankPc[r] = "done" => m_dead[m] /\ m_bufferedOutbox[m] = << >>
        /\ rankPc[r] # "done" /\ deadMiniRanks[r] = visited(r) /\ miniRankIndex(m) < visited(r)
             => m_dead[m] /\ (passed => m_bufferedOutbox[m] = << >>)

\* The inductive invariant.
IInv ==
  /\ ThreadsTypeOK /\ Routed /\ SignalIsLast /\ CountedOnce
  /\ Configured = MiniRank => (\A m \in MiniRank : built[m]) /\ CountedAreEmpty

------------------------------------------------------------------------------
\* The place of a mini-rank, as its rank and its index there, and back.
LEMMA Cores ==
  /\ \A r \in Rank, j \in 0 .. PerRank - 1 :
       Core(r, j) \in MiniRank /\ rankOf(Core(r, j)) = r /\ miniRankIndex(Core(r, j)) = j
  /\ \A m \in MiniRank :
       /\ rankOf(m) \in Rank /\ miniRankIndex(m) \in 0 .. PerRank - 1
       /\ Core(rankOf(m), miniRankIndex(m)) = m
<1>0. NumRanks \in Nat \ {0} /\ PerRank \in Nat \ {0, 1}
  BY MiniRanksAssumption
<1>1. ASSUME NEW r \in Rank, NEW j \in 0 .. PerRank - 1
      PROVE  Core(r, j) \in MiniRank /\ rankOf(Core(r, j)) = r /\ miniRankIndex(Core(r, j)) = j
  <2>1. r \in Nat /\ r + 1 <= NumRanks /\ j \in Nat /\ j < PerRank
    BY <1>0 DEF Rank
  <2>2. (r + 1) * PerRank <= NumRanks * PerRank
    BY <1>0, <2>1
  <2>3. (r + 1) * PerRank = r * PerRank + PerRank /\ r * PerRank \in Nat
    BY <1>0, <2>1
  <2>4. Core(r, j) \in MiniRank
    BY <1>0, <2>1, <2>2, <2>3 DEF Core, MiniRank
  <2>5. (r * PerRank + j) \div PerRank = r /\ (r * PerRank + j) % PerRank = j
    BY <1>0, <2>1
  <2> QED
    BY <2>4, <2>5 DEF Core, rankOf, miniRankIndex
<1>2. ASSUME NEW m \in MiniRank
      PROVE  /\ rankOf(m) \in Rank /\ miniRankIndex(m) \in 0 .. PerRank - 1
             /\ Core(rankOf(m), miniRankIndex(m)) = m
  <2>1. m \in Nat /\ m < NumRanks * PerRank
    BY <1>0 DEF MiniRank
  <2>2. m \div PerRank \in Nat /\ m % PerRank \in 0 .. PerRank - 1
        /\ m = (m \div PerRank) * PerRank + (m % PerRank)
    BY <1>0, <2>1
  <2>3. m \div PerRank < NumRanks
    <3> DEFINE q == m \div PerRank
    <3>1. q \in Nat /\ q * PerRank <= m
      BY <2>1, <2>2, <1>0
    <3> HIDE DEF q
    <3>2. ASSUME q >= NumRanks PROVE FALSE
      <4>1. q * PerRank >= NumRanks * PerRank
        BY <3>1, <3>2, <1>0
      <4> QED
        BY <4>1, <3>1, <2>1, <1>0
    <3>3. q < NumRanks
      BY <3>1, <3>2, <1>0
    <3> QED
      BY <3>3 DEF q
  <2> QED
    BY <1>0, <2>2, <2>3 DEF rankOf, miniRankIndex, Core, Rank
<1> QED
  BY <1>1, <1>2

\* Two mini-ranks of a rank with the same index are the same.
LEMMA SameCore ==
  ASSUME NEW m \in MiniRank, NEW n \in MiniRank, rankOf(m) = rankOf(n),
         miniRankIndex(m) = miniRankIndex(n)
  PROVE  m = n
BY Cores

\* Appending to a queue and taking from one.
LEMMA Queues ==
  ASSUME NEW S, NEW q \in Seq(S)
  PROVE  /\ q # << >> => /\ Head(q) \in S /\ Tail(q) \in Seq(S)
                         /\ Len(Tail(q)) + 1 = Len(q)
         /\ \A x \in S : Append(q, x) \in Seq(S) /\ Len(Append(q, x)) = Len(q) + 1
         /\ Len(q) \in Nat
         /\ \A k \in DOMAIN q : q[k] \in S
OBVIOUS

\* Replacing one entry of a table leaves the others alone.
LEMMA OneEntry ==
  ASSUME NEW D, NEW S, NEW f \in [D -> S], NEW g, NEW a \in D, NEW x \in S,
         g = [f EXCEPT ![a] = x]
  PROVE  g \in [D -> S] /\ \A b \in D : g[b] = IF b = a THEN x ELSE f[b]
OBVIOUS

\* Replacing what is on one channel leaves the others alone.
LEMMA OneChannel ==
  ASSUME NEW S, NEW f \in [Rank -> [Rank -> S]], NEW g, NEW a \in Rank, NEW b \in Rank,
         NEW x \in S, g = [f EXCEPT ![a][b] = x]
  PROVE  /\ g \in [Rank -> [Rank -> S]]
         /\ \A u, v \in Rank : g[u][v] = IF u = a /\ v = b THEN x ELSE f[u][v]
<1>1. [f[a] EXCEPT ![b] = x] \in [Rank -> S]
  OBVIOUS
<1>2. g = [f EXCEPT ![a] = [f[a] EXCEPT ![b] = x]]
  OBVIOUS
<1>3. \A u \in Rank : g[u] = IF u = a THEN [f[a] EXCEPT ![b] = x] ELSE f[u]
  BY <1>2
<1>4. g \in [Rank -> [Rank -> S]]
  BY <1>1, <1>2
<1> QED
  BY <1>3, <1>4

\* The empty queue is a queue of anything.
LEMMA EmptyQueue == \A S : << >> \in Seq(S) /\ Len(<< >>) = 0
OBVIOUS

\* A table of who belongs to a set is a table of truth values.
LEMMA Membership ==
  ASSUME NEW D, NEW S, NEW f, f = [d \in D |-> d \in S]
  PROVE  f \in [D -> BOOLEAN]
OBVIOUS

------------------------------------------------------------------------------
LEMMA InitIInv == Init => IInv
<1> SUFFICES ASSUME Init PROVE IInv
  OBVIOUS
<1> USE DEF Init
<1>0. /\ NumRanks \in Nat \ {0} /\ PerRank \in Nat \ {0, 1} /\ Bins \in Nat
      /\ Configured \subseteq MiniRank
  BY MiniRanksAssumption DEF MiniRank
<1>1. ThreadsTypeOK
  <2>1. m_dead \in [MiniRank -> BOOLEAN] /\ m_alive \in [MiniRank -> BOOLEAN]
    BY Zenon
  <2>2. stopSent \in BOOLEAN
    BY Zenon
  <2>3. built \in [MiniRank -> BOOLEAN]
    BY Membership
  <2> QED
    BY <1>0, <2>1, <2>2, <2>3, EmptyQueue DEF ThreadsTypeOK
<1>2. Routed
  <2>1. \A s, r \in Rank : net[s][r] = << >>
    OBVIOUS
  <2>2. net \in [Rank -> [Rank -> Seq(Message)]]
    BY EmptyQueue
  <2> QED
    BY <2>1, <2>2, EmptyQueue DEF Routed
<1>3. SignalIsLast
  BY DEF SignalIsLast
<1>4. CountedOnce
  BY DEF CountedOnce, visited
<1>5. CountedAreEmpty
  BY <1>0, Cores DEF CountedAreEmpty, visited
<1>6. Configured = MiniRank => \A m \in MiniRank : built[m]
  OBVIOUS
<1> QED
  BY <1>1, <1>2, <1>3, <1>4, <1>5, <1>6 DEF IInv

\* The signal and the queue of a dead mini-rank do not change while its rank
\* stands still, and then its rank's count stays true.
LEMMA MiniRankKeepsCounts ==
  ASSUME IInv, UNCHANGED rankVars,
         \A m \in MiniRank : built[m] => built'[m],
         \A m \in MiniRank : m_dead[m] => m_dead'[m] /\ m_bufferedOutbox'[m] = m_bufferedOutbox[m]
  PROVE  /\ CountedOnce'
         /\ (Configured = MiniRank => (\A m \in MiniRank : built[m]) /\ CountedAreEmpty)'
<1>1. CountedOnce'
  BY DEF IInv, CountedOnce, visited, rankVars
<1>2. ASSUME Configured = MiniRank PROVE (\A m \in MiniRank : built'[m]) /\ CountedAreEmpty'
  BY <1>2 DEF IInv, CountedAreEmpty, visited, rankVars
<1> QED
  BY <1>1, <1>2

LEMMA ConfigureEngineIInv ==
  ASSUME IInv, NEW m \in MiniRank, ConfigureEngine(m)
  PROVE  IInv'
<1> USE DEF IInv
<1>1. /\ miniPc[m] = "boot" /\ miniPc' = [miniPc EXCEPT ![m] = "loop"]
      /\ built' = [built EXCEPT ![m] = TRUE]
      /\ UNCHANGED <<m_bufferedInbox, m_bufferedOutbox, m_dead, m_alive, m_outbox,
                      stopSent, outstanding, rankVars>>
  BY DEF ConfigureEngine, goMini
<1>2. built' \in [MiniRank -> BOOLEAN] /\ \A n \in MiniRank : built[n] => built'[n]
  BY <1>1 DEF ThreadsTypeOK
<1>3. ThreadsTypeOK'
  BY <1>1, <1>2 DEF ThreadsTypeOK, rankVars
<1>4. Routed'
  BY <1>1 DEF Routed, rankVars
<1>5. SignalIsLast'
  BY <1>1 DEF SignalIsLast, ThreadsTypeOK
<1> QED
  BY <1>1, <1>2, <1>3, <1>4, <1>5, MiniRankKeepsCounts

LEMMA ReceiveMessagesIInv ==
  ASSUME IInv, NEW m \in MiniRank, ReceiveMessages(m)
  PROVE  IInv'
<1> USE DEF IInv
<1>1. /\ miniPc[m] = "loop" /\ miniPc' = [miniPc EXCEPT ![m] = "work"]
      /\ UNCHANGED <<m_bufferedOutbox, m_dead, built, m_outbox, stopSent, rankVars>>
  BY DEF ReceiveMessages, goMini
<1>2. m_bufferedInbox[m] \in Seq(ForMiniRank(m)) /\ m_bufferedInbox[m] \in Seq(Message)
  BY DEF Routed
<1>3. /\ m_bufferedInbox' \in [MiniRank -> Seq(Message)]
      /\ \A n \in MiniRank : m_bufferedInbox'[n] \in Seq(ForMiniRank(n)) /\ Len(m_bufferedInbox'[n]) <= Bins
      /\ m_alive' \in [MiniRank -> BOOLEAN]
      /\ outstanding' \in Int
  <2>1. CASE m_bufferedInbox[m] = << >>
    BY <2>1 DEF ReceiveMessages, ThreadsTypeOK, Routed
  <2>2. CASE m_bufferedInbox[m] # << >>
    <3> DEFINE inbox == m_bufferedInbox[m]
    <3>1. /\ m_bufferedInbox' = [m_bufferedInbox EXCEPT ![m] = Tail(inbox)]
          /\ m_alive' = [m_alive EXCEPT ![m] = ~ Head(inbox).stop]
          /\ outstanding' \in {outstanding, outstanding - 1}
      BY <2>2 DEF ReceiveMessages
    <3>2. /\ Tail(inbox) \in Seq(ForMiniRank(m)) /\ Tail(inbox) \in Seq(Message)
          /\ Head(inbox) \in Message /\ Len(Tail(inbox)) + 1 = Len(inbox) /\ Len(inbox) \in Nat
          /\ Len(Tail(inbox)) \in Nat
      BY <1>2, <2>2, Queues
    <3>3. Bins \in Nat /\ Len(inbox) <= Bins
      BY MiniRanksAssumption DEF ThreadsTypeOK
    <3>4. (~ Head(inbox).stop) \in BOOLEAN
      BY Zenon
    <3>5. m_alive' \in [MiniRank -> BOOLEAN]
      BY <3>1, <3>4 DEF ThreadsTypeOK
    <3>6. m_bufferedInbox \in [MiniRank -> Seq(Message)]
      BY DEF Routed
    <3>7. /\ m_bufferedInbox' \in [MiniRank -> Seq(Message)]
          /\ \A n \in MiniRank : m_bufferedInbox'[n] = IF n = m THEN Tail(inbox) ELSE m_bufferedInbox[n]
      BY <3>1, <3>2, <3>6, OneEntry
    <3> QED
      BY <3>1, <3>2, <3>3, <3>5, <3>7 DEF Routed, ThreadsTypeOK
  <2> QED
    BY <2>1, <2>2
<1>4. ThreadsTypeOK'
  BY <1>1, <1>3 DEF ThreadsTypeOK, rankVars
<1>5. Routed'
  BY <1>1, <1>3 DEF Routed, rankVars
<1>6. SignalIsLast'
  BY <1>1 DEF SignalIsLast, ThreadsTypeOK
<1> QED
  BY <1>1, <1>4, <1>5, <1>6, MiniRankKeepsCounts

\* What an action that only fills the outbox of a working mini-rank preserves.
LEMMA OutboxFilledIInv ==
  ASSUME IInv, NEW m \in MiniRank, miniPc[m] = "work", NEW q \in Seq(Message),
         m_outbox' = [m_outbox EXCEPT ![m] = q],
         stopSent' \in BOOLEAN, outstanding' \in Int,
         UNCHANGED <<queueVars, m_alive, miniPc, rankVars>>
  PROVE  IInv'
<1> USE DEF IInv, queueVars
<1>1. /\ m_outbox' \in [MiniRank -> Seq(Message)]
      /\ \A n \in MiniRank : m_outbox'[n] = IF n = m THEN q ELSE m_outbox[n]
  BY DEF Routed
<1>2. ThreadsTypeOK'
  BY DEF ThreadsTypeOK, rankVars
<1>3. Routed'
  BY <1>1 DEF Routed, rankVars
<1>4. SignalIsLast'
  BY <1>1 DEF SignalIsLast
<1> QED
  BY <1>2, <1>3, <1>4, MiniRankKeepsCounts

LEMMA CreateIInv ==
  ASSUME IInv, NEW m \in MiniRank, NEW d \in MiniRank, Create(m, d)
  PROVE  IInv'
<1> DEFINE x == [dst |-> d, stop |-> FALSE]
<1>1. x \in Message
  BY DEF Message
<1>2. Append(m_outbox[m], x) \in Seq(Message)
  BY <1>1, Queues DEF IInv, Routed
<1>3. stopSent' \in BOOLEAN /\ outstanding' \in Int
  BY DEF Create, IInv, ThreadsTypeOK
<1> HIDE DEF x
<1>4. /\ miniPc[m] = "work" /\ UNCHANGED <<queueVars, m_alive, miniPc, rankVars>>
      /\ m_outbox' = [m_outbox EXCEPT ![m] = Append(m_outbox[m], x)]
  BY DEF Create, x, IInv, Routed
<1> QED
  BY <1>2, <1>3, <1>4, OutboxFilledIInv

LEMMA StopIInv ==
  ASSUME IInv, Stop
  PROVE  IInv'
<1> DEFINE stops == [k \in 1 .. NumRanks * PerRank |-> [dst |-> k - 1, stop |-> TRUE]]
<1>0. NumRanks * PerRank \in Nat /\ NumRanks * PerRank > 0
  BY MiniRanksAssumption
<1>1. stops \in Seq(Message)
  <2>1. \A k \in 1 .. NumRanks * PerRank : [dst |-> k - 1, stop |-> TRUE] \in Message
    <3>1. \A k \in 1 .. NumRanks * PerRank : k - 1 \in MiniRank
      BY <1>0 DEF MiniRank
    <3> QED
      BY <3>1 DEF Message
  <2>2. stops \in [1 .. NumRanks * PerRank -> Message]
    BY <2>1
  <2>3. \A n \in Nat : \A q \in [1 .. n -> Message] : q \in Seq(Message)
    OBVIOUS
  <2> HIDE DEF stops
  <2> QED
    BY <1>0, <2>2, <2>3
<1>2. MASTER_RANK \in MiniRank
  BY <1>0 DEF MASTER_RANK, MiniRank
<1>3. m_outbox[MASTER_RANK] \in Seq(Message)
  BY <1>2 DEF IInv, Routed
<1>4. /\ miniPc[MASTER_RANK] = "work" /\ UNCHANGED <<queueVars, m_alive, miniPc, rankVars>>
      /\ m_outbox' = [m_outbox EXCEPT ![MASTER_RANK] = m_outbox[MASTER_RANK] \o stops]
  BY <1>2 DEF Stop, IInv, Routed
<1>5. stopSent' \in BOOLEAN /\ outstanding' \in Int
  BY DEF Stop, IInv, ThreadsTypeOK
<1> HIDE DEF stops
<1>6. m_outbox[MASTER_RANK] \o stops \in Seq(Message)
  BY <1>1, <1>3
<1> QED
  BY <1>2, <1>4, <1>5, <1>6, OutboxFilledIInv

LEMMA SendMessagesIInv ==
  ASSUME IInv, NEW m \in MiniRank, SendMessages(m) \/ EndOfTick(m) \/ Return(m)
  PROVE  IInv'
<1> USE DEF IInv, queueVars
<1>1. /\ UNCHANGED <<queueVars, m_alive, m_outbox, stopSent, outstanding, rankVars>>
      /\ \/ miniPc[m] = "work" /\ miniPc' = [miniPc EXCEPT ![m] = "push"]
         \/ miniPc[m] = "push" /\ m_outbox[m] = << >> /\ miniPc' = [miniPc EXCEPT ![m] = "loop"]
         \/ miniPc[m] = "returning" /\ miniPc' = [miniPc EXCEPT ![m] = "exited"]
  BY DEF SendMessages, EndOfTick, Return, goMini
<1>2. ThreadsTypeOK'
  BY <1>1 DEF ThreadsTypeOK, rankVars
<1>3. Routed'
  BY <1>1 DEF Routed, rankVars
<1>4. SignalIsLast'
  BY <1>1 DEF SignalIsLast, ThreadsTypeOK
<1> QED
  BY <1>1, <1>2, <1>3, <1>4, MiniRankKeepsCounts

\* A mini-rank that pushes is not dead, so no rank counts on its queue.
LEMMA PushOutboxIInv ==
  ASSUME IInv, NEW m \in MiniRank, PushOutbox(m)
  PROVE  IInv'
<1> USE DEF IInv
<1>1. /\ miniPc[m] = "push" /\ m_outbox[m] # << >> /\ Len(m_bufferedOutbox[m]) < Bins
      /\ m_outbox[m] \in Seq(Message) /\ m_bufferedOutbox[m] \in Seq(Message)
      /\ UNCHANGED <<m_bufferedInbox, m_dead, built, m_alive, miniPc, stopSent, outstanding, rankVars>>
  BY DEF PushOutbox, Routed
<1> DEFINE pushed == Append(m_bufferedOutbox[m], Head(m_outbox[m]))
           left == Tail(m_outbox[m])
<1>2. /\ pushed \in Seq(Message) /\ left \in Seq(Message)
      /\ Len(pushed) = Len(m_bufferedOutbox[m]) + 1 /\ Len(m_bufferedOutbox[m]) \in Nat
  BY <1>1, Queues
<1>3. /\ m_bufferedOutbox' = [m_bufferedOutbox EXCEPT ![m] = pushed]
      /\ m_outbox' = [m_outbox EXCEPT ![m] = left]
  BY DEF PushOutbox, Routed
<1> HIDE DEF pushed, left
<1>4. /\ m_bufferedOutbox' \in [MiniRank -> Seq(Message)]
      /\ \A n \in MiniRank : m_bufferedOutbox'[n] = IF n = m THEN pushed ELSE m_bufferedOutbox[n]
      /\ m_outbox' \in [MiniRank -> Seq(Message)]
      /\ \A n \in MiniRank : m_outbox'[n] = IF n = m THEN left ELSE m_outbox[n]
  BY <1>2, <1>3, OneEntry DEF Routed
<1>5. ThreadsTypeOK'
  <2>1. Bins \in Nat
    BY MiniRanksAssumption
  <2>2. ASSUME NEW n \in MiniRank PROVE Len(m_bufferedOutbox'[n]) <= Bins
    <3>1. CASE n = m
      BY <1>1, <1>2, <1>4, <2>1, <3>1
    <3>2. CASE n # m
      BY <1>4, <3>2 DEF ThreadsTypeOK
    <3> QED
      BY <3>1, <3>2
  <2> QED
    BY <1>1, <2>2 DEF ThreadsTypeOK, rankVars
<1>6. Routed'
  BY <1>1, <1>4 DEF Routed, rankVars
<1>7. SignalIsLast'
  BY <1>1, <1>4 DEF SignalIsLast
<1>8. \A n \in MiniRank : m_dead[n] => m_dead'[n] /\ m_bufferedOutbox'[n] = m_bufferedOutbox[n]
  BY <1>1, <1>4 DEF SignalIsLast
<1> QED
  BY <1>1, <1>5, <1>6, <1>7, <1>8, MiniRankKeepsCounts

LEMMA SendKillSignalIInv ==
  ASSUME IInv, NEW m \in MiniRank, SendKillSignal(m)
  PROVE  IInv'
<1> USE DEF IInv
<1>1. /\ miniPc[m] = "loop" /\ miniPc' = [miniPc EXCEPT ![m] = "returning"]
      /\ m_dead' = [m_dead EXCEPT ![m] = TRUE]
      /\ UNCHANGED <<m_bufferedInbox, m_bufferedOutbox, built, m_alive, m_outbox,
                      stopSent, outstanding, rankVars>>
  BY DEF SendKillSignal, goMini
<1>2. m_dead' \in [MiniRank -> BOOLEAN] /\ \A n \in MiniRank : m_dead[n] => m_dead'[n]
  BY <1>1 DEF ThreadsTypeOK
<1>3. ThreadsTypeOK'
  BY <1>1, <1>2 DEF ThreadsTypeOK, rankVars
<1>4. Routed'
  BY <1>1 DEF Routed, rankVars
<1>5. SignalIsLast'
  BY <1>1 DEF SignalIsLast, ThreadsTypeOK
<1> QED
  BY <1>1, <1>2, <1>3, <1>4, <1>5, MiniRankKeepsCounts

------------------------------------------------------------------------------
\* The mini-rank that rank r visits.
LEMMA Visiting ==
  ASSUME IInv, NEW r \in Rank
  PROVE  /\ current(r) \in MiniRank /\ rankOf(current(r)) = r
         /\ miniRankIndex(current(r)) = i[r] /\ i[r] \in 0 .. PerRank - 1
         /\ \A m \in MiniRank : rankOf(m) = r /\ miniRankIndex(m) = i[r] => m = current(r)
         /\ PerRank \in Nat /\ Bins \in Nat /\ deadMiniRanks[r] \in Nat
<1>1. i[r] \in 0 .. PerRank - 1 /\ PerRank \in Nat /\ Bins \in Nat
  BY MiniRanksAssumption DEF IInv, ThreadsTypeOK
<1>2. deadMiniRanks[r] \in 0 .. PerRank
  BY DEF IInv, ThreadsTypeOK
<1>3. deadMiniRanks[r] \in Nat
  BY <1>1, <1>2
<1> QED
  BY <1>1, <1>3, Cores, SameCore DEF current

LEMMA IsDeadIInv ==
  ASSUME IInv, NEW r \in Rank, IsDead(r)
  PROVE  IInv'
<1> USE DEF IInv
<1>1. /\ rankPc[r] = "isDead" /\ rankPc' = [rankPc EXCEPT ![r] = "send"]
      /\ UNCHANGED <<queueVars, miniVars, i, hand, net>>
  BY DEF IsDead, goRank
<1>2. PICK dead \in IF built[current(r)] THEN {m_dead[current(r)]} ELSE BOOLEAN :
        deadMiniRanks' = [deadMiniRanks EXCEPT ![r] = IF dead THEN @ + 1 ELSE @]
  BY DEF IsDead
<1>3. /\ deadMiniRanks[r] <= i[r]
      /\ \A s \in Rank : deadMiniRanks'[s] = IF s = r /\ dead THEN deadMiniRanks[s] + 1 ELSE deadMiniRanks[s]
      /\ \A s \in Rank : rankPc'[s] = IF s = r THEN "send" ELSE rankPc[s]
      /\ i' = i
  BY <1>1, <1>2 DEF CountedOnce, visited, ThreadsTypeOK
<1>4. \A s \in Rank : deadMiniRanks[s] \in Nat /\ i[s] \in Nat /\ i[s] + 1 <= PerRank
  BY Visiting
<1>5. ThreadsTypeOK'
  <2>1. deadMiniRanks' \in [Rank -> 0 .. PerRank]
    BY <1>2, <1>3, <1>4, Visiting DEF ThreadsTypeOK
  <2> QED
    BY <1>1, <2>1 DEF ThreadsTypeOK, queueVars, miniVars
<1>6. Routed'
  BY <1>1 DEF Routed, queueVars, miniVars, ThreadsTypeOK
<1>7. SignalIsLast'
  BY <1>1 DEF SignalIsLast, queueVars, miniVars
<1>8. CountedOnce'
  BY <1>1, <1>3, <1>4 DEF CountedOnce, visited
<1>9. ASSUME Configured = MiniRank PROVE (\A m \in MiniRank : built'[m]) /\ CountedAreEmpty'
  <2>1. built' = built /\ m_dead' = m_dead /\ m_bufferedOutbox' = m_bufferedOutbox
        /\ (\A m \in MiniRank : built[m]) /\ CountedAreEmpty
    BY <1>1, <1>9 DEF queueVars
  <2>2. dead = m_dead[current(r)]
    BY <1>2, <2>1, Visiting
  <2>3. ASSUME NEW m \in MiniRank, rankOf(m) = r, deadMiniRanks'[r] = i[r] + 1,
               miniRankIndex(m) < i[r] + 1
        PROVE  m_dead[m] /\ (miniRankIndex(m) < i[r] => m_bufferedOutbox[m] = << >>)
    <3>1. dead /\ deadMiniRanks[r] = i[r]
      BY <1>3, <1>4, <2>3
    <3>2. CASE miniRankIndex(m) = i[r]
      <4>1. m = current(r) /\ i[r] \in Nat
        BY <2>3, <3>2, Visiting
      <4>2. m_dead[m]
        BY <2>2, <3>1, <4>1
      <4> QED
        BY <3>2, <4>1, <4>2
    <3>3. CASE miniRankIndex(m) < i[r]
      BY <1>1, <2>1, <2>3, <3>1, <3>3 DEF CountedAreEmpty, visited
    <3>4. miniRankIndex(m) \in Int /\ i[r] \in Int
      BY Cores, Visiting
    <3>5. miniRankIndex(m) = i[r] \/ miniRankIndex(m) < i[r]
      BY <2>3, <3>4
    <3> QED
      BY <3>2, <3>3, <3>5
  <2>4. \A m \in MiniRank : rankOf(m) \in Rank
    BY Cores
  <2> QED
    BY <1>3, <2>1, <2>3, <2>4 DEF CountedAreEmpty, visited
<1> QED
  BY <1>5, <1>6, <1>7, <1>8, <1>9

\* The rank empties the queue of a mini-rank into the network, each message to
\* the rank where its destination lives.
LEMMA IsendForMiniRankIInv ==
  ASSUME IInv, NEW r \in Rank, IsendForMiniRank(r)
  PROVE  IInv'
<1> USE DEF IInv
<1> DEFINE c == current(r)
           x == Head(m_bufferedOutbox[c])
           d == rankOf(x.dst)
<1>1. /\ rankPc[r] = "send" /\ m_bufferedOutbox[c] # << >>
      /\ UNCHANGED <<m_bufferedInbox, m_dead, built, miniVars, rankPc, i, deadMiniRanks, hand>>
      /\ m_bufferedOutbox' = [m_bufferedOutbox EXCEPT ![c] = Tail(m_bufferedOutbox[c])]
      /\ net' = [net EXCEPT ![r][d] = Append(@, x)]
  BY DEF IsendForMiniRank
<1>2. c \in MiniRank /\ rankOf(c) = r /\ miniRankIndex(c) = i[r]
  BY Visiting
<1>3. m_bufferedOutbox[c] \in Seq(Message)
  BY <1>2 DEF Routed
<1>4. /\ x \in Message /\ Tail(m_bufferedOutbox[c]) \in Seq(Message)
      /\ Len(Tail(m_bufferedOutbox[c])) + 1 = Len(m_bufferedOutbox[c])
      /\ Len(Tail(m_bufferedOutbox[c])) \in Nat
  BY <1>1, <1>3, Queues
<1>5. d \in Rank /\ x \in ForRank(d)
  BY <1>4, Cores DEF Message, ForRank
<1> HIDE DEF c, x, d
<1>6. /\ m_bufferedOutbox' \in [MiniRank -> Seq(Message)]
      /\ \A n \in MiniRank : m_bufferedOutbox'[n] = IF n = c THEN Tail(m_bufferedOutbox[c]) ELSE m_bufferedOutbox[n]
  BY <1>1, <1>2, <1>4, OneEntry DEF Routed
<1>7. /\ net' \in [Rank -> [Rank -> Seq(Message)]]
      /\ \A u, v \in Rank : net'[u][v] = IF u = r /\ v = d THEN Append(net[r][d], x) ELSE net[u][v]
  <2>1. net \in [Rank -> [Rank -> Seq(Message)]]
    BY DEF Routed
  <2>2. Append(net[r][d], x) \in Seq(Message)
    BY <1>4, <1>5, <2>1, Queues
  <2>3. net' = [net EXCEPT ![r][d] = Append(net[r][d], x)]
    BY <1>1, <1>5, <2>1
  <2> QED
    BY <1>5, <2>1, <2>2, <2>3, OneChannel
<1>8. \A u, v \in Rank : net'[u][v] \in Seq(ForRank(v))
  <2>1. Append(net[r][d], x) \in Seq(ForRank(d))
    BY <1>5, Queues DEF Routed
  <2> QED
    BY <1>7, <2>1 DEF Routed
<1>9. ThreadsTypeOK'
  <2>1. ASSUME NEW n \in MiniRank PROVE Len(m_bufferedOutbox'[n]) <= Bins
    <3>1. CASE n = c
      <4>1. Len(m_bufferedOutbox[c]) <= Bins /\ Bins \in Nat
        BY <1>2, Visiting DEF ThreadsTypeOK
      <4> QED
        BY <1>4, <1>6, <3>1, <4>1
    <3>2. CASE n # c
      BY <1>6, <3>2 DEF ThreadsTypeOK
    <3> QED
      BY <3>1, <3>2
  <2> QED
    BY <1>1, <2>1 DEF ThreadsTypeOK, miniVars
<1>10. Routed'
  BY <1>1, <1>6, <1>7, <1>8 DEF Routed, miniVars
<1>11. SignalIsLast'
  BY <1>1 DEF SignalIsLast, miniVars
<1>12. CountedOnce'
  BY <1>1 DEF CountedOnce, visited
<1>13. ASSUME Configured = MiniRank PROVE (\A m \in MiniRank : built'[m]) /\ CountedAreEmpty'
  <2>1. \A m \in MiniRank : m # c => m_bufferedOutbox'[m] = m_bufferedOutbox[m]
    BY <1>6
  <2>2. i[r] \in Nat
    BY Visiting
  <2> QED
    BY <1>1, <1>2, <1>13, <2>1, <2>2 DEF CountedAreEmpty, visited
<1> QED
  BY <1>9, <1>10, <1>11, <1>12, <1>13

\* What the steps that only move a rank on within its visit preserve.  A rank
\* leaves the sending of a mini-rank that exists with an empty queue.
LEMMA MovesOnIInv ==
  ASSUME IInv, NEW r \in Rank, NEW pc,
         \/ /\ rankPc[r] = "send" /\ pc = "probe"
            /\ built[current(r)] => m_bufferedOutbox[current(r)] = << >>
         \/ rankPc[r] = "probe" /\ pc = "next"
         \/ rankPc[r] = "send" /\ pc = "undefined" /\ ~ built[current(r)]
         \/ rankPc[r] = "push" /\ pc = "undefined" /\ ~ built[destination(r)],
         rankPc' = [rankPc EXCEPT ![r] = pc],
         UNCHANGED <<queueVars, miniVars, i, deadMiniRanks, hand, net>>
  PROVE  IInv'
<1> USE DEF IInv
<1>1. /\ rankPc' \in [Rank -> {"isDead", "send", "probe", "push", "next", "done", "undefined"}]
      /\ \A s \in Rank : rankPc'[s] = IF s = r THEN pc ELSE rankPc[s]
      /\ pc \notin {"push", "isDead", "send", "done"}
      /\ rankPc[r] \notin {"isDead", "done"}
  BY DEF ThreadsTypeOK
<1>2. ThreadsTypeOK'
  BY <1>1 DEF ThreadsTypeOK, queueVars, miniVars
<1>3. Routed'
  BY <1>1 DEF Routed, queueVars, miniVars
<1>4. SignalIsLast'
  BY DEF SignalIsLast, queueVars, miniVars
<1>5. CountedOnce'
  BY <1>1 DEF CountedOnce, visited
<1>6. ASSUME Configured = MiniRank PROVE (\A m \in MiniRank : built'[m]) /\ CountedAreEmpty'
  <2>1. /\ built' = built /\ m_dead' = m_dead /\ m_bufferedOutbox' = m_bufferedOutbox
        /\ i' = i /\ deadMiniRanks' = deadMiniRanks
        /\ (\A m \in MiniRank : built[m]) /\ CountedAreEmpty
    BY <1>6 DEF queueVars
  <2>2. built[current(r)] /\ (rankPc[r] = "push" => built[destination(r)])
    <3>1. rankPc[r] = "push" => hand[r][1] \in ForRank(r)
      BY Queues DEF Routed
    <3>2. rankPc[r] = "push" => destination(r) \in MiniRank
      BY <3>1, Cores DEF destination, ForRank, Message
    <3> QED
      BY <2>1, <3>2, Visiting
  <2>3. pc # "undefined"
    BY <2>2
  <2>4. ASSUME NEW m \in MiniRank, rankOf(m) = r, deadMiniRanks[r] = i[r] + 1,
               miniRankIndex(m) < i[r] + 1
        PROVE  m_dead[m] /\ m_bufferedOutbox[m] = << >>
    <3>1. m_dead[m] /\ (miniRankIndex(m) < i[r] => m_bufferedOutbox[m] = << >>)
      BY <1>1, <2>1, <2>4 DEF CountedAreEmpty, visited
    <3>2. CASE rankPc[r] # "send"
      BY <1>1, <2>1, <2>4, <3>2 DEF CountedAreEmpty, visited
    <3>3. CASE rankPc[r] = "send"
      <4>1. miniRankIndex(m) \in Int /\ i[r] \in Int
        BY Cores, Visiting
      <4>2. miniRankIndex(m) = i[r] \/ miniRankIndex(m) < i[r]
        BY <2>4, <4>1
      <4>3. miniRankIndex(m) = i[r] => m = current(r)
        BY <2>4, Visiting
      <4> QED
        BY <2>2, <3>1, <3>3, <4>2, <4>3
    <3> QED
      BY <3>2, <3>3
  <2>5. \A m \in MiniRank : rankOf(m) \in Rank
    BY Cores
  <2> QED
    BY <1>1, <2>1, <2>3, <2>4, <2>5 DEF CountedAreEmpty, visited
<1> QED
  BY <1>2, <1>3, <1>4, <1>5, <1>6

LEMMA ReceiveIInv ==
  ASSUME IInv, NEW r \in Rank, NEW s \in Rank, Receive(r, s)
  PROVE  IInv'
<1> USE DEF IInv
<1>1. /\ rankPc[r] = "probe" /\ rankPc' = [rankPc EXCEPT ![r] = "push"] /\ net[s][r] # << >>
      /\ hand' = [hand EXCEPT ![r] = <<Head(net[s][r])>>]
      /\ net' = [net EXCEPT ![s][r] = Tail(@)]
      /\ UNCHANGED <<queueVars, miniVars, i, deadMiniRanks>>
  BY DEF Receive, goRank
<1>2. net[s][r] \in Seq(ForRank(r)) /\ net[s][r] \in Seq(Message)
  BY DEF Routed
<1> DEFINE x == Head(net[s][r])
           left == Tail(net[s][r])
<1>3. x \in ForRank(r) /\ x \in Message /\ left \in Seq(ForRank(r)) /\ left \in Seq(Message)
  BY <1>1, <1>2, Queues
<1>4. net' = [net EXCEPT ![s][r] = left]
  BY <1>1 DEF Routed
<1> HIDE DEF x, left
<1>5. /\ net' \in [Rank -> [Rank -> Seq(Message)]]
      /\ \A u, v \in Rank : net'[u][v] = IF u = s /\ v = r THEN left ELSE net[u][v]
  BY <1>3, <1>4, OneChannel DEF Routed
<1>6. <<x>> \in Seq(ForRank(r)) /\ <<x>> \in Seq(Message) /\ Len(<<x>>) = 1
  BY <1>3
<1>7. /\ hand' \in [Rank -> Seq(Message)]
      /\ \A u \in Rank : hand'[u] = IF u = r THEN <<x>> ELSE hand[u]
  BY <1>1, <1>6 DEF Routed, x
<1>8. \A u \in Rank : rankPc'[u] = IF u = r THEN "push" ELSE rankPc[u]
  BY <1>1 DEF ThreadsTypeOK
<1>9. ThreadsTypeOK'
  BY <1>1 DEF ThreadsTypeOK, queueVars, miniVars
<1>10. Routed'
  BY <1>1, <1>3, <1>5, <1>6, <1>7, <1>8 DEF Routed, queueVars, miniVars
<1>11. SignalIsLast'
  BY <1>1 DEF SignalIsLast, queueVars, miniVars
<1>12. CountedOnce'
  BY <1>1, <1>8 DEF CountedOnce, visited
<1>13. ASSUME Configured = MiniRank PROVE (\A m \in MiniRank : built'[m]) /\ CountedAreEmpty'
  <2>1. \A m \in MiniRank : rankOf(m) \in Rank
    BY Cores
  <2> QED
    BY <1>1, <1>8, <1>13, <2>1 DEF CountedAreEmpty, visited, queueVars
<1> QED
  BY <1>9, <1>10, <1>11, <1>12, <1>13

\* The message in hand is for a mini-rank of this rank, and its index there picks
\* the very mini-rank it is for.
LEMMA HandIsForMe ==
  ASSUME IInv, NEW r \in Rank, rankPc[r] = "push"
  PROVE  /\ hand[r][1] \in Message /\ hand[r][1].dst = destination(r)
         /\ destination(r) \in MiniRank
<1>1. hand[r] \in Seq(ForRank(r)) /\ Len(hand[r]) = 1
  BY DEF IInv, Routed
<1>2. hand[r][1] \in ForRank(r)
  BY <1>1
<1>3. hand[r][1] \in Message /\ hand[r][1].dst \in MiniRank /\ rankOf(hand[r][1].dst) = r
  BY <1>2 DEF ForRank, Message
<1> QED
  BY <1>3, Cores DEF destination

LEMMA PushInboxIInv ==
  ASSUME IInv, NEW r \in Rank, PushInbox(r)
  PROVE  IInv'
<1> USE DEF IInv
<1> DEFINE d == destination(r)
           x == hand[r][1]
           q == Append(m_bufferedInbox[d], x)
<1>1. /\ rankPc[r] = "push" /\ rankPc' = [rankPc EXCEPT ![r] = "next"]
      /\ Len(m_bufferedInbox[d]) < Bins
      /\ m_bufferedInbox' = [m_bufferedInbox EXCEPT ![d] = Append(@, x)]
      /\ hand' = [hand EXCEPT ![r] = << >>]
      /\ UNCHANGED <<m_bufferedOutbox, m_dead, built, miniVars, i, deadMiniRanks, net>>
  BY DEF PushInbox, goRank
<1>2. d \in MiniRank /\ x \in Message /\ x \in ForMiniRank(d)
  BY <1>1, HandIsForMe DEF ForMiniRank
<1>3. m_bufferedInbox' = [m_bufferedInbox EXCEPT ![d] = q]
  BY <1>1, <1>2 DEF Routed
<1> HIDE DEF d, x
<1>4. /\ q \in Seq(Message) /\ q \in Seq(ForMiniRank(d))
      /\ Len(q) = Len(m_bufferedInbox[d]) + 1 /\ Len(m_bufferedInbox[d]) \in Nat
  BY <1>2, Queues DEF Routed
<1> HIDE DEF q
<1>5. /\ m_bufferedInbox' \in [MiniRank -> Seq(Message)]
      /\ \A n \in MiniRank : m_bufferedInbox'[n] = IF n = d THEN q ELSE m_bufferedInbox[n]
  BY <1>2, <1>3, <1>4, OneEntry DEF Routed
<1>6. /\ hand' \in [Rank -> Seq(Message)]
      /\ \A u \in Rank : hand'[u] = IF u = r THEN << >> ELSE hand[u]
  BY <1>1, EmptyQueue DEF Routed
<1>7. \A u \in Rank : rankPc'[u] = IF u = r THEN "next" ELSE rankPc[u]
  BY <1>1 DEF ThreadsTypeOK
<1>8. ThreadsTypeOK'
  <2>1. ASSUME NEW n \in MiniRank PROVE Len(m_bufferedInbox'[n]) <= Bins
    <3>1. CASE n = d
      BY <1>1, <1>4, <1>5, <3>1, Visiting
    <3>2. CASE n # d
      BY <1>5, <3>2 DEF ThreadsTypeOK
    <3> QED
      BY <3>1, <3>2
  <2> QED
    BY <1>1, <2>1 DEF ThreadsTypeOK, miniVars
<1>9. Routed'
  <2>1. \A n \in MiniRank : m_bufferedInbox'[n] \in Seq(ForMiniRank(n))
    BY <1>4, <1>5 DEF Routed
  <2>2. \A u \in Rank : hand'[u] \in Seq(ForRank(u)) /\ (rankPc'[u] = "push" => Len(hand'[u]) = 1)
    BY <1>6, <1>7, EmptyQueue DEF Routed
  <2> QED
    BY <1>1, <1>5, <1>6, <2>1, <2>2 DEF Routed, miniVars
<1>10. SignalIsLast'
  BY <1>1 DEF SignalIsLast, miniVars
<1>11. CountedOnce'
  BY <1>1, <1>7 DEF CountedOnce, visited
<1>12. ASSUME Configured = MiniRank PROVE (\A m \in MiniRank : built'[m]) /\ CountedAreEmpty'
  <2>1. \A m \in MiniRank : rankOf(m) \in Rank
    BY Cores
  <2> QED
    BY <1>1, <1>7, <1>12, <2>1 DEF CountedAreEmpty, visited
<1> QED
  BY <1>8, <1>9, <1>10, <1>11, <1>12

\* The pass ends with every mini-rank of the rank counted only if all of them are
\* dead and their queues were emptied after that was seen.
LEMMA NextMiniRankIInv ==
  ASSUME IInv, NEW r \in Rank, NextMiniRank(r)
  PROVE  IInv'
<1> USE DEF IInv
<1> DEFINE last == i[r] = PerRank - 1
           over == last /\ deadMiniRanks[r] = PerRank
           pc == IF over THEN "done" ELSE "isDead"
<1>1. /\ rankPc[r] = "next" /\ rankPc' = [rankPc EXCEPT ![r] = pc]
      /\ i' = [i EXCEPT ![r] = IF last THEN 0 ELSE @ + 1]
      /\ deadMiniRanks' = [deadMiniRanks EXCEPT ![r] = IF last THEN 0 ELSE @]
      /\ UNCHANGED <<queueVars, miniVars, hand, net>>
  BY DEF NextMiniRank, goRank
<1>2. /\ i[r] \in Nat /\ i[r] <= PerRank - 1 /\ PerRank \in Nat /\ deadMiniRanks[r] \in Nat
      /\ deadMiniRanks[r] <= i[r] + 1
  BY <1>1, Visiting DEF CountedOnce, visited
<1>3. /\ \A s \in Rank : rankPc'[s] = IF s = r THEN pc ELSE rankPc[s]
      /\ \A s \in Rank : i'[s] = IF s # r THEN i[s] ELSE IF last THEN 0 ELSE i[r] + 1
      /\ \A s \in Rank : deadMiniRanks'[s] = IF s = r /\ last THEN 0 ELSE deadMiniRanks[s]
      /\ pc \in {"done", "isDead"}
  BY <1>1 DEF ThreadsTypeOK
<1>4. ThreadsTypeOK'
  <2>1. i' \in [Rank -> 0 .. PerRank - 1] /\ deadMiniRanks' \in [Rank -> 0 .. PerRank]
    BY <1>1, <1>2 DEF ThreadsTypeOK
  <2> QED
    BY <1>1, <2>1 DEF ThreadsTypeOK, queueVars, miniVars
<1>5. Routed'
  BY <1>1, <1>3 DEF Routed, queueVars, miniVars
<1>6. SignalIsLast'
  BY <1>1 DEF SignalIsLast, queueVars, miniVars
<1>7. CountedOnce'
  BY <1>2, <1>3 DEF CountedOnce, visited
<1>8. ASSUME Configured = MiniRank PROVE (\A m \in MiniRank : built'[m]) /\ CountedAreEmpty'
  <2>1. /\ built' = built /\ m_dead' = m_dead /\ m_bufferedOutbox' = m_bufferedOutbox
        /\ (\A m \in MiniRank : built[m]) /\ CountedAreEmpty
    BY <1>1, <1>8 DEF queueVars
  <2>2. \A m \in MiniRank : rankOf(m) \in Rank /\ miniRankIndex(m) \in 0 .. PerRank - 1
    BY Cores
  <2>3. ASSUME NEW m \in MiniRank, rankOf(m) = r, deadMiniRanks[r] = i[r] + 1,
               miniRankIndex(m) < i[r] + 1
        PROVE  m_dead[m] /\ m_bufferedOutbox[m] = << >>
    BY <1>1, <2>1, <2>3 DEF CountedAreEmpty, visited
  <2>4. ASSUME NEW m \in MiniRank, rankOf(m) # r
        PROVE  CountedAreEmpty!(m)'
    BY <1>3, <2>1, <2>2, <2>4 DEF CountedAreEmpty, visited
  <2>5. ASSUME NEW m \in MiniRank, rankOf(m) = r
        PROVE  CountedAreEmpty!(m)'
    <3>1. CASE last
      BY <1>2, <1>3, <2>1, <2>2, <2>3, <2>5, <3>1 DEF visited
    <3>2. CASE ~ last
      BY <1>2, <1>3, <2>1, <2>2, <2>3, <2>5, <3>2 DEF visited
    <3> QED
      BY <3>1, <3>2
  <2> QED
    BY <2>1, <2>4, <2>5 DEF CountedAreEmpty
<1> QED
  BY <1>4, <1>5, <1>6, <1>7, <1>8

------------------------------------------------------------------------------
LEMMA NextIInv == IInv /\ [Next]_vars => IInv'
<1> SUFFICES ASSUME IInv, [Next]_vars PROVE IInv'
  OBVIOUS
<1>1. ASSUME NEW m \in MiniRank, MiniRankThread(m) PROVE IInv'
  BY <1>1, ConfigureEngineIInv, ReceiveMessagesIInv, CreateIInv, SendMessagesIInv,
     PushOutboxIInv, SendKillSignalIInv DEF MiniRankThread
<1>2. CASE Stop
  BY <1>2, StopIInv
<1>3. ASSUME NEW r \in Rank, RankThread(r) PROVE IInv'
  <2>1. CASE OutboxEmpty(r) \/ WildOutbox(r) \/ ProbeNothing(r) \/ WildInbox(r)
    BY <2>1, MovesOnIInv DEF OutboxEmpty, WildOutbox, ProbeNothing, WildInbox, goRank
  <2> QED
    BY <1>3, <2>1, IsDeadIInv, IsendForMiniRankIInv, ReceiveIInv, PushInboxIInv,
       NextMiniRankIInv DEF RankThread
<1>4. CASE UNCHANGED vars
  BY <1>4 DEF vars, queueVars, miniVars, rankVars, IInv, ThreadsTypeOK, Routed, SignalIsLast,
              CountedOnce, CountedAreEmpty, visited
<1> QED
  BY <1>1, <1>2, <1>3, <1>4 DEF Next

LEMMA Invariance == Spec => []IInv
BY InitIInv, NextIInv, PTL DEF Spec

\* A message on the inbox of a mini-rank is for that mini-rank: the division by
\* which sendMessagesForMiniRank finds the rank and the remainder by which
\* receiveMessagesForMiniRanks finds the core fit, with or without built queues.
THEOREM MessagesArrive == Spec => []ArrivesAtDestination
<1>1. IInv => ArrivesAtDestination
  <2> SUFFICES ASSUME IInv, NEW m \in MiniRank, NEW k \in DOMAIN m_bufferedInbox[m]
               PROVE  m_bufferedInbox[m][k].dst = m
    BY DEF ArrivesAtDestination
  <2>1. m_bufferedInbox[m] \in Seq(ForMiniRank(m))
    BY DEF IInv, Routed
  <2>2. m_bufferedInbox[m][k] \in ForMiniRank(m)
    BY <2>1, Queues
  <2> QED
    BY <2>2 DEF ForMiniRank
<1> QED
  BY <1>1, Invariance, PTL

\* When every mini-rank has run configureEngine() before its rank polls the
\* queues, a rank that leaves its loop has sent all that its mini-ranks pushed.
THEOREM NothingLeft ==
  ASSUME Configured = MiniRank
  PROVE  Spec => []NothingLeftBehind
<1>1. IInv => NothingLeftBehind
  <2> SUFFICES ASSUME IInv, NEW m \in MiniRank, rankPc[rankOf(m)] = "done"
               PROVE  m_bufferedOutbox[m] = << >> /\ m_outbox[m] = << >>
    BY DEF NothingLeftBehind
  <2>1. m_dead[m] /\ m_bufferedOutbox[m] = << >>
    BY DEF IInv, CountedAreEmpty
  <2> QED
    BY <2>1 DEF IInv, SignalIsLast
<1> QED
  BY <1>1, Invariance, PTL

\* Under the same condition the threads of all the mini-ranks of a process have
\* left their loops when run() destroys the cores they use.
THEOREM DestroyedAfterUse ==
  ASSUME Configured = MiniRank
  PROVE  Spec => []NoUseAfterDestroy
<1>1. IInv => NoUseAfterDestroy
  BY DEF IInv, CountedAreEmpty, SignalIsLast, NoUseAfterDestroy
<1> QED
  BY <1>1, Invariance, PTL
------------------------------------------------------------------------------
(***************************************************************************)
(* Conservation: the places of the application messages are counted.       *)
(***************************************************************************)
\* The k-th message of s is the application's.
IsApp(s, k) == k \in DOMAIN s /\ ~ s[k].stop
one(x) == IF x.stop THEN 0 ELSE 1

\* From q to f, message x is pushed on, or popped from, the sequence of a.
Pushed(q, f, S, a, x) ==
  /\ q \in [S -> Seq(Message)] /\ f \in [S -> Seq(Message)] /\ a \in S /\ x \in Message
  /\ f[a] = Append(q[a], x) /\ \A b \in S \ {a} : f[b] = q[b]
Popped(q, f, S, a, x) ==
  /\ q \in [S -> Seq(Message)] /\ f \in [S -> Seq(Message)] /\ a \in S
  /\ q[a] # << >> /\ x = Head(q[a])
  /\ f[a] = Tail(q[a]) /\ \A b \in S \ {a} : f[b] = q[b]

Concatenated(q, f, S, a, z) ==
  /\ q \in [S -> Seq(Message)] /\ f \in [S -> Seq(Message)] /\ a \in S /\ z \in Seq(Message)
  /\ f[a] = q[a] \o z /\ \A b \in S \ {a} : f[b] = q[b]

\* From q to f, the number of places grows by n.
Grows(q, f, S, n) ==
  IsFiniteSet(appPlaces(q, S)) =>
    /\ IsFiniteSet(appPlaces(f, S))
    /\ Cardinality(appPlaces(f, S)) = Cardinality(appPlaces(q, S)) + n

LEMMA InPlaces ==
  ASSUME NEW q, NEW S, NEW x, NEW k
  PROVE  <<x, k>> \in appPlaces(q, S) <=> x \in S /\ IsApp(q[x], k)
BY DEF appPlaces, IsApp

LEMMA PlaceIsPair ==
  ASSUME NEW q, NEW S, NEW p \in appPlaces(q, S)
  PROVE  \E x \in S : \E k : p = <<x, k>> /\ IsApp(q[x], k)
BY DEF appPlaces, IsApp

LEMMA AppIndex ==
  ASSUME NEW s \in Seq(Message), NEW k, IsApp(s, k)
  PROVE  k \in 1 .. Len(s)
BY DEF IsApp

LEMMA AppAppend ==
  ASSUME NEW s \in Seq(Message), NEW x \in Message, NEW k
  PROVE  IsApp(Append(s, x), k) <=> IsApp(s, k) \/ (k = Len(s) + 1 /\ ~ x.stop)
<1>1. CASE k \in 1 .. Len(s)
  BY <1>1 DEF IsApp
<1>2. CASE k = Len(s) + 1
  BY <1>2 DEF IsApp
<1>3. CASE k \notin 1 .. Len(s) /\ k # Len(s) + 1
  BY <1>3 DEF IsApp
<1> QED
  BY <1>1, <1>2, <1>3

LEMMA AppTail ==
  ASSUME NEW s \in Seq(Message), s # << >>, NEW k \in Nat \ {0}
  PROVE  IsApp(Tail(s), k) <=> IsApp(s, k + 1)
<1>1. CASE k \in 1 .. Len(s) - 1
  BY <1>1 DEF IsApp
<1>2. CASE k \notin 1 .. Len(s) - 1
  BY <1>2 DEF IsApp
<1> QED
  BY <1>1, <1>2

LEMMA AppHead ==
  ASSUME NEW s \in Seq(Message), s # << >>
  PROVE  IsApp(s, 1) <=> ~ Head(s).stop
BY DEF IsApp

\* A push adds one place, if the message is the application's.
LEMMA PlacesAppend ==
  ASSUME NEW S, NEW q, NEW f, NEW a, NEW x, Pushed(q, f, S, a, x)
  PROVE  Grows(q, f, S, one(x))
<1> SUFFICES ASSUME IsFiniteSet(appPlaces(q, S))
             PROVE  /\ IsFiniteSet(appPlaces(f, S))
                    /\ Cardinality(appPlaces(f, S)) = Cardinality(appPlaces(q, S)) + one(x)
  BY DEF Grows
<1> USE DEF Pushed
<1> DEFINE n == Len(q[a]) + 1
           P == appPlaces(q, S)
<1>0. q[a] \in Seq(Message) /\ Len(q[a]) \in Nat
  OBVIOUS
<1>1. <<a, n>> \notin P
  <2>1. ~ IsApp(q[a], n)
    BY <1>0, AppIndex
  <2> QED
    BY <2>1, InPlaces
<1>2. ASSUME NEW b, NEW k
      PROVE  <<b, k>> \in appPlaces(f, S) <=> <<b, k>> \in P \/ (b = a /\ k = n /\ ~ x.stop)
  <2>1. CASE b = a
    <3>1. IsApp(f[a], k) <=> IsApp(q[a], k) \/ (k = n /\ ~ x.stop)
      BY <1>0, AppAppend
    <3>2. /\ <<a, k>> \in appPlaces(f, S) <=> IsApp(f[a], k)
          /\ <<a, k>> \in appPlaces(q, S) <=> IsApp(q[a], k)
      BY InPlaces
    <3> QED
      BY <2>1, <3>1, <3>2, Zenon
  <2>2. CASE b # a
    <3>1. /\ <<b, k>> \in appPlaces(f, S) <=> b \in S /\ IsApp(f[b], k)
          /\ <<b, k>> \in appPlaces(q, S) <=> b \in S /\ IsApp(q[b], k)
      BY InPlaces
    <3> QED
      BY <2>2, <3>1
  <2> QED
    BY <2>1, <2>2
<1>3. \A p \in P : \E b, k : p = <<b, k>>
  BY PlaceIsPair
<1>4. \A p \in appPlaces(f, S) : \E b, k : p = <<b, k>>
  BY PlaceIsPair
<1>5. CASE x.stop
  <2>1. ASSUME NEW p \in appPlaces(f, S) PROVE p \in P
    <3>1. PICK b, k : p = <<b, k>>
      BY <1>4
    <3> QED
      BY <1>2, <1>5, <3>1, Zenon
  <2>2. ASSUME NEW p \in P PROVE p \in appPlaces(f, S)
    <3>1. PICK b, k : p = <<b, k>>
      BY <1>3
    <3> QED
      BY <1>2, <3>1, Zenon
  <2>3. appPlaces(f, S) = P
    BY <2>1, <2>2, Zenon
  <2> QED
    BY <1>5, <2>3, FS_CardinalityType DEF one
<1>6. CASE ~ x.stop
  <2>1. appPlaces(f, S) = P \cup {<<a, n>>}
    <3>1. ASSUME NEW p \in appPlaces(f, S) PROVE p \in P \cup {<<a, n>>}
      <4>1. PICK b, k : p = <<b, k>>
        BY <1>4
      <4>2. <<b, k>> \in P \/ (b = a /\ k = n)
        <5>1. <<b, k>> \in appPlaces(f, S)
          BY <3>1, <4>1
        <5> HIDE DEF P, n
        <5> QED
          BY <1>2, <5>1
      <4> QED
        BY <4>1, <4>2, Zenon
    <3>2. ASSUME NEW p \in P PROVE p \in appPlaces(f, S)
      <4>1. PICK b, k : p = <<b, k>>
        BY <1>3
      <4> QED
        BY <1>2, <3>2, <4>1, Zenon
    <3>3. <<a, n>> \in appPlaces(f, S)
      BY <1>2, <1>6, Zenon
    <3> QED
      BY <3>1, <3>2, <3>3, Zenon
  <2> HIDE DEF P, n
  <2>2. IsFiniteSet(P)
    BY DEF P
  <2>3. IsFiniteSet(P \cup {<<a, n>>}) /\ Cardinality(P \cup {<<a, n>>}) = Cardinality(P) + 1
    BY <1>1, <2>2, FS_AddElement
  <2> QED
    BY <1>6, <2>1, <2>3 DEF one, P
<1> QED
  BY <1>5, <1>6

\* A pop takes one away.
LEMMA PlacesTail ==
  ASSUME NEW S, NEW q, NEW f, NEW a, NEW x, Popped(q, f, S, a, x)
  PROVE  Grows(q, f, S, - one(x))
<1> SUFFICES ASSUME IsFiniteSet(appPlaces(q, S))
             PROVE  /\ IsFiniteSet(appPlaces(f, S))
                    /\ Cardinality(appPlaces(f, S)) = Cardinality(appPlaces(q, S)) - one(Head(q[a]))
  <2>1. one(x) \in {0, 1} /\ x = Head(q[a])
    BY DEF Popped, one
  <2>2. IsFiniteSet(appPlaces(q, S)) => Cardinality(appPlaces(q, S)) \in Nat
    BY FS_CardinalityType
  <2> QED
    BY <2>1, <2>2 DEF Grows
<1> USE DEF Popped
<1> DEFINE P == appPlaces(f, S)
           Q == appPlaces(q, S) \ {<<a, 1>>}
           to(p) == IF p[1] = a THEN <<a, p[2] + 1>> ELSE p
           move == [p \in P |-> to(p)]
<1>0. q[a] \in Seq(Message) /\ Len(q[a]) \in Nat /\ f[a] \in Seq(Message)
  OBVIOUS
<1>1. IsFiniteSet(Q) /\ Cardinality(Q) = Cardinality(appPlaces(q, S)) - one(Head(q[a]))
  <2>1. <<a, 1>> \in appPlaces(q, S) <=> ~ Head(q[a]).stop
    <3>1. <<a, 1>> \in appPlaces(q, S) <=> IsApp(q[a], 1)
      BY InPlaces
    <3> QED
      BY <1>0, <3>1, AppHead
  <2>2. CASE Head(q[a]).stop
    <3>1. Q = appPlaces(q, S)
      BY <2>1, <2>2, Zenon
    <3>2. one(Head(q[a])) = 0
      BY <2>2 DEF one
    <3>3. Cardinality(appPlaces(q, S)) \in Nat
      BY FS_CardinalityType
    <3> HIDE DEF Q
    <3> QED
      BY <3>1, <3>2, <3>3
  <2>3. CASE ~ Head(q[a]).stop
    <3>1. <<a, 1>> \in appPlaces(q, S)
      BY <2>1, <2>3
    <3>2. IsFiniteSet(Q) /\ Cardinality(Q) = Cardinality(appPlaces(q, S)) - 1
      BY <3>1, FS_RemoveElement
    <3> QED
      BY <2>3, <3>2 DEF one
  <2> QED
    BY <2>2, <2>3
<1>2. ASSUME NEW k PROVE <<a, k>> \in P <=> k \in Nat \ {0} /\ <<a, k + 1>> \in Q
  <2>1. <<a, k>> \in P => k \in Nat \ {0}
    <3>1. IsApp(f[a], k) => k \in 1 .. Len(f[a])
      BY <1>0, AppIndex
    <3>2. IsApp(f[a], k) => k \in Nat \ {0}
      BY <1>0, <3>1
    <3> QED
      BY <3>2, InPlaces
  <2>2. ASSUME k \in Nat \ {0} PROVE <<a, k>> \in P <=> <<a, k + 1>> \in Q
    <3>1. IsApp(f[a], k) <=> IsApp(q[a], k + 1)
      BY <1>0, <2>2, AppTail
    <3>2. /\ <<a, k>> \in appPlaces(f, S) <=> IsApp(f[a], k)
          /\ <<a, k + 1>> \in appPlaces(q, S) <=> IsApp(q[a], k + 1)
      BY InPlaces
    <3>3. <<a, k + 1>> # <<a, 1>>
      BY <2>2
    <3> QED
      BY <3>1, <3>2, <3>3, Zenon
  <2> QED
    BY <2>1, <2>2
<1>3. ASSUME NEW b, b # a, NEW k PROVE <<b, k>> \in P <=> <<b, k>> \in Q
  <2>1. /\ <<b, k>> \in appPlaces(f, S) <=> b \in S /\ IsApp(f[b], k)
        /\ <<b, k>> \in appPlaces(q, S) <=> b \in S /\ IsApp(q[b], k)
    BY InPlaces
  <2>2. <<b, k>> # <<a, 1>>
    BY <1>3
  <2> QED
    BY <1>3, <2>1, <2>2
<1>4. \A p \in P : \E b, k : p = <<b, k>>
  BY PlaceIsPair
<1>5. \A p \in Q : \E b, k : p = <<b, k>>
  BY PlaceIsPair
<1>6. \A k : <<a, k>> \in Q => k - 1 \in Nat \ {0} /\ (k - 1) + 1 = k
  <2> SUFFICES ASSUME NEW k, <<a, k>> \in Q PROVE k - 1 \in Nat \ {0} /\ (k - 1) + 1 = k
    OBVIOUS
  <2>1. IsApp(q[a], k) /\ k # 1
    BY InPlaces
  <2> QED
    BY <1>0, <2>1, AppIndex
<1> HIDE DEF P, Q
<1>7. /\ \A k : to(<<a, k>>) = <<a, k + 1>>
      /\ \A b, k : b # a => to(<<b, k>>) = <<b, k>>
  OBVIOUS
<1> HIDE DEF to
<1>8. \A p \in P : to(p) \in Q
  <2> SUFFICES ASSUME NEW p \in P PROVE to(p) \in Q
    OBVIOUS
  <2>1. PICK b, k : p = <<b, k>>
    BY <1>4
  <2>2. CASE b = a
    <3>1. <<a, k + 1>> \in Q
      BY <1>2, <2>1, <2>2
    <3>2. to(p) = <<a, k + 1>>
      BY <1>7, <2>1, <2>2
    <3> QED
      BY <3>1, <3>2
  <2>3. CASE b # a
    <3>1. <<b, k>> \in Q
      BY <1>3, <2>1, <2>3
    <3>2. to(p) = <<b, k>>
      BY <1>7, <2>1, <2>3
    <3> QED
      BY <3>1, <3>2
  <2> QED
    BY <2>2, <2>3
<1>9. \A p, r \in P : to(p) = to(r) => p = r
  <2> SUFFICES ASSUME NEW p \in P, NEW r \in P, to(p) = to(r) PROVE p = r
    OBVIOUS
  <2>1. PICK b, k : p = <<b, k>>
    BY <1>4
  <2>2. PICK c, l : r = <<c, l>>
    BY <1>4
  <2>3. CASE b = a /\ c = a
    <3>1. k \in Nat /\ l \in Nat
      BY <1>2, <2>1, <2>2, <2>3
    <3>2. <<a, k + 1>> = <<a, l + 1>>
      BY <1>7, <2>1, <2>2, <2>3
    <3> QED
      BY <2>1, <2>2, <2>3, <3>1, <3>2
  <2>4. CASE b = a /\ c # a
    BY <1>7, <2>1, <2>2, <2>4
  <2>5. CASE b # a /\ c = a
    BY <1>7, <2>1, <2>2, <2>5
  <2>6. CASE b # a /\ c # a
    BY <1>7, <2>1, <2>2, <2>6
  <2> QED
    BY <2>3, <2>4, <2>5, <2>6
<1>10. \A s \in Q : \E p \in P : to(p) = s
  <2> SUFFICES ASSUME NEW s \in Q PROVE \E p \in P : to(p) = s
    OBVIOUS
  <2>1. PICK b, k : s = <<b, k>>
    BY <1>5
  <2>2. CASE b = a
    <3>1. k - 1 \in Nat \ {0} /\ (k - 1) + 1 = k
      BY <1>6, <2>1, <2>2
    <3>2. <<a, k - 1>> \in P /\ to(<<a, k - 1>>) = <<a, k>>
      BY <1>2, <1>7, <2>1, <2>2, <3>1
    <3> QED
      BY <2>1, <2>2, <3>2
  <2>3. CASE b # a
    <3>1. s \in P /\ to(s) = s
      BY <1>3, <1>7, <2>1, <2>3
    <3> QED
      BY <3>1
  <2> QED
    BY <2>2, <2>3
<1>11. ExistsBijection(P, Q)
  <2>1. move \in [P -> Q] /\ \A p \in P : move[p] = to(p)
    BY <1>8
  <2> HIDE DEF move
  <2>2. move \in Injection(P, Q)
    BY <1>9, <2>1 DEF Injection, IsInjective
  <2>3. move \in Surjection(P, Q)
    BY <1>10, <2>1 DEF Surjection
  <2> QED
    BY <2>2, <2>3 DEF ExistsBijection, Bijection
<1>12. ExistsBijection(Q, P)
  BY <1>11, Fun_ExistsBijSymmetric
<1>13. IsFiniteSet(P) /\ Cardinality(P) = Cardinality(Q)
  BY <1>1, <1>12, FS_Bijection
<1> QED
  BY <1>1, <1>13 DEF P

\* Empty sequences have no places, and stop messages are not counted.
LEMMA PlacesEmpty ==
  ASSUME NEW S, NEW q, \A b \in S : q[b] = << >>
  PROVE  IsFiniteSet(appPlaces(q, S)) /\ Cardinality(appPlaces(q, S)) = 0
<1>1. \A b \in S : \A k : ~ IsApp(q[b], k)
  BY DEF IsApp
<1>2. appPlaces(q, S) = {}
  BY <1>1, PlaceIsPair
<1> QED
  BY <1>2, FS_EmptySet

LEMMA PlacesStops ==
  ASSUME NEW S, NEW q, NEW f, NEW a, NEW z, Concatenated(q, f, S, a, z),
         \A k \in 1 .. Len(z) : z[k].stop
  PROVE  Grows(q, f, S, 0)
<1> USE DEF Concatenated
<1>0. q[a] \in Seq(Message)
  OBVIOUS
<1>1. ASSUME NEW k PROVE IsApp(f[a], k) <=> IsApp(q[a], k)
  <2>1. CASE k \in 1 .. Len(q[a])
    BY <1>0, <2>1 DEF IsApp
  <2>2. CASE k \in Len(q[a]) + 1 .. Len(q[a]) + Len(z)
    <3>1. k - Len(q[a]) \in 1 .. Len(z) /\ f[a][k] = z[k - Len(q[a])]
      BY <1>0, <2>2
    <3>2. k \notin 1 .. Len(q[a]) /\ DOMAIN q[a] = 1 .. Len(q[a])
      BY <1>0, <2>2
    <3> QED
      BY <3>1, <3>2 DEF IsApp
  <2>3. CASE k \notin 1 .. Len(q[a]) + Len(z)
    <3>1. DOMAIN f[a] = 1 .. Len(q[a]) + Len(z) /\ DOMAIN q[a] = 1 .. Len(q[a])
      BY <1>0
    <3>2. k \notin DOMAIN q[a]
      BY <1>0, <2>3, <3>1
    <3> QED
      BY <2>3, <3>1, <3>2 DEF IsApp
  <2> QED
    BY <1>0, <2>1, <2>2, <2>3
<1>2. ASSUME NEW b, NEW k PROVE <<b, k>> \in appPlaces(f, S) <=> <<b, k>> \in appPlaces(q, S)
  <2>1. /\ <<b, k>> \in appPlaces(f, S) <=> b \in S /\ IsApp(f[b], k)
        /\ <<b, k>> \in appPlaces(q, S) <=> b \in S /\ IsApp(q[b], k)
    BY InPlaces
  <2>2. CASE b = a
    BY <1>1, <2>1, <2>2
  <2>3. CASE b # a
    BY <2>1, <2>3
  <2> QED
    BY <2>2, <2>3
<1>3. ASSUME NEW p \in appPlaces(f, S) PROVE p \in appPlaces(q, S)
  <2>1. PICK b, k : p = <<b, k>>
    BY PlaceIsPair
  <2> QED
    BY <1>2, <2>1
<1>4. ASSUME NEW p \in appPlaces(q, S) PROVE p \in appPlaces(f, S)
  <2>1. PICK b, k : p = <<b, k>>
    BY PlaceIsPair
  <2> QED
    BY <1>2, <2>1
<1>5. appPlaces(f, S) = appPlaces(q, S)
  BY <1>3, <1>4, Zenon
<1> QED
  BY <1>5, FS_CardinalityType DEF Grows

\* What is counted, and that a rank holds a message only while it pushes it (or
\* has read a wild pointer in the attempt).
CountInv ==
  /\ IsFiniteSet(appPlaces(m_outbox, MiniRank))
  /\ IsFiniteSet(appPlaces(m_bufferedOutbox, MiniRank))
  /\ IsFiniteSet(appPlaces(channels, Rank \X Rank))
  /\ IsFiniteSet(appPlaces(hand, Rank))
  /\ IsFiniteSet(appPlaces(m_bufferedInbox, MiniRank))
  /\ Conserved
  /\ outstanding <= MaxOutstanding
  /\ \A r \in Rank : rankPc[r] \notin {"push", "undefined"} => hand[r] = << >>

LEMMA CountsAreNat ==
  ASSUME CountInv
  PROVE  /\ Cardinality(appPlaces(m_outbox, MiniRank)) \in Nat
         /\ Cardinality(appPlaces(m_bufferedOutbox, MiniRank)) \in Nat
         /\ Cardinality(appPlaces(channels, Rank \X Rank)) \in Nat
         /\ Cardinality(appPlaces(hand, Rank)) \in Nat
         /\ Cardinality(appPlaces(m_bufferedInbox, MiniRank)) \in Nat
BY FS_CardinalityType DEF CountInv

LEMMA InitCountInv == Init => CountInv
<1> SUFFICES ASSUME Init PROVE CountInv
  OBVIOUS
<1>1. /\ \A m \in MiniRank : m_outbox[m] = << >> /\ m_bufferedOutbox[m] = << >> /\ m_bufferedInbox[m] = << >>
      /\ \A r \in Rank : hand[r] = << >>
      /\ \A c \in Rank \X Rank : channels[c] = << >>
  BY DEF Init, channels
<1>2. 0 <= MaxOutstanding
  BY MiniRanksAssumption
<1> QED
  BY <1>1, <1>2, PlacesEmpty DEF CountInv, Conserved, Init

\* The steps that move no message.
LEMMA QuietCountInv ==
  ASSUME CountInv, UNCHANGED <<m_outbox, m_bufferedOutbox, net, hand, m_bufferedInbox, outstanding>>,
         \A r \in Rank : rankPc'[r] \notin {"push", "undefined"} => rankPc[r] \notin {"push", "undefined"}
  PROVE  CountInv'
BY DEF CountInv, Conserved, channels

LEMMA ReceiveMessagesCountInv ==
  ASSUME IInv, CountInv, NEW m \in MiniRank, ReceiveMessages(m)
  PROVE  CountInv'
<1> DEFINE inbox == m_bufferedInbox[m]
<1>1. UNCHANGED <<m_bufferedOutbox, m_outbox, rankVars>>
  BY DEF ReceiveMessages
<1>2. CASE inbox = << >>
  BY <1>1, <1>2, QuietCountInv DEF ReceiveMessages, rankVars
<1>3. CASE inbox # << >>
  <2>1. /\ m_bufferedInbox' = [m_bufferedInbox EXCEPT ![m] = Tail(inbox)]
        /\ outstanding' = outstanding - one(Head(inbox))
    BY <1>3 DEF ReceiveMessages, one, IInv, ThreadsTypeOK
  <2>2. m_bufferedInbox \in [MiniRank -> Seq(Message)] /\ Tail(inbox) \in Seq(Message)
    BY <1>3, Queues DEF IInv, Routed
  <2>3. /\ IsFiniteSet(appPlaces(m_bufferedInbox', MiniRank))
        /\ Cardinality(appPlaces(m_bufferedInbox', MiniRank))
             = Cardinality(appPlaces(m_bufferedInbox, MiniRank)) - one(Head(inbox))
    <3>1. Popped(m_bufferedInbox, m_bufferedInbox', MiniRank, m, Head(inbox))
      BY <1>3, <2>1, <2>2 DEF Popped
    <3>2. Grows(m_bufferedInbox, m_bufferedInbox', MiniRank, - one(Head(inbox)))
      BY <3>1, PlacesTail
    <3> QED
      BY <3>2, CountsAreNat DEF CountInv, Grows, one
  <2>4. one(Head(inbox)) \in {0, 1} /\ outstanding \in Int /\ MaxOutstanding \in Nat
    BY MiniRanksAssumption DEF one, IInv, ThreadsTypeOK
  <2>5. channels' = channels
    BY <1>1 DEF channels, rankVars
  <2> HIDE DEF inbox
  <2>6. Conserved' /\ outstanding' <= MaxOutstanding
    BY <1>1, <2>1, <2>3, <2>4, <2>5, CountsAreNat DEF CountInv, Conserved, rankVars
  <2> QED
    BY <1>1, <2>3, <2>5, <2>6 DEF CountInv, rankVars
<1> QED
  BY <1>2, <1>3

LEMMA CreateCountInv ==
  ASSUME IInv, CountInv, NEW m \in MiniRank, NEW d \in MiniRank, Create(m, d)
  PROVE  CountInv'
<1> DEFINE x == [dst |-> d, stop |-> FALSE]
<1>1. x \in Message /\ one(x) = 1
  BY DEF Message, one
<1>2. /\ UNCHANGED <<queueVars, rankVars>>
      /\ outstanding < MaxOutstanding /\ outstanding' = outstanding + 1
      /\ m_outbox' = [m_outbox EXCEPT ![m] = Append(@, x)]
  BY DEF Create
<1> HIDE DEF x
<1>3. m_outbox \in [MiniRank -> Seq(Message)] /\ m_outbox' \in [MiniRank -> Seq(Message)]
  <2>1. m_outbox \in [MiniRank -> Seq(Message)]
    BY DEF IInv, Routed
  <2> QED
    BY <1>1, <1>2, <2>1, Queues
<1>4. /\ IsFiniteSet(appPlaces(m_outbox', MiniRank))
      /\ Cardinality(appPlaces(m_outbox', MiniRank)) = Cardinality(appPlaces(m_outbox, MiniRank)) + 1
  <2>1. /\ m_outbox'[m] = Append(m_outbox[m], x)
        /\ \A n \in MiniRank \ {m} : m_outbox'[n] = m_outbox[n]
    BY <1>2, <1>3
  <2>2. Pushed(m_outbox, m_outbox', MiniRank, m, x)
    BY <1>1, <1>3, <2>1 DEF Pushed
  <2>3. Grows(m_outbox, m_outbox', MiniRank, one(x))
    BY <2>2, PlacesAppend
  <2> QED
    BY <1>1, <2>3 DEF CountInv, Grows
<1>5. outstanding \in Int /\ MaxOutstanding \in Nat
  BY MiniRanksAssumption DEF IInv, ThreadsTypeOK
<1>6. channels' = channels
  BY <1>2 DEF channels, rankVars
<1>7. Conserved' /\ outstanding' <= MaxOutstanding
  BY <1>2, <1>4, <1>5, <1>6, CountsAreNat DEF CountInv, Conserved, rankVars, queueVars
<1> QED
  BY <1>2, <1>4, <1>6, <1>7 DEF CountInv, rankVars, queueVars

LEMMA StopCountInv ==
  ASSUME IInv, CountInv, Stop
  PROVE  CountInv'
<1> DEFINE stops == [k \in 1 .. NumRanks * PerRank |-> [dst |-> k - 1, stop |-> TRUE]]
<1>0. NumRanks * PerRank \in Nat /\ NumRanks * PerRank > 0
  BY MiniRanksAssumption
<1>1. stops \in Seq(Message) /\ \A k \in 1 .. Len(stops) : stops[k].stop
  <2>1. \A k \in 1 .. NumRanks * PerRank : [dst |-> k - 1, stop |-> TRUE] \in Message
    <3>1. \A k \in 1 .. NumRanks * PerRank : k - 1 \in MiniRank
      BY <1>0 DEF MiniRank
    <3> QED
      BY <3>1 DEF Message
  <2>2. stops \in [1 .. NumRanks * PerRank -> Message]
    BY <2>1
  <2>3. \A k \in 1 .. NumRanks * PerRank : stops[k].stop
    OBVIOUS
  <2>4. \A n \in Nat : \A q \in [1 .. n -> Message] : q \in Seq(Message) /\ Len(q) = n
    OBVIOUS
  <2> HIDE DEF stops
  <2> QED
    BY <1>0, <2>2, <2>3, <2>4
<1>2. MASTER_RANK \in MiniRank
  BY <1>0 DEF MASTER_RANK, MiniRank
<1>3. /\ UNCHANGED <<queueVars, outstanding, rankVars>>
      /\ m_outbox' = [m_outbox EXCEPT ![MASTER_RANK] = m_outbox[MASTER_RANK] \o stops]
  BY <1>2 DEF Stop, IInv, Routed
<1> HIDE DEF stops
<1>4. m_outbox \in [MiniRank -> Seq(Message)] /\ m_outbox' \in [MiniRank -> Seq(Message)]
  <2>1. m_outbox \in [MiniRank -> Seq(Message)]
    BY DEF IInv, Routed
  <2>2. m_outbox[MASTER_RANK] \o stops \in Seq(Message)
    BY <1>1, <1>2, <2>1
  <2> QED
    BY <1>3, <2>1, <2>2
<1>5. Grows(m_outbox, m_outbox', MiniRank, 0)
  <2>1. /\ m_outbox'[MASTER_RANK] = m_outbox[MASTER_RANK] \o stops
        /\ \A n \in MiniRank \ {MASTER_RANK} : m_outbox'[n] = m_outbox[n]
    BY <1>2, <1>3, <1>4
  <2> QED
    <3>1. Concatenated(m_outbox, m_outbox', MiniRank, MASTER_RANK, stops)
      BY <1>1, <1>2, <1>4, <2>1 DEF Concatenated
    <3> QED
      BY <1>1, <3>1, PlacesStops
<1>6. channels' = channels
  BY <1>3 DEF channels, rankVars
<1> QED
  BY <1>3, <1>5, <1>6, CountsAreNat DEF CountInv, Conserved, Grows, rankVars, queueVars

LEMMA PushOutboxCountInv ==
  ASSUME IInv, CountInv, NEW m \in MiniRank, PushOutbox(m)
  PROVE  CountInv'
<1> DEFINE x == Head(m_outbox[m])
<1>1. /\ m_outbox[m] # << >>
      /\ m_bufferedOutbox' = [m_bufferedOutbox EXCEPT ![m] = Append(@, x)]
      /\ m_outbox' = [m_outbox EXCEPT ![m] = Tail(@)]
      /\ UNCHANGED <<m_bufferedInbox, outstanding, rankVars>>
  BY DEF PushOutbox
<1>2. /\ m_outbox \in [MiniRank -> Seq(Message)] /\ m_bufferedOutbox \in [MiniRank -> Seq(Message)]
      /\ m_outbox' \in [MiniRank -> Seq(Message)] /\ m_bufferedOutbox' \in [MiniRank -> Seq(Message)]
      /\ x \in Message
  <2>1. m_outbox \in [MiniRank -> Seq(Message)] /\ m_bufferedOutbox \in [MiniRank -> Seq(Message)]
    BY DEF IInv, Routed
  <2>2. x \in Message /\ Tail(m_outbox[m]) \in Seq(Message)
    BY <1>1, <2>1, Queues
  <2>3. Append(m_bufferedOutbox[m], x) \in Seq(Message)
    BY <2>1, <2>2, Queues
  <2> QED
    BY <1>1, <2>1, <2>2, <2>3
<1>3. /\ IsFiniteSet(appPlaces(m_outbox', MiniRank))
      /\ Cardinality(appPlaces(m_outbox', MiniRank)) = Cardinality(appPlaces(m_outbox, MiniRank)) - one(x)
  <2>1. /\ m_outbox'[m] = Tail(m_outbox[m])
        /\ \A n \in MiniRank \ {m} : m_outbox'[n] = m_outbox[n]
    BY <1>1, <1>2
  <2>2. Popped(m_outbox, m_outbox', MiniRank, m, x)
    BY <1>1, <1>2, <2>1 DEF Popped
  <2>3. Grows(m_outbox, m_outbox', MiniRank, - one(x))
    BY <2>2, PlacesTail
  <2> QED
    BY <2>3, CountsAreNat DEF CountInv, Grows, one
<1>4. /\ IsFiniteSet(appPlaces(m_bufferedOutbox', MiniRank))
      /\ Cardinality(appPlaces(m_bufferedOutbox', MiniRank))
           = Cardinality(appPlaces(m_bufferedOutbox, MiniRank)) + one(x)
  <2> HIDE DEF x
  <2>1. /\ m_bufferedOutbox'[m] = Append(m_bufferedOutbox[m], x)
        /\ \A n \in MiniRank \ {m} : m_bufferedOutbox'[n] = m_bufferedOutbox[n]
    BY <1>1, <1>2
  <2>2. Pushed(m_bufferedOutbox, m_bufferedOutbox', MiniRank, m, x)
    BY <1>2, <2>1 DEF Pushed
  <2>3. Grows(m_bufferedOutbox, m_bufferedOutbox', MiniRank, one(x))
    BY <2>2, PlacesAppend
  <2> QED
    BY <2>3 DEF CountInv, Grows
<1>5. one(x) \in {0, 1}
  BY DEF one
<1>6. channels' = channels
  BY <1>1 DEF channels, rankVars
<1> HIDE DEF x
<1>7. Conserved'
  BY <1>1, <1>3, <1>4, <1>5, <1>6, CountsAreNat DEF CountInv, Conserved, rankVars
<1> QED
  BY <1>1, <1>3, <1>4, <1>6, <1>7 DEF CountInv, rankVars

\* From f to g, the channel from s to r is set to x.
ChannelSet(f, g, s, r, x) ==
  /\ f \in [Rank -> [Rank -> Seq(Message)]] /\ g \in [Rank -> [Rank -> Seq(Message)]]
  /\ s \in Rank /\ r \in Rank /\ x \in Seq(Message)
  /\ \A u, v \in Rank : g[u][v] = IF u = s /\ v = r THEN x ELSE f[u][v]

\* One channel of net is one entry of channels.
LEMMA ChannelOf ==
  ASSUME NEW s, NEW r, NEW x, ChannelSet(net, net', s, r, x)
  PROVE  /\ channels \in [Rank \X Rank -> Seq(Message)] /\ channels' \in [Rank \X Rank -> Seq(Message)]
         /\ <<s, r>> \in Rank \X Rank /\ channels[<<s, r>>] = net[s][r] /\ channels'[<<s, r>>] = x
         /\ \A c \in (Rank \X Rank) \ {<<s, r>>} : channels'[c] = channels[c]
<1> USE DEF ChannelSet
<1>1. <<s, r>> \in Rank \X Rank
  OBVIOUS
<1>2. /\ \A c \in Rank \X Rank : channels[c] = net[c[1]][c[2]] /\ channels'[c] = net'[c[1]][c[2]]
      /\ channels = [c \in Rank \X Rank |-> channels[c]]
      /\ channels' = [c \in Rank \X Rank |-> channels'[c]]
  BY DEF channels
<1>3. channels \in [Rank \X Rank -> Seq(Message)] /\ channels' \in [Rank \X Rank -> Seq(Message)]
  <2>1. \A c \in Rank \X Rank : net[c[1]][c[2]] \in Seq(Message) /\ net'[c[1]][c[2]] \in Seq(Message)
    OBVIOUS
  <2> QED
    BY <2>1 DEF channels
<1>4. channels[<<s, r>>] = net[s][r] /\ channels'[<<s, r>>] = x
  BY <1>1, <1>2
<1>5. ASSUME NEW c \in (Rank \X Rank) \ {<<s, r>>} PROVE channels'[c] = channels[c]
  <2>1. PICK u \in Rank, v \in Rank : c = <<u, v>>
    OBVIOUS
  <2>2. ~ (u = s /\ v = r)
    BY <2>1
  <2>3. channels'[c] = net'[u][v] /\ channels[c] = net[u][v]
    BY <1>2, <2>1
  <2> QED
    BY <2>2, <2>3
<1> QED
  BY <1>1, <1>3, <1>4, <1>5

LEMMA IsendForMiniRankCountInv ==
  ASSUME IInv, CountInv, NEW r \in Rank, IsendForMiniRank(r)
  PROVE  CountInv'
<1> DEFINE c == current(r)
           x == Head(m_bufferedOutbox[c])
           d == rankOf(x.dst)
<1>1. /\ m_bufferedOutbox[c] # << >>
      /\ UNCHANGED <<m_bufferedInbox, miniVars, rankPc, hand>>
      /\ m_bufferedOutbox' = [m_bufferedOutbox EXCEPT ![c] = Tail(m_bufferedOutbox[c])]
      /\ net' = [net EXCEPT ![r][d] = Append(@, x)]
  BY DEF IsendForMiniRank
<1>2. c \in MiniRank
  BY Visiting
<1>3. m_bufferedOutbox \in [MiniRank -> Seq(Message)] /\ net \in [Rank -> [Rank -> Seq(Message)]]
  BY DEF IInv, Routed
<1>4. x \in Message /\ Tail(m_bufferedOutbox[c]) \in Seq(Message)
  BY <1>1, <1>2, <1>3, Queues
<1>5. d \in Rank
  BY <1>4, Cores DEF Message
<1>6. /\ m_bufferedOutbox' \in [MiniRank -> Seq(Message)] /\ m_bufferedOutbox'[c] = Tail(m_bufferedOutbox[c])
      /\ \A n \in MiniRank \ {c} : m_bufferedOutbox'[n] = m_bufferedOutbox[n]
  <2> HIDE DEF c, x, d
  <2> QED
    BY <1>1, <1>2, <1>3, <1>4
<1>7. /\ IsFiniteSet(appPlaces(m_bufferedOutbox', MiniRank))
      /\ Cardinality(appPlaces(m_bufferedOutbox', MiniRank))
           = Cardinality(appPlaces(m_bufferedOutbox, MiniRank)) - one(x)
  <2>1. Popped(m_bufferedOutbox, m_bufferedOutbox', MiniRank, c, x)
    BY <1>1, <1>2, <1>3, <1>6 DEF Popped
  <2>2. Grows(m_bufferedOutbox, m_bufferedOutbox', MiniRank, - one(x))
    BY <2>1, PlacesTail
  <2> QED
    BY <2>2, CountsAreNat DEF CountInv, Grows, one
<1> HIDE DEF c, x, d
<1>8. Append(net[r][d], x) \in Seq(Message)
  BY <1>3, <1>4, <1>5, Queues
<1>9. /\ net' \in [Rank -> [Rank -> Seq(Message)]]
      /\ \A u, v \in Rank : net'[u][v] = IF u = r /\ v = d THEN Append(net[r][d], x) ELSE net[u][v]
  <2>1. net' = [net EXCEPT ![r][d] = Append(net[r][d], x)]
    BY <1>1, <1>3, <1>5
  <2> QED
    BY <1>3, <1>5, <1>8, <2>1, OneChannel
<1>10. /\ channels \in [Rank \X Rank -> Seq(Message)] /\ channels' \in [Rank \X Rank -> Seq(Message)]
       /\ <<r, d>> \in Rank \X Rank /\ channels'[<<r, d>>] = Append(channels[<<r, d>>], x)
       /\ \A e \in (Rank \X Rank) \ {<<r, d>>} : channels'[e] = channels[e]
  <2> DEFINE full == Append(net[r][d], x)
  <2>1. ChannelSet(net, net', r, d, full)
    BY <1>3, <1>5, <1>8, <1>9 DEF ChannelSet
  <2> HIDE DEF full
  <2>2. /\ channels \in [Rank \X Rank -> Seq(Message)] /\ channels' \in [Rank \X Rank -> Seq(Message)]
        /\ <<r, d>> \in Rank \X Rank /\ channels[<<r, d>>] = net[r][d] /\ channels'[<<r, d>>] = full
        /\ \A e \in (Rank \X Rank) \ {<<r, d>>} : channels'[e] = channels[e]
    BY <2>1, ChannelOf
  <2> QED
    BY <2>2 DEF full
<1>11. /\ IsFiniteSet(appPlaces(channels', Rank \X Rank))
       /\ Cardinality(appPlaces(channels', Rank \X Rank))
            = Cardinality(appPlaces(channels, Rank \X Rank)) + one(x)
  <2>1. Pushed(channels, channels', Rank \X Rank, <<r, d>>, x)
    BY <1>4, <1>10 DEF Pushed
  <2>2. Grows(channels, channels', Rank \X Rank, one(x))
    BY <2>1, PlacesAppend
  <2> QED
    BY <2>2 DEF CountInv, Grows
<1>12. one(x) \in {0, 1}
  BY DEF one
<1>13. Conserved'
  BY <1>1, <1>7, <1>11, <1>12, CountsAreNat DEF CountInv, Conserved, miniVars
<1> QED
  BY <1>1, <1>7, <1>11, <1>13 DEF CountInv, miniVars

LEMMA ReceiveCountInv ==
  ASSUME IInv, CountInv, NEW r \in Rank, NEW s \in Rank, Receive(r, s)
  PROVE  CountInv'
<1> DEFINE x == Head(net[s][r])
           left == Tail(net[s][r])
<1>1. /\ rankPc[r] = "probe" /\ rankPc' = [rankPc EXCEPT ![r] = "push"] /\ net[s][r] # << >>
      /\ hand' = [hand EXCEPT ![r] = <<x>>]
      /\ net' = [net EXCEPT ![s][r] = Tail(@)]
      /\ UNCHANGED <<queueVars, miniVars>>
  BY DEF Receive, goRank
<1>2. net \in [Rank -> [Rank -> Seq(Message)]] /\ hand \in [Rank -> Seq(Message)]
  BY DEF IInv, Routed
<1>3. x \in Message /\ left \in Seq(Message)
  BY <1>1, <1>2, Queues
<1>4. /\ net' \in [Rank -> [Rank -> Seq(Message)]]
      /\ \A u, v \in Rank : net'[u][v] = IF u = s /\ v = r THEN left ELSE net[u][v]
  <2>1. net' = [net EXCEPT ![s][r] = left]
    BY <1>1, <1>2
  <2> HIDE DEF left
  <2> QED
    BY <1>2, <1>3, <2>1, OneChannel
<1>5. /\ channels \in [Rank \X Rank -> Seq(Message)] /\ channels' \in [Rank \X Rank -> Seq(Message)]
      /\ <<s, r>> \in Rank \X Rank /\ channels[<<s, r>>] = net[s][r] /\ channels'[<<s, r>>] = left
      /\ \A e \in (Rank \X Rank) \ {<<s, r>>} : channels'[e] = channels[e]
  <2> HIDE DEF left
  <2> QED
    <3>1. ChannelSet(net, net', s, r, left)
      BY <1>2, <1>3, <1>4 DEF ChannelSet
    <3> QED
      BY <3>1, ChannelOf
<1>6. /\ IsFiniteSet(appPlaces(channels', Rank \X Rank))
      /\ Cardinality(appPlaces(channels', Rank \X Rank))
           = Cardinality(appPlaces(channels, Rank \X Rank)) - one(x)
  <2>1. channels[<<s, r>>] # << >> /\ channels'[<<s, r>>] = Tail(channels[<<s, r>>]) /\ x = Head(channels[<<s, r>>])
    BY <1>1, <1>5
  <2>2. Popped(channels, channels', Rank \X Rank, <<s, r>>, x)
    BY <1>5, <2>1 DEF Popped
  <2>3. Grows(channels, channels', Rank \X Rank, - one(x))
    BY <2>2, PlacesTail
  <2> QED
    BY <2>3, CountsAreNat DEF CountInv, Grows, one
<1> HIDE DEF x, left
<1>7. hand[r] = << >>
  BY <1>1 DEF CountInv
<1>8. /\ hand' \in [Rank -> Seq(Message)] /\ hand'[r] = Append(hand[r], x)
      /\ \A u \in Rank \ {r} : hand'[u] = hand[u]
  <2>1. <<x>> \in Seq(Message) /\ <<x>> = Append(<< >>, x)
    BY <1>3
  <2>2. hand' \in [Rank -> Seq(Message)] /\ hand'[r] = <<x>> /\ \A u \in Rank \ {r} : hand'[u] = hand[u]
    BY <1>1, <1>2, <2>1
  <2> QED
    BY <1>7, <2>1, <2>2
<1>9. /\ IsFiniteSet(appPlaces(hand', Rank))
      /\ Cardinality(appPlaces(hand', Rank)) = Cardinality(appPlaces(hand, Rank)) + one(x)
  <2>1. Pushed(hand, hand', Rank, r, x)
    BY <1>2, <1>3, <1>8 DEF Pushed
  <2>2. Grows(hand, hand', Rank, one(x))
    BY <2>1, PlacesAppend
  <2> QED
    BY <2>2 DEF CountInv, Grows
<1>10. one(x) \in {0, 1}
  BY DEF one
<1>11. Conserved'
  BY <1>1, <1>6, <1>9, <1>10, CountsAreNat DEF CountInv, Conserved, miniVars, queueVars
<1>12. \A u \in Rank : rankPc'[u] \notin {"push", "undefined"} => hand'[u] = << >>
  BY <1>1, <1>8 DEF CountInv, IInv, ThreadsTypeOK
<1> QED
  BY <1>1, <1>6, <1>9, <1>11, <1>12 DEF CountInv, miniVars, queueVars

LEMMA PushInboxCountInv ==
  ASSUME IInv, CountInv, NEW r \in Rank, PushInbox(r)
  PROVE  CountInv'
<1> DEFINE d == destination(r)
           x == hand[r][1]
<1>1. /\ rankPc[r] = "push" /\ rankPc' = [rankPc EXCEPT ![r] = "next"]
      /\ m_bufferedInbox' = [m_bufferedInbox EXCEPT ![d] = Append(@, x)]
      /\ hand' = [hand EXCEPT ![r] = << >>]
      /\ UNCHANGED <<m_bufferedOutbox, miniVars, net>>
  BY DEF PushInbox, goRank
<1>2. d \in MiniRank /\ x \in Message
  BY <1>1, HandIsForMe
<1>3. hand \in [Rank -> Seq(Message)] /\ m_bufferedInbox \in [MiniRank -> Seq(Message)]
  BY DEF IInv, Routed
<1>4. hand[r] # << >> /\ Tail(hand[r]) = << >> /\ x = Head(hand[r])
  <2>1. hand[r] \in Seq(Message) /\ Len(hand[r]) = 1
    BY <1>1, <1>3 DEF IInv, Routed
  <2>2. hand[r] # << >> /\ x = Head(hand[r])
    BY <2>1
  <2>3. Tail(hand[r]) \in Seq(Message) /\ Len(Tail(hand[r])) = 0
    BY <2>1, <2>2, Queues
  <2>4. \A q \in Seq(Message) : Len(q) = 0 => q = << >>
    OBVIOUS
  <2> QED
    BY <2>2, <2>3, <2>4
<1> HIDE DEF d, x
<1>5. /\ hand' \in [Rank -> Seq(Message)] /\ hand'[r] = Tail(hand[r])
      /\ \A u \in Rank \ {r} : hand'[u] = hand[u]
  BY <1>1, <1>3, <1>4, EmptyQueue
<1>6. /\ IsFiniteSet(appPlaces(hand', Rank))
      /\ Cardinality(appPlaces(hand', Rank)) = Cardinality(appPlaces(hand, Rank)) - one(x)
  <2>1. Popped(hand, hand', Rank, r, x)
    BY <1>3, <1>4, <1>5 DEF Popped
  <2>2. Grows(hand, hand', Rank, - one(x))
    BY <2>1, PlacesTail
  <2> QED
    BY <2>2, CountsAreNat DEF CountInv, Grows, one
<1>7. /\ m_bufferedInbox' \in [MiniRank -> Seq(Message)] /\ m_bufferedInbox'[d] = Append(m_bufferedInbox[d], x)
      /\ \A n \in MiniRank \ {d} : m_bufferedInbox'[n] = m_bufferedInbox[n]
  <2>1. Append(m_bufferedInbox[d], x) \in Seq(Message)
    BY <1>2, <1>3, Queues
  <2> QED
    BY <1>1, <1>2, <1>3, <2>1
<1>8. /\ IsFiniteSet(appPlaces(m_bufferedInbox', MiniRank))
      /\ Cardinality(appPlaces(m_bufferedInbox', MiniRank))
           = Cardinality(appPlaces(m_bufferedInbox, MiniRank)) + one(x)
  <2>1. Pushed(m_bufferedInbox, m_bufferedInbox', MiniRank, d, x)
    BY <1>2, <1>3, <1>7 DEF Pushed
  <2>2. Grows(m_bufferedInbox, m_bufferedInbox', MiniRank, one(x))
    BY <2>1, PlacesAppend
  <2> QED
    BY <2>2 DEF CountInv, Grows
<1>9. one(x) \in {0, 1}
  BY DEF one
<1>10. channels' = channels
  BY <1>1 DEF channels
<1>11. Conserved'
  BY <1>1, <1>6, <1>8, <1>9, <1>10, CountsAreNat DEF CountInv, Conserved, miniVars
<1>12. \A u \in Rank : rankPc'[u] \notin {"push", "undefined"} => hand'[u] = << >>
  BY <1>1, <1>4, <1>5 DEF CountInv, IInv, ThreadsTypeOK
<1> QED
  BY <1>1, <1>6, <1>8, <1>10, <1>11, <1>12 DEF CountInv, miniVars

LEMMA NextCountInv == IInv /\ CountInv /\ [Next]_vars => CountInv'
<1> SUFFICES ASSUME IInv, CountInv, [Next]_vars PROVE CountInv'
  OBVIOUS
<1>1. ASSUME NEW m \in MiniRank, MiniRankThread(m) PROVE CountInv'
  <2>1. CASE ConfigureEngine(m) \/ SendMessages(m) \/ EndOfTick(m) \/ SendKillSignal(m) \/ Return(m)
    BY <2>1, QuietCountInv DEF ConfigureEngine, SendMessages, EndOfTick, SendKillSignal, Return, queueVars, rankVars
  <2> QED
    BY <1>1, <2>1, ReceiveMessagesCountInv, CreateCountInv, PushOutboxCountInv DEF MiniRankThread
<1>2. CASE Stop
  BY <1>2, StopCountInv
<1>3. ASSUME NEW r \in Rank, RankThread(r) PROVE CountInv'
  <2>1. CASE IsDead(r) \/ OutboxEmpty(r) \/ WildOutbox(r) \/ ProbeNothing(r) \/ WildInbox(r) \/ NextMiniRank(r)
    <3>1. UNCHANGED <<queueVars, miniVars, hand, net>>
      BY <2>1 DEF IsDead, OutboxEmpty, WildOutbox, ProbeNothing, WildInbox, NextMiniRank
    <3>2. \E pc : /\ rankPc' = [rankPc EXCEPT ![r] = pc]
                  /\ rankPc[r] \in {"push", "undefined"} => pc = "undefined"
      BY <2>1 DEF IsDead, OutboxEmpty, WildOutbox, ProbeNothing, WildInbox, NextMiniRank, goRank
    <3>3. \A u \in Rank : rankPc'[u] \notin {"push", "undefined"} => rankPc[u] \notin {"push", "undefined"}
      BY <3>2 DEF IInv, ThreadsTypeOK
    <3> QED
      BY <3>1, <3>3, QuietCountInv DEF queueVars, miniVars
  <2> QED
    BY <1>3, <2>1, IsendForMiniRankCountInv, ReceiveCountInv, PushInboxCountInv DEF RankThread
<1>4. CASE UNCHANGED vars
  BY <1>4, QuietCountInv DEF vars, queueVars, miniVars, rankVars
<1> QED
  BY <1>1, <1>2, <1>3, <1>4 DEF Next

LEMMA Counting == Spec => []CountInv
<1>1. IInv /\ CountInv /\ [Next]_vars => CountInv'
  BY NextCountInv
<1> QED
  BY <1>1, InitCountInv, Invariance, PTL DEF Spec

\* No application message is lost or duplicated between sendMessagesForComputeCore
\* of one mini-rank and receiveMessages of another, whatever the interleaving of
\* the threads and the time at which the queues are constructed.
THEOREM MessagesAreConserved == Spec => []Conserved
<1>1. CountInv => Conserved
  BY DEF CountInv
<1> QED
  BY <1>1, Counting, PTL

\* The threads of a job are where the code can be, no queue holds more than its
\* bins, and a rank counts at most its own mini-ranks as dead in one pass.  That
\* no mini-rank receives more than was sent (outstanding is never negative) is
\* the conservation of messages.
THEOREM TypeCorrect == Spec => []TypeOK
<1>1. IInv /\ CountInv => TypeOK
  <2> SUFFICES ASSUME IInv, CountInv PROVE TypeOK
    OBVIOUS
  <2>1. outstanding \in 0 .. MaxOutstanding
    BY CountsAreNat, MiniRanksAssumption DEF CountInv, Conserved
  <2> QED
    BY <2>1 DEF IInv, ThreadsTypeOK, Routed, TypeOK
<1> QED
  BY <1>1, Invariance, Counting, PTL
==============================================================================
