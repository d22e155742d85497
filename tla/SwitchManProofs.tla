--------------------------- MODULE SwitchManProofs ---------------------------
(***************************************************************************)
(* For every number of ranks and every chain of modes, the barrier of      *)
(* scheduling/SwitchMan.cpp keeps the ranks in one mode, counts every rank *)
(* once, and lets the master on only when every rank is through.           *)
(***************************************************************************)
EXTENDS SwitchMan, FiniteSetTheorems, TLAPS

\* The number of the mode that the master opened is on its way to r.
Summoned(r) == net[MASTER_RANK][r] = <<m_masterMode>>

\* The completion of r is on its way to the master.
Reporting(r) == net[r][MASTER_RANK] = <<COMPLETION_SIGNAL>>

\* Only two kinds of messages travel, one at a time on each channel: the mode
\* from the master, and the completion to the master.
Channels ==
  \A s, r \in Rank :
    \/ net[s][r] = << >>
    \/ s = MASTER_RANK /\ Summoned(r)
    \/ r = MASTER_RANK /\ Reporting(s)

\* Between two modes nobody works and nothing travels.
QuietWhenClosed ==
  ~ opened => \A s, r \in Rank : net[s][r] = << >>

\* A rank is summoned, or works, or reports, or is through: it never is in two
\* of these places, and nobody reports in the last mode.
OnePlace ==
  \A r \in Rank :
    /\ m_slaveMode[r] # RAY_MODE_DO_NOTHING => ~ Summoned(r) /\ ~ Reporting(r)
    /\ Summoned(r) => ~ Reporting(r)
    /\ m_masterMode = RAY_SLAVE_MODE_STOP => ~ Reporting(r)

\* The ranks that are through.
Through == { r \in Rank : Finished(r) }

\* The inductive invariant.
IInv ==
  /\ ModesTypeOK
  /\ Channels
  /\ QuietWhenClosed
  /\ OnePlace
  /\ Lockstep
  /\ EveryRankCountedOnce

------------------------------------------------------------------------------
\* The ranks are a finite set of m_size elements, and the master is one.
LEMMA Ranks ==
  /\ IsFiniteSet(Rank)
  /\ Cardinality(Rank) = m_size
  /\ MASTER_RANK \in Rank
<1>1. m_size \in Nat /\ m_size >= 1
  BY SwitchManAssumption
<1> QED
  BY <1>1, FS_Interval DEF Rank, MASTER_RANK

\* What a queue of one message is made of, and how one comes about.
LEMMA OneMessage ==
  ASSUME NEW x
  PROVE  /\ <<x>> # << >>
         /\ Head(<<x>>) = x
         /\ Tail(<<x>>) = << >>
         /\ Append(<< >>, x) = <<x>>
         /\ { <<x>>[k] : k \in DOMAIN <<x>> } = {x}
OBVIOUS

\* Two queues of one message are equal when their messages are.
LEMMA SameMessage ==
  ASSUME NEW x, NEW y, <<x>> = <<y>>
  PROVE  x = y
OBVIOUS

\* Replacing what is on one channel leaves the others alone.
LEMMA OneChannel ==
  ASSUME ModesTypeOK, NEW a \in Rank, NEW b \in Rank, NEW x \in Seq(0 .. NumModes),
         net' = [net EXCEPT ![a][b] = x]
  PROVE  /\ net' \in [Rank -> [Rank -> Seq(0 .. NumModes)]]
         /\ \A u, v \in Rank : net'[u][v] = IF u = a /\ v = b THEN x ELSE net[u][v]
<1> DEFINE S == Seq(0 .. NumModes)
<1>0. net \in [Rank -> [Rank -> S]] /\ x \in S
  BY DEF ModesTypeOK
<1> HIDE DEF S
<1>1. [net[a] EXCEPT ![b] = x] \in [Rank -> S]
  BY <1>0
<1>2. net' = [net EXCEPT ![a] = [net[a] EXCEPT ![b] = x]]
  BY <1>0
<1>3. \A u \in Rank : net'[u] = IF u = a THEN [net[a] EXCEPT ![b] = x] ELSE net[u]
  BY <1>0, <1>2
<1>4. \A u, v \in Rank : net'[u][v] = IF u = a /\ v = b THEN x ELSE net[u][v]
  BY <1>0, <1>1, <1>3
<1>5. net' \in [Rank -> [Rank -> S]]
  BY <1>0, <1>1, <1>2
<1> QED
  BY <1>4, <1>5 DEF S

\* On the channels that the invariant allows, Finished() says that the rank is
\* neither summoned, nor working, nor reporting.
LEMMA FinishedMeans ==
  ModesTypeOK /\ Channels => \A r \in Rank :
    Finished(r) <=>
      m_slaveMode[r] = RAY_MODE_DO_NOTHING /\ ~ Summoned(r) /\ ~ Reporting(r)
<1> SUFFICES ASSUME ModesTypeOK, Channels, NEW r \in Rank
             PROVE  Finished(r) <=>
               m_slaveMode[r] = RAY_MODE_DO_NOTHING /\ ~ Summoned(r) /\ ~ Reporting(r)
  OBVIOUS
<1> DEFINE Content(q) == { q[k] : k \in DOMAIN q }
<1>0. m_masterMode # COMPLETION_SIGNAL /\ MASTER_RANK \in Rank
  BY Ranks, SwitchManAssumption DEF ModesTypeOK, COMPLETION_SIGNAL
<1>1. Content(<< >>) = {}
  OBVIOUS
<1>2. m_masterMode \in Content(net[MASTER_RANK][r]) <=> Summoned(r)
  <2>1. CASE net[MASTER_RANK][r] = << >>
    BY <2>1, <1>1, OneMessage DEF Summoned
  <2>2. CASE Summoned(r)
    BY <2>2, OneMessage DEF Summoned
  <2>3. CASE net[MASTER_RANK][r] = <<COMPLETION_SIGNAL>>
    BY <2>3, <1>0, OneMessage, SameMessage DEF Summoned
  <2> QED
    BY <2>1, <2>2, <2>3, <1>0 DEF Channels, Reporting
<1>3. COMPLETION_SIGNAL \in Content(net[r][MASTER_RANK]) <=> Reporting(r)
  <2>1. CASE net[r][MASTER_RANK] = << >>
    BY <2>1, <1>1, OneMessage DEF Reporting
  <2>2. CASE Reporting(r)
    BY <2>2, OneMessage DEF Reporting
  <2>3. CASE net[r][MASTER_RANK] = <<m_masterMode>>
    BY <2>3, <1>0, OneMessage, SameMessage DEF Reporting
  <2> QED
    BY <2>1, <2>2, <2>3, <1>0 DEF Channels, Summoned
<1> QED
  BY <1>2, <1>3 DEF Finished

\* The start: nothing opened, nothing sent.
LEMMA InitIInv == ModesInit => IInv
<1> SUFFICES ASSUME ModesInit PROVE IInv
  OBVIOUS
<1> USE DEF ModesInit
<1>1. ModesTypeOK
  <2>1. << >> \in Seq(0 .. NumModes)
    OBVIOUS
  <2>2. net \in [Rank -> [Rank -> Seq(0 .. NumModes)]]
    BY <2>1
  <2>3. opened \in BOOLEAN /\ m_alive \in [Rank -> BOOLEAN]
    BY Zenon
  <2>4. m_masterMode \in 1 .. NumModes /\ m_counter \in 0 .. m_size
    BY SwitchManAssumption
  <2>5. m_slaveMode \in [Rank -> 0 .. NumModes]
    BY SwitchManAssumption DEF RAY_MODE_DO_NOTHING
  <2> QED
    BY <2>2, <2>3, <2>4, <2>5 DEF ModesTypeOK
<1>2. \A s, r \in Rank : net[s][r] = << >>
  OBVIOUS
<1>3. Channels /\ QuietWhenClosed
  BY <1>2 DEF Channels, QuietWhenClosed
<1>4. OnePlace
  BY <1>2, Ranks, OneMessage DEF OnePlace, Summoned, Reporting
<1>5. Lockstep /\ EveryRankCountedOnce
  BY DEF Lockstep, EveryRankCountedOnce
<1> QED
  BY <1>1, <1>3, <1>4, <1>5 DEF IInv

\* The counter is about the set of ranks that are through: it stays the same
\* when that set does.
LEMMA SameThrough ==
  ASSUME IInv, ModesTypeOK', Channels', UNCHANGED <<m_masterMode, opened, m_counter>>,
         \A r \in Rank :
           (m_slaveMode[r] = RAY_MODE_DO_NOTHING /\ ~ Summoned(r) /\ ~ Reporting(r)) <=>
           (m_slaveMode[r] = RAY_MODE_DO_NOTHING /\ ~ Summoned(r) /\ ~ Reporting(r))'
  PROVE  EveryRankCountedOnce'
<1>1. \A r \in Rank : Finished(r) <=>
        m_slaveMode[r] = RAY_MODE_DO_NOTHING /\ ~ Summoned(r) /\ ~ Reporting(r)
  BY FinishedMeans DEF IInv
<1>2. \A r \in Rank : Finished(r)' <=>
        (m_slaveMode[r] = RAY_MODE_DO_NOTHING /\ ~ Summoned(r) /\ ~ Reporting(r))'
  <2>1. (ModesTypeOK /\ Channels => \A r \in Rank : (Finished(r) <=>
        m_slaveMode[r] = RAY_MODE_DO_NOTHING /\ ~ Summoned(r) /\ ~ Reporting(r)))'
    BY FinishedMeans, PTL
  <2> QED
    BY <2>1
<1>3. { r \in Rank : Finished(r) } = { r \in Rank : Finished(r)' }
  BY <1>1, <1>2
<1> QED
  BY <1>3 DEF IInv, EveryRankCountedOnce

\* openSlaveModeLocally(): a summoned rank starts to work.
LEMMA OpenSlaveModeLocallyIInv ==
  ASSUME IInv, NEW r \in Rank, NEW s \in Rank, OpenSlaveModeLocally(r, s)
  PROVE  IInv'
<1>0. ModesTypeOK /\ Channels /\ QuietWhenClosed /\ OnePlace /\ Lockstep
  BY DEF IInv
<1>1. m_masterMode \in 1 .. NumModes /\ m_masterMode # COMPLETION_SIGNAL
  BY <1>0 DEF ModesTypeOK, COMPLETION_SIGNAL
<1>2. s = MASTER_RANK /\ Summoned(r) /\ opened
  BY <1>0, OneMessage DEF OpenSlaveModeLocally, Channels, Reporting, QuietWhenClosed
<1>3. /\ m_slaveMode' = [m_slaveMode EXCEPT ![r] = m_masterMode]
      /\ net' = [net EXCEPT ![MASTER_RANK][r] = << >>]
      /\ UNCHANGED <<m_masterMode, opened, m_counter, m_alive>>
  BY <1>2, OneMessage DEF OpenSlaveModeLocally, Summoned
<1>4. /\ net' \in [Rank -> [Rank -> Seq(0 .. NumModes)]]
      /\ \A u, v \in Rank :
           net'[u][v] = IF u = MASTER_RANK /\ v = r THEN << >> ELSE net[u][v]
  <2>1. << >> \in Seq(0 .. NumModes)
    OBVIOUS
  <2> QED
    BY <1>0, <1>3, <2>1, OneChannel, Ranks, ZenonT(60)
<1>5. ModesTypeOK'
  BY <1>0, <1>1, <1>3, <1>4 DEF ModesTypeOK
<1>6. Channels'
  BY <1>0, <1>3, <1>4, Ranks DEF Channels, Summoned, Reporting
<1>7. QuietWhenClosed'
  BY <1>2, <1>3 DEF QuietWhenClosed
<1>8. ~ Summoned(r)' /\ ~ Reporting(r)'
  BY <1>0, <1>2, <1>4, Ranks, OneMessage DEF OnePlace, Summoned, Reporting
<1>9. ASSUME NEW v \in Rank, v # r
      PROVE  /\ m_slaveMode'[v] = m_slaveMode[v]
             /\ Summoned(v)' <=> Summoned(v)
             /\ Reporting(v)' <=> Reporting(v)
  <2>1. m_slaveMode'[v] = m_slaveMode[v]
    BY <1>0, <1>3, <1>9 DEF ModesTypeOK
  <2>2. net'[MASTER_RANK][v] = net[MASTER_RANK][v] /\ net'[v][MASTER_RANK] = net[v][MASTER_RANK]
    BY <1>4, <1>9, Ranks
  <2> QED
    BY <1>3, <2>1, <2>2 DEF Summoned, Reporting
<1>10. OnePlace'
  BY <1>0, <1>3, <1>8, <1>9 DEF OnePlace
<1>11. Lockstep'
  BY <1>0, <1>2, <1>3 DEF Lockstep, ModesTypeOK
<1>12. m_slaveMode'[r] # RAY_MODE_DO_NOTHING
  BY <1>0, <1>1, <1>3 DEF ModesTypeOK, RAY_MODE_DO_NOTHING
<1>13. EveryRankCountedOnce'
  BY <1>2, <1>3, <1>5, <1>6, <1>9, <1>12, SameThrough
<1> QED
  BY <1>5, <1>6, <1>7, <1>10, <1>11, <1>13 DEF IInv

\* closeSlaveMode(): the completion of a reporting rank is counted.
LEMMA CloseSlaveModeIInv ==
  ASSUME IInv, NEW s \in Rank, CloseSlaveMode(s)
  PROVE  IInv'
<1>0. ModesTypeOK /\ Channels /\ QuietWhenClosed /\ OnePlace /\ Lockstep
  BY DEF IInv
<1>1. m_masterMode \in 1 .. NumModes /\ m_masterMode # COMPLETION_SIGNAL
  BY <1>0 DEF ModesTypeOK, COMPLETION_SIGNAL
<1>2. Reporting(s) /\ opened
  BY <1>0, <1>1, OneMessage, Ranks DEF CloseSlaveMode, Channels, Summoned, QuietWhenClosed
<1>3. /\ net' = [net EXCEPT ![s][MASTER_RANK] = << >>]
      /\ m_counter' = m_counter + 1
      /\ UNCHANGED <<m_masterMode, opened, m_slaveMode, m_alive>>
  BY <1>2, OneMessage DEF CloseSlaveMode, Reporting
<1>4. /\ net' \in [Rank -> [Rank -> Seq(0 .. NumModes)]]
      /\ \A u, v \in Rank :
           net'[u][v] = IF u = s /\ v = MASTER_RANK THEN << >> ELSE net[u][v]
  <2>1. << >> \in Seq(0 .. NumModes)
    OBVIOUS
  <2> QED
    BY <1>0, <1>3, <2>1, OneChannel, Ranks, ZenonT(60)
<1>5. /\ m_masterMode # RAY_SLAVE_MODE_STOP
      /\ m_slaveMode[s] = RAY_MODE_DO_NOTHING
      /\ ~ Summoned(s)
  BY <1>0, <1>2 DEF OnePlace
<1>6. Channels'
  BY <1>0, <1>3, <1>4, Ranks DEF Channels, Summoned, Reporting
<1>7. ~ Summoned(s)' /\ ~ Reporting(s)'
  BY <1>3, <1>4, <1>5, Ranks, OneMessage DEF Summoned, Reporting
<1>8. ASSUME NEW v \in Rank, v # s
      PROVE  /\ Summoned(v)' <=> Summoned(v)
             /\ Reporting(v)' <=> Reporting(v)
  <2>1. net'[MASTER_RANK][v] = net[MASTER_RANK][v] /\ net'[v][MASTER_RANK] = net[v][MASTER_RANK]
    BY <1>4, <1>8, Ranks
  <2> QED
    BY <1>3, <2>1 DEF Summoned, Reporting
<1>9. \A r \in Rank : Finished(r) <=>
        m_slaveMode[r] = RAY_MODE_DO_NOTHING /\ ~ Summoned(r) /\ ~ Reporting(r)
  BY <1>0, FinishedMeans
<1>10. s \in Rank /\ s \notin Through
  BY <1>2, <1>9 DEF Through
<1>11. /\ Cardinality(Through \cup {s}) = Cardinality(Through) + 1
       /\ Cardinality(Through \cup {s}) <= m_size
       /\ Cardinality(Through) \in Nat
  <2>1. Through \in SUBSET Rank /\ Through \cup {s} \in SUBSET Rank
    BY DEF Through
  <2>2. IsFiniteSet(Through)
    BY <2>1, Ranks, FS_Subset
  <2>3. Cardinality(Through \cup {s}) <= m_size
    BY <2>1, Ranks, FS_Subset
  <2> QED
    BY <2>2, <2>3, <1>10, FS_AddElement, FS_CardinalityType
<1>12. m_counter = Cardinality(Through)
  BY <1>2, <1>5 DEF IInv, EveryRankCountedOnce, Through
<1>13. ModesTypeOK'
  <2>1. m_counter' \in 0 .. m_size
    BY <1>3, <1>11, <1>12, SwitchManAssumption
  <2> QED
    BY <1>0, <1>3, <1>4, <2>1 DEF ModesTypeOK
<1>14. Through' = Through \cup {s}
  <2>1. (ModesTypeOK /\ Channels => \A r \in Rank : (Finished(r) <=>
           m_slaveMode[r] = RAY_MODE_DO_NOTHING /\ ~ Summoned(r) /\ ~ Reporting(r)))'
    BY FinishedMeans, PTL
  <2>2. \A r \in Rank : Finished(r)' <=>
           m_slaveMode'[r] = RAY_MODE_DO_NOTHING /\ ~ Summoned(r)' /\ ~ Reporting(r)'
    BY <2>1, <1>6, <1>13
  <2> QED
    BY <2>2, <1>3, <1>5, <1>7, <1>8, <1>9 DEF Through
<1>15. EveryRankCountedOnce'
  BY <1>3, <1>11, <1>12, <1>14 DEF EveryRankCountedOnce, Through
<1>16. QuietWhenClosed' /\ Lockstep'
  BY <1>0, <1>2, <1>3 DEF QuietWhenClosed, Lockstep
<1>17. OnePlace'
  BY <1>0, <1>3, <1>7, <1>8 DEF OnePlace
<1> QED
  BY <1>6, <1>13, <1>15, <1>16, <1>17 DEF IInv

\* openMasterMode(): every rank is summoned, and the count starts at zero.
LEMMA OpenMasterModeIInv ==
  ASSUME IInv, OpenMasterMode
  PROVE  IInv'
<1>0. ModesTypeOK /\ QuietWhenClosed /\ Lockstep
  BY DEF IInv
<1>1. m_masterMode \in 1 .. NumModes /\ m_masterMode # COMPLETION_SIGNAL
  BY <1>0 DEF ModesTypeOK, COMPLETION_SIGNAL
<1>2. /\ \A u, v \in Rank : net[u][v] = << >>
      /\ \A r \in Rank : m_slaveMode[r] = RAY_MODE_DO_NOTHING
  BY <1>0 DEF OpenMasterMode, QuietWhenClosed, Lockstep
<1>3. net' = [net EXCEPT ![MASTER_RANK] = [r \in Rank |-> <<m_masterMode>>]]
  BY <1>2, OneMessage, Ranks, ZenonT(60) DEF OpenMasterMode
<1>4. opened' = TRUE /\ m_counter' = 0 /\ UNCHANGED <<m_masterMode, m_slaveMode, m_alive>>
  BY DEF OpenMasterMode
<1>5. \A u, v \in Rank :
        net'[u][v] = IF u = MASTER_RANK THEN <<m_masterMode>> ELSE << >>
  BY <1>0, <1>2, <1>3 DEF ModesTypeOK
<1>6. ModesTypeOK'
  <2>1. <<m_masterMode>> \in Seq(0 .. NumModes)
    BY <1>1
  <2>2. [r \in Rank |-> <<m_masterMode>>] \in [Rank -> Seq(0 .. NumModes)]
    BY <2>1
  <2>3. net' \in [Rank -> [Rank -> Seq(0 .. NumModes)]]
    BY <1>0, <1>3, <2>2 DEF ModesTypeOK
  <2> QED
    BY <1>0, <1>4, <2>3, SwitchManAssumption DEF ModesTypeOK
<1>7. \A r \in Rank : Summoned(r)' /\ ~ Reporting(r)'
  BY <1>1, <1>4, <1>5, Ranks, OneMessage, SameMessage DEF Summoned, Reporting
<1>8. Channels'
  BY <1>4, <1>5, <1>7, Ranks DEF Channels
<1>9. OnePlace'
  BY <1>2, <1>4, <1>7 DEF OnePlace
<1>10. QuietWhenClosed' /\ Lockstep'
  BY <1>2, <1>4 DEF QuietWhenClosed, Lockstep
<1>11. EveryRankCountedOnce'
  <2>1. (ModesTypeOK /\ Channels => \A r \in Rank : (Finished(r) <=>
           m_slaveMode[r] = RAY_MODE_DO_NOTHING /\ ~ Summoned(r) /\ ~ Reporting(r)))'
    BY FinishedMeans, PTL
  <2>2. \A r \in Rank : ~ Finished(r)'
    BY <2>1, <1>6, <1>7, <1>8
  <2>3. { r \in Rank : Finished(r)' } = {}
    BY <2>2
  <2> QED
    BY <2>3, <1>4, FS_EmptySet DEF EveryRankCountedOnce
<1> QED
  BY <1>6, <1>8, <1>9, <1>10, <1>11 DEF IInv

\* When the count of an open mode reaches m_size, every rank is through.
LEMMA FullCount ==
  ASSUME IInv, opened, allRanksAreReady, m_masterMode # RAY_SLAVE_MODE_STOP
  PROVE  \A r \in Rank : Finished(r)
<1>1. Cardinality(Through) = Cardinality(Rank)
  BY Ranks DEF IInv, EveryRankCountedOnce, allRanksAreReady, Through
<1>2. Through \in SUBSET Rank
  BY DEF Through
<1>3. Through = Rank
  BY <1>1, <1>2, Ranks, FS_Subset
<1> QED
  BY <1>3 DEF Through

\* closeMasterMode(): the mode that is left has nothing on its way.
LEMMA CloseMasterModeIInv ==
  ASSUME IInv, CloseMasterMode
  PROVE  IInv'
<1>0. ModesTypeOK /\ Channels /\ Lockstep
  BY DEF IInv
<1>1. /\ opened' = FALSE /\ m_masterMode' = m_masterMode + 1 /\ m_masterMode < NumModes
      /\ UNCHANGED <<m_counter, m_slaveMode, m_alive, net>>
  BY DEF CloseMasterMode
<1>2. m_masterMode # RAY_SLAVE_MODE_STOP
  BY <1>0, <1>1, SwitchManAssumption DEF ModesTypeOK, RAY_SLAVE_MODE_STOP
<1>3. \A r \in Rank : m_slaveMode[r] = RAY_MODE_DO_NOTHING /\ ~ Summoned(r) /\ ~ Reporting(r)
  BY <1>0, <1>2, FullCount, FinishedMeans DEF CloseMasterMode
<1>4. \A u, v \in Rank : net'[u][v] = << >>
  BY <1>0, <1>1, <1>3 DEF Channels
<1>5. ModesTypeOK'
  <2>1. m_masterMode' \in 1 .. NumModes
    BY <1>0, <1>1, SwitchManAssumption DEF ModesTypeOK
  <2>2. opened' \in BOOLEAN
    BY <1>1, Zenon
  <2> QED
    BY <1>0, <1>1, <2>1, <2>2 DEF ModesTypeOK
<1>6. Channels' /\ QuietWhenClosed'
  BY <1>4 DEF Channels, QuietWhenClosed
<1>7. OnePlace'
  BY <1>4, Ranks, OneMessage DEF OnePlace, Summoned, Reporting
<1>8. Lockstep' /\ EveryRankCountedOnce'
  BY <1>1, <1>3 DEF Lockstep, EveryRankCountedOnce
<1> QED
  BY <1>5, <1>6, <1>7, <1>8 DEF IInv

\* closeSlaveModeLocally(): a working rank reports.
LEMMA CloseSlaveModeLocallyIInv ==
  ASSUME IInv, NEW r \in Rank, CloseSlaveModeLocally(r)
  PROVE  IInv'
<1>0. ModesTypeOK /\ Channels /\ QuietWhenClosed /\ OnePlace /\ Lockstep
  BY DEF IInv
<1>1. m_masterMode \in 1 .. NumModes /\ m_masterMode # COMPLETION_SIGNAL
  BY <1>0 DEF ModesTypeOK, COMPLETION_SIGNAL
<1>2. opened /\ m_masterMode # RAY_SLAVE_MODE_STOP /\ ~ Summoned(r) /\ ~ Reporting(r)
  BY <1>0 DEF CloseSlaveModeLocally, Lockstep, OnePlace
<1>3. net[r][MASTER_RANK] = << >>
  BY <1>0, <1>2, Ranks DEF Channels
<1>4. /\ net' = [net EXCEPT ![r][MASTER_RANK] = <<COMPLETION_SIGNAL>>]
      /\ m_slaveMode' = [m_slaveMode EXCEPT ![r] = RAY_MODE_DO_NOTHING]
      /\ m_slaveMode[r] # RAY_MODE_DO_NOTHING
      /\ UNCHANGED <<m_masterMode, opened, m_counter, m_alive>>
  BY <1>3, OneMessage DEF CloseSlaveModeLocally
<1>5. /\ net' \in [Rank -> [Rank -> Seq(0 .. NumModes)]]
      /\ \A u, v \in Rank :
           net'[u][v] = IF u = r /\ v = MASTER_RANK THEN <<COMPLETION_SIGNAL>> ELSE net[u][v]
  <2> DEFINE q == <<COMPLETION_SIGNAL>>
  <2>1. q \in Seq(0 .. NumModes)
    BY SwitchManAssumption DEF COMPLETION_SIGNAL
  <2>2. net' = [net EXCEPT ![r][MASTER_RANK] = q]
    BY <1>4
  <2> HIDE DEF q
  <2>3. /\ net' \in [Rank -> [Rank -> Seq(0 .. NumModes)]]
        /\ \A u, v \in Rank :
             net'[u][v] = IF u = r /\ v = MASTER_RANK THEN q ELSE net[u][v]
    BY <1>0, <2>1, <2>2, OneChannel, Ranks, ZenonT(60)
  <2> QED
    BY <2>3 DEF q
<1>6. ModesTypeOK'
  BY <1>0, <1>4, <1>5, SwitchManAssumption DEF ModesTypeOK, RAY_MODE_DO_NOTHING
<1>7. Channels'
  BY <1>0, <1>4, <1>5, Ranks DEF Channels, Summoned, Reporting
<1>8. ~ Summoned(r)' /\ Reporting(r)'
  BY <1>1, <1>2, <1>4, <1>5, Ranks, SameMessage DEF Summoned, Reporting
<1>9. ASSUME NEW v \in Rank, v # r
      PROVE  /\ m_slaveMode'[v] = m_slaveMode[v]
             /\ Summoned(v)' <=> Summoned(v)
             /\ Reporting(v)' <=> Reporting(v)
  <2>1. m_slaveMode'[v] = m_slaveMode[v]
    BY <1>0, <1>4, <1>9 DEF ModesTypeOK
  <2>2. net'[MASTER_RANK][v] = net[MASTER_RANK][v] /\ net'[v][MASTER_RANK] = net[v][MASTER_RANK]
    BY <1>5, <1>9, Ranks
  <2> QED
    BY <1>4, <2>1, <2>2 DEF Summoned, Reporting
<1>10. m_slaveMode'[r] = RAY_MODE_DO_NOTHING
  BY <1>0, <1>4 DEF ModesTypeOK
<1>11. OnePlace'
  BY <1>0, <1>2, <1>4, <1>8, <1>9, <1>10 DEF OnePlace
<1>12. QuietWhenClosed'
  BY <1>2, <1>4 DEF QuietWhenClosed
<1>13. Lockstep'
  BY <1>0, <1>4, <1>9, <1>10 DEF Lockstep
<1>14. EveryRankCountedOnce'
  BY <1>4, <1>6, <1>7, <1>8, <1>9, SameThrough
<1> QED
  BY <1>6, <1>7, <1>11, <1>12, <1>13, <1>14 DEF IInv

\* The handler of RAY_SLAVE_MODE_STOP: the rank ends, in the last mode only.
LEMMA StopSlaveIInv ==
  ASSUME IInv, NEW r \in Rank, StopSlave(r)
  PROVE  IInv'
<1>0. ModesTypeOK /\ Channels /\ QuietWhenClosed /\ OnePlace /\ Lockstep
  BY DEF IInv
<1>1. /\ m_slaveMode' = [m_slaveMode EXCEPT ![r] = RAY_MODE_DO_NOTHING]
      /\ m_alive' = [m_alive EXCEPT ![r] = FALSE]
      /\ UNCHANGED <<m_masterMode, opened, m_counter, net>>
  BY DEF StopSlave
<1>2. m_masterMode = RAY_SLAVE_MODE_STOP
  BY <1>0, SwitchManAssumption
     DEF StopSlave, Lockstep, RAY_SLAVE_MODE_STOP, RAY_MODE_DO_NOTHING
<1>3. ModesTypeOK'
  <2>1. m_alive' \in [Rank -> BOOLEAN]
    BY <1>0, <1>1, Zenon DEF ModesTypeOK
  <2> QED
    BY <1>0, <1>1, <2>1, SwitchManAssumption DEF ModesTypeOK, RAY_MODE_DO_NOTHING
<1>4. Channels' /\ QuietWhenClosed'
  BY <1>0, <1>1 DEF Channels, QuietWhenClosed, Summoned, Reporting
<1>5. OnePlace' /\ Lockstep'
  BY <1>0, <1>1 DEF OnePlace, Lockstep, Summoned, Reporting, ModesTypeOK
<1>6. EveryRankCountedOnce'
  BY <1>1, <1>2 DEF EveryRankCountedOnce
<1> QED
  BY <1>3, <1>4, <1>5, <1>6 DEF IInv

------------------------------------------------------------------------------
\* Every step of SwitchMan preserves the invariant.
LEMMA NextIInv == IInv /\ [ModesNext]_modesVars => IInv'
<1> SUFFICES ASSUME IInv, [ModesNext]_modesVars PROVE IInv'
  OBVIOUS
<1>1. CASE \E r, s \in Rank : OpenSlaveModeLocally(r, s)
  BY <1>1, OpenSlaveModeLocallyIInv
<1>2. CASE \E s \in Rank : CloseSlaveMode(s)
  BY <1>2, CloseSlaveModeIInv
<1>3. CASE OpenMasterMode
  BY <1>3, OpenMasterModeIInv
<1>4. CASE CloseMasterMode
  BY <1>4, CloseMasterModeIInv
<1>5. CASE \E r \in Rank : CloseSlaveModeLocally(r) \/ StopSlave(r)
  BY <1>5, CloseSlaveModeLocallyIInv, StopSlaveIInv
<1>6. CASE UNCHANGED modesVars
  <2> USE <1>6 DEF modesVars, IInv
  <2>1. ModesTypeOK'
    BY DEF ModesTypeOK
  <2>2. Channels' /\ QuietWhenClosed' /\ OnePlace'
    BY DEF Channels, QuietWhenClosed, OnePlace, Summoned, Reporting
  <2>3. Lockstep' /\ EveryRankCountedOnce'
    BY DEF Lockstep, EveryRankCountedOnce, Finished
  <2> QED
    BY <2>1, <2>2, <2>3
<1> QED
  BY <1>1, <1>2, <1>3, <1>4, <1>5, <1>6 DEF ModesNext

\* The invariant holds in every state.
LEMMA SpecIInv == ModesSpec => []IInv
BY InitIInv, NextIInv, PTL DEF ModesSpec

\* The assertion of runAssertions(): the counter never exceeds the number of
\* ranks, and every mode is one of the chain.
THEOREM TypeCorrect == ModesSpec => []ModesTypeOK
<1>1. IInv => ModesTypeOK
  BY DEF IInv
<1> QED
  BY <1>1, SpecIInv, PTL

\* The barrier: no rank works on a mode other than the one that the master has
\* open.
THEOREM BarrierLockstep == ModesSpec => []Lockstep
<1>1. IInv => Lockstep
  BY DEF IInv
<1> QED
  BY <1>1, SpecIInv, PTL

\* m_counter is the number of ranks that are through with the open mode: no
\* completion is lost, counted twice, or counted in another mode.
THEOREM CountsEveryRankOnce == ModesSpec => []EveryRankCountedOnce
<1>1. IInv => EveryRankCountedOnce
  BY DEF IInv
<1> QED
  BY <1>1, SpecIInv, PTL

\* The master leaves a mode only when every rank is through with it, and then
\* for the next mode of the chain.
MasterWaitsForAll ==
  m_masterMode' # m_masterMode =>
    m_masterMode' = m_masterMode + 1 /\ \A r \in Rank : Finished(r)

\* closeMasterMode() after allRanksAreReady() is a barrier: no step leaves a
\* mode while a rank has still to enter it, works on it, or reports its end.
THEOREM MasterWaits == ModesSpec => [][MasterWaitsForAll]_modesVars
<1>1. IInv /\ [ModesNext]_modesVars => [MasterWaitsForAll]_modesVars
  <2> SUFFICES ASSUME IInv, ModesNext, m_masterMode' # m_masterMode
               PROVE  m_masterMode' = m_masterMode + 1 /\ \A r \in Rank : Finished(r)
    BY DEF MasterWaitsForAll
  <2>1. CloseMasterMode
    BY DEF ModesNext, OpenSlaveModeLocally, CloseSlaveMode, OpenMasterMode,
           CloseSlaveModeLocally, StopSlave
  <2>2. opened /\ allRanksAreReady /\ m_masterMode # RAY_SLAVE_MODE_STOP
    BY <2>1, SwitchManAssumption DEF CloseMasterMode, IInv, ModesTypeOK, RAY_SLAVE_MODE_STOP
  <2> QED
    BY <2>1, <2>2, FullCount DEF CloseMasterMode
<1> QED
  BY <1>1, SpecIInv, PTL DEF ModesSpec
==============================================================================
