------------------------------ MODULE SwitchMan ------------------------------
(***************************************************************************)
(* scheduling/SwitchMan.cpp: the master rank takes all the ranks through   *)
(* a linear sequence of master modes, with a barrier between two modes.    *)
(* The handler of a master mode is application code that calls             *)
(* openMasterMode() once, then polls allRanksAreReady() and calls          *)
(* closeMasterMode(); the handler of a slave mode calls                    *)
(* closeSlaveModeLocally() when its work is done.                          *)
(*                                                                         *)
(* Master mode k and the slave mode that its tag opens are both the number *)
(* k; the last one is RAY_SLAVE_MODE_STOP.  MPI keeps the order of the     *)
(* messages between two ranks and nothing more.                            *)
(***************************************************************************)
EXTENDS Naturals, Sequences, FiniteSets

CONSTANTS
  m_size,     \* number of ranks
  NumModes    \* length of the chain of m_switches

ASSUME SwitchManAssumption == m_size \in Nat \ {0} /\ NumModes \in Nat \ {0}

Rank == 0 .. m_size - 1
MASTER_RANK == 0
RAY_MODE_DO_NOTHING == 0
RAY_SLAVE_MODE_STOP == NumModes
COMPLETION_SIGNAL == 0    \* every other message is the mode it opens

VARIABLES
  m_masterMode,   \* of the master rank: the mode closeMasterMode() goes on from
  opened,         \* has the handler of m_masterMode called openMasterMode()?
  m_counter,      \* of the master rank
  m_slaveMode,    \* of each rank
  m_alive,        \* ComputeCore::m_alive of each rank
  net             \* net[s][r]: sent by s, not yet received by r

modesVars == <<m_masterMode, opened, m_counter, m_slaveMode, m_alive, net>>

\* The counter of the barrier never exceeds the number of ranks (the assertion
\* of runAssertions()), and every mode is one of the chain.
ModesTypeOK ==
  /\ m_masterMode \in 1 .. NumModes
  /\ opened \in BOOLEAN
  /\ m_counter \in 0 .. m_size
  /\ m_slaveMode \in [Rank -> 0 .. NumModes]
  /\ m_alive \in [Rank -> BOOLEAN]
  /\ net \in [Rank -> [Rank -> Seq(0 .. NumModes)]]

ModesInit ==
  /\ m_masterMode = 1
  /\ opened = FALSE
  /\ m_counter = 0
  /\ m_slaveMode = [r \in Rank |-> RAY_MODE_DO_NOTHING]
  /\ m_alive = [r \in Rank |-> TRUE]
  /\ net = [s \in Rank |-> [r \in Rank |-> << >>]]

------------------------------------------------------------------------------
\* Mutant: one rank too few is waited for.
allRanksAreReady_OffByOne == m_counter + 1 >= m_size

allRanksAreReady == m_counter = m_size

\* processMessages() with a tag of the switch table: openSlaveModeLocally().
OpenSlaveModeLocally(r, s) ==
  /\ m_alive[r]
  /\ net[s][r] # << >>
  /\ Head(net[s][r]) # COMPLETION_SIGNAL
  /\ m_slaveMode' = [m_slaveMode EXCEPT ![r] = Head(net[s][r])]
  /\ net' = [net EXCEPT ![s][r] = Tail(@)]
  /\ UNCHANGED <<m_masterMode, opened, m_counter, m_alive>>

\* The handler of RAY_MPI_TAG_SWITCHMAN_COMPLETION_SIGNAL: closeSlaveMode().
CloseSlaveMode(s) ==
  LET r == MASTER_RANK
  IN  /\ m_alive[r]
      /\ net[s][r] # << >>
      /\ Head(net[s][r]) = COMPLETION_SIGNAL
      /\ m_counter' = m_counter + 1
      /\ net' = [net EXCEPT ![s][r] = Tail(@)]
      /\ UNCHANGED <<m_masterMode, opened, m_slaveMode, m_alive>>

\* Mutant: the counter keeps the completions of the mode before.
OpenMasterMode_NoReset ==
  /\ m_alive[MASTER_RANK]
  /\ ~ opened
  /\ opened' = TRUE
  /\ net' = [net EXCEPT ![MASTER_RANK] = [r \in Rank |-> Append(@[r], m_masterMode)]]
  /\ UNCHANGED <<m_masterMode, m_counter, m_slaveMode, m_alive>>

\* A message to every rank, the master included, then reset().
OpenMasterMode ==
  /\ m_alive[MASTER_RANK]
  /\ ~ opened
  /\ opened' = TRUE
  /\ net' = [net EXCEPT ![MASTER_RANK] = [r \in Rank |-> Append(@[r], m_masterMode)]]
  /\ m_counter' = 0
  /\ UNCHANGED <<m_masterMode, m_slaveMode, m_alive>>

\* The next master mode of m_switches; the last mode has none.  A handler may set
\* the mode to RAY_MASTER_MODE_DO_NOTHING through getMasterModePointer() while it
\* waits; closeMasterMode() then goes on from m_lastMasterMode, which is the mode
\* it was in, so m_masterMode here stands for both.
CloseMasterMode ==
  /\ m_alive[MASTER_RANK]
  /\ opened
  /\ allRanksAreReady
  /\ m_masterMode < NumModes
  /\ m_masterMode' = m_masterMode + 1
  /\ opened' = FALSE
  /\ UNCHANGED <<m_counter, m_slaveMode, m_alive, net>>

\* Mutant: the master is not told.
CloseSlaveModeLocally_Silent(r) ==
  /\ m_alive[r]
  /\ m_slaveMode[r] \notin {RAY_MODE_DO_NOTHING, RAY_SLAVE_MODE_STOP}
  /\ m_slaveMode' = [m_slaveMode EXCEPT ![r] = RAY_MODE_DO_NOTHING]
  /\ UNCHANGED <<m_masterMode, opened, m_counter, m_alive, net>>

\* The work of the slave mode is done.
CloseSlaveModeLocally(r) ==
  /\ m_alive[r]
  /\ m_slaveMode[r] \notin {RAY_MODE_DO_NOTHING, RAY_SLAVE_MODE_STOP}
  /\ net' = [net EXCEPT ![r][MASTER_RANK] = Append(@, COMPLETION_SIGNAL)]
  /\ m_slaveMode' = [m_slaveMode EXCEPT ![r] = RAY_MODE_DO_NOTHING]
  /\ UNCHANGED <<m_masterMode, opened, m_counter, m_alive>>

\* The handler of RAY_SLAVE_MODE_STOP.
StopSlave(r) ==
  /\ m_alive[r]
  /\ m_slaveMode[r] = RAY_SLAVE_MODE_STOP
  /\ m_alive' = [m_alive EXCEPT ![r] = FALSE]
  /\ m_slaveMode' = [m_slaveMode EXCEPT ![r] = RAY_MODE_DO_NOTHING]
  /\ UNCHANGED <<m_masterMode, opened, m_counter, net>>

ModesNext ==
  \/ \E r, s \in Rank : OpenSlaveModeLocally(r, s)
  \/ \E s \in Rank : CloseSlaveMode(s)
  \/ OpenMasterMode \/ CloseMasterMode
  \/ \E r \in Rank : CloseSlaveModeLocally(r) \/ StopSlave(r)

ModesSpec == ModesInit /\ [][ModesNext]_modesVars

\* Every rank keeps running its main loop, every slave mode ends, and MPI
\* delivers every message.
ModesFairness ==
  /\ WF_modesVars(OpenMasterMode) /\ WF_modesVars(CloseMasterMode)
  /\ \A s \in Rank : WF_modesVars(CloseSlaveMode(s))
  /\ \A r, s \in Rank : WF_modesVars(OpenSlaveModeLocally(r, s))
  /\ \A r \in Rank : WF_modesVars(CloseSlaveModeLocally(r) \/ StopSlave(r))

------------------------------------------------------------------------------
\* The barrier: a slave mode runs only while the master is in the master mode
\* that opened it, so no two ranks ever work on different modes.
Lockstep ==
  \A r \in Rank : m_slaveMode[r] # RAY_MODE_DO_NOTHING => opened /\ m_slaveMode[r] = m_masterMode

\* A rank that has done its part of the mode: nothing for it or from it is on
\* the way to the barrier.
Finished(r) ==
  /\ m_slaveMode[r] = RAY_MODE_DO_NOTHING
  /\ m_masterMode \notin { net[MASTER_RANK][r][k] : k \in DOMAIN net[MASTER_RANK][r] }
  /\ COMPLETION_SIGNAL \notin { net[r][MASTER_RANK][k] : k \in DOMAIN net[r][MASTER_RANK] }

\* The counter of an open mode counts every rank that is finished, once, so that
\* the assertions of runAssertions() hold and the barrier opens for all or none.
EveryRankCountedOnce ==
  opened /\ m_masterMode # RAY_SLAVE_MODE_STOP =>
    m_counter = Cardinality({ r \in Rank : Finished(r) })

\* Once it has opened the first mode, the master takes everyone through all the
\* modes, to the end.
EveryoneStops == opened ~> (\A r \in Rank : ~ m_alive[r])
==============================================================================
