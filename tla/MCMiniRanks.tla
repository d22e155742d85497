----------------------------- MODULE MCMiniRanks -----------------------------
(* An instance of MiniRanks for TLC. *)
EXTENDS MiniRanks

\* Bounds the run of RetriesEnd to an application in which only the master sends
\* messages, to itself, and that does not stop.
MasterAlone ==
  /\ ~ stopSent
  /\ \A m \in MiniRank \ {MASTER_RANK} : m_outbox[m] = << >>
  /\ \A k \in DOMAIN m_outbox[MASTER_RANK] : m_outbox[MASTER_RANK][k].dst = MASTER_RANK

\* Bounds the run of the boot to the behaviours before the stop, and to the first
\* crash: mpirun then ends the job.
Running == ~ stopSent /\ \A r \in Rank : rankPc[r] # "undefined"
==============================================================================
