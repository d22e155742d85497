----------------------------- MODULE MCScheduling -----------------------------
(***************************************************************************)
(* One instance for the two schedulers, of the workers of a rank and of    *)
(* the modes of all ranks: a behaviour exercises one of the modules while  *)
(* the other one stays in its initial state.                               *)
(***************************************************************************)
EXTENDS VirtualProcessor, SwitchMan

VARIABLE exercised   \* the module of this behaviour

mcVars == <<vars, modesVars, exercised>>

MCInit ==
  /\ Init /\ ModesInit
  /\ exercised \in {"workers", "modes"}

\* Everyone has stopped: the only place where a behaviour may end.
Stopped == exercised = "modes" /\ (\A r \in Rank : ~ m_alive[r]) /\ UNCHANGED mcVars

MCNext ==
  \/ exercised = "workers" /\ Next /\ UNCHANGED <<modesVars, exercised>>
  \/ exercised = "modes" /\ ModesNext /\ UNCHANGED <<vars, exercised>>
  \/ Stopped

MCSpec ==
  /\ MCInit /\ [][MCNext]_mcVars
  /\ exercised = "workers" => ProcessorFairness
  /\ exercised = "modes" => ModesFairness
==============================================================================
