---------------------------- MODULE MCMessagePath ----------------------------
(***************************************************************************)
(* One instance for the two ways a message takes out of a ComputeCore: to  *)
(* MPI, and to the queue that another thread empties.  A behaviour         *)
(* exercises one of the modules while the other one stays in its initial   *)
(* state.                                                                  *)
(***************************************************************************)
EXTENDS SendPath, MessageQueue

VARIABLE exercised   \* the module of this behaviour

mcVars == <<vars, queueVars, exercised>>

MCInit ==
  /\ Init /\ constructor
  /\ exercised \in {"send", "queue"}

\* The bound on the pushes of a behaviour is reached, and nothing is left to pop:
\* the only place where a behaviour may end.
PushesDone == exercised = "queue" /\ Len(received) = MaxPushes /\ UNCHANGED mcVars

MCNext ==
  \/ exercised = "send" /\ Next /\ UNCHANGED <<queueVars, exercised>>
  \/ exercised = "queue" /\ QueueNext /\ UNCHANGED <<vars, exercised>>
  \/ PushesDone

MCSpec ==
  /\ MCInit /\ [][MCNext]_mcVars
  /\ exercised = "send" => SendFairness
  /\ exercised = "queue" => QueueFairness
==============================================================================
