----------------------------- MODULE BoundedFIFO -----------------------------
(***************************************************************************)
(* What a MessageQueue promises to the two threads that share it: a FIFO   *)
(* of at most Capacity messages.  The state is only what can be observed:  *)
(* the messages accepted by push() and the messages returned by pop().     *)
(***************************************************************************)
EXTENDS Naturals, Sequences

CONSTANTS Message,    \* the values that can be pushed
          Capacity    \* the bins given to MessageQueue::constructor

VARIABLES sent,       \* messages for which push() has returned true
          received    \* messages returned by pop()

fifoVars == <<sent, received>>

Init ==
  /\ sent = << >>
  /\ received = << >>

\* push() returns true: there was room for one more message.
Push(m) ==
  /\ Len(sent) - Len(received) < Capacity
  /\ sent' = Append(sent, m)
  /\ UNCHANGED received

\* pop() returns true: it hands out the oldest message not yet received.
Pop ==
  /\ Len(received) < Len(sent)
  /\ received' = Append(received, sent[Len(received) + 1])
  /\ UNCHANGED sent

Next == (\E m \in Message : Push(m)) \/ Pop

Spec == Init /\ [][Next]_fifoVars
==============================================================================
