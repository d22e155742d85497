----------------------------- MODULE BufferedData ------------------------------
(***************************************************************************)
(* BufferedData: a plugin collects items of period words for each rank and *)
(* sends the words of a rank in one message when no further item would     *)
(* fit; at the end flushAll sends what is left, one message at a time.     *)
(***************************************************************************)
EXTENDS Integers, Sequences, SequencesExt

CONSTANTS
  Ranks,       \* destinations, 0 .. m_ranks - 1
  m_capacity,  \* words a message can hold
  m_period,    \* words of one item
  MaxItems     \* bound: items added

ASSUME BufferedDataAssumption ==
  /\ m_capacity \in Nat /\ m_period \in 1 .. m_capacity /\ MaxItems \in Nat

VARIABLES
  m_data,      \* the words waiting for each rank (m_sizes is their number)
  pushed,      \* history: the words added for each rank
  messages,    \* history: the messages sent to each rank
  added        \* items added so far

bufferVars == <<m_data, pushed, messages, added>>

\* The words a buffer holds when no further item fits.
threshold == (m_capacity \div m_period) * m_period

BufferInit ==
  /\ m_data = [d \in Ranks |-> << >>]
  /\ pushed = [d \in Ranks |-> << >>]
  /\ messages = [d \in Ranks |-> << >>]
  /\ added = 0

\* Mutant: the number of words is not reset.
flushed_NoReset(data, d) == data
flushed(data, d) == [data EXCEPT ![d] = << >>]

\* flush() of what waits for d: a message, and reset().
Flush(data, d) ==
  /\ messages' = [messages EXCEPT ![d] = Append(@, data[d])]
  /\ m_data' = flushed(data, d)

\* The loop of a plugin: addAt for the words of an item, then flush without
\* force, which sends nothing while another item fits.
AddItem(d) ==
  LET words == [i \in 1 .. m_period |-> <<added, i>>]
      data == [m_data EXCEPT ![d] = @ \o words]
  IN  /\ added < MaxItems
      /\ added' = added + 1
      /\ pushed' = [pushed EXCEPT ![d] = @ \o words]
      /\ IF Len(data[d]) < threshold
         THEN m_data' = data /\ UNCHANGED messages
         ELSE Flush(data, d)

\* flushAll: the buffer of the first rank that has one, whatever it holds.
FlushAll ==
  \E d \in Ranks :
    /\ m_data[d] # << >>
    /\ \A e \in Ranks : e < d => m_data[e] = << >>
    /\ Flush(m_data, d)
    /\ UNCHANGED <<pushed, added>>

BufferNext == (\E d \in Ranks : AddItem(d)) \/ FlushAll

BufferSpec == BufferInit /\ [][BufferNext]_bufferVars

------------------------------------------------------------------------------
\* Every word reaches the rank it was added for, once and in order, in messages
\* that fit and that never cut an item in two.
BufferedInOrder ==
  \A d \in Ranks :
    /\ FlattenSeq(messages[d]) \o m_data[d] = pushed[d]
    /\ \A k \in DOMAIN messages[d] :
         Len(messages[d][k]) \in 1 .. m_capacity /\ Len(messages[d][k]) % m_period = 0
==============================================================================
