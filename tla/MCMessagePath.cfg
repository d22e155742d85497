CONSTANTS
  \* SendPath.  MaxOutstanding + MaxPerTick = m_chunks: the smallest ring that is
  \* safe.
  m_chunks = 4
  Msg = {m1, m2, m3, m4}
  Null = Null
  Modes = {FALSE, TRUE}
  MaxPerTick = 2
  MaxOutstanding = 2
  \* MessageQueue
  Bins = 2
  Value = {v1, v2}
  Word = {a, b}
  Garbage = Garbage
  MaxPushes = 5
SPECIFICATION MCSpec
INVARIANT WireIntact
INVARIANT OutboxIntact
INVARIANT DirtyWhileSentByRank
INVARIANT CountersAgree
INVARIANT DeliveredInOrder
INVARIANT NoSlotRace
INVARIANT WindowHoldsBacklog
PROPERTY EveryMessageLeaves
PROPERTY ImplementsFIFO
PROPERTY AllDelivered
