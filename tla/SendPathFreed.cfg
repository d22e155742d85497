CONSTANTS
  m_chunks = 4
  Msg = {m1, m2, m3}
  Null = Null
  Modes = {TRUE}
  MaxPerTick = 2
  MaxOutstanding = 2
SPECIFICATION Spec
INVARIANT DirtyWhileSent
