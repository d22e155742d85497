CONSTANTS
  m_chunks = 3
  Msg = {m1, m2, m3, m4, m5, m6}
  Null = Null
  QueueBins = 3
  MaxDrafts = 2
SPECIFICATION HandOffSpec
INVARIANT HandedOverIntact
