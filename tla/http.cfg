CONSTANTS
  c1 = c1
  c2 = c2
  NoConn = NoConn
  Conns = {c1, c2}
  Roster <- MCRoster
  Size <- MCSize
  SndBuf = 9
  Heap = 10
  Assumed <- MCAllAssumed
SPECIFICATION FairSpec
INVARIANT PageInOrder
PROPERTIES PagesEnd ServerFree
