CONSTANTS
  t1 = t1
  t2 = t2
  r1 = r1
  r2 = r2
  c1 = c1
  c2 = c2
  g1 = g1
  g2 = g2
  NoConn = NoConn
  NoThread = NoThread
  NoMeta = NoMeta
  Threads = {t1, t2}
  Requests = {r1, r2}
  Conns = {c1, c2}
  Groups = {g1, g2}
  HotQueueSize = 1
  SizeCapacity = 0
SPECIFICATION FairSpec
PROPERTIES ImplementsIdlePool OperationsReturn
CHECK_DEADLOCK FALSE
