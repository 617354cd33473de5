CONSTANTS
  t1 = t1
  t2 = t2
  r1 = r1
  r2 = r2
  r3 = r3
  c1 = c1
  c2 = c2
  c3 = c3
  g1 = g1
  NoConn = NoConn
  NoThread = NoThread
  NoMeta = NoMeta
  Threads = {t1, t2}
  Requests = {r1, r2, r3}
  Conns = {c1, c2, c3}
  Groups = {g1}
  HotQueueSize = 1
  SizeCapacity = 2
SPECIFICATION Spec
INVARIANTS TypeOK ExclusiveOwnership ListLockDiscipline PooledIsTracked TimerOnlyIfIdling
PROPERTIES LeavesPoolOnPurpose
SYMMETRY Symmetry
CHECK_DEADLOCK FALSE
