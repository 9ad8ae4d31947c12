SPECIFICATION RunSpec
CONSTANTS
  t1 = t1
  t2 = t2
  k1 = k1
  k2 = k2
  f1 = f1
  f2 = f2
  Threads = {t1, t2}
  Kqs = {k1, k2}
  Fds = {f1}
  NoKq = NoKq
  NoFd = NoFd
  Closed = Closed
  Other = Other
  Monitor = Monitor
  Nobody = Nobody
INVARIANT
  EbadfMeansClosed
