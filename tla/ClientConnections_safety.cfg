\* Either poller and TLS handshakes that fail, of which the main loop dies; nothing
\* evicted: three clients in turn on two descriptors.
SPECIFICATION Spec
CONSTANTS
  s1 = s1  s2 = s2  s3 = s3
  f1 = f1  f2 = f2  f3 = f3
  w1 = w1  w2 = w2
  None = None
  Listener = Listener
  Socks <- ThreeSocks
  FDs <- TwoFDs
  Workers <- TwoWorkers
  MaxPending = 2
  Pollers = {"epoll", "poll"}
  Tls = TRUE
INVARIANTS
  OneServer
  UseIsServed
  PendingIsWatched
SYMMETRY Symmetry
PROPERTY ImplementsSessions
CHECK_DEADLOCK FALSE
