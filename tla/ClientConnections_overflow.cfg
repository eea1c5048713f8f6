\* Either poller, TLS handshakes that fail, and more pending sockets than
\* MAX_PENDING_CLIENT_SOCKETS: the main loop may die.
SPECIFICATION Spec
CONSTANTS
  s1 = s1  s2 = s2  s3 = s3
  f1 = f1  f2 = f2  f3 = f3
  w1 = w1  w2 = w2
  None = None
  Listener = Listener
  Socks <- ThreeSocks
  FDs <- ThreeFDs
  Workers <- TwoWorkers
  MaxPending = 1
  Pollers = {"epoll", "poll"}
  Tls = TRUE
INVARIANTS
  TableIsOpen
  EvictedAreRegistered
SYMMETRY Symmetry
CHECK_DEADLOCK FALSE
