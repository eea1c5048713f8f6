\* epoll, nothing evicted, fewer workers than clients.
SPECIFICATION FairSpec
CONSTANTS
  s1 = s1  s2 = s2  s3 = s3
  f1 = f1  f2 = f2  f3 = f3
  w1 = w1  w2 = w2
  None = None
  Listener = Listener
  Socks <- ThreeSocks
  FDs <- TwoFDs
  Workers <- OneWorker
  MaxPending = 3
  Pollers = {"epoll"}
  Tls = FALSE
PROPERTY ClientsAreServed
