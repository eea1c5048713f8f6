------------------------- MODULE ClientConnections -------------------------
(***************************************************************************)
(* How client connections are served: the main loop of Web3RPCProxy with   *)
(* its poller, the ThreadPoolExecutor's workers in handle_client, the      *)
(* thread that closes evicted sockets, and the clients.  What a worker     *)
(* does with a request between reading it and answering is left out here.  *)
(***************************************************************************)
EXTENDS ClientSocketPool, Sequences, Functions

CONSTANTS
  Workers,     \* the threads of the executor
  Listener,    \* the descriptor of the server socket
  MaxPending,  \* MAX_PENDING_CLIENT_SOCKETS
  Pollers,     \* "epoll" where select has EPOLLONESHOT, else "poll"
  Tls          \* SSL_ENABLED: a handshake may fail in accept()

ASSUME ClientConnectionsAssumption ==
  /\ Listener \notin FDs \cup {None}
  /\ MaxPending \in Nat
  /\ Pollers \subseteq {"epoll", "poll"}
  /\ Tls \in BOOLEAN

VARIABLES
  poller,   \* what get_poller() chose
  pool,     \* active_client_connections
  sock,     \* each client socket: "new", "queued" for accept, "open", "closed"
  fd,       \* cs.fd
  unread,   \* what the client sent and nobody has read
  watch,    \* the poller's registrations: "off", "armed", "disarmed"
  loop,     \* the main loop: "top", "evict", "events" or "dead"
  surplus,  \* how many pending sockets this pass has still to evict
  batch,    \* the events of the last poll that are still to be handled
  cur,      \* the descriptor that has passed is_in_use
  jobs,     \* the executor's queue
  wpc,      \* where each worker is in handle_client
  cs,       \* its client socket
  excepted, \* the workers in the generic exception handler of handle_client
  evicted,  \* queue_cs_for_close
  closing,  \* the socket the closing thread has unregistered
  closer    \* the closing thread is running

mainVars   == <<poller, loop, surplus, batch, cur>>
workerVars == <<wpc, cs, excepted>>
closerVars == <<evicted, closing, closer>>
vars == <<pool, sock, fd, unread, watch, mainVars, jobs, workerVars, closerVars>>

WorkerStates ==
  {"idle", "reading", "serving", "rearming", "deleting", "unregistering",
   "closing"}

Init ==
  /\ poller \in Pollers
  /\ pool = EmptyPool
  /\ sock = [s \in Socks |-> "new"]
  /\ fd = [s \in Socks |-> None]
  /\ unread = [s \in Socks |-> "none"]
  /\ watch = [f \in FDs |-> "off"]
  /\ loop = "top"
  /\ surplus = 0
  /\ batch = {}
  /\ cur = None
  /\ jobs = <<>>
  /\ wpc = [w \in Workers |-> "idle"]
  /\ cs = [w \in Workers |-> None]
  /\ excepted = {}
  /\ evicted = <<>>
  /\ closing = None
  /\ closer = TRUE

Owns(s, f) == sock[s] = "open" /\ fd[s] = f
Free(f) == \A s \in Socks : ~Owns(s, f)

-----------------------------------------------------------------------------
(* Faulty variants of the helpers below: what each property would catch.   *)

DisarmedNever(fs) == watch
SkippedUnknownOnly(f) == ~Known(pool, f)
HandledForgetsRest(f) == {}
RearmedNever(w) == watch

-----------------------------------------------------------------------------
(* Helpers.                                                                *)

\* What poll() reports: a watched socket with something to read, and the
\* listener while a client waits to be accepted.
Ready ==
  {f \in FDs : /\ watch[f] = "armed"
               /\ \E s \in Socks : Owns(s, f) /\ unread[s] # "none"}
  \cup {f \in {Listener} : \E s \in Socks : sock[s] = "queued"}

\* EPOLLONESHOT: a reported descriptor stays registered but is not watched.
Disarmed(fs) ==
  [f \in FDs |-> IF poller = "epoll" /\ f \in fs THEN "disarmed" ELSE watch[f]]

Skipped(f) == ~Known(pool, f) \/ IsInUse(pool, f)

\* The events left when the one of f was handled, and where the loop goes.
Handled(f) == batch \ {f}
LoopAfter(events) == IF events = {} THEN "top" ELSE "events"

\* What reading from s leads to.  Nothing to read within 0.1 s, the end of
\* the stream and a socket closed meanwhile all end the connection, as a
\* request that is malformed or stays incomplete does.
Outcomes(s) ==
  IF sock[s] = "open" /\ unread[s] = "request"
  THEN {"serving", "deleting"}
  ELSE {"deleting"}

Rearmed(w) == [watch EXCEPT ![fd[cs[w]]] = "armed"]

\* Closing a socket ends its registration with epoll.
Shut(s) == [sock EXCEPT ![s] = "closed"]
WatchWithout(s) ==
  IF poller = "epoll" /\ sock[s] = "open" THEN [watch EXCEPT ![fd[s]] = "off"] ELSE watch

-----------------------------------------------------------------------------
(* Clients.                                                                *)

\* Bound: the process never runs out of descriptors.
Dial(s) ==
  /\ sock[s] = "new"
  /\ Cardinality({x \in Socks : sock[x] \in {"queued", "open"}})
       < Cardinality(FDs)
  /\ sock' = [sock EXCEPT ![s] = "queued"]
  /\ UNCHANGED <<pool, fd, unread, watch, mainVars, jobs, workerVars, closerVars>>

\* The client sends a request or hangs up.
Say(s) ==
  /\ sock[s] \in {"queued", "open"}
  /\ unread[s] = "none"
  /\ \E m \in {"request", "eof"} : unread' = [unread EXCEPT ![s] = m]
  /\ UNCHANGED <<pool, sock, fd, watch, mainVars, jobs, workerVars, closerVars>>

-----------------------------------------------------------------------------
(* The main loop.                                                          *)

\* get_size() takes no lock; the loop goes on with what it read.
Measure ==
  /\ loop = "top"
  /\ surplus' = pool.size - MaxPending
  /\ loop' = "evict"
  /\ UNCHANGED <<poller, pool, sock, fd, unread, watch, batch, cur, jobs,
                 workerVars, closerVars>>

\* pop_cs_pending_from_tail() of an empty list, or of an entry that was
\* deleted, raises, and the exception ends the main loop.
Evict ==
  /\ loop = "evict"
  /\ surplus > 0
  /\ IF pool.tail # None /\ Known(pool, fd[pool.tail])
     THEN /\ pool' = PopTail(pool, fd[pool.tail])
          /\ evicted' = Append(evicted, pool.tail)
          /\ surplus' = surplus - 1
          /\ UNCHANGED loop
     ELSE /\ loop' = "dead"
          /\ UNCHANGED <<pool, evicted, surplus>>
  /\ UNCHANGED <<poller, sock, fd, unread, watch, batch, cur, jobs, workerVars,
                 closing, closer>>

Poll ==
  /\ loop = "evict"
  /\ surplus <= 0
  /\ batch' = Ready
  /\ watch' = Disarmed(Ready)
  /\ loop' = LoopAfter(Ready)
  /\ surplus' = 0
  /\ UNCHANGED <<poller, pool, sock, fd, unread, cur, jobs, workerVars, closerVars>>

Accept ==
  /\ loop = "events"
  /\ cur = None
  /\ Listener \in batch
  /\ \E s \in Socks, f \in FDs :
       /\ sock[s] = "queued"
       /\ Free(f)
       /\ sock' = [sock EXCEPT ![s] = "open"]
       /\ fd' = [fd EXCEPT ![s] = f]
       /\ pool' = AddPending(pool, f, s)
       /\ watch' = [watch EXCEPT ![f] = "armed"]
  /\ batch' = Handled(Listener)
  /\ loop' = LoopAfter(Handled(Listener))
  /\ UNCHANGED <<poller, unread, surplus, cur, jobs, workerVars, closerVars>>

\* accept_awaiting_connection() returns None and add_cs_pending() raises.
AcceptFail ==
  /\ Tls
  /\ loop = "events"
  /\ cur = None
  /\ Listener \in batch
  /\ \E s \in Socks : sock[s] = "queued" /\ sock' = Shut(s)
  /\ loop' = "dead"
  /\ UNCHANGED <<poller, pool, fd, unread, watch, surplus, batch, cur, jobs,
                 workerVars, closerVars>>

\* An event of an unknown socket or one in use ends the pass: the events
\* that were to follow are dropped.
Check(f) ==
  /\ loop = "events"
  /\ cur = None
  /\ f \in batch
  /\ IF Skipped(f)
     THEN batch' = {} /\ loop' = "top" /\ UNCHANGED cur
     ELSE cur' = f /\ UNCHANGED <<batch, loop>>
  /\ UNCHANGED <<poller, pool, sock, fd, unread, watch, surplus, jobs,
                 workerVars, closerVars>>

Dispatch ==
  /\ loop = "events"
  /\ cur # None
  /\ IF Known(pool, cur)
     THEN /\ jobs' = Append(jobs, pool.table[cur])
          /\ pool' = SetInUse(pool, cur)
          /\ batch' = Handled(cur)
          /\ loop' = LoopAfter(Handled(cur))
     ELSE /\ loop' = "dead"
          /\ UNCHANGED <<jobs, pool, batch>>
  /\ cur' = None
  /\ UNCHANGED <<poller, sock, fd, unread, watch, surplus, workerVars, closerVars>>

MainStep ==
  Measure \/ Evict \/ Poll \/ Accept \/ AcceptFail \/ Dispatch
    \/ \E f \in FDs : Check(f)

-----------------------------------------------------------------------------
(* A worker in handle_client.                                              *)

Goto(w, state) == wpc' = [wpc EXCEPT ![w] = state]

Leave(w) ==
  /\ Goto(w, "idle")
  /\ cs' = [cs EXCEPT ![w] = None]
  /\ excepted' = excepted \ {w}

\* An exception ends up in __close_client_connection, one raised there in
\* the job's future, where nobody looks.
Fail(w) ==
  IF w \in excepted
  THEN Leave(w)
  ELSE /\ Goto(w, "deleting")
       /\ excepted' = excepted \cup {w}
       /\ UNCHANGED cs

Take(w) ==
  /\ wpc[w] = "idle"
  /\ jobs # <<>>
  /\ Goto(w, "reading")
  /\ cs' = [cs EXCEPT ![w] = Head(jobs)]
  /\ jobs' = Tail(jobs)
  /\ UNCHANGED <<pool, sock, fd, unread, watch, mainVars, excepted, closerVars>>

Read(w) ==
  /\ wpc[w] = "reading"
  /\ \E outcome \in Outcomes(cs[w]) : Goto(w, outcome)
  /\ unread' = IF unread[cs[w]] = "request"
               THEN [unread EXCEPT ![cs[w]] = "none"] ELSE unread
  /\ UNCHANGED <<pool, sock, fd, watch, mainVars, jobs, cs, excepted, closerVars>>

\* The request is answered and the connection is kept.
Keep(w) ==
  /\ wpc[w] = "serving"
  /\ IF Known(pool, fd[cs[w]])
     THEN /\ pool' = SetPending(pool, fd[cs[w]])
          /\ IF poller = "epoll"
             THEN Goto(w, "rearming") /\ UNCHANGED <<cs, excepted>>
             ELSE Leave(w)
     ELSE Fail(w) /\ UNCHANGED pool
  /\ UNCHANGED <<sock, fd, unread, watch, mainVars, jobs, closerVars>>

\* The client asked for close, or answering it raised.
Drop(w) ==
  /\ wpc[w] = "serving"
  /\ Goto(w, "deleting")
  /\ UNCHANGED <<pool, sock, fd, unread, watch, mainVars, jobs, cs, excepted,
                 closerVars>>

Rearm(w) ==
  /\ wpc[w] = "rearming"
  /\ IF sock[cs[w]] = "open" /\ watch[fd[cs[w]]] # "off"
     THEN watch' = Rearmed(w) /\ Leave(w)
     ELSE Fail(w) /\ UNCHANGED watch
  /\ UNCHANGED <<pool, sock, fd, unread, mainVars, jobs, closerVars>>

\* The three steps of __close_client_connection.
DeleteSocket(w) ==
  /\ wpc[w] = "deleting"
  /\ IF Known(pool, fd[cs[w]])
     THEN /\ pool' = Delete(pool, fd[cs[w]])
          /\ Goto(w, "unregistering")
          /\ UNCHANGED <<cs, excepted>>
     ELSE Fail(w) /\ UNCHANGED pool
  /\ UNCHANGED <<sock, fd, unread, watch, mainVars, jobs, closerVars>>

Unregister(w) ==
  /\ wpc[w] = "unregistering"
  /\ IF watch[fd[cs[w]]] # "off"
     THEN /\ watch' = [watch EXCEPT ![fd[cs[w]]] = "off"]
          /\ Goto(w, "closing")
          /\ UNCHANGED <<cs, excepted>>
     ELSE Fail(w) /\ UNCHANGED watch
  /\ UNCHANGED <<pool, sock, fd, unread, mainVars, jobs, closerVars>>

CloseSocket(w) ==
  /\ wpc[w] = "closing"
  /\ sock' = Shut(cs[w])
  /\ watch' = WatchWithout(cs[w])
  /\ Leave(w)
  /\ UNCHANGED <<pool, fd, unread, mainVars, jobs, closerVars>>

WorkerStep(w) ==
  \/ Take(w) \/ Read(w) \/ Keep(w) \/ Drop(w) \/ Rearm(w)
  \/ DeleteSocket(w) \/ Unregister(w) \/ CloseSocket(w)

-----------------------------------------------------------------------------
(* The closing thread dies if a descriptor is not registered any more.     *)

CloserUnregister ==
  /\ closer
  /\ closing = None
  /\ evicted # <<>>
  /\ evicted' = Tail(evicted)
  /\ LET s == Head(evicted)
     IN  IF watch[fd[s]] # "off"
         THEN /\ watch' = [watch EXCEPT ![fd[s]] = "off"]
              /\ closing' = s
              /\ UNCHANGED closer
         ELSE closer' = FALSE /\ UNCHANGED <<watch, closing>>
  /\ UNCHANGED <<pool, sock, fd, unread, mainVars, jobs, workerVars>>

CloserClose ==
  /\ closing # None
  /\ sock' = Shut(closing)
  /\ watch' = WatchWithout(closing)
  /\ closing' = None
  /\ UNCHANGED <<pool, fd, unread, mainVars, jobs, workerVars, evicted, closer>>

CloserStep == CloserUnregister \/ CloserClose

-----------------------------------------------------------------------------
Next ==
  \/ \E s \in Socks : Dial(s) \/ Say(s)
  \/ MainStep
  \/ \E w \in Workers : WorkerStep(w)
  \/ CloserStep

Spec == Init /\ [][Next]_vars

\* Threads are scheduled; clients do as they like.
Fairness ==
  /\ WF_vars(MainStep)
  /\ \A w \in Workers : WF_vars(WorkerStep(w))
  /\ WF_vars(CloserStep)

FairSpec == Spec /\ Fairness

-----------------------------------------------------------------------------
TypeOK ==
  /\ poller \in Pollers
  /\ pool \in Pools
  /\ sock \in [Socks -> {"new", "queued", "open", "closed"}]
  /\ fd \in [Socks -> FDs \cup {None}]
  /\ unread \in [Socks -> {"none", "request", "eof"}]
  /\ watch \in [FDs -> {"off", "armed", "disarmed"}]
  /\ loop \in {"top", "evict", "events", "dead"}
  /\ surplus \in Int
  /\ batch \subseteq FDs \cup {Listener}
  /\ cur \in FDs \cup {None}
  /\ jobs \in Seq(Socks)
  /\ wpc \in [Workers -> WorkerStates]
  /\ cs \in [Workers -> Socks \cup {None}]
  /\ \A w \in Workers : cs[w] = None <=> wpc[w] = "idle"
  /\ excepted \subseteq Workers
  /\ evicted \in Seq(Socks)
  /\ closing \in Socks \cup {None}
  /\ closer \in BOOLEAN

\* Where handle_client may still read, answer or delete.
Serving(w) == wpc[w] \notin {"idle", "rearming"}
Ending(w) == wpc[w] \in {"deleting", "unregistering", "closing"}
Served == Range(jobs) \cup {cs[w] : w \in {v \in Workers : Serving(v)}}

\* While nothing is evicted no client connection is served by two workers at
\* once, nor queued for a second one: two answers are never mixed on one socket
\* and no worker closes what another one serves, although poll() reports a
\* request again while it is served and a descriptor is reused at once.
OneServer ==
  /\ \A v, w \in Workers : cs[v] = cs[w] /\ Serving(v) /\ Serving(w) => v = w
  /\ \A i, j \in 1 .. Len(jobs) : jobs[i] = jobs[j] => i = j
  /\ \A w \in Workers : Serving(w) => cs[w] \notin Range(jobs)

\* A socket is in use in the pool exactly while a worker has it or is about
\* to get it, which are the conditions the comments of the pool state for
\* set_cs_pending and del_cs_in_use; and get_size(), read without the lock and
\* kept apart from the list, is the number of the others whatever becomes of
\* the list.
UseIsServed ==
  /\ {s \in pool.inUse : \E f \in FDs : pool.table[f] = s} =
       Range(jobs)
       \cup {cs[w] : w \in {v \in Workers :
                              wpc[v] \in {"reading", "serving", "deleting"}}}
  /\ pool.size = Cardinality(Pending(pool))

\* The pool never leads to a closed socket, nor to another one of the same
\* descriptor: accept() may reuse it at once after a worker closed it.
TableIsOpen ==
  \A f \in FDs : Known(pool, f) => Owns(pool.table[f], f)

\* No pending socket is deaf: the poller watches it, its event is still to be
\* handled, or its worker is about to watch it again.
PendingIsWatched ==
  \A s \in Pending(pool) :
    \/ watch[fd[s]] = "armed"
    \/ fd[s] \in batch
    \/ \E w \in Workers : wpc[w] = "rearming" /\ cs[w] = s

\* Whose turn it is on a connection.
Turn ==
  [s \in Socks |->
     IF sock[s] \in {"new", "queued"} THEN "absent"
     ELSE IF sock[s] = "closed" THEN "gone"
     ELSE IF \E w \in Workers : cs[w] = s /\ wpc[w] = "serving" THEN "answering"
     ELSE IF \E w \in Workers : cs[w] = s /\ Ending(w) THEN "ending"
     ELSE IF s \in Served THEN "served"
     ELSE "waiting"]

\* While nothing is evicted the proxy serves each client as ClientSessions says:
\* with poll(), which does not disarm what it reports, a report may be late.
Sessions ==
  INSTANCE ClientSessions WITH late <- (poller = "poll"), turn <- Turn
ImplementsSessions == Sessions!Spec

\* Whatever a client sends while its connection is open is read or the
\* connection is closed, and the connection of a client that hung up is closed,
\* though workers are fewer than clients.
ClientsAreServed == \A s \in Socks :
  /\ (sock[s] = "open" /\ unread[s] = "request")
       ~> (unread[s] # "request" \/ sock[s] = "closed")
  /\ (sock[s] = "open" /\ unread[s] = "eof") ~> sock[s] = "closed"

\* Until the closing thread gets to it, the descriptor of an evicted socket
\* stays registered, although workers unregister and close sockets too and
\* eviction may take a socket that is in use or closed: the closing thread
\* never dies of a descriptor that is not registered any more.
EvictedAreRegistered ==
  /\ closer
  /\ \A s \in Range(evicted) : watch[fd[s]] # "off"
=============================================================================
