----------------------- MODULE EndpointConnectionPool -----------------------
(***************************************************************************)
(* The pool of sockets to one endpoint: EndpointConnectionPool together    *)
(* with the EndpointConnectionHandler through which a thread uses a        *)
(* connection, the closing thread and the cleanup thread.                  *)
(*                                                                         *)
(* A section under the pool's lock is one action; what a thread does       *)
(* between two sections, or without the lock, is an action of its own.     *)
(***************************************************************************)
EXTENDS Integers, Sequences, FiniteSets, Functions

CONSTANTS
  Users,           \* threads that take connections: proxy workers, sync tests
  Testers,         \* the users that call get(out_of_sync=True)
  Conns,           \* EndpointConnection objects that may ever be created
  None,            \* no connection; in the close queue, the sentinel
  MaxConnections,  \* MAX_CONNECTIONS
  MaxCloses,       \* bound: how often close() is called
  StatsBound       \* bound: where the counters of PoolStats saturate

ASSUME PoolAssumption ==
  /\ Testers \subseteq Users
  /\ IsFiniteSet(Users)
  /\ None \notin Conns
  /\ MaxConnections \in Nat
  /\ MaxCloses \in Nat
  /\ StatsBound \in Nat

VARIABLES
  status,      \* PoolStatus
  idle,        \* self.connections, least recently used first
  expired,     \* how many of the first idle connections outlived the timeout
  busy,        \* self.busy_connections
  closeQueue,  \* self.connection_close_queue
  stats,       \* PoolStats: recorded successes and errors
  closes,      \* calls of close() so far
  sock,        \* the socket of each connection
  pc,          \* where each user is
  conn,        \* the connection a user has got, None if it has none
  fresh,       \* EndpointConnectionHandler.is_new_connection
  closing,     \* the connection the closing thread is about to close
  closer,      \* the closing thread is running
  cleaner,     \* the cleanup thread
  unseen       \* history: connections out of busy_connections, or not opened
               \* yet, when the closing thread was told to stop

poolVars   == <<status, idle, expired, busy, closeQueue, stats, closes>>
userVars   == <<pc, conn, fresh>>
threadVars == <<closing, closer, cleaner, unseen>>
vars == <<poolVars, sock, userVars, threadVars>>

Statuses == {"ACTIVE", "DISABLED", "OUT_OF_SYNC", "CLOSING", "CLOSED"}

UserStates ==
  { "out",       \* outside the pool
    "dialing",   \* get() found no idle connection and opens one, unlocked
    "got",       \* has a connection that is not in busy_connections yet
    "held",      \* has a handler
    "sent",      \* has sent its request and waits for the response
    "leaving",   \* is about to put() its connection
    "broken",    \* is about to enter handle_broken_connection()
    "unmarked" } \* has removed it from busy_connections, not yet queued it

\* "fresh": the cleanup thread has not had its first pass over an ACTIVE pool,
\* so the locals its log lines read are unbound; "warm": they are bound.
CleanerStates == {"fresh", "warm", "stopped", "dead"}

Saturate(n) == IF n < StatsBound THEN n + 1 ELSE n
NoStats == [ok |-> 0, err |-> 0]
RecordOk  == [stats EXCEPT !.ok = Saturate(@)]
RecordErr == [stats EXCEPT !.err = Saturate(@)]

Init ==
  /\ status = "ACTIVE"
  /\ idle = <<>>
  /\ expired = 0
  /\ busy = {}
  /\ closeQueue = <<>>
  /\ stats = NoStats
  /\ closes = 0
  /\ sock = [c \in Conns |-> "none"]
  /\ pc = [u \in Users |-> "out"]
  /\ conn = [u \in Users |-> None]
  /\ fresh = [u \in Users |-> FALSE]
  /\ closing = None
  /\ closer = TRUE
  /\ cleaner = "fresh"
  /\ unseen = {}

-----------------------------------------------------------------------------
(* Faulty variants of the helpers below: what each property would catch.   *)

ActiveUnlessDisabled == status # "DISABLED"
ClosedOnlyClosing == status = "CLOSING"
EmptyNeverLooked == TRUE
RestKeepsHead == idle
LastOutBeforeRemove(u) == status = "CLOSING" /\ busy = {}
AnyOut(u) == status = "CLOSING"
ReconnectedOldSocket(u) == sock
DrainedForgets == closeQueue
RotatedOnlyExpired == SubSeq(idle, expired + 1, Len(idle))

-----------------------------------------------------------------------------
(* Helpers.                                                                *)

IsActive == status = "ACTIVE"
Closed == status \in {"CLOSING", "CLOSED"}

Empty == idle = <<>>     \* connections.empty()
Rest  == Tail(idle)      \* what get_nowait() leaves

\* Of the expired connections, those left when the first n idle ones are gone.
ExpiredAfter(n) == IF expired > n THEN expired - n ELSE 0

Freed(u) == busy \ {conn[u]}
LastOut(u) == status = "CLOSING" /\ Freed(u) = {}

Reconnected(u) == [sock EXCEPT ![conn[u]] = "open"]

\* History: the sentinel was queued, and what a step that queues it misses.
Told == None \in Range(closeQueue) \/ ~closer
Unmarked == {conn[u] : u \in {v \in Users : pc[v] \in {"got", "unmarked"}}}

\* The close queue after every idle connection was moved to it.
Drained == closeQueue \o idle

\* The cleanup pass removes what exceeds MAX_CONNECTIONS, then of the rest
\* what is past the timeout.  The queue is sorted by last use, so all that
\* goes is at its front, and rotating the queue keeps the order of the rest.
Surplus ==
  LET excess == Len(idle) - MaxConnections
  IN  IF excess > expired THEN excess ELSE expired
Rotated == SubSeq(idle, Surplus + 1, Len(idle))

-----------------------------------------------------------------------------
(* get(): a first locked section decides, a second marks the connection.   *)

MayGet(u) == IsActive \/ (u \in Testers /\ status = "OUT_OF_SYNC")

\* A refused get() raises and changes nothing.
GetIdle(u) ==
  /\ pc[u] = "out"
  /\ MayGet(u)
  /\ ~Empty
  /\ pc' = [pc EXCEPT ![u] = "got"]
  /\ conn' = [conn EXCEPT ![u] = Head(idle)]
  /\ fresh' = [fresh EXCEPT ![u] = FALSE]
  /\ idle' = Rest
  /\ expired' = ExpiredAfter(1)
  /\ UNCHANGED <<status, busy, closeQueue, stats, closes, sock, threadVars>>

GetMiss(u) ==
  /\ pc[u] = "out"
  /\ MayGet(u)
  /\ Empty
  /\ pc' = [pc EXCEPT ![u] = "dialing"]
  /\ UNCHANGED <<poolVars, sock, conn, fresh, threadVars>>

Connect(u) ==
  /\ pc[u] = "dialing"
  /\ \E c \in Conns :
       /\ sock[c] = "none"
       /\ sock' = [sock EXCEPT ![c] = "open"]
       /\ conn' = [conn EXCEPT ![u] = c]
       /\ unseen' = IF Told THEN unseen \cup {c} ELSE unseen
  /\ pc' = [pc EXCEPT ![u] = "got"]
  /\ fresh' = [fresh EXCEPT ![u] = TRUE]
  /\ UNCHANGED <<poolVars, closing, closer, cleaner>>

ConnectFail(u) ==
  /\ pc[u] = "dialing"
  /\ pc' = [pc EXCEPT ![u] = "out"]
  /\ stats' = RecordErr
  /\ UNCHANGED <<status, idle, expired, busy, closeQueue, closes, sock, conn,
                 fresh, threadVars>>

MarkBusy(u) ==
  /\ pc[u] = "got"
  /\ busy' = busy \cup {conn[u]}
  /\ pc' = [pc EXCEPT ![u] = "held"]
  /\ UNCHANGED <<status, idle, expired, closeQueue, stats, closes, sock, conn,
                 fresh, threadVars>>

-----------------------------------------------------------------------------
(* The handler: send(), receive(), release() and the broken path.          *)

\* A send on a closed socket fails; a send on an open one may.  One failure
\* of a reused connection is repaired by reconnect(), which closes the socket
\* and opens another; any other failure breaks the connection.
Send(u) ==
  /\ pc[u] = "held"
  /\ \/ /\ sock[conn[u]] = "open"
        /\ pc' = [pc EXCEPT ![u] = "sent"]
        /\ UNCHANGED sock
     \/ /\ fresh[u]
        /\ pc' = [pc EXCEPT ![u] = "broken"]
        /\ UNCHANGED sock
     \/ /\ ~fresh[u]
        /\ \/ /\ sock' = Reconnected(u)
              /\ pc' \in {[pc EXCEPT ![u] = s] : s \in {"sent", "broken"}}
           \/ /\ sock' = [sock EXCEPT ![conn[u]] = "closed"]
              /\ pc' = [pc EXCEPT ![u] = "broken"]
  /\ UNCHANGED <<poolVars, conn, fresh, threadVars>>

\* The response arrived, or handling it failed without the socket being
\* closed (the generic handler of handle_client, a failed sync test), or the
\* endpoint failed and handle_client closes the socket.  Each way ends in a
\* release: by name, in a finally clause, or by __del__.
Receive(u) ==
  /\ pc[u] = "sent"
  /\ pc' = [pc EXCEPT ![u] = "leaving"]
  /\ sock' \in {sock, [sock EXCEPT ![conn[u]] = "closed"]}
  /\ UNCHANGED <<poolVars, conn, fresh, threadVars>>

Put(u) ==
  /\ pc[u] = "leaving"
  /\ busy' = Freed(u)
  /\ IF IsActive
     THEN /\ stats' = RecordOk
          /\ idle' = Append(idle, conn[u])
          /\ UNCHANGED <<closeQueue, status, unseen>>
     ELSE /\ IF LastOut(u)
             THEN /\ closeQueue' = Append(Append(closeQueue, conn[u]), None)
                  /\ status' = "CLOSED"
                  /\ unseen' = unseen \cup Unmarked
             ELSE /\ closeQueue' = Append(closeQueue, conn[u])
                  /\ UNCHANGED <<status, unseen>>
          /\ UNCHANGED <<stats, idle>>
  /\ pc' = [pc EXCEPT ![u] = "out"]
  /\ conn' = [conn EXCEPT ![u] = None]
  /\ UNCHANGED <<expired, closes, sock, fresh, closing, closer, cleaner>>

\* handle_broken_connection() takes no lock.
BrokenUnmark(u) ==
  /\ pc[u] = "broken"
  /\ busy' = Freed(u)
  /\ pc' = [pc EXCEPT ![u] = "unmarked"]
  /\ UNCHANGED <<status, idle, expired, closeQueue, stats, closes, sock, conn,
                 fresh, threadVars>>

BrokenQueue(u) ==
  /\ pc[u] = "unmarked"
  /\ stats' = RecordErr
  /\ closeQueue' = Append(closeQueue, conn[u])
  /\ pc' = [pc EXCEPT ![u] = "out"]
  /\ conn' = [conn EXCEPT ![u] = None]
  /\ UNCHANGED <<status, idle, expired, busy, closes, sock, fresh, threadVars>>

-----------------------------------------------------------------------------
(* What the controllers and the pool manager call.                         *)

\* disable() and out_of_sync() differ in the status they set.
Suspend(to) ==
  /\ ~Closed
  /\ status' = to
  /\ closeQueue' = Drained
  /\ idle' = <<>>
  /\ expired' = 0
  /\ stats' = NoStats
  /\ UNCHANGED <<busy, closes, sock, userVars, threadVars>>

Disable == Suspend("DISABLED")
OutOfSync == Suspend("OUT_OF_SYNC")

Activate ==
  /\ ~Closed
  /\ status' = "ACTIVE"
  /\ UNCHANGED <<idle, expired, busy, closeQueue, stats, closes, sock,
                 userVars, threadVars>>

Close ==
  /\ closes < MaxCloses
  /\ closes' = closes + 1
  /\ IF busy = {}
     THEN /\ status' = "CLOSED"
          /\ closeQueue' = Append(Drained, None)
          /\ unseen' = unseen \cup Unmarked
     ELSE /\ status' = "CLOSING"
          /\ closeQueue' = Drained
          /\ UNCHANGED unseen
  /\ idle' = <<>>
  /\ expired' = 0
  /\ UNCHANGED <<busy, stats, sock, userVars, closing, closer, cleaner>>

-----------------------------------------------------------------------------
(* The two daemon threads, and time.                                       *)

CloserTake ==
  /\ closer
  /\ closing = None
  /\ closeQueue # <<>>
  /\ closing' = Head(closeQueue)
  /\ closer' = (Head(closeQueue) # None)
  /\ closeQueue' = Tail(closeQueue)
  /\ UNCHANGED <<status, idle, expired, busy, stats, closes, sock, userVars,
                 cleaner, unseen>>

CloserClose ==
  /\ closing # None
  /\ sock' = [sock EXCEPT ![closing] = "closed"]
  /\ closing' = None
  /\ UNCHANGED <<poolVars, userVars, closer, cleaner, unseen>>

Cleanup ==
  /\ cleaner \in {"fresh", "warm"}
  /\ IF Closed
     THEN /\ cleaner' = "stopped"
          /\ UNCHANGED <<idle, expired, closeQueue>>
     ELSE IF IsActive
     THEN /\ cleaner' = "warm"
          /\ closeQueue' = closeQueue \o SubSeq(idle, 1, Surplus)
          /\ idle' = Rotated
          /\ expired' = ExpiredAfter(Surplus)
     ELSE /\ cleaner' = IF cleaner = "fresh" THEN "dead" ELSE "warm"
          /\ UNCHANGED <<idle, expired, closeQueue>>
  /\ UNCHANGED <<status, busy, stats, closes, sock, userVars, closing, closer,
                 unseen>>

\* IDLE_CONNECTION_TIMEOUT passes for the connections used longest ago.
Expire ==
  /\ expired' \in (expired + 1) .. Len(idle)
  /\ UNCHANGED <<status, idle, busy, closeQueue, stats, closes, sock, userVars,
                 threadVars>>

-----------------------------------------------------------------------------
UserStep(u) ==
  \/ GetIdle(u) \/ GetMiss(u) \/ Connect(u) \/ ConnectFail(u) \/ MarkBusy(u)
  \/ Send(u) \/ Receive(u) \/ Put(u) \/ BrokenUnmark(u) \/ BrokenQueue(u)

ControlStep == Disable \/ OutOfSync \/ Activate \/ Close
CloserStep == CloserTake \/ CloserClose

Next ==
  \/ \E u \in Users : UserStep(u)
  \/ ControlStep
  \/ CloserStep
  \/ Cleanup
  \/ Expire

Spec == Init /\ [][Next]_vars

\* Threads are scheduled: a user that is in the pool goes on, and the daemon
\* threads run.  Nobody has to enter the pool or to change its status.
Fairness ==
  /\ \A u \in Users : WF_vars(pc[u] # "out" /\ UserStep(u))
  /\ WF_vars(CloserStep)
  /\ WF_vars(Cleanup)

FairSpec == Spec /\ Fairness

-----------------------------------------------------------------------------
TypeOK ==
  /\ status \in Statuses
  /\ idle \in Seq(Conns)
  /\ expired \in 0 .. Len(idle)
  /\ busy \subseteq Conns
  /\ closeQueue \in Seq(Conns \cup {None})
  /\ stats \in [ok : 0 .. StatsBound, err : 0 .. StatsBound]
  /\ closes \in 0 .. MaxCloses
  /\ sock \in [Conns -> {"none", "open", "closed"}]
  /\ pc \in [Users -> UserStates]
  /\ conn \in [Users -> Conns \cup {None}]
  /\ fresh \in [Users -> BOOLEAN]
  /\ closing \in Conns \cup {None}
  /\ closer \in BOOLEAN
  /\ cleaner \in CleanerStates
  /\ unseen \subseteq Conns

Held == {conn[u] : u \in Users} \ {None}
Inside == {u \in Users : pc[u] # "out"}

\* A user has a connection exactly between getting it and giving it back.
UserHasConn ==
  \A u \in Users : conn[u] = None <=> pc[u] \in {"out", "dialing"}

\* No connection is in two places: two threads never write requests to the
\* same socket, and the closing thread never gets a connection somebody uses
\* or the pool may still hand out.  get(), put(), the broken path, the status
\* changes and the cleanup pass each move connections between the places.
OnePlace ==
  /\ \A u, v \in Users : conn[u] = conn[v] /\ conn[u] # None => u = v
  /\ \A i, j \in 1 .. Len(idle) : idle[i] = idle[j] => i = j
  /\ \A i, j \in 1 .. Len(closeQueue) :
       closeQueue[i] = closeQueue[j] /\ closeQueue[i] # None => i = j
  /\ \A u \in Users, i \in 1 .. Len(idle) : conn[u] # idle[i]
  /\ \A u \in Users, j \in 1 .. Len(closeQueue) :
       conn[u] = closeQueue[j] => conn[u] = None
  /\ \A u \in Users : conn[u] = closing => closing = None
  /\ \A i \in 1 .. Len(idle) : idle[i] # closing
  /\ \A i \in 1 .. Len(idle), j \in 1 .. Len(closeQueue) : idle[i] # closeQueue[j]
  /\ \A j \in 1 .. Len(closeQueue) : closeQueue[j] = closing => closing = None

\* A connection that is anywhere has had its socket opened.
Born ==
  /\ \A u \in Users : conn[u] # None => sock[conn[u]] # "none"
  /\ \A i \in 1 .. Len(idle) : sock[idle[i]] # "none"
  /\ \A j \in 1 .. Len(closeQueue) :
       closeQueue[j] # None => sock[closeQueue[j]] # "none"
  /\ closing # None => sock[closing] # "none"

\* busy_connections is what the handlers hold: remove() never raises KeyError,
\* and the load balancer and close() count the right connections.
BusyIsHeld ==
  busy = {conn[u] : u \in {v \in Users :
                             pc[v] \in {"held", "sent", "leaving", "broken"}}}

\* Whether the closing thread gets to this place of the queue: it runs, and
\* no sentinel comes before.
Reached(j) == closer /\ \A i \in 1 .. j : closeQueue[i] # None
Doomed ==
  ({closeQueue[j] : j \in {k \in 1 .. Len(closeQueue) : Reached(k)}}
     \cup {closing}) \ {None}

\* While its socket is open somebody holds a connection, the pool keeps it for
\* reuse, or the closing thread will get to it.  A socket leaks in one way
\* only: its user was in get(), before it was marked busy, or in the broken
\* path, when the pool saw no busy connection left and told the closing thread
\* to stop, and its connection is queued behind the sentinel.  And the pool
\* counts as busy exactly what is held.
NothingLost ==
  /\ \A c \in Conns :
       sock[c] = "open" => c \in Held \cup Range(idle) \cup Doomed \cup unseen
  /\ BusyIsHeld

\* A user that waits for a response does so on an open socket, whatever was
\* left in the pool by an earlier user whose endpoint failed.
WaitsOnOpenSocket == \A u \in Users : pc[u] = "sent" => sock[conn[u]] = "open"

\* Connections are idle only while the pool is ACTIVE: none survives disable(),
\* out_of_sync() or close(), however late its user puts it back.
IdleOnlyWhenActive == idle # <<>> => status = "ACTIVE"

\* The pool never keeps more connections than threads can use at once, counting
\* those that are in use or being opened, although a get() that found it empty
\* opens a new one without looking again.
PoolBounded == Len(idle) + Cardinality(Inside) <= Cardinality(Users)

\* The closing thread is told to stop only by close(): whatever disable(),
\* out_of_sync() or the cleanup pass queue before it is still closed.
SentinelMeansClosed == Told => status \in {"CLOSING", "CLOSED"}

\* What a connection is to the users of the pool.
Phase == [c \in Conns |->
  CASE c \in Held -> "leased"
    [] c \in Range(idle) -> "idle"
    [] c \notin Held \cup Range(idle) /\ sock[c] = "none" -> "unborn"
    [] OTHER -> "retired"]

\* A connection is leased to one user at a time and a retired one never again.
Leases == INSTANCE ConnectionLeases WITH lease <- conn, phase <- Phase
ImplementsLeases == Leases!Spec

\* A pool that is DISABLED for good lets go of every socket: its users bring
\* them back and the closing thread closes them.
DisabledPoolDrains ==
  <>[](status = "DISABLED") => <>[](\A c \in Conns : sock[c] # "open")

\* close() completes once the users have put their connections back: a pool
\* stays CLOSING for ever only when a connection broke meanwhile, since
\* handle_broken_connection() does not look whether it removes the last busy
\* connection.
CloseCompletes ==
  <>[](status = "CLOSING")
    => <>(status = "CLOSING" /\ \E u \in Users : pc[u] = "unmarked")

\* config/conf.py: "unused conn to eth rpc node is closed between
\* IDLE_CONNECTION_TIMEOUT and 2*IDLE_CONNECTION_TIMEOUT".  The code does not
\* keep this: the cleanup thread may die in its first pass.
ExpiredReclaimed == expired > 0 ~> expired = 0
=============================================================================
