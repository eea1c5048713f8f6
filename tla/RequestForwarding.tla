-------------------------- MODULE RequestForwarding --------------------------
(***************************************************************************)
(* How a request is sent to an endpoint and its response streamed back:    *)
(* RequestSender, ResponseReceiverGeth and EndpointConnectionHandler as    *)
(* handle_client and the sync test use them.  Of the pool only what keeps  *)
(* connections for reuse is here; EndpointConnectionPool has the rest.     *)
(*                                                                         *)
(* A response is two pieces, a head and the rest; recv() returns some of   *)
(* what has arrived.  Pieces carry the request they answer, which the code *)
(* cannot see: it takes what comes next on a connection for its answer.    *)
(***************************************************************************)
EXTENDS Integers, Sequences, SequencesExt

CONSTANTS
  Users,     \* threads that send requests: proxy workers and sync tests
  Testers,   \* the users that run the sync test
  Conns,     \* places for connections that exist at a time
  Requests,  \* bound: requests that are around at a time
  None

ASSUME ForwardingAssumption ==
  /\ Testers \subseteq Users
  /\ None \notin Conns \cup Requests

VARIABLES
  idle,       \* connections kept for reuse, least recently used first
  link,       \* of each connection: "none", "open", "reset" by the endpoint
              \* or "closed" by the proxy
  owed,       \* the pieces its endpoint will send, in order
  pipe,       \* the pieces that arrived and were not read
  abandoned,  \* connections an exception left in the middle of an exchange
  pc,         \* where each user is
  conn,       \* its connection
  fresh,      \* EndpointConnectionHandler.is_reconnect_forbidden
  req,        \* its request
  parsing,    \* its response parser has seen a head and waits for the rest
  got,        \* the requests whose answers it took for its own
  reply       \* what its client got, in the end or so far; "failed" is an error
              \* message or a closed connection

streamVars == <<idle, link, owed, pipe, abandoned>>
userVars   == <<pc, conn, fresh, req, parsing, got, reply>>
vars == <<streamVars, userVars>>

UserStates ==
  { "out", "held", "sent",
    "done",       \* the response is complete
    "failing",    \* caught BrokenConnectionError
    "excepted" }  \* in the last exception handler, or in a finally clause

Replies == {"none", "part", "full", "failed"}
Pieces == [of : Requests, part : {"head", "rest"}]
Response(r) == <<[of |-> r, part |-> "head"], [of |-> r, part |-> "rest"]>>

Init ==
  /\ idle = <<>>
  /\ link = [c \in Conns |-> "none"]
  /\ owed = [c \in Conns |-> <<>>]
  /\ pipe = [c \in Conns |-> <<>>]
  /\ abandoned = {}
  /\ pc = [u \in Users |-> "out"]
  /\ conn = [u \in Users |-> None]
  /\ fresh = [u \in Users |-> FALSE]
  /\ req = [u \in Users |-> None]
  /\ parsing = [u \in Users |-> FALSE]
  /\ got = [u \in Users |-> {}]
  /\ reply = [u \in Users |-> "full"]

Outstanding(c) == pipe[c] \o owed[c]
Unused(r) ==
  /\ \A u \in Users : req[u] # r
  /\ \A c \in Conns : \A p \in ToSet(Outstanding(c)) : p.of # r

Goto(u, state) == pc' = [pc EXCEPT ![u] = state]

-----------------------------------------------------------------------------
(* Faulty variants: what each property would catch.                        *)

CompleteAtHead(data) == TRUE
ClosedForgotten(c) == link[c]
ErrorUnsaid(u) == reply[u]


-----------------------------------------------------------------------------
(* Helpers.                                                                *)

\* on_message_complete(): what the parser was fed ends a response.
Complete(data) == \E i \in 1 .. Len(data) : data[i].part = "rest"

\* handler.close() closes the socket of a connection that failed.
AfterClose(c) == "closed"

\* What is there to read from the socket that reconnect() creates.
NewStream(c) == <<>>

\* is_ready_read(5) gives up, or the endpoint closed the connection.
NothingToRead(u) == pipe[conn[u]] = <<>>

\* Where a worker goes on after a BrokenConnectionError in receive(); the
\* sync test runs into its finally clause.
AfterBroken(u) == IF u \in Testers THEN "excepted" ELSE "failing"

\* What the client got once handle_client answered with connection_error.
AfterError(u) == "failed"

\* The connection of u comes back and is kept, or the pool is not active and
\* hands it to the closing thread.
Return(u, state) ==
  \/ /\ idle' = Append(idle, conn[u])
     /\ link' = [link EXCEPT ![conn[u]] = state]
     /\ UNCHANGED <<owed, pipe>>
  \/ /\ link' = [link EXCEPT ![conn[u]] = "none"]
     /\ owed' = [owed EXCEPT ![conn[u]] = <<>>]
     /\ pipe' = [pipe EXCEPT ![conn[u]] = <<>>]
     /\ UNCHANGED idle

Leave(u) ==
  /\ Goto(u, "out")
  /\ conn' = [conn EXCEPT ![u] = None]
  /\ req' = [req EXCEPT ![u] = None]
  /\ got' = [got EXCEPT ![u] = {}]
  /\ parsing' = [parsing EXCEPT ![u] = FALSE]
  /\ UNCHANGED fresh

-----------------------------------------------------------------------------
(* A user takes a connection, sends, receives and gives it back.           *)

Acquire(u) ==
  /\ pc[u] = "out"
  /\ \/ /\ idle # <<>>
        /\ conn' = [conn EXCEPT ![u] = Head(idle)]
        /\ fresh' = [fresh EXCEPT ![u] = FALSE]
        /\ idle' = Tail(idle)
        /\ UNCHANGED <<link, abandoned>>
     \/ /\ idle = <<>>
        /\ \E c \in Conns :
             /\ link[c] = "none"
             /\ link' = [link EXCEPT ![c] = "open"]
             /\ conn' = [conn EXCEPT ![u] = c]
             /\ abandoned' = abandoned \ {c}
        /\ fresh' = [fresh EXCEPT ![u] = TRUE]
        /\ UNCHANGED idle
  /\ \E r \in Requests :
       /\ Unused(r)
       /\ req' = [req EXCEPT ![u] = r]
  /\ Goto(u, "held")
  /\ reply' = [reply EXCEPT ![u] = "none"]
  /\ UNCHANGED <<owed, pipe, parsing, got>>

\* No pool gives a connection, or dialling fails.
Refused(u) ==
  /\ pc[u] = "out"
  /\ reply' = [reply EXCEPT ![u] = AfterError(u)]
  /\ UNCHANGED <<streamVars, pc, conn, fresh, req, parsing, got>>

\* The request is written.  What is written to a connection the endpoint has
\* closed is lost, and writing it need not fail.
Send(u) ==
  /\ pc[u] = "held"
  /\ \/ /\ link[conn[u]] = "open"
        /\ owed' = [owed EXCEPT ![conn[u]] = @ \o Response(req[u])]
     \/ /\ link[conn[u]] = "reset"
        /\ UNCHANGED owed
  /\ Goto(u, "sent")
  /\ fresh' = [fresh EXCEPT ![u] = TRUE]
  /\ UNCHANGED <<idle, link, pipe, abandoned, conn, req, parsing, got, reply>>

\* Writing a reused connection failed: reconnect() and write again.
Resend(u) ==
  /\ pc[u] = "held"
  /\ ~fresh[u]
  /\ link' = [link EXCEPT ![conn[u]] = "open"]
  /\ pipe' = [pipe EXCEPT ![conn[u]] = NewStream(conn[u])]
  /\ owed' = [owed EXCEPT ![conn[u]] = Response(req[u])]
  /\ abandoned' = abandoned \ {conn[u]}
  /\ Goto(u, "sent")
  /\ UNCHANGED <<idle, conn, fresh, req, parsing, got, reply>>

\* Writing failed, and reconnecting or writing again failed or was forbidden:
\* the connection goes to the closing thread.
SendFail(u) ==
  /\ pc[u] = "held"
  /\ link' = [link EXCEPT ![conn[u]] = "none"]
  /\ owed' = [owed EXCEPT ![conn[u]] = <<>>]
  /\ pipe' = [pipe EXCEPT ![conn[u]] = <<>>]
  /\ conn' = [conn EXCEPT ![u] = None]
  /\ Goto(u, AfterBroken(u))
  /\ UNCHANGED <<idle, abandoned, fresh, req, parsing, got, reply>>

\* The data continues or starts a response.
Parses(u, data) == parsing[u] <=> data[1].part = "rest"

Deliver(u, data) ==
  /\ Parses(u, data)
  /\ got' = [got EXCEPT ![u] = @ \cup {p.of : p \in ToSet(data)}]
  /\ parsing' = [parsing EXCEPT ![u] = Last(data).part = "head"]
  /\ IF Complete(data)
     THEN Goto(u, "done") /\ reply' = [reply EXCEPT ![u] = "full"]
     ELSE reply' = [reply EXCEPT ![u] = "part"] /\ UNCHANGED pc

\* A ConnectionError of the client's socket is caught as one of the endpoint;
\* what the parser raises and any other error is not.
DeliverFail(u, data) ==
  /\ \/ Parses(u, data) /\ Goto(u, AfterBroken(u))
     \/ Goto(u, "excepted")
  /\ UNCHANGED <<got, parsing, reply>>

\* recv() returns data, the parser is fed and the callback sends it on.
Receive(u) ==
  /\ pc[u] = "sent"
  /\ \E n \in 1 .. Len(pipe[conn[u]]) :
       LET data == SubSeq(pipe[conn[u]], 1, n)
       IN  /\ pipe' = [pipe EXCEPT ![conn[u]] = SubSeq(@, n + 1, Len(@))]
           /\ \/ Deliver(u, data)
              \/ DeliverFail(u, data)
  /\ UNCHANGED <<idle, link, owed, abandoned, conn, fresh, req>>

ReceiveFail(u) ==
  /\ pc[u] = "sent"
  /\ NothingToRead(u)
  /\ Goto(u, AfterBroken(u))
  /\ UNCHANGED <<streamVars, conn, fresh, req, parsing, got, reply>>

\* release() after a response, or a client connection that cannot be kept.
Finish(u) ==
  /\ pc[u] = "done"
  /\ Return(u, link[conn[u]])
  /\ Leave(u)
  /\ UNCHANGED <<abandoned, reply>>

\* handle_client answers with an error, closes the socket and returns, which
\* releases the connection; or answering raises.
Fail(u) ==
  /\ pc[u] = "failing"
  /\ \/ /\ reply' = [reply EXCEPT ![u] = AfterError(u)]
        /\ IF conn[u] = None
           THEN UNCHANGED <<idle, link, owed, pipe>>
           ELSE Return(u, AfterClose(conn[u]))
        /\ Leave(u)
     \/ /\ Goto(u, "excepted")
        /\ UNCHANGED <<idle, link, owed, pipe, conn, fresh, req, parsing, got,
                       reply>>
  /\ UNCHANGED abandoned

\* The connection is released as it is, and a client's connection closed.
Except(u) ==
  /\ pc[u] = "excepted"
  /\ IF conn[u] = None
     THEN UNCHANGED streamVars
     ELSE /\ Return(u, link[conn[u]])
          /\ abandoned' = IF Outstanding(conn[u]) = <<>>
                          THEN abandoned ELSE abandoned \cup {conn[u]}
  /\ reply' = [reply EXCEPT ![u] = "failed"]
  /\ Leave(u)

-----------------------------------------------------------------------------
(* The endpoint, and the pool.                                             *)

\* Endpoints answer the requests of a connection in order.
Answer(c) ==
  /\ link[c] = "open"
  /\ owed[c] # <<>>
  /\ pipe' = [pipe EXCEPT ![c] = Append(@, Head(owed[c]))]
  /\ owed' = [owed EXCEPT ![c] = Tail(@)]
  /\ UNCHANGED <<idle, link, abandoned, userVars>>

HangUp(c) ==
  /\ link[c] = "open"
  /\ link' = [link EXCEPT ![c] = "reset"]
  /\ owed' = [owed EXCEPT ![c] = <<>>]
  /\ UNCHANGED <<idle, pipe, abandoned, userVars>>

\* The cleanup pass or a suspension takes the connection used longest ago.
Retire ==
  /\ idle # <<>>
  /\ idle' = Tail(idle)
  /\ link' = [link EXCEPT ![Head(idle)] = "none"]
  /\ owed' = [owed EXCEPT ![Head(idle)] = <<>>]
  /\ pipe' = [pipe EXCEPT ![Head(idle)] = <<>>]
  /\ UNCHANGED <<abandoned, userVars>>

-----------------------------------------------------------------------------
UserStep(u) ==
  \/ Acquire(u) \/ Refused(u) \/ Send(u) \/ Resend(u) \/ SendFail(u)
  \/ Receive(u) \/ ReceiveFail(u) \/ Finish(u) \/ Fail(u) \/ Except(u)

Next ==
  \/ \E u \in Users : UserStep(u)
  \/ \E c \in Conns : Answer(c) \/ HangUp(c)
  \/ Retire

Spec == Init /\ [][Next]_vars

-----------------------------------------------------------------------------
TypeOK ==
  /\ idle \in Seq(Conns)
  /\ link \in [Conns -> {"none", "open", "reset", "closed"}]
  /\ owed \in [Conns -> Seq(Pieces)]
  /\ pipe \in [Conns -> Seq(Pieces)]
  /\ abandoned \subseteq Conns
  /\ pc \in [Users -> UserStates]
  /\ conn \in [Users -> Conns \cup {None}]
  /\ \A u \in Users : conn[u] = None => pc[u] \in {"out", "failing", "excepted"}
  /\ fresh \in [Users -> BOOLEAN]
  /\ req \in [Users -> Requests \cup {None}]
  /\ parsing \in [Users -> BOOLEAN]
  /\ got \in [Users -> SUBSET Requests]
  /\ reply \in [Users -> Replies]

\* A user takes only answers to its own request for its own, however others
\* used its connection before it: a timed-out exchange, one the endpoint cut
\* off, one that was sent again.  The exception is a connection that was
\* released in the middle of an exchange with its socket open, which the sync
\* test does after a timeout and handle_client after an unexpected exception.
Matched ==
  \A u \in Users :
    conn[u] # None => got[u] \subseteq {req[u]} \/ conn[u] \in abandoned

\* Nothing is on its way on a connection kept for reuse.
IdleIsClean ==
  \A c \in ToSet(idle) \ abandoned :
    link[c] # "closed" => Outstanding(c) = <<>>

\* Whatever happens to the exchange, the client of a worker that is free
\* again was answered or its connection closed.
ClientsAreAnswered ==
  \A u \in Users \ Testers : pc[u] = "out" => reply[u] \notin {"none", "part"}
=============================================================================
