# A verification development for web3-reverse-proxy

The repository is a reverse proxy for Ethereum JSON-RPC: clients connect over
HTTP(S), the proxy checks their quota, chooses an Ethereum endpoint, forwards the
request over a pooled connection and streams the answer back. Everything runs in
one process with many threads. This directory holds TLA+ models of its parts, the
TLC configurations that check them on small instances, and proofs checked by TLAPS
that hold for instances of any size. All paths below are relative to
`src/web3pi_proxy/` of the repository.

## 1. Inventory

| Component | State | Operations | Files |
|---|---|---|---|
| Endpoint connection pool | `status`, `connections` (idle, a queue), `busy_connections`, `connection_close_queue`, `PoolStats` | `get`, `put`, `handle_broken_connection`, `disable`, `out_of_sync`, `activate`, `close`; a cleanup and a closing thread | `core/rpc/node/endpoint_pool/endpoint_connection_pool.py` |
| Endpoint connection and handler | socket, `is_new_connection`, whether the handler was released | `send` with one reconnect, `receive`, `release`, `__del__`, `close` | `core/rpc/node/rpcendpoint/connection/` |
| Request sender and receiver | bytes of a response read so far | `send_request`, `recv_response` with a timeout and a callback | `.../connection/sender.py`, `receiver.py` |
| Client socket pool | table descriptor → entry, doubly linked list with `head`/`tail`, `size` | `add_cs_pending`, `set_cs_in_use`, `set_cs_pending`, `pop_cs_pending_from_tail`, `del_cs_in_use` | `core/rpc/node/client_socket_pool.py` |
| Main loop, workers, closing thread of client sockets | poller registrations, events of a poll, the executor's queue, `queue_cs_for_close` | `main_loop`, `handle_client`, `closing_cs` | `core/proxy.py` |
| Poller and sockets | registrations, open descriptors | epoll with `EPOLLONESHOT`, or `poll()`; accept, TLS handshake | `core/sockets/` |
| Pool manager, damage and sync controllers | pools by name, suspender threads | `get_connection`, `add_pool`, `remove_pool`, suspending and reactivating | `core/rpc/node/endpoint_pool/pool_manager.py` |
| Load balancers | none | choose a pool: at random, the least busy, or the one configured for the user | `.../load_balancers.py` |
| Request reader, middleware chain | request being parsed | read, authenticate, parse, admit | `core/rpc/request/` |
| JSON-RPC validation | none | validate format, content and method of a call | `core/rpc/request/middleware/jsonrpcmiddlewares/` |
| Billing, permissions, ledger | users and their plans; calls and bytes used, by day and of all time | `is_allowed`, priority, constant pool; register, update and remove users; record a request or a piece of a response | `service/billing/`, `state/`, `service/ledger/` |
| Endpoint manager | endpoint list, database rows, pools | add, update, remove | `service/endpoints/endpoint_manager.py` |
| Service admin, HTTP admin server | none of its own | calls into billing, endpoints, state | `service/admin/`, `service/http/` |
| State manager and persistence | users and activity in a database | load at start, save at shutdown | `service/providers/`, `state/`, `db/` |
| UPnP mapper | the ports it mapped | map, roll back, delete all; nothing renews a lease | `core/upnp/`, `service/upnp/` |
| Configuration | settings | made once from the environment | `config/conf.py` |
| Service start and shutdown | the parts above | configure, load, map, bind, serve, close, save | `service/rpcproxyservice.py`, `service/providers/` |

How they interact. The **main loop** owns the poller. It accepts clients into the
client socket pool, and for each readable client gives its socket to a **worker**
of a thread pool. The worker reads a request through the middleware chain (which
asks billing), takes a connection from the **pool manager**, which chooses one
endpoint pool by a load balancer, sends the request, streams the response to the
client through a callback and charges the user. Then it makes the client socket
pending again, or closes it. **Suspender threads** take a failing or lagging pool
out of service and test it until it answers; the endpoint manager adds and removes
pools while all this goes on.

### What is hard here

* *Interleaving and atomicity.* `get()` is two locked sections with an unlocked
  dial between; `handle_broken_connection()` takes no lock; the main loop, eviction,
  workers and a closing thread handle the same descriptors; a worker makes its
  socket pending before it re-arms the poller.
* *Stale state.* Descriptors are reused as soon as they are closed; a poll's events
  may be older than the sockets they are about; the client pool's list keeps links
  nobody maintains.
* *Partial failure.* A failed receive closes a socket whose connection then goes
  back among the idle ones; daemon threads die of exceptions nobody handles.
* *Bounds.* `MAX_PENDING_CLIENT_SOCKETS`, `MAX_CONNECTIONS`, fewer workers than
  clients.
* *Liveness.* Suspended and closing pools must let go of their sockets, all clients
  must be served, `EPOLLONESHOT` must not leave a client deaf, a shutdown must end.
* *Several copies of one fact.* Endpoints are pools, rows and statistics; users are
  objects and rows; a call is counted in two summaries without a lock. Statements
  fail, workers run in between, and the process may end at any point.

`PROJECT.json` lists each of these at the line where it bites, with the properties
that cover it.

### What makes each component correct

* Endpoint connection pool: a connection is in one place; no open socket is
  forgotten while the pool works; `busy_connections` is what is held; nobody closes a socket another
  waits on; suspended and closed pools hand out nothing and drain.
* Client connections: one worker per client at a time; every request is read and
  answered in turn; no client closed while it is silent between requests; no
  pending socket unwatched; the table never leads to a socket that is not its own.
* Request forwarding: every piece of a response reaches the client that asked.
* Pool supervision: a suspended pool has somebody who will reactivate it; a removed
  pool does no more work.
* Request reading: what an endpoint gets is the request one client made, valid,
  whole and charged to that client's key; a kept connection is in step.
* Accounting: a user is never charged for more than it got, and without overlapping
  requests is charged exactly and admitted exactly within its plan.
* Endpoint registry: pools, rows and statistics agree between two calls of the admin;
  what the admin was told is what a restart finds; no request is let in at an endpoint
  that was replaced or removed.
* Service life: a restart has the users, plans and usage of the last completed save;
  the router keeps no mapping; a shutdown ends.

## 2. Modules

| Module | Role |
|---|---|
| `EndpointConnectionPool` | the pool, the handler through which a thread uses a connection, the cleanup and the closing thread |
| `ConnectionLeases` | abstract: connections leased to one user at a time, returned, retired |
| `EndpointConnectionPoolProofs` | theorems about the pool |
| `ClientSocketPool` | the operations of `ClientSocketPool` as operators on a record, no behaviour of its own |
| `ClientConnections` | main loop, poller, workers, closing thread and clients, composed with `ClientSocketPool` |
| `ClientSessions` | abstract: what the proxy promises to each client |
| `ClientConnectionsProofs` | theorems about client connections |
| `RequestForwarding` | how a request is written and its response streamed back over connections that are used again |
| `RequestForwardingProofs` | theorems about exchanges |
| `PoolSupervision` | the pool manager, its two controllers and the threads that suspend and revive pools |
| `PoolSupervisionProofs` | theorems about the supervision |
| `RequestReading` | one client connection's messages through parser, reader and middlewares |
| `RequestReadingProofs` | theorems about the reading of requests |
| `RequestAccounting` | workers admitting and recording requests of a key in the unlocked ledger, beside the admin |
| `RequestAccountingProofs` | theorems about the ledger |
| `EndpointRegistry` | pools, database rows and statistics of endpoints under the admin's calls, restarts and requests that choose a pool |
| `EndpointRegistryProofs` | theorems about the registry |
| `Configuration` | settings from the environment, as operators |
| `PortMapping` | the UPnP mapper and the router |
| `ServiceLife` | lives of the service from start to end, composed of `Configuration`, `PortMapping`, users, ledger, database and admin server |
| `ServiceLifeProofs` | theorems about the lives of the service |
| `MC...` | instances for TLC: sets of model values, symmetry |

### EndpointConnectionPool

State: `status`, `idle` (the queue `connections`), `busy`, `closeQueue` with the
sentinel `None`, `stats`, the socket of each connection, and for each user where it
is in the protocol. A section under the pool's lock is one action; what happens
between two sections is another:

| Code | Actions |
|---|---|
| `get()` | `GetIdle` or `GetMiss` (first section), `Connect` / `ConnectFail` (dial, unlocked), `MarkBusy` (second section) |
| `EndpointConnectionHandler.send()` | `Send`: success, failure of a fresh connection, failure followed by a reconnect that succeeds or fails |
| `receive()`, and what `handle_client` and the sync test do after it | `Receive`: the socket stays open or was closed by a failure |
| `put()` through `release()`, a `finally` clause or `__del__` | `Put` |
| `handle_broken_connection()` | `BrokenUnmark`, `BrokenQueue` (no lock) |
| `disable()`, `out_of_sync()`, `activate()`, `close()` | `Disable`, `OutOfSync`, `Activate`, `Close` |
| closing thread | `CloserTake`, `CloserClose` |
| cleanup thread | `Cleanup`; `Expire` is time passing |

*Data abstraction.* The idle queue is sorted by last use, so which connections are
past the timeout is the number `expired` of those at its front. Of `PoolStats` the
numbers of successes and errors since the last reset are kept. The cleanup thread's
unbound locals are the state `"fresh"`: a first pass over a suspended pool ends the
thread (`"dead"`).

### ClientSocketPool and ClientConnections

`ClientSocketPool` translates each method as an operator from a pool record to a
pool record, with the links exactly as they are assigned: no assignment in the
code gives an entry a `next`, and `prev` of a socket in use keeps its value. That
makes the list differ from the set of pending sockets, which the runs below show
and the properties live with.

`ClientConnections` has one action per step of the main loop (`Measure`, `Evict`,
`Poll`, `Accept`, `AcceptFail`, `Check`, `Dispatch`), of a worker (`Take`, `Read`,
`Keep`, `Drop`, `Rearm`, and the three steps of `__close_client_connection`:
`DeleteSocket`, `Unregister`, `CloseSocket`), of the closing thread
(`CloserUnregister`, `CloserClose`), and of clients (`Dial`, `Say`). A raised
exception is modelled by what catches it: in a worker it leads to
`__close_client_connection` and a second one ends in the job's future (`Fail`); in
the main loop it ends the loop (`"dead"`); in the closing thread it ends the thread.
`accept()` may give a new socket any free descriptor, also one a worker closed a
moment ago. `poller` is epoll or the `poll()` fallback (`Pollers`), `Tls` lets a
handshake fail in `accept()`. What a worker does between reading a request and
answering is one step here.

### RequestForwarding

What `EndpointConnectionPool` takes as one step, sending and receiving, is here in
detail, and of the pool only what keeps connections for reuse. A response is a head
and a rest; `recv()` returns some of the pieces that have arrived. Each piece carries
the request it answers, which the code cannot see: it takes whatever comes next for
its answer, and that this is right is the property.

| Code | Actions |
|---|---|
| `get()`, also when it fails; `release()` | `Acquire`, `Refused`; `Return` in `Finish`, `Fail`, `Except` |
| `send()`: the first attempt, `reconnect()` and the second, both failing | `Send`, `Resend`, `SendFail` |
| a turn of the loop in `recv_response()` with the callback | `Receive` (`Deliver`, `DeliverFail`) |
| the 5 s timeout, the end of the stream | `ReceiveFail` |
| `handle_client`: answer complete; `BrokenConnectionError`; the last handler, and the sync test's `finally` | `Finish`; `Fail`; `Except` |
| the endpoint (external) | `Answer`, `HangUp` |

A `ConnectionError` of the client's socket in the callback is caught as if the
endpoint's connection had failed (`endpoint_connection_handler.py:95`); both are
`DeliverFail`. `is_ready_read(5)` says nothing about what arrives a moment later, so a
timeout may find a response on its way: nothing in the model keeps it from arriving.

### PoolSupervision

A pool is here what `EndpointConnectionPool` promises of it: a status that changes in
single steps and that neither `disable()`, `out_of_sync()` nor `activate()` changes
after `close()` (they raise; `"CLOSED"` stands for `CLOSING` as well). The manager adds
and removes pools by name; a name may be given to a new pool while others still know
the old one. Each controller starts a round from the active pools (`StartRound`) and
checks one after another (`Check`), which may start a suspender thread. A suspender
looks at `is_active()` without the lock (`Look`), suspends (`Suspend`), sleeps and tests
(`Test`), and activates (`Activate`), one step each. What the endpoints do (`Change`)
is external; whether the statistics call a pool broken (`Record`) is a variable that
requests may set while the endpoint is down and that ages.

### RequestReading

One connection, whose client sends any of the `Messages` or several of the `Sequel`
one after another, when it likes. `Receive` takes any number of the events in the
stream as one chunk, so that a message may be cut anywhere and a chunk may hold the
end of one and the beginning of the next. `req` is the `RPCRequest` with the state of
its parser; `log` what became of each request.

| Code | Definitions |
|---|---|
| `HttpRequestParserListener` | `OnUrl`, `OnHeader`, `OnBody`, `OnMessageComplete` |
| the loop of `RequestReader.read_request()`: wait, `recv()`, feed; timeout, end of the stream, `IOError` | `Receive`; `GiveUp` |
| what follows it, and the three middlewares behind | `RequestReader`, `AuthRequestReader`, `AcceptJSONRPCContentReader`, `AcceptMethodRequestReader` in `Answer` |
| the three validators, and the scan without the JSON parser | `JSONRPCFormatValidator`, `JSONRPCContentValidator`, `JSONRPCMethodValidator`; `ScansMethod` |
| the parser of `httptools` (external) | `Parts`, `Callback`, `FeedData` |

*Data abstraction.* A document is a record of what the validators tell apart: the kind
of each member, the order of visit of nested keys and values, which member it begins
with. Three of the 48 methods stand for the three forms of a condition on the number
of parameters. Whether the user's plan allows the request is a choice
(`allowed`) that `RequestAccounting` makes from its books.

### RequestAccounting

Everything about one key: keys share nothing. A load and a store of a counter are two
actions, for `update_stats()` is `x += y` without a lock.

| Code | Actions |
|---|---|
| the chain of middlewares, the client or the connection failing at any point | `Authenticate`, `AcceptContent`, `Leave` |
| `is_allowed()`: usage, registered?, the plan's calls, then its bytes | `ReadUsage`, `CheckRegistered`, `CheckCalls`, `CheckBytes` |
| `get_call_priority()`, `get_user_constant_pool()` | `GetAttribute` |
| `record_rpc_response()` for each piece, `record_rpc_request()` at the end | `Piece`, `Answered`, then for the daily and for the all-time summary `Entry`, `FindMethod`, `CreateMethod`, `Load`, `Store` |
| `register_user`, `update_user_plan` (attribute by attribute), `remove_user` (plan, all-time entry, daily entry) | `Register`; `UpdateCalls`, `UpdateBytes`; `RemovePlan`, `RemoveEntry` |

The plan is an object the admin changes in place, so that a worker between its two
comparisons sees an update; one that was removed meanwhile the worker still holds
(`held`). `live` says whether the object a worker holds is still in the ledger. `answered` and
`billed` are the history the books are compared with; they begin anew with a removal.

### EndpointRegistry

Names with their pools, rows and statistics. A pool is one object, as
`PoolSupervision` sees it from outside: active, suspended or closed.

| Code | Actions |
|---|---|
| `create_default_web3_rpc_proxy()`; interrupt and `cleanup()`; the end, or a crash | `Start`; `Interrupt`; `End` |
| `EndpointManagerService.add_endpoint`, `remove_endpoint`, `update_endpoint` | `Change` (the pool manager), `AddAgain` (the second half of an update), `Write` or `WriteFails` (the database), `Count` (`RPCServiceAdmin`'s statistics and the reply) |
| `EndpointConnectionDescriptor.from_url()` | `FromUrl` |
| `get_connection()` with the manager's lock, the load balancer, `get()` of the pool without that lock | `Choose`, `Read`, `Pick` or `PickNone`, `Get`, `MarkBusy`, `Leave` |
| the controllers | `ChangeStatus` |

`told` is the history of the admin's replies. `failed` are the names of which a
removal or an update lost its database statement; the code answers that the database
is inconsistent and leaves them so until the restart.

### ServiceLife, Configuration and PortMapping

The main thread goes through `phase`; each part of the shutdown, each row of the save
and each request to the router is a step, and the process may end (`Crash`) between any
two. `Configured` makes the settings from an environment, with one setting of each
type and those the start depends on. The user calls of the admin are whole here;
`RequestAccounting` has their steps. `Accept` and `Post` are the admin server: a
request is being read for as long as its client likes, and `StopAdmin` waits for it.
`InterruptAgain` is a second Ctrl-C: in the executor's wait, after which workers still
run while `cleanup()` goes on, or in the wait for the admin server, which `shutdown()`
swallows (`adminserver.py:210`).

`PortMapping` has the mapper's operations and the router (external), which keeps a
mapping beyond the life of the service and drops it when its lease ends.

## 3. Runs

| Run | Question | Answer |
|---|---|---|
| `pool` | does the pool keep its books under every status change, and do suspended and closing pools come to rest? | yes: one place per connection, `busy_connections` exact, `ConnectionLeases` implemented, and no open socket lost but those not among the busy ones when the closing thread was told to stop; under fairness of the threads a disabled pool drains, and `close()` completes unless a connection breaks |
| `pool_expiry` | are unused connections closed, as `config/conf.py:48` says? | no, see findings |
| `clients_safety` | with either poller, failing handshakes and nothing evicted, are clients served as `ClientSessions` says? | yes: one worker per client, exact books of the pool, and no pending socket that nobody watches |
| `clients_liveness` | is every request read and every hang-up closed, with fewer workers than clients? | yes |
| `clients_overflow` | what survives eviction, with failing handshakes and either poller? | the table stays right, and evicted descriptors stay registered until they are closed, so that the closing thread lives |
| `reading` | is what an endpoint gets the valid, whole request of one client, whatever the chunks? | yes for a client that waits for its answers, with the JSON parser; see below for what is excepted |
| `forwarding` | does a user only take answers to its own request, and is every client answered? | yes, but for connections an exception released in the middle of an exchange |
| `supervision` | do pools that were suspended come back, lagging ones go, removed ones stay closed? | yes, although suspenders of both controllers work on one pool |
| `registry` | do pools, rows and statistics agree, are replies durable, and do requests get in at the right pool? | yes, but for names of which a removal or an update lost its database statement, until the restart |
| `accounting` | what do the unlocked ledger and the late charge cost? | never an overcharge; exact books when requests of a key do not overlap, and then admission by what was really used and the plan as it is, but for calls that an update changes between the two comparisons; a removal under way excepted |
| `life` | does a restart find what the last completed save knew, are mappings removed, does a shutdown end? | yes, but for users removed meanwhile, who come back, and an admin request nobody completes |
| `config` | can each documented variable be set? | no, see findings |

**What the runs and the proofs showed besides.** Without eviction all session
properties hold, for any number of clients and workers, also infinitely many
(section 4). With eviction (`clients_overflow`) they do not, for one reason: after the most
recent socket is taken into use the list has lost its links, so the tail may be a
socket in use, closed, or nothing. Then the main loop can die (`AttributeError`
from an empty list, `KeyError` from an unknown descriptor), a served client can be
closed, and two workers can hold one client (`OneServer` fails), and answer it, under
either poller. Under `poll()` it takes a fourth socket: a socket in use is evicted and closed while
its worker serves it, a new client gets its descriptor and a worker of its own, and
when the first worker is done it makes the *new* client's entry pending, which the
main loop gives to a second worker. No run is that large; the attempt to prove that
one worker at a time answers a client failed there. When the stale tail is a closed
socket whose descriptor was reused, the entry popped is the *new* socket's and so is
the registration the closing thread ends: that client's connection stays open,
unknown and unwatched. Three comments of `client_socket_pool.py` do not describe
this code: pending sockets are in no list (line 20), and `del_cs_in_use()` is called
for sockets that are not in use or not known (lines 88-90).
Under `poll()` a report may be older than the last answer (`late` in
`ClientSessions`): the worker it wakes finds nothing to read for 0.1 s and closes a
client that did nothing but wait. `WaitsOnOpenSocket` relies on two things together:
a failed receive closes the socket, and the next `send` on it fails and reconnects.

*Connections behind the sentinel.* `NothingLost` counts a queued connection as taken
care of only where a running closing thread gets to it (`Reached`). It needs the
exception `unseen`: connections whose user was in `get()`, between dialling or taking
them and marking them busy, or on the broken path, when the pool saw none busy and
told the closing thread to stop. Such a connection is used, put back behind the
sentinel and never closed by the pool. The proof says that these are all.

*A connection released in the middle of an exchange.* `Matched` and `IdleIsClean` need
the exception `abandoned`. Without it both are violated: the sync test's `receive()`
times out after 5 s, its `finally` clause releases the connection with the socket
open, the answer arrives later, and the next user of the connection takes the block
it contains for the answer to its own request (from then on every user of this
connection is one answer behind). The same happens after an exception in
`handle_client` that is not a `ConnectionError`. No comment or document of the
repository says that this cannot happen, so it is no finding but an assumption of the
properties. `handle_client` itself avoids it by closing the socket (`proxy.py:220`).
A client that got part of an answer when the receive fails gets a whole error message
after it on the same connection (`proxy.py:214`); the model allows this, and
`ClientsAreAnswered` calls it answered.

*Suspenders.* A sync suspender of a pool that was removed, or closed, never passes its
test again and sleeps and tests for ever. A damage suspender may activate a pool that a
sync suspender has found lagging; `LaggardGoes` says that it is taken out again, and
`SuspendedIsSupervised` that none of the overlaps leaves a pool suspended with nobody
to bring it back.

*Reading.* `on_body` keeps the last piece of a body only (`requestreader.py:46`). With the
JSON parser such a request is answered with `-32700`, for a proper tail of an object is
no JSON; without the parser the piece is forwarded if a member `"method"` can be found
in it, which is why `OnlyValidForwarded` is about `parsed`. A client that pipelines can
have the body of one message forwarded and charged to the key of the next one in the
same chunk, and a message that is begun in the chunk is lost with its parser; hence
`pipelined`. The scan finds no `method` that is the first member
(`jsoncontentvalidator.py:33-53`). A number among the parameters that is no word
(`-1`, `1.5`) raises in the construction of the error message and is answered with 500.
`Connection: Close` ends the parser's stream, but only `close` ends the connection.

*Registry.* After a removal whose database statement failed the pool is gone and the
statistics are not: until the restart the name can be neither removed nor added
(the pool is added, the assertion on the statistics is never reached because creating
the row fails first), and after a failed update the old row comes back with the
restart. A pool that was removed lets nobody in (`LetInIsCurrent`), but a request that
was let in before dials outside the lock and is sent to the old endpoint, also after
the admin was told that the new one is in place.

*Accounting.* With overlapping requests of one key, updates are lost, so a busy user may
get more than its plan; and each request in flight was admitted without the others.
How much more has no bound the code or its documents state, so no property does either.
An update changes the calls of a plan before its bytes, and a worker compares them in
the same order: one that compared the calls before an update and the bytes after it
admits a request by numbers no plan ever had together, which `AdmittedWithinPlan`
excepts (`replanned`).
What an exchange records after its user was removed stays for the next user of the key.

*Life.* A removed user comes back with the restart, for its rows are never deleted. One
that was removed and registered again makes the save raise on the unique index, and
what was not yet saved is lost. A second interrupt lets the save begin while the admin
server still serves; workers may then change what is being saved. `README.md:51` says
that UPnP is enabled by `PUBLIC_SERVICE`; the default of `USE_UPNP` is computed once
from the default of `PUBLIC_SERVICE` and stays false.

### Findings

1. `PROXY_CONNECTION_ADDRESS` and `ADMIN_CONNECTION_ADDRESS` are documented
   (`README.md:55`, `:69`), and setting either keeps the service from starting:
   `AppConfig.__init__` calls the annotation `Optional[str]` to cast the text
   (`config/conf.py:146`), which is a `TypeError`. Run `config`.
2. `config/conf.py:48` promises that an unused connection is closed between one and two
   times `IDLE_CONNECTION_TIMEOUT`. The cleanup thread dies of unbound locals
   (`endpoint_connection_pool.py:162`) when its first pass finds the pool suspended, and
   from then on nothing closes expired connections of that pool. Run `pool_expiry`.
3. The comment at `endpoint_connection_pool.py:215` says that the pool a connection is
   put back to cannot be `CLOSED`. It can, see above; the connection is then queued where
   nobody takes it. In run `pool`, `NothingLost` holds only with the exception `unseen`.
4. `README.md:116`, `:125` and `:134` say that changes of endpoints are saved in the local
   `.env` file. The code saves them in the database, and what would write the file
   (`endpoint_manager.py:25-46`) is called by nothing. In run `registry`,
   `RepliesAreDurable` holds by the database rows alone.

### Bounds

Every set is small and every counter capped; the names are those of the cfgs.

* *Pool.* A worker and a sync test with two connections: two users are needed for a put
  to meet another's get, and a third adds no place in the code between whose sections
  something new could happen; the theorems are about any number of users and
  connections. `MaxConnections = 1` makes one idle connection too many with two put
  back. `MaxCloses = 2` in `pool`, since `close()` may be called twice and its second call
  sets the status again. Connections are created at most `|Conns|` times in a
  behaviour; a connection lives on through reconnects, so that bounds how many
  are *retired*, not how long the pool runs. `StatsBound = 0` keeps the statistics
  out of the runs: nothing reads them in this component.
* *Clients.* Three sockets on two descriptors, so that a descriptor is reused while
  another client is served, and `MaxPending` is the number of descriptors, so that nothing
  is evicted; in `clients_overflow` three descriptors and
  `MaxPending = 1`, the smallest with two sockets to evict. A socket is dialled
  once. `Dial` keeps live sockets below the number of descriptors: the process does
  not run out of them. A client has at most one unread request or hang-up.
* *Reading.* Every document by itself (`Messages`), and up to three of ten messages
  (`Sequel`, `MaxMessages`): one to be cut, one to be merged with it, one after both.
* *Forwarding.* Two workers and a sync test on two connections: one user can leave a
  connection to the next while the third is in the middle of an exchange. Three
  requests exist at a time and are used again once no trace of them is left. Two
  pieces are the least with a response that is begun and not complete.
* *Supervision.* One name with a pool and the one that replaces it, and two suspender
  threads at a time (`Suspenders`), so that two of one controller or one of each meet
  on one pool, or one of them works on the removed pool.
* *Registry.* Two names, so that a call about one leaves another to compare with; three
  pools, so that one replaced is still held by a request; two workers, so that one's use
  changes what the other compares; two URLs that are accepted and one that is not.
* *Accounting.* Two workers, two exchanges (`MaxExchanges`) of one piece each
  (`MaxPieces`): enough for each lost update and for a removal between any two steps.
  One plan is used up by an exchange's call, the other by its bytes.
* *Life.* Two users, one of whom makes calls and is a test account, on two days
  (`MaxDay`), one call a day (`MaxCalls`), so that the sum over days differs from each;
  one plan of the admin beside the test plan; two ports, as in the code.
* *Symmetry* is used in safety runs only, on sets whose members no action
  distinguishes. `CHECK_DEADLOCK FALSE` stands where the system really may stop: a
  closed pool, a main loop that died, a client connection that was closed.

### Fairness

* A user inside the pool goes on (`WF` of its step unless it is `"out"`), the
  closing and the cleanup thread run, the main loop, the workers and the closing
  thread of clients run. The operating system schedules threads, and no action of
  these holds a lock while it waits for another thread.
* Nobody is obliged to enter the pool, to change its status, to let time pass, to
  dial, to speak or to hang up.
* In `supervision` the controllers and the suspenders run. A suspender whose test could
  succeed all the time passes it in the end; one whose endpoint comes and goes need
  not. `LaggardGoes` asks besides that a suspender thread can be started again and
  again, which stands for the bound on threads and not for anything in the code.
* In `life` only the main thread after an interrupt is fair (`Main`). A client of the
  admin server is not: `ShutdownEnds` ends there.
* A user's progress includes that a send or receive ends. Receiving from an endpoint
  has a timeout (`receiver.py`). Sending has none: `is_ready_write()` waits without
  limit (`sender.py:30`), `sendall` to a slow client too (`basesocket.py:21-23`), and
  so does a TLS handshake (`basesocket.py:86-88`). The liveness results assume that
  these return, and `Tls = FALSE` in the run that states them.

## 4. Proofs

For any sets of users, connections, sockets, descriptors, workers, endpoints and plans,
from the named assumptions `PoolAssumption`, `ClientConnectionsAssumption`, those of
`ClientSocketPool`, `ForwardingAssumption`, `SupervisionAssumption` and `NoneAssumption`
(that `None` is no pool, task, name or user's entry), `UrlAssumption` (the fields of a
parsed URL), `PlansAssumption` (the two numbers of a plan), `WorkersAssumption` (a
thread pool is finite), `MessagesAssumption` (what a message consists of),
`DaysAssumption` (there is a first day, and the bound on calls is a number) and
`PortsAssumption` (the ports are a sequence). Four theorems about clients have one hypothesis
more, `Roomy`: the process may have at most `MAX_PENDING_CLIENT_SOCKETS` descriptors
for clients (10,000 unless configured), so that nothing is evicted, however many
clients come and go: pending sockets are never more than descriptors
(`PendingFinite`). Section 3 says what happens otherwise.

| Theorem | States | Argument |
|---|---|---|
| `EndpointConnectionPoolProofs!TypeCorrect` | `[]TypeOK` | inductive with `UserHasConn`: `MarkBusy`, `Put` and the broken path need the user to have a connection (`Typed`) |
| `NoConnectionInTwoPlaces` | `[]OnePlace` | inductive with `Born` (`Placed`): `Connect` gives a connection that is new because whatever is anywhere has had a socket. `MoveToQueue` is the lemma about the drain loops, `DropPrefix` about the cleanup pass |
| `IdleConnectionsOnlyInActivePool` | `[]IdleOnlyWhenActive` | inductive: only `Put` in an active pool adds to the queue, and each way out of `ACTIVE` empties it |
| `NobodyClosesAnAwaitedSocket` | `[]WaitsOnOpenSocket` | from `OnePlace`: who closes or reopens a socket is the one that holds its connection, or the closing thread |
| `PoolNeverOutgrowsItsUsers` | `[]PoolBounded` | inductive: `get()` dials only when nothing is idle, counted with the library's facts on cardinality |
| `NoConnectionIsLost` | `[]NothingLost` | inductive as `Known` (an open connection is held, idle, queued or being closed, and `busy_connections` is what is held; `Moves` says what each action takes from which set and adds to which) and `Missed`: a connection queued behind the sentinel is `unseen`, because the sentinel is queued only when none is busy, and whatever is queued later was held unmarked then. `Behind` and `QueueMore` are about places in the queue |
| `SentinelComesFromClose` | `[]SentinelMeansClosed` | inductive: only `close()` puts `None` into the queue or begins to leave `ACTIVE` for good, and nothing leads back |
| `PoolImplementsLeases` | `ImplementsLeases` | every action is a step of `ConnectionLeases` or a stutter (`MovesAreLeases`), because it moves at most one connection from one place to another or retires many from the idle ones (`Moves`) |
| `ClientConnectionsProofs!TypeCorrect` | `[]TypeOK` | part of the invariant `Inv` of the next row: that `fd[s]` is a descriptor where the code uses it needs `Traced` |
| `TableLeadsToOpenSockets` | `[]TableIsOpen` | inductive as `Inv`, with `Traced` (what jobs, workers, the closing thread and the links of the list lead to was accepted, so has a descriptor) and `Removed` (a socket evicted or about to be unregistered or closed is not in the table): the table has an open socket only if whoever closes one has deleted its entry first, also after a descriptor is reused and when eviction takes a socket in use |
| `ClosingThreadSurvives` | `[]EvictedAreRegistered` | inductive with `Inv` as `HolderInv`: a socket that was evicted, or is being closed by a worker, is held by one thread only (`OneHolder`), its descriptor is registered (`HeldAreRegistered`) and is no other open socket's (`HeldAreTaken`). Without the last, another client's end could take the registration away. Holds with eviction and under both pollers |
| `OneServerPerClient` | `Roomy => []OneServer` | inductive as `RoomyInv`: work on a socket is entered as `IN_USE` (`WorkIsInUse`) and is had by one job or worker (`WorkIsApart`), what the main loop or a report of the poller leads to is idle or about to be re-armed by its own worker (`CurIsIdle`, `ReportIsAlone`, `RearmIsAlone`), and an idle socket is watched (`IdleIsWatched`); by `NothingEvicted` no socket is taken from the list's stale tail, for which the number of pending entries is counted with the library's facts on cardinality |
| `UseIsExact` | `Roomy => []UseIsServed` | from `RoomyInv` |
| `NoPendingIsDeaf` | `Roomy => []PendingIsWatched` | from `RoomyInv`: an idle socket is watched, or its worker is about to re-arm it |
| `ConnectionsImplementSessions` | `Roomy => ImplementsSessions` | `RoomyInv` with `OneOwner` and `ReportIsDue` (with epoll a report means that the client said something since). The refinement mapping `Turn` is tracked by `TurnKept` and `TurnMoves`; then one lemma per action names the step of `ClientSessions` or the stutter |
| `RequestForwardingProofs!TypeCorrect` | `[]TypeOK` | part of the invariant `IInv` of the next rows |
| `AnswersAreMatched` | `[]Matched` | inductive as `Apart` and `InStep`. `Apart`: who uses a connection uses it alone, and a place without one has no stream. `Reading` says what can be on the way to a user that waits: a suffix of its own response, cut off anywhere, and it starts with the rest exactly when the parser waits for the rest; it is kept by what arrives, what is lost and what is read (`ReadingArrives`, `ReadingLost`, `ReadingGoesOn`). `Doing` ties it to where the user is |
| `IdleConnectionsAreClean` | `[]IdleIsClean` | from `IInv`: each way to give a connection back closes it, has read it empty or abandons it (`GiveBack`) |
| `WorkersAnswer` | `[]ClientsAreAnswered` | inductive with: a finished exchange has its reply in full |
| `PoolSupervisionProofs!TypeCorrect` | `[]TypeOK` | inductive; `SuspenderTyped` is the lemma about moving and ending a suspender |
| `RemovedPoolsStayClosed` | `[]OpenIsRegistered` | inductive with `Born`: a pool a controller or suspender knows was created, so that no task can make one open that `add_pool` has not registered; that it was removed meanwhile is what `IsClosed` finds under the pool's lock |
| `SuspendedPoolsAreSupervised` | `[]SuspendedIsSupervised` | inductive as it stands: a suspender that suspends the pool becomes the one responsible, whoever was; one that ends has just activated the pool |
| `RequestReadingProofs!TypeCorrect` | `[]TypeOK` | from `ReadingInv` of the next rows, with `LogTyped`: every way through the reader and the middlewares ends in one of the codes (`ReaderTyped`) |
| `RequestsAreTheirOwn` | `[]EachRequestIsItsOwn` | inductive as `ReadingInv` = `Typed`, `AllAnswered`, `Waits`: for a client that waits for its answers, the stream holds what is left of one message (`LeftOf`), and the request being parsed is what the parts fed so far make of it (`Half`). What a whole chunk makes of a request follows from what one event does (`CallbackHalf`, `FeedHalf`), by the least event after which it would not hold |
| `ForwardedAreValid` | `[]OnlyValidForwarded` | from `ReadingInv`; `ValidatorsAgree` says that what passes the three validators in the code's order is valid |
| `ConnectionsAreKeptAtBoundary` | `[]KeptAtBoundary` | from `ReadingInv` |
| `RequestAccountingProofs!TypeCorrect` | `[]TypeOK` | inductive as it stands; one lemma per action says what it makes of its worker's job (`LoadMoves`, `StoreMoves`, ...) |
| `AssertionsFailOnRemovalOnly` | `[]RaisedMeansRemoved` | inductive with `Flow` and `Removing`: a worker past the check of its plan has a registered user unless one was removed since |
| `NobodyIsOvercharged` | `[]NeverOvercharged` | inductive as `Bounded` (`Fits`): what a summary has, *plus the number of workers that have loaded or are yet to load it*, is at most what was used. The bound itself is not inductive: with it alone a worker could store one more than was ever answered |
| `BooksAreExact` | `[]QuietLedgerIsExact` | inductive as `Exact` (`Balanced`): while no exchanges overlap the ledger lags by exactly the step the one recording worker has left |
| `AdmissionIsExact` | `AdmittedWithinPlan` | from `Exact`: the usage a worker compares is still what was used; and `Compared`: a plan that is gone is held only after a removal that found an exchange under way, and who got to the bytes found calls left in the plan as it is, or an update came between |
| `EndpointRegistryProofs!TypeCorrect` | `[]TypeOK` | from `Books` and `Chosen` of the next rows, with `Kinds` (what a worker lists, reads and picks are pools) |
| `StatisticsNeverRaise` | `[]AdminNeverRaises` | from `CallTyped` and `Halfway`: a call gets as far as the statistics only if they have an entry exactly when it replaces one |
| `RepliesAreKept` | `[]RepliesAreDurable` | inductive as `Durable`: a row differs from the last reply only between its statement and the reply |
| `EndpointsAgree` | `[]PartsAgree` | inductive as `Books`: `Halfway` says how far pools, row and statistics of the call's endpoint have got, `Others` that all other names agree, `Static` that nothing changes without the store. `AddPoolServes`, `RemovePoolServes` and `BuildServes` are the lemmas about pools that come and go beside those of other names |
| `LetInAtCurrentEndpoints` | `LetInIsCurrent` | from `Books` and `Open`: a pool that is not closed is registered, for removing closes it; and the books say which URL a registered pool has |
| `PicksAreSound` | `[]PickIsSound` | inductive as `Undisturbed`: as long as no pool changed while the worker chose, what it read is what is there; the least of the loads exists because the pools are finitely many (`LeastExists`) |
| `ServiceLifeProofs!TypeCorrect` | `[]TypeOK` | from `Rows` and `Totals` of the next rows, with `Kinds`; that the next port to map is one of the ports needs a first one that is not mapped (`NextPortIsPort`) |
| `MappingsAreRemoved` | `[]NoMappingLeft` | inductive as `Mappings`, which says in each phase that a mapping of the router is in the mapper's list, stale, or one whose deletion was refused (`DeletionKeeps`) |
| `SavingRaisesAfterRemoval` | `[]SaveRaisesOnlyAfterRemoval` | inductive as `Rows`: a user whose row is not its object's own was removed in this life (`UserCallRows`) |
| `RestartsRestore` | `[]RestartRestoresLastSave` | inductive as `LifeInv` = `Rows`, `Totals` (the calls of all time are the sum over the days), `Progress` (how far the save or the load has got, user by user) and `Kept` (the database has what the last completed save knew, or the save of more is under way). `SumOfNone` and `SumOfMore` are the lemmas about the sum |

Each invariant, action property and refinement that a passing run checks is stated by
one of these theorems, and all of them are proved from the modules as TLC runs them.

*Induction over data.* The library's induction theorems take an operator as a parameter,
which the installed provers cannot instantiate. Where the models compute along a
sequence or a set (`FeedData`, `SumOf`, the validators' `Min`), the definition is a
recursive function or a least element, and the proofs argue by a least counterexample:
`WFMin` with `NatLessThanWellFounded` needs no operator (`LeastExists`, `UpTo`).

### Only model-checked

Liveness under fairness, which the proof system does not reach: `DisabledPoolDrains`,
`CloseCompletes`, `ClientsAreServed`, `GoodComesBack`,
`LaggardGoes`, `ShutdownEnds`.

## 5. Not modelled

Inside the components that are modelled:

* *Sockets and poller.* Garbage collection closing a socket nobody references (a
  connection behind the sentinel is closed by it sooner or later), running out of
  descriptors, the limit on events per `epoll_wait`, `POLLNVAL`.
* *Endpoint statistics.* The time windows of `PoolStats` (a variable of
  `PoolSupervision` says what they yield).
* *Ledger.* The change of the day between the choice of a daily entry and its use
  (`activityledger.py:40`), and a summary that is saved while a worker adds to it
  (`activitysummary.py:92` iterates over a dictionary that may grow).
* *Admin.* Calls that only read, the page it serves and the token in it. Refused calls
  change nothing and are not steps.
* *Answers.* Formatting of pages and errors, with the `id` of an error answer
  (`utilhttp/errors.py:78` drops an id of 0 and does not quote one that is a string),
  and CORS headers.
* *Shutdown.* `cleanup()` closing the server socket, which no client notices once the
  main loop has ended.

As whole parts: logging and the capture of the console (text), the migrations of the
database (generated), HTTP error pages and option responses (formatting), and code
nothing calls: `InboundServer` beyond its socket, the request manager, the cache, the
response class and the pickle provider.

## 6. State of the plan

1. `EndpointConnectionPool` and `ConnectionLeases`: done, with the refinement proved.
2. `ClientSocketPool`, `ClientConnections`, `ClientSessions`: done, with the refinement
   proved where nothing is evicted. Not stated: what two workers that serve one client
   after an eviction may do to it.
3. `RequestForwarding`: done.
4. `PoolSupervision`: done.
5. `RequestReading`: done.
6. `RequestAccounting`: done. It could be composed with `RequestReading`, whose
   `allowed` it decides; the composition would say nothing the two do not.
7. `EndpointRegistry`: done.
8. `ServiceLife`: done.
