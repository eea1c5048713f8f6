--------------------------- MODULE EndpointRegistry ---------------------------
(***************************************************************************)
(* The endpoints of the service are kept in three places: the pools of the *)
(* pool manager, the rows of the database, and the statistics of the       *)
(* admin.  Calls of the admin server, which serves one at a time, change   *)
(* them one after another, while workers choose among the pools with the   *)
(* load balancer; after a restart the rows are what is left.               *)
(***************************************************************************)
EXTENDS Naturals, FiniteSets, FiniteSetsExt

CONSTANTS
  Names,       \* names of endpoints
  Urls,        \* what parse_url() makes of an URL, see UrlAssumption
  Pools,       \* EndpointConnectionPool objects, used again once forgotten
  Workers,
  None

ASSUME UrlAssumption ==
  \A u \in Urls : DOMAIN u = {"scheme", "host", "port"}
ASSUME NoneAssumption ==
  None \notin Names /\ None \notin Urls /\ None \notin Pools
ASSUME WorkersAssumption == IsFiniteSet(Workers)

VARIABLES
  life,      \* "up", "closing" (cleanup() was called) or "down"
  store,     \* Config.ETH_ENDPOINTS_STORE
  config,    \* Config.ETH_ENDPOINTS: the URL of each name, or None
  balancer,  \* Config.LOADBALANCER
  pools,     \* EndpointConnectionPoolManager.pools: a pool or None
  status,    \* its PoolStatus; "SUSPENDED": DISABLED and OUT_OF_SYNC
  descr,     \* what its endpoint dials: EndpointConnectionDescriptor
  rows,      \* the table of endpoints: the URL of each name, or None
  stats,     \* endpoint_stats: the pool whose statistics are shown, or None
  call,      \* the admin's call: what, of which name, with which URL, where
  job,       \* each worker's choice of a connection, see NoJob
  told,      \* history: what the rows are after the replies given so far
  failed     \* history: names of which a call lost a database statement

configVars  == <<store, config, balancer>>
poolVars    == <<pools, status, descr>>
adminVars   == <<rows, stats, call, told, failed>>
vars == <<life, configVars, poolVars, adminVars, job>>

Balancers == {"Random", "LeastBusy", "Constant"}
NoCall == [op |-> "none", name |-> None, url |-> None, at |-> "idle"]

\* want: the user's constant_pool; active: the pools to choose from; load: how
\* busy those looked at were; calm: nothing changed since the choice began.
NoJob == [at |-> "idle", want |-> None, pool |-> None, active |-> {},
          load |-> << >>, calm |-> TRUE]

-----------------------------------------------------------------------------
(* Helpers.                                                                *)

\* EndpointConnectionDescriptor.from_url(): None if it rejects the URL.
FromUrl(u) ==
  IF u.host = None \/ u.scheme = None \/ (u.port = None /\ u.scheme # "https")
  THEN None
  ELSE [host |-> u.host, ssl |-> u.scheme = "https",
        port |-> IF u.port = None THEN 443 ELSE u.port]

GoodUrls == {u \in Urls : FromUrl(u) # None}

Registered(ps) == {ps[n] : n \in Names} \ {None}
ActivePools == {p \in Registered(pools) : status[p] = "ACTIVE"}

\* len(pool.busy_connections)
Busy(p) == Cardinality({w \in Workers : job[w].at = "using" /\ job[w].pool = p})

\* The manager's lock is held by the worker that chooses a pool.
LockFree == \A w \in Workers : job[w].at # "choosing"

\* Objects nobody refers to any more stand for those yet to be created.
Unused(p) ==
  /\ p \notin Registered(pools) \cup Registered(stats)
  /\ \A w \in Workers : job[w].pool # p /\ p \notin job[w].active

NameOf(p) == CHOOSE n \in Names : pools[n] = p

\* History: something changed while these workers chose.
Disturb(js) ==
  [w \in Workers |-> IF js[w].at \in {"choosing", "picked"}
                     THEN [js[w] EXCEPT !.calm = FALSE] ELSE js[w]]

-----------------------------------------------------------------------------
(* Start and end of the process.                                           *)

NoPools == [n \in Names |-> None]

\* The pools created for a list of endpoints, each with its own object.
Build(list) ==
  /\ \E ps \in [Names -> Pools \cup {None}] :
       /\ \A n \in Names : ps[n] = None <=> list[n] = None
       /\ \A m, n \in Names : ps[m] = ps[n] /\ ps[m] # None => m = n
       /\ pools' = ps
       /\ stats' = ps
       /\ descr' = [p \in Pools |->
                      IF p \in Registered(ps)
                      THEN FromUrl(list[CHOOSE n \in Names : ps[n] = p])
                      ELSE None]
       /\ status' = [p \in Pools |->
                       IF p \in Registered(ps) THEN "ACTIVE" ELSE "CLOSED"]

\* ETH_ENDPOINTS in the environment, also an empty list, makes the endpoints
\* static.
Configure ==
  /\ config \in [Names -> GoodUrls \cup {None}]
  /\ store \in BOOLEAN
  /\ store => config = NoPools
  /\ balancer \in Balancers

Init ==
  /\ life = "down"
  /\ Configure
  /\ pools = NoPools
  /\ status = [p \in Pools |-> "CLOSED"]
  /\ descr = [p \in Pools |-> None]
  /\ rows = NoPools
  /\ stats = NoPools
  /\ call = NoCall
  /\ job = [w \in Workers |-> NoJob]
  /\ told = NoPools
  /\ failed = {}

\* create_default_web3_rpc_proxy() reads the rows or the configuration.
Start ==
  /\ life = "down"
  /\ life' = "up"
  /\ Build(IF store THEN rows ELSE config)
  /\ UNCHANGED <<configVars, rows, call, job, told, failed>>

\* A keyboard interrupt: the executor waits for its workers, then cleanup()
\* closes the pools, which stay registered; the admin server still serves.
Interrupt ==
  /\ life = "up"
  /\ \A w \in Workers : job[w].at = "idle"
  /\ life' = "closing"
  /\ status' = [p \in Pools |-> "CLOSED"]
  /\ UNCHANGED <<configVars, pools, descr, adminVars, job>>

\* The process ends: in order once the admin server finished its call, or by
\* a crash, after which nobody knows what became of the call.
End ==
  /\ life # "down"
  /\ life' = "down"
  /\ pools' = NoPools
  /\ stats' = NoPools
  /\ status' = [p \in Pools |-> "CLOSED"]
  /\ descr' = [p \in Pools |-> None]
  /\ call' = NoCall
  /\ job' = [w \in Workers |-> NoJob]
  /\ told' = IF call = NoCall THEN told
             ELSE [told EXCEPT ![call.name] = rows[call.name]]
  /\ failed' = {}
  /\ UNCHANGED <<configVars, rows>>

-----------------------------------------------------------------------------
(* The pool manager.                                                       *)

AddPool(n, u) ==
  /\ pools[n] = None
  /\ \E p \in Pools :
       /\ Unused(p)
       /\ pools' = [pools EXCEPT ![n] = p]
       /\ descr' = [descr EXCEPT ![p] = FromUrl(u)]
       /\ status' = [status EXCEPT ![p] = "ACTIVE"]
  /\ job' = Disturb(job)

RemovedStaysOpen(n) ==  \* faulty: the pool is not closed
  /\ pools[n] # None
  /\ pools' = [pools EXCEPT ![n] = None]
  /\ job' = Disturb(job)
  /\ UNCHANGED <<status, descr>>

RemovePool(n) ==
  /\ pools[n] # None
  /\ pools' = [pools EXCEPT ![n] = None]
  /\ status' = [status EXCEPT ![pools[n]] = "CLOSED"]
  /\ job' = Disturb(job)
  /\ UNCHANGED descr

\* A controller's thread suspends a pool or brings it back.
ChangeStatus(p) ==
  /\ p \in Registered(pools)
  /\ status[p] # "CLOSED"
  /\ status' = [status EXCEPT ![p] =
                  IF @ = "ACTIVE" THEN "SUSPENDED" ELSE "ACTIVE"]
  /\ job' = Disturb(job)
  /\ UNCHANGED <<life, configVars, pools, descr, adminVars>>

-----------------------------------------------------------------------------
(* The admin's calls about endpoints.  Each statement of the database may  *)
(* fail with a PeeweeException.                                            *)

Serving == life # "down" /\ LockFree

Continue(at) == call' = [call EXCEPT !.at = at]
Reply == call' = NoCall

\* The reply says that the name now has this URL, or none.
ReplyDone(n, u) == Reply /\ told' = [told EXCEPT ![n] = u]

\* The guards of a call; what fails them is answered with an error.
Refused(op, n, u) ==
  \/ ~store
  \/ op # "remove" /\ FromUrl(u) = None
  \/ IF op = "add" THEN pools[n] # None ELSE pools[n] = None

\* The first step of a call changes the pools.
Change(op, n, u) ==
  /\ call = NoCall
  /\ Serving
  /\ ~Refused(op, n, u)
  /\ IF op = "add" THEN AddPool(n, u) ELSE RemovePool(n)
  /\ call' = [op |-> op, name |-> n, url |-> u, at |->
               CASE op = "add"    -> "creating"
                 [] op = "remove" -> "deleting"
                 [] op = "update" -> "adding"]
  /\ UNCHANGED <<life, configVars, rows, stats, told, failed>>

\* update_endpoint() adds the pool again.
AddAgain ==
  /\ call.at = "adding"
  /\ Serving
  /\ AddPool(call.name, call.url)
  /\ Continue("saving")
  /\ UNCHANGED <<life, configVars, rows, stats, told, failed>>

\* The row is changed: created (there must be none), deleted, or found and
\* saved.
RowWritable ==
  CASE call.at = "creating" -> rows[call.name] = None
    [] call.at = "deleting" -> TRUE
    [] call.at = "saving"   -> rows[call.name] # None
    [] OTHER -> FALSE

UpdateUnsaved ==  \* faulty: without save()
  [rows EXCEPT ![call.name] = IF call.at = "saving" THEN @ ELSE call.url]
Written == [rows EXCEPT ![call.name] = call.url]

Write ==
  /\ RowWritable
  /\ rows' = Written
  /\ Continue("counting")
  /\ UNCHANGED <<life, configVars, poolVars, stats, job, told, failed>>

\* The statement fails: add_endpoint() removes its pool again, the others
\* report that the database is inconsistent.
UndoNothing == UNCHANGED <<poolVars, job>>  \* faulty
UndoAdd == LockFree /\ RemovePool(call.name)

WriteFails ==
  /\ call.at \in {"creating", "deleting", "saving"}
  /\ IF call.at = "creating"
     THEN UndoAdd /\ UNCHANGED failed
     ELSE failed' = failed \cup {call.name} /\ UNCHANGED <<poolVars, job>>
  /\ Reply
  /\ UNCHANGED <<life, configVars, rows, stats, told>>

\* Then the admin brings its statistics up to date, and replies.
StatsRaise ==
  CASE call.op = "add"    -> stats[call.name] # None
    [] call.op = "remove" -> stats[call.name] = None
    [] OTHER -> FALSE

CountedOnce ==  \* faulty: an update keeps the old statistics
  [stats EXCEPT ![call.name] = IF call.op = "update" THEN @
                               ELSE pools[call.name]]
Counted == [stats EXCEPT ![call.name] = pools[call.name]]

Count ==
  /\ call.at = "counting"
  /\ IF StatsRaise
     THEN Continue("raised") /\ UNCHANGED <<stats, told>>
     ELSE /\ stats' = Counted
          /\ ReplyDone(call.name, call.url)
  /\ UNCHANGED <<life, configVars, poolVars, rows, job, failed>>

AdminStep == AddAgain \/ Write \/ WriteFails \/ Count

-----------------------------------------------------------------------------
(* get_connection() and the load balancers.                                *)

\* The manager's lock is taken and the active pools are listed.
Choose(w, want) ==
  /\ life = "up"
  /\ job[w].at = "idle"
  /\ LockFree
  /\ ActivePools # {}
  /\ job' = [job EXCEPT ![w] = [NoJob EXCEPT !.at = "choosing", !.want = want,
                                             !.active = ActivePools]]
  /\ UNCHANGED <<life, configVars, poolVars, adminVars>>

\* LeastBusyLoadBalancer reads how busy the pools are, one after another.
Read(w, p) ==
  /\ job[w].at = "choosing"
  /\ balancer = "LeastBusy"
  /\ p \in job[w].active \ DOMAIN job[w].load
  /\ job' = [job EXCEPT ![w].load = 
               [q \in {p} \cup DOMAIN @ |-> IF q = p THEN Busy(p) ELSE @[q]]]
  /\ UNCHANGED <<life, configVars, poolVars, adminVars>>

AnyRead(load) == DOMAIN load  \* faulty
LeastBusy(load) ==
  {p \in DOMAIN load : load[p] = Min({load[q] : q \in DOMAIN load})}

\* What pick_pool() may return; nothing is None.
MayPick(j) ==
  CASE balancer = "Random"    -> j.active
    [] balancer = "LeastBusy" -> IF DOMAIN j.load = j.active
                                 THEN LeastBusy(j.load) ELSE {}
    [] balancer = "Constant"  -> {p \in j.active : NameOf(p) = j.want}

Pick(w) ==
  /\ job[w].at = "choosing"
  /\ \E p \in MayPick(job[w]) :
       job' = [job EXCEPT ![w].at = "picked", ![w].pool = p, ![w].load = << >>]
  /\ UNCHANGED <<life, configVars, poolVars, adminVars>>

\* The configured pool is not among the active ones: an error is answered.
PickNone(w) ==
  /\ job[w].at = "choosing"
  /\ balancer = "Constant"
  /\ MayPick(job[w]) = {}
  /\ job' = [job EXCEPT ![w] = NoJob]
  /\ UNCHANGED <<life, configVars, poolVars, adminVars>>

\* get() of the chosen pool, without the manager's lock: the pool may have
\* been suspended or closed meanwhile, and then it raises.
Get(w) ==
  /\ job[w].at = "picked"
  /\ job' = [job EXCEPT ![w] =
               IF status[@.pool] = "ACTIVE"
               THEN [NoJob EXCEPT !.at = "dialling", !.pool = job[w].pool]
               ELSE [@ EXCEPT !.at = "refused", !.active = {}, !.load = << >>]]
  /\ UNCHANGED <<life, configVars, poolVars, adminVars>>

\* The second section of get() counts the connection as busy.
MarkBusy(w) ==
  /\ job[w].at = "dialling"
  /\ job' = [Disturb(job) EXCEPT ![w].at = "using"]
  /\ UNCHANGED <<life, configVars, poolVars, adminVars>>

\* No connection, or the exchange is over.
Leave(w) ==
  /\ job[w].at \in {"refused", "dialling", "using"}
  /\ job' = [Disturb(job) EXCEPT ![w] = NoJob]
  /\ UNCHANGED <<life, configVars, poolVars, adminVars>>

Request(w) ==
  \/ \E n \in Names \cup {None} : 
       (balancer = "Constant" \/ n = None) /\ Choose(w, n)
  \/ \E p \in Pools : Read(w, p)
  \/ Pick(w) \/ PickNone(w) \/ Get(w) \/ MarkBusy(w) \/ Leave(w)

-----------------------------------------------------------------------------
Next ==
  \/ Start \/ Interrupt \/ End
  \/ \E n \in Names :
       \/ \E op \in {"add", "update"}, u \in Urls : Change(op, n, u)
       \/ Change("remove", n, None)
  \/ AdminStep
  \/ \E p \in Pools : ChangeStatus(p)
  \/ \E w \in Workers : Request(w)

Spec == Init /\ [][Next]_vars
-----------------------------------------------------------------------------
TypeOK ==
  /\ life \in {"up", "closing", "down"}
  /\ store \in BOOLEAN
  /\ config \in [Names -> GoodUrls \cup {None}]
  /\ balancer \in Balancers
  /\ pools \in [Names -> Pools \cup {None}]
  /\ status \in [Pools -> {"ACTIVE", "SUSPENDED", "CLOSED"}]
  /\ descr \in [Pools -> {FromUrl(u) : u \in Urls} \cup {None}]
  /\ rows \in [Names -> GoodUrls \cup {None}]
  /\ stats \in [Names -> Pools \cup {None}]
  /\ told \in [Names -> GoodUrls \cup {None}]
  /\ failed \subseteq Names
  /\ call.name \in Names \cup {None}
  /\ call.url \in GoodUrls \cup {None}
  /\ \A w \in Workers :
       /\ job[w].pool \in Pools \cup {None}
       /\ job[w].active \subseteq Pools
       /\ DOMAIN job[w].load \subseteq job[w].active

\* The pool of a name dials this URL, or there is none.
Serves(n, u) ==
  IF u = None THEN pools[n] = None
  ELSE pools[n] # None /\ descr[pools[n]] = FromUrl(u)

\* Between two calls of the admin the pools, the database and the statistics
\* have the same endpoints with the same URLs, whatever calls were refused,
\* failed while an endpoint was added, or were cut short by a restart; only a
\* failed removal or update of a name leaves them apart until the restart.
\* With endpoints from the environment the pools are the static list that
\* README.md promises, whatever the admin asks for.
PartsAgree ==
  /\ life # "down" /\ store /\ call = NoCall =>
       \A n \in Names \ failed :
         /\ stats[n] = pools[n]
         /\ Serves(n, rows[n])
  /\ life # "down" /\ ~store => \A n \in Names : Serves(n, config[n])

\* What the admin was told was done is what the database has, also after a
\* failed call and after a crash.
RepliesAreDurable ==
  \A n \in Names : call.name # n => rows[n] = told[n]

\* The assertion of register_endpoint_stats() and the deletion in
\* remove_endpoint_stats() never raise, although failed calls leave the
\* statistics of an endpoint without its pool.
AdminNeverRaises == call.at # "raised"

\* A pool was picked that hands out connections, unless its status changed or
\* an admin's call removed it while the worker was choosing; and the one that
\* LeastBusyLoadBalancer picks is least busy, unless connections were taken or
\* given back meanwhile, too.
PickIsSound ==
  \A w \in Workers : job[w].calm =>
    /\ job[w].at # "refused"
    /\ balancer = "LeastBusy" /\ job[w].at = "picked"
         => \A p \in ActivePools : Busy(job[w].pool) <= Busy(p)

\* get() lets a request in only at the pool that is registered for what the
\* last reply about its name said, or for what the call under way says: a pool
\* picked before an update or a removal refuses it afterwards.  A request that
\* was let in before still dials the old endpoint, and is sent there.
Current(p) ==
  \A n \in Names \ failed :
    pools[n] = p => Serves(n, IF n = call.name THEN call.url ELSE told[n])

LetInIsCurrent ==
  [][\A w \in Workers :
       job[w].at = "picked" /\ job'[w].at = "dialling" =>
         /\ job[w].pool \in Registered(pools)
         /\ store => Current(job[w].pool)]_vars
=============================================================================
