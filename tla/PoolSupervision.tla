--------------------------- MODULE PoolSupervision ---------------------------
(***************************************************************************)
(* EndpointConnectionPoolManager with the two threads that check its pools *)
(* and the threads these start to suspend a pool and to bring it back.     *)
(* A pool is here what EndpointConnectionPool promises about its status.   *)
(***************************************************************************)
EXTENDS FiniteSets

CONSTANTS
  Pools,       \* EndpointConnectionPool objects that may ever be created
  Names,       \* names of endpoints
  Suspenders,  \* bound: threads in __suspend_pool at a time
  None

Controllers == {"damage", "sync"}
Tasks == [by : Controllers, pool : Pools]

ASSUME SupervisionAssumption == None \notin Pools \cup Tasks

VARIABLES
  pools,   \* self.pools: the pool of each name, or None
  status,  \* PoolStatus; "CLOSED" stands for CLOSING too
  health,  \* what the endpoint of a pool does: "good", "lagging", "down"
  broken,  \* DamageController.__is_broken, as the pool's statistics say
  todo,    \* the pools each controller has still to check in this round
  task,    \* what each suspender thread works on: a controller and a pool
  at       \* where it is

managerVars == <<pools, status>>
worldVars   == <<health, broken>>
threadVars  == <<todo, task, at>>
vars == <<managerVars, worldVars, threadVars>>

SuspenderStates ==
  { "ended",
    "starting",     \* is about to look at is_active()
    "suspending",   \* has seen an active pool
    "sleeping",     \* sleeps and tests the pool
    "activating" }  \* the test succeeded

Init ==
  /\ pools = [n \in Names |-> None]
  /\ status = [p \in Pools |-> "none"]
  /\ health = [p \in Pools |-> "good"]
  /\ broken = [p \in Pools |-> FALSE]
  /\ todo = [k \in Controllers |-> {}]
  /\ task = [s \in Suspenders |-> None]
  /\ at = [s \in Suspenders |-> "ended"]

-----------------------------------------------------------------------------
(* Faulty variants: what each property would catch.                        *)

ReopenClosed(p) == FALSE
SuspendedForgets(s) == "ended"
OutOfSyncUnseen(p) == status[p] = "OUT_OF_SYNC" /\ health[p] = "lagging"
ActiveOnly(p) == status[p] = "ACTIVE" /\ health[p] = "good"

-----------------------------------------------------------------------------
(* Helpers.                                                                *)

Registered == {p \in Pools : \E n \in Names : pools[n] = p}
IsActive(p) == status[p] = "ACTIVE"
IsClosed(p) == status[p] = "CLOSED"
ActivePools == {p \in Registered : IsActive(p)}

\* The status that the suspender of a controller sets.
Suspended(by) == IF by = "damage" THEN "DISABLED" ELSE "OUT_OF_SYNC"

\* test_conn() opens a connection of its own: whatever answers is fine.
\* __test_pool() needs the pool to give it one, and a recent block.
TestConn(p) == health[p] # "down"
InSync(p) == status[p] \in {"ACTIVE", "OUT_OF_SYNC"} /\ health[p] = "good"
Lags(p) == status[p] \in {"ACTIVE", "OUT_OF_SYNC"} /\ health[p] = "lagging"
Recovered(s) ==
  IF task[s].by = "damage" THEN TestConn(task[s].pool) ELSE InSync(task[s].pool)

\* Where a suspender goes once the pool is suspended.
AfterSuspend(s) == "sleeping"

\* The status of the pools once remove_pool() closed p.
ClosedPool(p) == [status EXCEPT ![p] = "CLOSED"]

Goto(s, state) == at' = [at EXCEPT ![s] = state]
End(s) == Goto(s, "ended") /\ task' = [task EXCEPT ![s] = None]

-----------------------------------------------------------------------------
(* The pool manager.                                                       *)

AddPool(n) ==
  /\ pools[n] = None
  /\ \E p \in Pools :
       /\ status[p] = "none"
       /\ pools' = [pools EXCEPT ![n] = p]
       /\ status' = [status EXCEPT ![p] = "ACTIVE"]
  /\ UNCHANGED <<worldVars, threadVars>>

RemovePool(n) ==
  /\ pools[n] # None
  /\ status' = ClosedPool(pools[n])
  /\ pools' = [pools EXCEPT ![n] = None]
  /\ UNCHANGED <<worldVars, threadVars>>

\* close() at shutdown: the pools stay registered.
CloseAll ==
  /\ Registered # {}
  /\ status' = [p \in Pools |-> IF p \in Registered THEN "CLOSED" ELSE status[p]]
  /\ UNCHANGED <<pools, worldVars, threadVars>>

-----------------------------------------------------------------------------
(* The two controllers, each in a thread of its own.                       *)

\* A round starts from the pools that are active now.
StartRound(k) ==
  /\ todo[k] = {}
  /\ ActivePools # {}
  /\ todo' = [todo EXCEPT ![k] = ActivePools]
  /\ UNCHANGED <<managerVars, worldVars, task, at>>

Found(k, p) == IF k = "damage" THEN broken[p] ELSE Lags(p)

Check(k, p) ==
  /\ p \in todo[k]
  /\ todo' = [todo EXCEPT ![k] = @ \ {p}]
  /\ IF Found(k, p)
     THEN \E s \in Suspenders :
            /\ at[s] = "ended"
            /\ task' = [task EXCEPT ![s] = [by |-> k, pool |-> p]]
            /\ Goto(s, "starting")
     ELSE UNCHANGED <<task, at>>
  /\ UNCHANGED <<managerVars, worldVars>>

-----------------------------------------------------------------------------
(* __suspend_pool(), in a thread of its own.  No lock is held from one     *)
(* step to the next.                                                       *)

Look(s) ==
  /\ at[s] = "starting"
  /\ IF IsActive(task[s].pool)
     THEN Goto(s, "suspending") /\ UNCHANGED task
     ELSE End(s)
  /\ UNCHANGED <<managerVars, worldVars, todo>>

\* disable() or out_of_sync(), which raise if the pool was closed.
Suspend(s) ==
  /\ at[s] = "suspending"
  /\ LET p == task[s].pool
     IN  IF IsClosed(p)
         THEN End(s) /\ UNCHANGED <<status, broken>>
         ELSE /\ status' = [status EXCEPT ![p] = Suspended(task[s].by)]
              /\ broken' = [broken EXCEPT ![p] = FALSE]
              /\ Goto(s, AfterSuspend(s))
              /\ UNCHANGED task
  /\ UNCHANGED <<pools, health, todo>>

Test(s) ==
  /\ at[s] = "sleeping"
  /\ Recovered(s)
  /\ Goto(s, "activating")
  /\ UNCHANGED <<managerVars, worldVars, todo, task>>

\* activate(), which raises if the pool was closed.
Activate(s) ==
  /\ at[s] = "activating"
  /\ IF IsClosed(task[s].pool)
     THEN UNCHANGED status
     ELSE status' = [status EXCEPT ![task[s].pool] = "ACTIVE"]
  /\ End(s)
  /\ UNCHANGED <<pools, worldVars, todo>>

SuspenderStep(s) == Look(s) \/ Suspend(s) \/ Test(s) \/ Activate(s)

-----------------------------------------------------------------------------
(* The endpoints, and the requests that use the pools.                     *)

Change(p) ==
  /\ status[p] # "none"
  /\ \E h \in {"good", "lagging", "down"} \ {health[p]} :
       health' = [health EXCEPT ![p] = h]
  /\ UNCHANGED <<managerVars, broken, threadVars>>

\* Requests fail until the statistics say so, also those that were under way
\* when the pool was suspended; they age, too.
Record(p) ==
  /\ status[p] # "none"
  /\ \/ ~broken[p] /\ health[p] = "down"
     \/ broken[p]
  /\ broken' = [broken EXCEPT ![p] = ~@]
  /\ UNCHANGED <<managerVars, health, threadVars>>

-----------------------------------------------------------------------------
ControllerStep(k) == StartRound(k) \/ \E p \in Pools : Check(k, p)

Next ==
  \/ \E n \in Names : AddPool(n) \/ RemovePool(n)
  \/ CloseAll
  \/ \E k \in Controllers : ControllerStep(k)
  \/ \E s \in Suspenders : SuspenderStep(s)
  \/ \E p \in Pools : Change(p) \/ Record(p)

Spec == Init /\ [][Next]_vars

\* The controllers and the suspenders run; a test that could succeed all the
\* time does in the end.
Fairness ==
  /\ \A k \in Controllers : WF_vars(ControllerStep(k))
  /\ \A s \in Suspenders : WF_vars(SuspenderStep(s))

FairSpec == Spec /\ Fairness

-----------------------------------------------------------------------------
Statuses == {"none", "ACTIVE", "DISABLED", "OUT_OF_SYNC", "CLOSED"}

TypeOK ==
  /\ pools \in [Names -> Pools \cup {None}]
  /\ status \in [Pools -> Statuses]
  /\ health \in [Pools -> {"good", "lagging", "down"}]
  /\ broken \in [Pools -> BOOLEAN]
  /\ todo \in [Controllers -> SUBSET Pools]
  /\ task \in [Suspenders -> Tasks \cup {None}]
  /\ at \in [Suspenders -> SuspenderStates]
  /\ \A s \in Suspenders : task[s] = None <=> at[s] = "ended"

\* A suspended pool has a thread that will bring it back, of the controller
\* whose status it has: although suspenders look at the pool and suspend it in
\* two steps, so that two of one controller, or one of each, suspend the same
\* pool and bring it back at different times.
SuspendedIsSupervised ==
  \A p \in Pools : status[p] \in {"DISABLED", "OUT_OF_SYNC"} =>
    \E s \in Suspenders :
      /\ at[s] \in {"sleeping", "activating"}
      /\ task[s].pool = p
      /\ Suspended(task[s].by) = status[p]

\* A pool that is open is the one registered under its name: a controller
\* that still has a removed pool in its list, and a suspender that slept while
\* it was removed, do not bring it back to life beside its successor.
OpenIsRegistered ==
  \A p \in Pools : status[p] \notin {"none", "CLOSED"} => p \in Registered

\* A pool whose endpoint stays good is active again and again, until it is
\* removed, whatever its suspenders did before.
GoodComesBack ==
  \A p \in Pools :
    <>[](health[p] = "good") => []<>(status[p] \in {"none", "ACTIVE", "CLOSED"})

\* A pool whose endpoint stays behind is taken out of service again and again,
\* although a suspender of the damage controller may activate it (given that
\* another thread may start, which Suspenders bounds here).
LaggardGoes ==
  \A p \in Pools :
    /\ <>[](health[p] = "lagging")
    /\ []<>(\E s \in Suspenders : at[s] = "ended")
    => []<>(status[p] # "ACTIVE")
=============================================================================
