----------------------------- MODULE ServiceLife -----------------------------
(***************************************************************************)
(* The lives of the service: it is configured, loads users and activity    *)
(* from the database, maps its ports, serves requests and the admin, and   *)
(* after a keyboard interrupt closes its parts one after another and saves *)
(* what it knows.  Anything raised on the way ends it with nothing saved.  *)
(***************************************************************************)
EXTENDS Configuration, PortMapping, FiniteSets

CONSTANTS
  Keys,          \* API keys of users
  TestKeys,      \* those registered in the mode DEV
  Plans,         \* plans the admin gives
  TestPlan,      \* the plan of the test accounts
  Envs,          \* environments
  MaxDay,        \* bound: the last day
  MaxCalls,      \* bound: calls of a key on a day
  BusyKeys,      \* bound: keys that make calls
  None

ASSUME TestKeysAssumption == TestKeys \subseteq Keys
ASSUME DaysAssumption == MaxDay \in Nat \ {0} /\ MaxCalls \in Nat
ASSUME NoneAssumption ==
  None \notin [value : Plans \cup {TestPlan}, row : BOOLEAN]

VARIABLES
  env,      \* the environment, the same in each life
  config,   \* the settings, Raised, or None before they are made
  phase,    \* where the main thread is
  today,
  users,    \* user_plans: [value, row: is it in the database?], or None
  total,    \* all_time_summary: the calls of a key
  daily,    \* daily_usage: those of a key on a day
  dbPlan,   \* the table of plans: the value of a key, or None
  dbCalls,  \* the table of call statistics
  unsaved,  \* what the saving has not come to: keys, then keys and days
  admin,    \* the admin server: "off", "idle", or "reading" a request
  hurried,  \* history: an interrupt came during the shutdown
  removed,  \* history: keys removed in this life that are in the database
  last      \* history: plans and totals of the last save that completed

memVars == <<users, total, daily>>
dbVars == <<dbPlan, dbCalls>>
histVars == <<hurried, removed, last>>
vars == <<env, config, phase, today, memVars, dbVars, unsaved, admin, histVars, portVars>>

Days == 1..MaxDay
Registered == {k \in Keys : users[k] # None}
NoUsers == [k \in Keys |-> None]
NoCalls == [k \in Keys |-> [d \in Days |-> 0]]
HasRows(k) == dbPlan[k] # None \/ \E d \in Days : dbCalls[k][d] > 0

\* all_time_summary is counted up over the rows of a key.
SumOf(calls) ==
  LET sum[d \in 0..MaxDay] == IF d = 0 THEN 0 ELSE sum[d - 1] + calls[d]
  IN  sum[MaxDay]

Init ==
  /\ env \in Envs
  /\ config = None
  /\ phase = "down"
  /\ today = 1
  /\ users = NoUsers
  /\ total = [k \in Keys |-> 0]
  /\ daily = NoCalls
  /\ dbPlan = NoUsers
  /\ dbCalls = NoCalls
  /\ unsaved = {}
  /\ admin = "off"
  /\ hurried = FALSE
  /\ removed = {}
  /\ last = [plan |-> NoUsers, total |-> [k \in Keys |-> 0]]
  /\ PortsInit

-----------------------------------------------------------------------------
(* The start.                                                              *)

\* Importing the configuration makes the settings.
Configure ==
  /\ phase = "down"
  /\ config = None
  /\ config' = Configured(env)
  /\ phase' = IF config' = Raised THEN "failed" ELSE "configured"
  /\ UNCHANGED <<env, today, memVars, dbVars, unsaved, admin, histVars,
                 portVars>>

TotalOfToday == [k \in Keys |-> dbCalls[k][today]]  \* faulty
TotalOfRows == [k \in Keys |-> SumOf(dbCalls[k])]

\* create_state_manager(), and the test accounts of the mode DEV.
Load ==
  /\ phase = "configured"
  /\ users' = [k \in Keys |->
                 CASE dbPlan[k] # None -> [value |-> dbPlan[k], row |-> TRUE]
                   [] dbPlan[k] = None /\ config.MODE = "DEV" /\ k \in TestKeys
                        -> [value |-> TestPlan, row |-> FALSE]
                   [] OTHER -> None]
  /\ daily' = dbCalls
  /\ total' = TotalOfRows
  /\ phase' = "upnp"
  /\ NewMapper
  /\ hurried' = FALSE
  /\ removed' = {}
  /\ UNCHANGED <<env, config, today, dbVars, unsaved, admin, last>>

Step(from, to) ==
  /\ phase = from
  /\ phase' = to
  /\ UNCHANGED <<env, config, today, memVars, dbVars, unsaved, admin, histVars>>

\* try_init_upnp(): without a router the first mapping's assertion fails and
\* the process ends; if a mapping is refused those made are deleted.
TryInitUpnp ==
  \/ /\ Step("upnp", IF config.USE_UPNP THEN "mapping" ELSE "binding")
     /\ UNCHANGED portVars
  \/ Step("mapping", "mapping") /\ AddMapping
  \/ Step("mapping", "rollback") /\ ~AllMapped /\ DeleteAll
  \/ \E p \in to_delete : Step("rollback", "rollback") /\ DeleteMapping(p)
  \/ Step("rollback", "binding") /\ DeletionOver /\ UNCHANGED portVars
  \/ Step("mapping", "binding") /\ AllMapped /\ UNCHANGED portVars

\* The admin server's and the proxy's sockets are bound, its pools created.
Bind ==
  /\ phase = "binding"
  /\ phase' = "serving"
  /\ admin' = "idle"
  /\ UNCHANGED <<env, config, today, memVars, dbVars, unsaved, histVars,
                 portVars>>

-----------------------------------------------------------------------------
(* Serving.                                                                *)

\* Workers run until the executor waited for them, and on after an interrupt
\* of that wait.
WorkersRun ==
  phase \in {"serving", "draining"} \/ (hurried /\ phase # "down")

\* An exchange is recorded.
Charge(k) ==
  /\ WorkersRun
  /\ k \in Registered \cap BusyKeys
  /\ daily[k][today] < MaxCalls
  /\ daily' = [daily EXCEPT ![k][today] = @ + 1]
  /\ total' = [total EXCEPT ![k] = @ + 1]
  /\ UNCHANGED <<env, config, phase, today, users, dbVars, unsaved, admin,
                 histVars, portVars>>

NextDay ==
  /\ phase = "serving"
  /\ today < MaxDay
  /\ today' = today + 1
  /\ UNCHANGED <<env, config, phase, memVars, dbVars, unsaved, admin, histVars,
                 portVars>>

LeaseEnds ==
  /\ phase \in {"serving", "down"}
  /\ \E p \in mapped : LeaseExpires(p)
  /\ UNCHANGED <<env, config, phase, today, memVars, dbVars, unsaved, admin,
                 histVars>>

\* The user calls of the admin, whole: RequestAccounting has their steps.  A
\* plan is made of the parameters first, and may raise.
UserCallForgets(op, k, v) ==  \* faulty: an update makes a new object
  CASE op \in {"register", "update"} ->
         [users EXCEPT ![k] = [value |-> v, row |-> FALSE]]
    [] op = "remove" -> [users EXCEPT ![k] = None]

UserCall(op, k, v) ==
  CASE op = "register" /\ users[k] = None ->
         [users EXCEPT ![k] = [value |-> v, row |-> FALSE]]
    [] op = "update" /\ users[k] # None -> [users EXCEPT ![k].value = v]
    [] op = "remove" -> [users EXCEPT ![k] = None]
    [] OTHER -> users

\* do_POST(): the status of a call, the first of these that applies.
Status(call) ==
  CASE ~call.token -> 403
    [] call.token /\ call.content \in {"not JSON", "no method", "unknown"} -> 400
    [] call.token /\ call.content = "bad params" -> 500
    [] call.token /\ call.content = "good" -> 200

\* A request is read to its end, however long its client takes; once its
\* server is told to shut down it accepts no other.
Accept ==
  /\ admin = "idle"
  /\ phase \in {"serving", "draining", "closing"}
  /\ admin' = "reading"
  /\ UNCHANGED <<env, config, phase, today, memVars, dbVars, unsaved, histVars,
                 portVars>>

Post(call, op, k, v) ==
  /\ admin = "reading"
  /\ admin' = "idle"
  /\ IF Status(call) = 200
     THEN /\ users' = UserCall(op, k, v)
          /\ IF op = "remove" /\ k \in Registered
             THEN /\ total' = [total EXCEPT ![k] = 0]
                  /\ daily' = [daily EXCEPT ![k] = NoCalls[k]]
             ELSE UNCHANGED <<total, daily>>
          /\ removed' = IF op = "remove" /\ k \in Registered /\ HasRows(k)
                       THEN removed \cup {k} ELSE removed
     ELSE UNCHANGED <<memVars, removed>>
  /\ UNCHANGED <<env, config, phase, today, dbVars, unsaved, hurried, last,
                 portVars>>

-----------------------------------------------------------------------------
(* The end.                                                                *)

\* The main loop is interrupted.
Interrupt == Step("serving", "draining") /\ UNCHANGED portVars

\* The executor waits for its workers, cleanup() closes pools and server, and
\* close_upnp() deletes the mappings.
Shutdown ==
  \/ Step("draining", "closing") /\ DeleteAll
  \/ \E p \in to_delete : Step("closing", "closing") /\ DeleteMapping(p)
  \/ Step("closing", "stopping") /\ DeletionOver /\ UNCHANGED portVars

\* Another interrupt: of the wait for the workers, which go on, or of the wait
\* for the admin server, which is swallowed.
InterruptAgain ==
  /\ \/ /\ phase = "draining"
        /\ phase' = "closing"
        /\ UNCHANGED unsaved
        /\ DeleteAll
     \/ /\ phase = "stopping"
        /\ phase' = "saving"
        /\ unsaved' = Registered
        /\ UNCHANGED portVars
  /\ hurried' = TRUE
  /\ last' = IF phase = "stopping" THEN None ELSE last
  /\ UNCHANGED <<env, config, today, memVars, dbVars, admin, removed>>

\* shutdown() of the admin server's thread waits for the request it serves;
\* then the saving begins.
StopAdmin == admin = "idle" /\ admin' = "off"

Stop ==
  /\ phase = "stopping"
  /\ StopAdmin
  /\ phase' = "saving"
  /\ unsaved' = Registered
  /\ last' = None
  /\ UNCHANGED <<env, config, today, memVars, dbVars, hurried, removed, portVars>>

\* _save_billing_service(): a plan is inserted unless it came from its row; a
\* key has one row, and inserting another raises.
Insertable(k) == users[k].row \/ dbPlan[k] = None

SavePlan(k) ==
  /\ phase = "saving"
  /\ k \in unsaved \cap Registered
  /\ Insertable(k)
  /\ dbPlan' = [dbPlan EXCEPT ![k] = users[k].value]
  /\ users' = [users EXCEPT ![k].row = TRUE]
  /\ unsaved' = unsaved \ {k}
  /\ UNCHANGED <<env, config, phase, today, total, daily, dbCalls, admin,
                 histVars, portVars>>

SaveRaises ==
  /\ phase = "saving"
  /\ \E k \in unsaved \cap Registered : ~Insertable(k)
  /\ phase' = "failed"
  /\ UNCHANGED <<env, config, today, memVars, dbVars, unsaved, admin, histVars,
                 portVars>>

\* _save_activity_ledger(): the row of a key and a day is set.
SaveLedger ==
  /\ phase = "saving"
  /\ unsaved \cap Registered = {}
  /\ phase' = "saving calls"
  /\ unsaved' = {kd \in Keys \X Days : daily[kd[1]][kd[2]] > 0}
  /\ UNCHANGED <<env, config, today, memVars, dbVars, admin, histVars, portVars>>

SavedRow(k, d) == daily[k][d]

SaveCalls(k, d) ==
  /\ phase = "saving calls"
  /\ <<k, d>> \in unsaved
  /\ dbCalls' = [dbCalls EXCEPT ![k][d] = SavedRow(k, d)]
  /\ unsaved' = unsaved \ {<<k, d>>}
  /\ UNCHANGED <<env, config, phase, today, memVars, dbPlan, admin, histVars,
                 portVars>>

Saved ==
  /\ phase = "saving calls"
  /\ unsaved = {}
  /\ phase' = "saved"
  /\ last' = IF hurried THEN None
             ELSE [plan |-> [k \in Keys |-> IF k \in Registered \ removed
                                           THEN users[k].value ELSE None],
                   total |-> total]
  /\ UNCHANGED <<env, config, today, memVars, dbVars, unsaved, admin, hurried,
                 removed, portVars>>

\* The process ends, and with it all that is not in the database or the router.
Over ==
  /\ phase' = "down"
  /\ config' = None
  /\ users' = NoUsers
  /\ total' = [k \in Keys |-> 0]
  /\ daily' = NoCalls
  /\ unsaved' = {}
  /\ admin' = "off"
  /\ hurried' = FALSE
  /\ removed' = {}
  /\ ext_ports' = {}
  /\ to_delete' = {}
  /\ UNCHANGED <<env, today, dbVars, last, mapped, stale, undeleted>>

End == phase \in {"failed", "saved"} /\ Over

\* Something raises: there is no router, a socket cannot be bound, the router
\* does not tell the external address, the main loop fails; or a crash.
Crash == phase \notin {"down", "failed", "saved"} /\ Over

-----------------------------------------------------------------------------
Calls == [token : BOOLEAN,
          content : {"good", "not JSON", "no method", "unknown", "bad params"}]

Main ==
  \/ Shutdown \/ Stop
  \/ \E k \in Keys : SavePlan(k)
  \/ SaveRaises \/ SaveLedger
  \/ \E k \in Keys, d \in Days : SaveCalls(k, d)
  \/ Saved \/ End

Next ==
  \/ Configure \/ Load \/ TryInitUpnp \/ Bind
  \/ \E k \in Keys : Charge(k)
  \/ NextDay \/ LeaseEnds \/ Accept
  \/ \E call \in Calls, k \in Keys, v \in Plans :
       \E op \in {"register", "update", "remove"} : Post(call, op, k, v)
  \/ Interrupt \/ InterruptAgain \/ Main \/ Crash

\* The main thread goes on once it was interrupted; requests to the router and
\* the exchanges of the workers come to an end.
Spec == Init /\ [][Next]_vars /\ WF_vars(Main)
-----------------------------------------------------------------------------
TypeOK ==
  /\ config = None \/ config = Raised \/ config \in {Configured(e) : e \in Envs}
  /\ today \in Days
  /\ users \in [Keys -> [value : Plans \cup {TestPlan}, row : BOOLEAN]
                        \cup {None}]
  /\ total \in [Keys -> Nat]
  /\ daily \in [Keys -> [Days -> 0..MaxCalls]]
  /\ dbPlan \in [Keys -> Plans \cup {TestPlan, None}]
  /\ dbCalls \in [Keys -> [Days -> 0..MaxCalls]]
  /\ admin \in {"off", "idle", "reading"}
  /\ ext_ports \cup mapped \cup to_delete \cup undeleted \subseteq ToSet(Ports)
  /\ phase = "down" => config = None /\ admin = "off"

\* What a start loads is what the last completed save knew, also when lives in
\* between crashed: each user with the plan the admin last gave it and its calls
\* of all time, those answered while the service shut down included, none lost
\* and none counted twice.  Users removed in the life that saved are excepted:
\* they come back with their rows.
RestartRestoresLastSave ==
  phase = "upnp" /\ last # None =>
    \A k \in Keys : last.plan[k] # None =>
      /\ users[k] # None
      /\ users[k].value = last.plan[k]
      /\ total[k] = last.total[k]

\* Saving raises, and loses what was not saved yet, only if a user that the
\* database has was removed, to be registered again, in this life.
SaveRaisesOnlyAfterRemoval ==
  phase = "failed" /\ config # Raised => removed # {}

\* Once the service closed its UPnP part, or undid an incomplete mapping, the
\* router has none of its mappings, but those it refused to delete.
NoMappingLeft ==
  \/ phase \in {"stopping", "saving", "saving calls", "saved"}
  \/ phase \in {"binding", "serving"} /\ ~AllMapped
  => mapped \subseteq stale \cup undeleted

\* After an interrupt the service ends, unless a client of the admin server
\* never completes its request: nothing limits that wait.
ShutdownEnds ==
  phase = "draining" ~>
    phase = "down" \/ (phase = "stopping" /\ admin = "reading")

\* README.md: the variables can be set, each to a text of its type.
EnvironmentAccepted ==
  config = Raised =>
    \E f \in Fields : IsSet(env, f) /\ ~Documented(f, env[f])
=============================================================================
