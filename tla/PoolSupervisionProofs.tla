------------------------ MODULE PoolSupervisionProofs ------------------------
(***************************************************************************)
(* Proofs about PoolSupervision, for any number of pools, names and        *)
(* suspender threads.                                                      *)
(***************************************************************************)
EXTENDS PoolSupervision, TLAPS

\* Whatever pool a controller or a suspender works on was created.
Born ==
  /\ \A k \in Controllers : \A p \in todo[k] : status[p] # "none"
  /\ \A s \in Suspenders : task[s] # None => status[task[s].pool] # "none"

\* Ending a suspender, or moving it on, keeps the type of both its variables.
LEMMA SuspenderTyped ==
  ASSUME TypeOK, NEW s \in Suspenders
  PROVE  /\ End(s) => /\ task' \in [Suspenders -> Tasks \cup {None}]
                      /\ at' \in [Suspenders -> SuspenderStates]
                      /\ \A r \in Suspenders :
                           task'[r] = None <=> at'[r] = "ended"
         /\ \A state \in SuspenderStates \ {"ended"} :
              at[s] # "ended" /\ Goto(s, state) /\ task' = task =>
                /\ at' \in [Suspenders -> SuspenderStates]
                /\ \A r \in Suspenders : task'[r] = None <=> at'[r] = "ended"
  BY DEF TypeOK, End, Goto, SuspenderStates

\* Every variable of the manager, the controllers and the suspenders keeps its
\* type, and a suspender has a task exactly while it runs.
THEOREM TypeCorrect == Spec => []TypeOK
  <1>1. Init => TypeOK
    BY DEF Init, TypeOK, Statuses, SuspenderStates
  <1>2. TypeOK /\ [Next]_vars => TypeOK'
    <2> SUFFICES ASSUME TypeOK, [Next]_vars PROVE TypeOK'
      OBVIOUS
    <2> USE DEF TypeOK
    <2>1. ASSUME NEW n \in Names, AddPool(n) PROVE TypeOK'
      BY <2>1 DEF AddPool, Statuses, worldVars, threadVars
    <2>2. ASSUME NEW n \in Names, RemovePool(n) PROVE TypeOK'
      BY <2>2 DEF RemovePool, ClosedPool, Statuses, worldVars, threadVars
    <2>3. ASSUME CloseAll PROVE TypeOK'
      BY <2>3 DEF CloseAll, Statuses, worldVars, threadVars
    <2>4. ASSUME NEW k \in Controllers, StartRound(k) PROVE TypeOK'
      BY <2>4 DEF StartRound, ActivePools, Registered, managerVars, worldVars
    <2>5. ASSUME NEW k \in Controllers, NEW p \in Pools, Check(k, p) PROVE TypeOK'
      <3>1. todo' \in [Controllers -> SUBSET Pools] /\ UNCHANGED <<managerVars, worldVars>>
        BY <2>5 DEF Check
      <3>2. CASE UNCHANGED <<task, at>>
        BY <3>1, <3>2 DEF managerVars, worldVars
      <3>3. ASSUME NEW s \in Suspenders, at[s] = "ended",
                   task' = [task EXCEPT ![s] = [by |-> k, pool |-> p]],
                   Goto(s, "starting")
            PROVE  TypeOK'
        <4>1. [by |-> k, pool |-> p] \in Tasks
          BY DEF Tasks
        <4>2. [by |-> k, pool |-> p] # None
          BY <4>1, SupervisionAssumption
        <4>3. /\ task' \in [Suspenders -> Tasks \cup {None}]
              /\ at' \in [Suspenders -> SuspenderStates]
          BY <3>3, <4>1 DEF Goto, SuspenderStates
        <4>4. \A r \in Suspenders : task'[r] = None <=> at'[r] = "ended"
          BY <3>3, <4>2 DEF Goto
        <4> QED
          BY <3>1, <4>3, <4>4 DEF managerVars, worldVars
      <3> QED
        BY <2>5, <3>2, <3>3 DEF Check
    <2>6. ASSUME NEW s \in Suspenders, Look(s) \/ Test(s) PROVE TypeOK'
      BY <2>6, SuspenderTyped DEF Look, Test, managerVars, worldVars, SuspenderStates
    <2>7. ASSUME NEW s \in Suspenders, Suspend(s) PROVE TypeOK'
      <3>1. /\ status' \in [Pools -> Statuses]
            /\ broken' \in [Pools -> BOOLEAN]
            /\ UNCHANGED <<pools, health, todo>>
        BY <2>7 DEF Suspend, Suspended, Statuses
      <3>2. /\ task' \in [Suspenders -> Tasks \cup {None}]
            /\ at' \in [Suspenders -> SuspenderStates]
            /\ \A r \in Suspenders : task'[r] = None <=> at'[r] = "ended"
        BY <2>7, SuspenderTyped DEF Suspend, AfterSuspend, SuspenderStates
      <3> QED
        BY <3>1, <3>2
    <2>8. ASSUME NEW s \in Suspenders, Activate(s) PROVE TypeOK'
      BY <2>8, SuspenderTyped DEF Activate, Statuses, worldVars
    <2>9. ASSUME NEW p \in Pools, Change(p) \/ Record(p) PROVE TypeOK'
      BY <2>9 DEF Change, Record, managerVars, threadVars
    <2>10. CASE UNCHANGED vars
      BY <2>10 DEF vars, managerVars, worldVars, threadVars
    <2> QED
      BY <2>1, <2>2, <2>3, <2>4, <2>5, <2>6, <2>7, <2>8, <2>9, <2>10
      DEF Next, ControllerStep, SuspenderStep
  <1> QED
    BY <1>1, <1>2, PTL DEF Spec

-----------------------------------------------------------------------------
\* An open pool is the one registered under its name: neither a controller nor
\* a suspender that still knows a removed pool opens it again.
THEOREM RemovedPoolsStayClosed == Spec => []OpenIsRegistered
  <1>1. Init => OpenIsRegistered /\ Born
    BY DEF Init, OpenIsRegistered, Born
  <1>2. TypeOK /\ OpenIsRegistered /\ Born /\ [Next]_vars
          => OpenIsRegistered' /\ Born'
    <2> SUFFICES ASSUME TypeOK, OpenIsRegistered, Born, [Next]_vars
                 PROVE  OpenIsRegistered' /\ Born'
      OBVIOUS
    <2>a. /\ pools \in [Names -> Pools \cup {None}]
          /\ status \in [Pools -> Statuses]
          /\ todo \in [Controllers -> SUBSET Pools]
          /\ task \in [Suspenders -> Tasks \cup {None}]
          /\ \A s \in Suspenders : task[s] = None <=> at[s] = "ended"
          /\ None \notin Pools
      BY SupervisionAssumption DEF TypeOK
    <2>b. \A p \in Pools : status[p] \notin {"none", "CLOSED"} =>
            \E n \in Names : pools[n] = p
      BY DEF OpenIsRegistered, Registered
    <2>c. \A s \in Suspenders : task[s] # None => task[s].pool \in Pools
      BY <2>a DEF Tasks
    <2>1. ASSUME NEW n \in Names, AddPool(n) PROVE OpenIsRegistered' /\ Born'
      <3>1. PICK p \in Pools : /\ status[p] = "none"
                               /\ pools' = [pools EXCEPT ![n] = p]
                               /\ status' = [status EXCEPT ![p] = "ACTIVE"]
        BY <2>1 DEF AddPool
      <3>2. pools[n] = None /\ UNCHANGED <<todo, task>>
        BY <2>1 DEF AddPool, threadVars
      <3>3. ASSUME NEW q \in Pools, status'[q] \notin {"none", "CLOSED"}
            PROVE  \E m \in Names : pools'[m] = q
        <4>1. CASE q = p
          BY <3>1, <4>1, <2>a
        <4>2. CASE q # p
          <5>1. PICK m \in Names : pools[m] = q
            BY <3>1, <3>3, <4>2, <2>a, <2>b
          <5>2. m # n
            BY <3>2, <5>1, <2>a
          <5> QED
            BY <3>1, <5>1, <5>2, <2>a
        <4> QED
          BY <4>1, <4>2
      <3>4. \A q \in Pools : status[q] # "none" => status'[q] # "none"
        BY <3>1, <2>a
      <3>5. Born'
        BY <3>2, <3>4, <2>a, <2>c DEF Born
      <3> QED
        BY <3>3, <3>5 DEF OpenIsRegistered, Registered
    <2>2. ASSUME NEW n \in Names, RemovePool(n) PROVE OpenIsRegistered' /\ Born'
      <3>1. /\ pools[n] \in Pools
            /\ pools' = [pools EXCEPT ![n] = None]
            /\ status' = [status EXCEPT ![pools[n]] = "CLOSED"]
            /\ UNCHANGED <<todo, task>>
        BY <2>2, <2>a DEF RemovePool, ClosedPool, threadVars
      <3>2. ASSUME NEW q \in Pools, status'[q] \notin {"none", "CLOSED"}
            PROVE  \E m \in Names : pools'[m] = q
        <4>1. q # pools[n] /\ status[q] = status'[q]
          BY <3>1, <3>2, <2>a
        <4>2. PICK m \in Names : pools[m] = q
          BY <3>2, <4>1, <2>b
        <4>3. m # n
          BY <4>1, <4>2
        <4> QED
          BY <3>1, <4>2, <4>3, <2>a
      <3>3. \A q \in Pools : status[q] # "none" => status'[q] # "none"
        BY <3>1, <2>a
      <3>4. Born'
        BY <3>1, <3>3, <2>a, <2>c DEF Born
      <3> QED
        BY <3>2, <3>4 DEF OpenIsRegistered, Registered
    <2>3. ASSUME CloseAll PROVE OpenIsRegistered' /\ Born'
      <3>1. /\ UNCHANGED <<pools, todo, task>>
            /\ status' = [p \in Pools |->
                            IF p \in Registered THEN "CLOSED" ELSE status[p]]
        BY <2>3 DEF CloseAll, threadVars
      <3>2. \A p \in Pools : status'[p] = "CLOSED" \/ status'[p] = status[p]
        BY <3>1
      <3>3. Born'
        BY <3>1, <3>2, <2>a, <2>c DEF Born
      <3> QED
        BY <3>1, <3>2, <3>3, <2>b DEF OpenIsRegistered, Registered
    <2>4. ASSUME NEW k \in Controllers, StartRound(k)
          PROVE  OpenIsRegistered' /\ Born'
      <3>1. /\ UNCHANGED <<pools, status, task>>
            /\ todo' = [todo EXCEPT ![k] = ActivePools]
        BY <2>4 DEF StartRound, managerVars
      <3>2. \A p \in ActivePools : status[p] # "none"
        BY DEF ActivePools, IsActive
      <3> QED
        BY <3>1, <3>2, <2>a, <2>b DEF OpenIsRegistered, Registered, Born
    <2>5. ASSUME NEW k \in Controllers, NEW p \in Pools, Check(k, p)
          PROVE  OpenIsRegistered' /\ Born'
      <3>1. /\ UNCHANGED <<pools, status>>
            /\ todo' = [todo EXCEPT ![k] = @ \ {p}]
            /\ status[p] # "none"
        BY <2>5 DEF Check, managerVars, Born
      <3>2. \A j \in Controllers : todo'[j] \subseteq todo[j]
        BY <3>1, <2>a
      <3>3. \A s \in Suspenders : task'[s] = task[s] \/ task'[s].pool = p
        BY <2>5, <2>a DEF Check
      <3>4. Born'
        BY <3>1, <3>2, <3>3 DEF Born
      <3> QED
        BY <3>1, <3>4 DEF OpenIsRegistered, Registered
    <2>6. ASSUME NEW s \in Suspenders, SuspenderStep(s)
          PROVE  OpenIsRegistered' /\ Born'
      <3>1. UNCHANGED <<pools, todo>>
        BY <2>6 DEF SuspenderStep, Look, Suspend, Test, Activate, managerVars
      <3>2. \A r \in Suspenders : task'[r] = task[r] \/ task'[r] = None
        BY <2>6, <2>a DEF SuspenderStep, Look, Suspend, Test, Activate, End
      <3>3. task[s] # None
        BY <2>6, <2>a DEF SuspenderStep, Look, Suspend, Test, Activate
      <3>4. task[s].pool \in Pools /\ status[task[s].pool] # "none"
        BY <3>3, <2>c DEF Born
      <3>5. \/ status' = status
            \/ /\ status[task[s].pool] # "CLOSED"
               /\ \E new \in Statuses \ {"none"} :
                    status' = [status EXCEPT ![task[s].pool] = new]
        BY <2>6 DEF SuspenderStep, Look, Suspend, Test, Activate, managerVars,
                    IsClosed, Suspended, Statuses
      <3>6. \A q \in Pools :
              /\ status[q] # "none" => status'[q] # "none"
              /\ status'[q] \notin {"none", "CLOSED"} =>
                   status[q] \notin {"none", "CLOSED"}
        BY <3>4, <3>5, <2>a
      <3>7. Born'
        BY <3>1, <3>2, <3>6, <2>a, <2>c DEF Born
      <3> QED
        BY <3>1, <3>6, <3>7, <2>b DEF OpenIsRegistered, Registered
    <2>7. ASSUME NEW p \in Pools, Change(p) \/ Record(p)
          PROVE  OpenIsRegistered' /\ Born'
      BY <2>7 DEF Change, Record, managerVars, threadVars, OpenIsRegistered,
                  Registered, Born
    <2>8. CASE UNCHANGED vars
      BY <2>8 DEF vars, managerVars, threadVars, OpenIsRegistered, Registered, Born
    <2> QED
      BY <2>1, <2>2, <2>3, <2>4, <2>5, <2>6, <2>7, <2>8 DEF Next, ControllerStep
  <1> QED
    BY <1>1, <1>2, TypeCorrect, PTL DEF Spec

-----------------------------------------------------------------------------
\* A suspender that will bring p back.
Supervises(s, p) ==
  /\ at[s] \in {"sleeping", "activating"}
  /\ task[s].pool = p
  /\ Suspended(task[s].by) = status[p]

\* A suspended pool has a suspender of the controller whose status it has.
THEOREM SuspendedPoolsAreSupervised == Spec => []SuspendedIsSupervised
  <1>1. Init => SuspendedIsSupervised
    BY DEF Init, SuspendedIsSupervised
  <1>2. TypeOK /\ SuspendedIsSupervised /\ [Next]_vars => SuspendedIsSupervised'
    <2> SUFFICES ASSUME TypeOK, SuspendedIsSupervised, [Next]_vars,
                        NEW p \in Pools, status'[p] \in {"DISABLED", "OUT_OF_SYNC"}
                 PROVE  \E s \in Suspenders : Supervises(s, p)'
      BY DEF SuspendedIsSupervised, Supervises
    <2>a. /\ pools \in [Names -> Pools \cup {None}]
          /\ status \in [Pools -> Statuses]
          /\ task \in [Suspenders -> Tasks \cup {None}]
          /\ at \in [Suspenders -> SuspenderStates]
      BY DEF TypeOK
    <2>b. status[p] \in {"DISABLED", "OUT_OF_SYNC"} =>
            \E s \in Suspenders : Supervises(s, p)
      BY DEF SuspendedIsSupervised, Supervises
    <2>c. ASSUME NEW s \in Suspenders, Supervises(s, p), status'[p] = status[p],
                 task'[s] = task[s], at'[s] \in {"sleeping", "activating"}
          PROVE  Supervises(s, p)'
      BY <2>c DEF Supervises
    <2>1. ASSUME \/ \E n \in Names : AddPool(n) \/ RemovePool(n)
                 \/ CloseAll
                 \/ \E q \in Pools : Change(q) \/ Record(q)
                 \/ UNCHANGED vars
          PROVE  \E s \in Suspenders : Supervises(s, p)'
      <3>1. task' = task /\ at' = at
        BY <2>1 DEF AddPool, RemovePool, CloseAll, Change, Record, vars, threadVars
      <3>2. status'[p] = status[p]
        BY <2>1, <2>a DEF AddPool, RemovePool, ClosedPool, CloseAll, Change, Record,
                          vars, managerVars
      <3> QED
        BY <3>1, <3>2, <2>b, <2>c DEF Supervises
    <2>2. ASSUME NEW k \in Controllers, StartRound(k)
          PROVE  \E s \in Suspenders : Supervises(s, p)'
      BY <2>2, <2>b, <2>c DEF StartRound, managerVars, Supervises
    <2>3. ASSUME NEW k \in Controllers, NEW q \in Pools, Check(k, q)
          PROVE  \E s \in Suspenders : Supervises(s, p)'
      <3>1. status' = status
        BY <2>3 DEF Check, managerVars
      <3>2. PICK s \in Suspenders : Supervises(s, p)
        BY <3>1, <2>b
      <3>3. at[s] # "ended" /\ at[s] \in {"sleeping", "activating"}
        BY <3>2 DEF Supervises
      <3>4. task'[s] = task[s] /\ at'[s] = at[s]
        BY <2>3, <3>3, <2>a DEF Check, Goto
      <3> QED
        BY <3>1, <3>2, <3>3, <3>4, <2>c
    <2>4. ASSUME NEW r \in Suspenders, Look(r) \/ Test(r)
          PROVE  \E s \in Suspenders : Supervises(s, p)'
      <3>1. status' = status
        BY <2>4 DEF Look, Test, managerVars
      <3>2. PICK s \in Suspenders : Supervises(s, p)
        BY <3>1, <2>b
      <3>3. at[s] \in {"sleeping", "activating"}
        BY <3>2 DEF Supervises
      <3>4. task'[s] = task[s] /\ at'[s] \in {"sleeping", "activating"}
        BY <2>4, <3>3, <2>a DEF Look, Test, Goto, End
      <3> QED
        BY <3>1, <3>2, <3>4, <2>c
    <2>5. ASSUME NEW r \in Suspenders, Suspend(r)
          PROVE  \E s \in Suspenders : Supervises(s, p)'
      <3>1. CASE task[r].pool = p /\ ~IsClosed(p)
        <4>1. /\ status' = [status EXCEPT ![p] = Suspended(task[r].by)]
              /\ at' = [at EXCEPT ![r] = "sleeping"]
              /\ task' = task
          BY <2>5, <3>1 DEF Suspend, Goto, AfterSuspend
        <4>2. /\ at'[r] = "sleeping" /\ task'[r] = task[r]
              /\ status'[p] = Suspended(task[r].by)
          BY <4>1, <2>a
        <4>3. Supervises(r, p)'
          BY <3>1, <4>2 DEF Supervises, Suspended
        <4> QED
          BY <4>3
      <3>2. CASE task[r].pool # p \/ IsClosed(p)
        <4>1. status'[p] = status[p]
          BY <2>5, <3>2, <2>a DEF Suspend
        <4>2. PICK s \in Suspenders : Supervises(s, p)
          BY <4>1, <2>b
        <4>3. at[s] \in {"sleeping", "activating"} /\ s # r
          BY <2>5, <4>2 DEF Supervises, Suspend
        <4>4. task'[s] = task[s] /\ at'[s] = at[s]
          BY <2>5, <4>3, <2>a DEF Suspend, Goto, End
        <4> QED
          BY <4>1, <4>2, <4>3, <4>4, <2>c
      <3> QED
        BY <3>1, <3>2
    <2>6. ASSUME NEW r \in Suspenders, Activate(r)
          PROVE  \E s \in Suspenders : Supervises(s, p)'
      <3>1. status'[p] = status[p] /\ (task[r].pool # p \/ IsClosed(p))
        BY <2>6, <2>a DEF Activate
      <3>2. PICK s \in Suspenders : Supervises(s, p)
        BY <3>1, <2>b
      <3>3. s # r /\ at[s] \in {"sleeping", "activating"}
        BY <3>1, <3>2 DEF Supervises, IsClosed, Suspended
      <3>4. task'[s] = task[s] /\ at'[s] = at[s]
        BY <2>6, <3>3, <2>a DEF Activate, Goto, End
      <3> QED
        BY <3>1, <3>2, <3>3, <3>4, <2>c
    <2> QED
      BY <2>1, <2>2, <2>3, <2>4, <2>5, <2>6 DEF Next, ControllerStep, SuspenderStep
  <1> QED
    BY <1>1, <1>2, TypeCorrect, PTL DEF Spec
=============================================================================
