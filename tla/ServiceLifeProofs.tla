-------------------------- MODULE ServiceLifeProofs --------------------------
(***************************************************************************)
(* Proofs about ServiceLife, for any users, plans, environments and ports. *)
(***************************************************************************)
EXTENDS ServiceLife, WellFoundedInduction, TLAPS

\* The router's mappings are stale, known to the mapper, or refused deletion.
Mappings ==
  /\ phase \notin {"down", "configured", "failed"} =>
       mapped \subseteq stale \cup undeleted \cup ext_ports
  /\ phase = "upnp" => ext_ports = {}
  /\ phase \in {"rollback", "closing"} => ext_ports \subseteq to_delete \cup undeleted
  /\ phase \in {"stopping", "saving", "saving calls", "saved"} =>
       ext_ports \subseteq undeleted
  /\ phase \in {"binding", "serving"} /\ ~AllMapped => ext_ports \subseteq undeleted

LEMMA StartsMapped == Init => Mappings
  BY DEF Init, PortsInit, Mappings

\* Deleting one mapping keeps what is left of them accounted for.
LEMMA DeletionKeeps ==
  ASSUME NEW p, DeleteMapping(p),
         mapped \subseteq stale \cup undeleted \cup ext_ports,
         ext_ports \subseteq to_delete \cup undeleted
  PROVE  /\ mapped' \subseteq stale' \cup undeleted' \cup ext_ports'
         /\ ext_ports' \subseteq to_delete' \cup undeleted'
  BY DEF DeleteMapping

LEMMA MappingsStep == Mappings /\ [Next]_vars => Mappings'
  <1> SUFFICES ASSUME Mappings, [Next]_vars PROVE Mappings'
    OBVIOUS
  <1>a. ASSUME UNCHANGED portVars, phase' = phase PROVE Mappings'
    BY <1>a DEF Mappings, portVars, AllMapped
  <1>1. CASE Configure
    BY <1>1 DEF Configure, Mappings
  <1>2. CASE Load
    BY <1>2 DEF Load, NewMapper, Mappings
  <1>3. CASE TryInitUpnp
    <2>1. CASE /\ Step("upnp", IF config.USE_UPNP THEN "mapping" ELSE "binding")
               /\ UNCHANGED portVars
      BY <2>1 DEF Step, portVars, Mappings
    <2>2. CASE Step("mapping", "mapping") /\ AddMapping
      BY <2>2 DEF Step, AddMapping, Note, Mappings
    <2>3. CASE Step("mapping", "rollback") /\ ~AllMapped /\ DeleteAll
      BY <2>3 DEF Step, DeleteAll, Mappings
    <2>4. CASE \E p \in to_delete : Step("rollback", "rollback") /\ DeleteMapping(p)
      BY <2>4, DeletionKeeps DEF Step, Mappings
    <2>5. CASE Step("rollback", "binding") /\ DeletionOver /\ UNCHANGED portVars
      BY <2>5 DEF Step, DeletionOver, portVars, Mappings
    <2>6. CASE Step("mapping", "binding") /\ AllMapped /\ UNCHANGED portVars
      BY <2>6 DEF Step, AllMapped, portVars, Mappings
    <2> QED
      BY <1>3, <2>1, <2>2, <2>3, <2>4, <2>5, <2>6 DEF TryInitUpnp
  <1>4. CASE Bind
    BY <1>4 DEF Bind, portVars, Mappings, AllMapped
  <1>5. ASSUME NEW k \in Keys, Charge(k) PROVE Mappings'
    BY <1>5, <1>a DEF Charge
  <1>6. CASE NextDay \/ Accept
    BY <1>6, <1>a DEF NextDay, Accept
  <1>7. CASE LeaseEnds
    BY <1>7 DEF LeaseEnds, LeaseExpires, Mappings, AllMapped
  <1>8. ASSUME NEW call, NEW op, NEW k, NEW v, Post(call, op, k, v)
        PROVE  Mappings'
    BY <1>8, <1>a DEF Post
  <1>9. CASE Interrupt
    BY <1>9 DEF Interrupt, Step, portVars, Mappings
  <1>10. CASE InterruptAgain
    BY <1>10 DEF InterruptAgain, DeleteAll, portVars, Mappings
  <1>11. CASE Shutdown
    <2>1. CASE Step("draining", "closing") /\ DeleteAll
      BY <2>1 DEF Step, DeleteAll, Mappings
    <2>2. CASE \E p \in to_delete : Step("closing", "closing") /\ DeleteMapping(p)
      BY <2>2, DeletionKeeps DEF Step, Mappings
    <2>3. CASE Step("closing", "stopping") /\ DeletionOver /\ UNCHANGED portVars
      BY <2>3 DEF Step, DeletionOver, portVars, Mappings
    <2> QED
      BY <1>11, <2>1, <2>2, <2>3 DEF Shutdown
  <1>12. CASE Stop \/ SaveRaises \/ SaveLedger \/ Saved
    BY <1>12 DEF Stop, SaveRaises, SaveLedger, Saved, portVars, Mappings
  <1>13. ASSUME NEW k \in Keys, SavePlan(k) PROVE Mappings'
    BY <1>13, <1>a DEF SavePlan
  <1>14. ASSUME NEW k \in Keys, NEW d \in Days, SaveCalls(k, d) PROVE Mappings'
    BY <1>14, <1>a DEF SaveCalls
  <1>15. CASE End \/ Crash
    BY <1>15 DEF End, Crash, Over, Mappings
  <1>16. CASE UNCHANGED vars
    BY <1>16, <1>a DEF vars
  <1> QED
    BY <1>1, <1>2, <1>3, <1>4, <1>5, <1>6, <1>7, <1>8, <1>9, <1>10, <1>11,
       <1>12, <1>13, <1>14, <1>15, <1>16 DEF Next, Main

\* Whatever the router refuses and whenever its leases end, a service that has
\* closed its UPnP part left no mapping that it could have deleted.
THEOREM MappingsAreRemoved == Spec => []NoMappingLeft
  <1>1. Mappings => NoMappingLeft
    BY DEF Mappings, NoMappingLeft
  <1> QED
    BY <1>1, StartsMapped, MappingsStep, PTL DEF Spec

-----------------------------------------------------------------------------
(* Users and their rows.                                                   *)

Entries == [value : Plans \cup {TestPlan}, row : BOOLEAN]

\* A user of whom the database has a row that is not this object's was removed.
Rows ==
  /\ users \in [Keys -> Entries \cup {None}]
  /\ dbPlan = [k \in Keys |-> dbPlan[k]]
  /\ \A k \in Keys : dbPlan[k] \in Plans \cup {TestPlan, None}
  /\ phase = "configured" => config # Raised
  /\ phase \notin {"down", "configured"} /\ config # Raised =>
       \A k \in Keys :
         dbPlan[k] # None /\ (users[k] = None \/ ~users[k].row) => k \in removed
  /\ phase = "failed" /\ config # Raised => removed # {}

LEMMA StartsWithRows == Init => Rows
  BY DEF Init, NoUsers, Rows

\* What one call of the admin does to the users.
LEMMA UserCallRows ==
  ASSUME Rows, NEW op \in {"register", "update", "remove"}, NEW k \in Keys,
         NEW v \in Plans
  PROVE  /\ UserCall(op, k, v) \in [Keys -> Entries \cup {None}]
         /\ \A m \in Keys \ {k} : UserCall(op, k, v)[m] = users[m]
         /\ op # "remove" /\ users[k] # None =>
              /\ UserCall(op, k, v)[k] # None
              /\ UserCall(op, k, v)[k].row = users[k].row
  <1> DEFINE new == [value |-> v, row |-> FALSE]
             changed == [users[k] EXCEPT !.value = v]
  <1>1. new \in Entries /\ None \notin Entries
    BY NoneAssumption DEF Entries
  <1>2. ASSUME users[k] # None
        PROVE  changed \in Entries /\ changed.row = users[k].row
    <2>1. users[k] \in Entries
      BY <1>2 DEF Rows
    <2> QED
      BY <2>1 DEF Entries
  <1>3. users \in [Keys -> Entries \cup {None}]
    BY DEF Rows
  <1>4. CASE op = "register" /\ users[k] = None
    <2>1. UserCall(op, k, v) = [users EXCEPT ![k] = new]
      BY <1>4 DEF UserCall
    <2> HIDE DEF new
    <2> QED
      BY <1>1, <1>3, <1>4, <2>1
  <1>5. CASE op = "update" /\ users[k] # None
    <2>1. UserCall(op, k, v) = [users EXCEPT ![k] = changed]
      BY <1>3, <1>5 DEF UserCall
    <2>2. changed \in Entries /\ changed.row = users[k].row
      BY <1>2, <1>5
    <2> HIDE DEF changed
    <2> QED
      BY <1>1, <1>3, <2>1, <2>2
  <1>6. CASE op = "remove"
    <2>1. UserCall(op, k, v) = [users EXCEPT ![k] = None]
      BY <1>6 DEF UserCall
    <2> QED
      BY <1>3, <1>6, <2>1
  <1>7. CASE ~(op = "register" /\ users[k] = None) /\ ~(op = "update" /\ users[k] # None)
             /\ op # "remove"
    <2>1. UserCall(op, k, v) = users
      BY <1>7 DEF UserCall
    <2> QED
      BY <1>3, <2>1
  <1> QED
    BY <1>4, <1>5, <1>6, <1>7

LEMMA RowsStep == Rows /\ [Next]_vars => Rows'
  <1> SUFFICES ASSUME Rows, [Next]_vars PROVE Rows'
    OBVIOUS
  <1>a. ASSUME UNCHANGED <<users, dbPlan, config, removed>>,
               \/ phase' = phase
               \/ phase \notin {"down", "configured"}
                  /\ phase' \notin {"down", "configured", "failed"}
        PROVE  Rows'
    BY <1>a DEF Rows
  <1>1. CASE Configure
    BY <1>1 DEF Configure, memVars, dbVars, histVars, Rows
  <1>2. CASE Load
    <2>1. /\ users' = [k \in Keys |->
                 CASE dbPlan[k] # None -> [value |-> dbPlan[k], row |-> TRUE]
                   [] dbPlan[k] = None /\ config.MODE = "DEV" /\ k \in TestKeys
                        -> [value |-> TestPlan, row |-> FALSE]
                   [] OTHER -> None]
          /\ phase' = "upnp" /\ UNCHANGED <<config, dbPlan>>
      BY <1>2 DEF Load, dbVars
    <2>2. ASSUME NEW k \in Keys
          PROVE  /\ users'[k] \in Entries \cup {None}
                 /\ dbPlan[k] # None => users'[k] # None /\ users'[k].row
      <3>1. CASE dbPlan[k] # None
        <4>1. users'[k] = [value |-> dbPlan[k], row |-> TRUE]
          BY <2>1, <3>1
        <4>2. [value |-> dbPlan[k], row |-> TRUE] \in Entries
          BY <3>1 DEF Rows, Entries
        <4> QED
          BY <4>1, <4>2, NoneAssumption DEF Entries
      <3>2. CASE dbPlan[k] = None
        <4>1. users'[k] = None \/ users'[k] = [value |-> TestPlan, row |-> FALSE]
          BY <2>1, <3>2
        <4>2. [value |-> TestPlan, row |-> FALSE] \in Entries
          BY DEF Entries
        <4> QED
          BY <3>2, <4>1, <4>2
      <3> QED
        BY <3>1, <3>2
    <2>3. users' \in [Keys -> Entries \cup {None}]
      BY <2>1, <2>2
    <2> QED
      BY <2>1, <2>2, <2>3 DEF Rows
  <1>3. CASE TryInitUpnp
    BY <1>3, <1>a DEF TryInitUpnp, Step, memVars, dbVars, histVars
  <1>4. CASE Bind
    BY <1>4, <1>a DEF Bind, memVars, dbVars, histVars
  <1>5. ASSUME NEW k \in Keys, Charge(k) PROVE Rows'
    BY <1>5, <1>a DEF Charge, dbVars, histVars
  <1>6. CASE NextDay \/ Accept \/ LeaseEnds
    BY <1>6, <1>a DEF NextDay, Accept, LeaseEnds, memVars, dbVars, histVars
  <1>8. ASSUME NEW call, NEW op \in {"register", "update", "remove"},
               NEW k \in Keys, NEW v \in Plans, Post(call, op, k, v)
        PROVE  Rows'
    <2>1. UNCHANGED <<phase, config, dbPlan>>
      BY <1>8 DEF Post, dbVars
    <2>2. CASE Status(call) # 200
      BY <1>8, <1>a, <2>1, <2>2 DEF Post, memVars
    <2>3. CASE Status(call) = 200
      <3>1. /\ users' = UserCall(op, k, v)
            /\ removed' = IF op = "remove" /\ k \in Registered /\ HasRows(k)
                          THEN removed \cup {k} ELSE removed
        BY <1>8, <2>3 DEF Post
      <3>2. ASSUME phase \notin {"down", "configured"}, config # Raised,
                   NEW m \in Keys, dbPlan[m] # None,
                   users'[m] = None \/ ~users'[m].row
            PROVE  m \in removed'
        <4>1. users[m] = None \/ ~users[m].row => m \in removed
          BY <3>2 DEF Rows
        <4>2. CASE m # k
          BY <3>1, <3>2, <4>1, <4>2, UserCallRows
        <4>3. CASE m = k /\ users[m] = None
          BY <3>1, <4>1, <4>3
        <4>4. CASE m = k /\ users[m] # None /\ op # "remove"
          BY <3>1, <3>2, <4>1, <4>4, UserCallRows
        <4>5. CASE m = k /\ users[m] # None /\ op = "remove"
          BY <3>1, <3>2, <4>5 DEF Registered, HasRows
        <4> QED
          BY <4>2, <4>3, <4>4, <4>5
      <3>3. users' \in [Keys -> Entries \cup {None}]
        BY <3>1, UserCallRows
      <3>4. removed \subseteq removed'
        BY <3>1
      <3> QED
        BY <2>1, <3>2, <3>3, <3>4 DEF Rows
    <2> QED
      BY <2>2, <2>3
  <1>9. CASE Interrupt \/ Shutdown
    BY <1>9, <1>a DEF Interrupt, Shutdown, Step, memVars, dbVars, histVars
  <1>10. CASE InterruptAgain \/ Stop
    BY <1>10, <1>a DEF InterruptAgain, Stop, memVars, dbVars
  <1>11. CASE SaveLedger \/ Saved
    BY <1>11, <1>a DEF SaveLedger, Saved, memVars, dbVars, histVars
  <1>12. CASE SaveRaises
    <2>1. /\ UNCHANGED <<users, dbPlan, config, removed>>
          /\ phase = "saving" /\ phase' = "failed"
          /\ \E k \in Keys : users[k] # None /\ ~users[k].row /\ dbPlan[k] # None
      BY <1>12 DEF SaveRaises, memVars, dbVars, histVars, Registered, Insertable
    <2> QED
      BY <2>1 DEF Rows
  <1>13. ASSUME NEW k \in Keys, SavePlan(k) PROVE Rows'
    <2>1. /\ users[k] # None
          /\ dbPlan' = [dbPlan EXCEPT ![k] = users[k].value]
          /\ users' = [users EXCEPT ![k].row = TRUE]
          /\ UNCHANGED <<config, phase, removed>>
          /\ phase = "saving"
      BY <1>13 DEF SavePlan, Registered, histVars
    <2>2. users[k] \in Entries /\ users \in [Keys -> Entries \cup {None}]
      BY <2>1 DEF Rows
    <2> DEFINE u == [users[k] EXCEPT !.row = TRUE]
    <2>3. users' = [users EXCEPT ![k] = u]
      BY <2>1, <2>2
    <2>4. u \in Entries /\ u.row
      BY <2>2 DEF Entries
    <2>5. users[k].value \in Plans \cup {TestPlan}
      BY <2>2 DEF Entries
    <2>6. u # None
      BY <2>4, NoneAssumption DEF Entries
    <2> HIDE DEF u
    <2>7. /\ users' \in [Keys -> Entries \cup {None}]
          /\ users'[k] # None /\ users'[k].row
          /\ \A m \in Keys \ {k} : users'[m] = users[m]
      BY <2>2, <2>3, <2>4, <2>6
    <2>8. /\ dbPlan' = [m \in Keys |-> dbPlan'[m]]
          /\ dbPlan'[k] \in Plans \cup {TestPlan, None}
          /\ \A m \in Keys \ {k} : dbPlan'[m] = dbPlan[m]
      BY <2>1, <2>5 DEF Rows
    <2> QED
      BY <2>1, <2>7, <2>8 DEF Rows
  <1>14. ASSUME NEW k \in Keys, NEW d \in Days, SaveCalls(k, d) PROVE Rows'
    BY <1>14, <1>a DEF SaveCalls, memVars, histVars
  <1>15. CASE End \/ Crash
    BY <1>15 DEF End, Crash, Over, NoUsers, dbVars, Rows
  <1>16. CASE UNCHANGED vars
    BY <1>16, <1>a DEF vars, memVars, dbVars, histVars
  <1> QED
    BY <1>1, <1>2, <1>3, <1>4, <1>5, <1>6, <1>8, <1>9, <1>10, <1>11,
       <1>12, <1>13, <1>14, <1>15, <1>16 DEF Next, Main

\* The insertion of a plan meets the row of the same key, and ends the saving,
\* only if a user with rows was removed in this life.
THEOREM SavingRaisesAfterRemoval == Spec => []SaveRaisesOnlyAfterRemoval
  <1>1. Rows => SaveRaisesOnlyAfterRemoval
    BY DEF Rows, SaveRaisesOnlyAfterRemoval
  <1> QED
    BY <1>1, StartsWithRows, RowsStep, PTL DEF Spec

-----------------------------------------------------------------------------
(* What a restart loads: RestartRestoresLastSave.                          *)

\* The calls of all time are those of all days; memory never has fewer than
\* the database, of users that were not removed in this life.
Totals ==
  /\ today \in Days
  /\ total \in [Keys -> Nat]
  /\ daily \in [Keys -> [Days -> Nat]] /\ dbCalls \in [Keys -> [Days -> Nat]]
  /\ \A k \in Keys : total[k] = SumOf(daily[k])
  /\ phase \notin {"down", "configured", "failed"} =>
       \A k \in Keys \ removed, d \in Days : dbCalls[k][d] <= daily[k][d]

\* What was loaded, and what is saved already unless the saving is hurried.
Progress ==
  /\ phase \in {"down", "configured", "upnp"} => admin = "off" /\ ~hurried
  /\ phase = "upnp" =>
       \A k \in Keys :
         /\ dbPlan[k] # None => users[k] # None /\ users[k].value = dbPlan[k]
         /\ daily[k] = dbCalls[k]
  /\ phase \in {"saving", "saving calls"} => last = None
  /\ phase \in {"saving", "saving calls"} /\ ~hurried => admin = "off"
  /\ phase = "saving" /\ ~hurried =>
       \A k \in Registered \ unsaved : dbPlan[k] = users[k].value
  /\ phase = "saving calls" /\ ~hurried =>
       /\ \A k \in Registered : dbPlan[k] = users[k].value
       /\ \A k \in Keys \ removed, d \in Days :
            <<k, d>> \notin unsaved => dbCalls[k][d] = daily[k][d]

\* The database has what the last completed save knew.
Kept ==
  last # None =>
    \A k \in Keys : last.plan[k] # None =>
      /\ dbPlan[k] = last.plan[k]
      /\ SumOf(dbCalls[k]) = last.total[k]

LifeInv == Rows /\ Totals /\ Progress /\ Kept

-----------------------------------------------------------------------------
(* The sum over the days, by its least counterexample.                    *)

\* A set of numbers has a least one.
LEMMA LeastExists ==
  ASSUME NEW S, S \subseteq Nat, S # {}
  PROVE  \E x \in S : \A y \in S : x <= y
  <1>1. PICK x \in S : \A y \in S : <<y, x>> \notin OpToRel(<, Nat)
    BY NatLessThanWellFounded, WFMin
  <1>2. \A y \in S : ~(y < x)
    BY <1>1, Zenon DEF OpToRel
  <1> QED
    BY <1>2

\* What holds at 0 and of a number after each holds up to the last.
LEMMA UpTo ==
  ASSUME NEW n \in Nat, NEW S, 0 \in S,
         \A i \in 1 .. n : i - 1 \in S => i \in S
  PROVE  0 .. n \subseteq S
  <1> DEFINE wrong == (0 .. n) \ S
  <1>1. ASSUME wrong # {} PROVE FALSE
    <2>1. wrong \subseteq Nat
      OBVIOUS
    <2>2. PICK x \in wrong : \A y \in wrong : x <= y
      BY <1>1, <2>1, LeastExists
    <2>3. x \in 1 .. n /\ x - 1 \in 0 .. n
      BY <2>2
    <2>4. x - 1 \in S
      BY <2>2, <2>3
    <2> QED
      BY <2>2, <2>3, <2>4
  <1> QED
    BY <1>1

\* The calls of the first days, counted up.
Counts(sum, calls, n) ==
  sum = [d \in 0 .. n |-> IF d = 0 THEN 0 ELSE sum[d - 1] + calls[d]]

\* Those of more days are counted on from those of fewer.
LEMMA CountsExist ==
  ASSUME NEW calls
  PROVE  \E sum : Counts(sum, calls, MaxDay)
  <1> DEFINE S == {n \in 0 .. MaxDay : \E sum : Counts(sum, calls, n)}
  <1>1. 0 \in S
    <2> DEFINE f == [d \in 0 .. 0 |-> 0]
    <2>1. Counts(f, calls, 0)
      BY DEF Counts
    <2>2. \E sum : Counts(sum, calls, 0)
      BY <2>1
    <2> QED
      BY <2>2, DaysAssumption
  <1>2. ASSUME NEW n \in 1 .. MaxDay, n - 1 \in S PROVE n \in S
    <2>1. PICK f : Counts(f, calls, n - 1)
      BY <1>2
    <2> DEFINE g == [d \in 0 .. n |-> IF d = n THEN f[n - 1] + calls[n] ELSE f[d]]
    <2>2. \A d \in 0 .. n - 1 : g[d] = f[d]
      OBVIOUS
    <2>3. \A d \in 0 .. n - 1 : f[d] = IF d = 0 THEN 0 ELSE f[d - 1] + calls[d]
      BY <2>1 DEF Counts
    <2>4. g[n] = g[n - 1] + calls[n]
      BY <2>2
    <2>5. \A d \in 0 .. n - 1 : d # 0 => g[d - 1] = f[d - 1]
      BY <2>2
    <2>6. n # 0 /\ \A d \in 0 .. n : d = n \/ d \in 0 .. n - 1
      OBVIOUS
    <2>7. g = [d \in 0 .. n |-> g[d]]
      OBVIOUS
    <2> HIDE DEF g
    <2>8. \A d \in 0 .. n : g[d] = IF d = 0 THEN 0 ELSE g[d - 1] + calls[d]
      BY <2>2, <2>3, <2>4, <2>5, <2>6
    <2>9. Counts(g, calls, n)
      BY <2>7, <2>8 DEF Counts
    <2>10. \E sum : Counts(sum, calls, n)
      BY <2>9
    <2> QED
      BY <2>10, DaysAssumption
  <1> HIDE DEF S
  <1>3. 0 .. MaxDay \subseteq S
    BY <1>1, <1>2, UpTo, DaysAssumption
  <1>4. MaxDay \in S
    BY <1>3, DaysAssumption
  <1> QED
    BY <1>4 DEF S

\* What SumOf returns was counted up day by day.
LEMMA SumIsCount ==
  ASSUME NEW calls
  PROVE  \E sum : /\ \A d \in 0 .. MaxDay :
                       sum[d] = IF d = 0 THEN 0 ELSE sum[d - 1] + calls[d]
                  /\ SumOf(calls) = sum[MaxDay]
  <1> DEFINE sum == CHOOSE f : Counts(f, calls, MaxDay)
  <1>1. Counts(sum, calls, MaxDay)
    BY CountsExist
  <1>2. SumOf(calls) = sum[MaxDay]
    BY DEF SumOf, Counts
  <1> HIDE DEF sum
  <1>3. \A d \in 0 .. MaxDay : sum[d] = IF d = 0 THEN 0 ELSE sum[d - 1] + calls[d]
    BY <1>1 DEF Counts
  <1> QED
    BY <1>2, <1>3

\* No calls are none of all time.
LEMMA SumOfNone ==
  ASSUME NEW calls, \A d \in Days : calls[d] = 0
  PROVE  SumOf(calls) = 0
  <1>1. PICK sum : /\ \A d \in 0 .. MaxDay :
                        sum[d] = IF d = 0 THEN 0 ELSE sum[d - 1] + calls[d]
                   /\ SumOf(calls) = sum[MaxDay]
    BY SumIsCount
  <1> DEFINE S == {d \in 0 .. MaxDay : sum[d] = 0}
  <1>2. 0 \in S
    BY <1>1, DaysAssumption
  <1>3. ASSUME NEW d \in 1 .. MaxDay, d - 1 \in S PROVE d \in S
    BY <1>1, <1>3, DaysAssumption DEF Days
  <1> HIDE DEF S
  <1>4. 0 .. MaxDay \subseteq S
    BY <1>2, <1>3, UpTo, DaysAssumption
  <1>5. MaxDay \in S
    BY <1>4, DaysAssumption
  <1> QED
    BY <1>1, <1>5 DEF S

\* The sum is a number, and one more with one call more on a day.
LEMMA SumOfMore ==
  ASSUME NEW f \in [Days -> Nat], NEW e \in Days
  PROVE  /\ SumOf(f) \in Nat
         /\ SumOf([f EXCEPT ![e] = f[e] + 1]) = SumOf(f) + 1
  <1> DEFINE g == [f EXCEPT ![e] = f[e] + 1]
  <1>1. PICK a : /\ \A d \in 0 .. MaxDay :
                      a[d] = IF d = 0 THEN 0 ELSE a[d - 1] + f[d]
                 /\ SumOf(f) = a[MaxDay]
    BY SumIsCount
  <1>2. PICK b : /\ \A d \in 0 .. MaxDay :
                      b[d] = IF d = 0 THEN 0 ELSE b[d - 1] + g[d]
                 /\ SumOf(g) = b[MaxDay]
    BY SumIsCount
  <1>3. \A d \in 1 .. MaxDay : f[d] \in Nat /\ g[d] = f[d] + (IF d = e THEN 1 ELSE 0)
    BY DEF Days
  <1>4. e \in 1 .. MaxDay
    BY DEF Days
  <1> HIDE DEF g
  <1> DEFINE S == {d \in 0 .. MaxDay :
                     a[d] \in Nat /\ b[d] = a[d] + (IF d >= e THEN 1 ELSE 0)}
  <1>5. 0 \in S
    BY <1>1, <1>2, <1>4, DaysAssumption
  <1>6. ASSUME NEW d \in 1 .. MaxDay, d - 1 \in S PROVE d \in S
    <2>1. /\ a[d] = a[d - 1] + f[d] /\ b[d] = b[d - 1] + g[d]
          /\ d \in 0 .. MaxDay /\ d # 0
      BY <1>1, <1>2, DaysAssumption
    <2>2. /\ a[d - 1] \in Nat
          /\ b[d - 1] = a[d - 1] + (IF d - 1 >= e THEN 1 ELSE 0)
      BY <1>6
    <2> QED
      BY <1>3, <1>4, <2>1, <2>2, DaysAssumption
  <1> HIDE DEF S
  <1>7. 0 .. MaxDay \subseteq S
    BY <1>5, <1>6, UpTo, DaysAssumption
  <1>8. MaxDay \in S
    BY <1>7, DaysAssumption
  <1>9. a[MaxDay] \in Nat /\ b[MaxDay] = a[MaxDay] + 1
    BY <1>4, <1>8, DaysAssumption DEF S
  <1> QED
    BY <1>1, <1>2, <1>9 DEF g

-----------------------------------------------------------------------------
(* The steps.                                                              *)

\* Exchanges, calls of the admin and rows keep sum and days together.
LEMMA TotalsStep == Totals /\ [Next]_vars => Totals'
  <1> SUFFICES ASSUME Totals, [Next]_vars PROVE Totals'
    OBVIOUS
  <1> USE DEF memVars, dbVars, histVars
  <1>d. 1 \in Days /\ MaxDay \in Nat
    BY DaysAssumption DEF Days
  <1>a. ASSUME UNCHANGED <<today, total, daily, dbCalls, removed>>,
               phase' \in {"down", "configured", "failed"}
                 \/ phase \notin {"down", "configured", "failed"}
        PROVE  Totals'
    BY <1>a DEF Totals
  <1>z. ASSUME total' = [k \in Keys |-> 0], daily' = NoCalls,
               UNCHANGED <<today, dbCalls>>, phase' = "down"
        PROVE  Totals'
    <2>1. daily' \in [Keys -> [Days -> Nat]] /\ total' \in [Keys -> Nat]
      BY <1>z DEF NoCalls
    <2>2. \A k \in Keys : total'[k] = SumOf(daily'[k])
      BY <1>z, SumOfNone DEF NoCalls
    <2> QED
      BY <1>z, <2>1, <2>2 DEF Totals
  <1>1. CASE Configure
    BY <1>1, <1>a DEF Configure
  <1>2. CASE Load
    <2>1. total' = [k \in Keys |-> SumOf(dbCalls[k])] /\ daily' = dbCalls
          /\ UNCHANGED <<today, dbCalls>>
      BY <1>2 DEF Load, TotalOfRows
    <2>2. dbCalls \in [Keys -> [Days -> Nat]]
      BY DEF Totals
    <2>3. \A k \in Keys : SumOf(dbCalls[k]) \in Nat
      BY <1>d, <2>2, SumOfMore
    <2>4. \A k \in Keys, d \in Days : dbCalls[k][d] <= daily'[k][d]
      <3>1. \A k \in Keys, d \in Days : dbCalls[k][d] \in Nat
        BY <2>2
      <3> QED
        BY <2>1, <3>1
    <2> QED
      BY <2>1, <2>2, <2>3, <2>4 DEF Totals
  <1>3. CASE TryInitUpnp \/ Bind \/ Accept \/ LeaseEnds
    BY <1>3, <1>a DEF TryInitUpnp, Step, Bind, Accept, LeaseEnds
  <1>4. ASSUME NEW k \in Keys, Charge(k) PROVE Totals'
    <2>1. /\ daily' = [daily EXCEPT ![k][today] = @ + 1]
          /\ total' = [total EXCEPT ![k] = @ + 1]
          /\ UNCHANGED <<today, dbCalls, removed, phase>>
      BY <1>4 DEF Charge
    <2> DEFINE f == daily[k]
               g == [f EXCEPT ![today] = f[today] + 1]
    <2>2. f \in [Days -> Nat] /\ today \in Days /\ total[k] \in Nat
      BY DEF Totals
    <2>3. daily' = [daily EXCEPT ![k] = g]
      BY <2>1, <2>2
    <2>4. g \in [Days -> Nat] /\ \A d \in Days : f[d] <= g[d] /\ f[d] \in Nat
      BY <2>2
    <2>5. SumOf(g) = SumOf(f) + 1
      BY <2>2, SumOfMore
    <2> HIDE DEF g
    <2>6. /\ daily' \in [Keys -> [Days -> Nat]] /\ total' \in [Keys -> Nat]
          /\ daily'[k] = g /\ total'[k] = total[k] + 1
          /\ \A m \in Keys \ {k} : daily'[m] = daily[m] /\ total'[m] = total[m]
      BY <2>1, <2>2, <2>3, <2>4 DEF Totals
    <2>7. \A m \in Keys : total'[m] = SumOf(daily'[m])
      BY <2>5, <2>6 DEF Totals
    <2>8. ASSUME phase \notin {"down", "configured", "failed"},
                 NEW m \in Keys \ removed, NEW d \in Days
          PROVE  dbCalls[m][d] <= daily'[m][d]
      <3>1. dbCalls[m][d] <= daily[m][d] /\ dbCalls[m][d] \in Nat
        BY <2>8 DEF Totals
      <3> QED
        BY <2>4, <2>6, <3>1
    <2> QED
      BY <2>1, <2>6, <2>7, <2>8 DEF Totals
  <1>5. CASE NextDay
    <2>1. today' = today + 1 /\ today < MaxDay
          /\ UNCHANGED <<total, daily, dbCalls, removed, phase>>
      BY <1>5 DEF NextDay
    <2>2. today' \in Days
      BY <1>d, <2>1 DEF Totals, Days
    <2> QED
      BY <2>1, <2>2 DEF Totals
  <1>6. ASSUME NEW call, NEW op \in {"register", "update", "remove"},
               NEW k \in Keys, NEW v \in Plans, Post(call, op, k, v)
        PROVE  Totals'
    <2>1. UNCHANGED <<today, dbCalls, phase>>
      BY <1>6 DEF Post
    <2>2. CASE UNCHANGED <<total, daily>>
      <3>1. removed \subseteq removed'
        BY <1>6 DEF Post
      <3> QED
        BY <2>1, <2>2, <3>1 DEF Totals
    <2>3. CASE /\ total' = [total EXCEPT ![k] = 0]
               /\ daily' = [daily EXCEPT ![k] = NoCalls[k]]
               /\ removed' = IF HasRows(k) THEN removed \cup {k} ELSE removed
      <3>1. NoCalls[k] \in [Days -> Nat] /\ \A d \in Days : NoCalls[k][d] = 0
        BY DEF NoCalls
      <3>2. /\ daily' \in [Keys -> [Days -> Nat]] /\ total' \in [Keys -> Nat]
            /\ daily'[k] = NoCalls[k] /\ total'[k] = 0
            /\ \A m \in Keys \ {k} : daily'[m] = daily[m] /\ total'[m] = total[m]
        <4> DEFINE z == NoCalls[k]
        <4> HIDE DEF z
        <4>1. daily' = [daily EXCEPT ![k] = z] /\ z \in [Days -> Nat]
          BY <2>3, <3>1 DEF z
        <4>2. daily' \in [Keys -> [Days -> Nat]] /\ daily'[k] = z
              /\ \A m \in Keys \ {k} : daily'[m] = daily[m]
          BY <4>1 DEF Totals
        <4>3. total' \in [Keys -> Nat] /\ total'[k] = 0
              /\ \A m \in Keys \ {k} : total'[m] = total[m]
          BY <2>3 DEF Totals
        <4> QED
          BY <4>2, <4>3 DEF z
      <3>3. \A m \in Keys : total'[m] = SumOf(daily'[m])
        BY <3>1, <3>2, SumOfNone DEF Totals
      <3>4. ASSUME phase \notin {"down", "configured", "failed"},
                   NEW m \in Keys \ removed', NEW d \in Days
            PROVE  dbCalls[m][d] <= daily'[m][d]
        <4>1. CASE m # k
          BY <2>3, <3>2, <3>4, <4>1 DEF Totals
        <4>2. CASE m = k
          <5>1. ~HasRows(k)
            BY <2>3, <3>4, <4>2
          <5>2. dbCalls[k][d] = 0
            BY <5>1 DEF HasRows, Totals
          <5> QED
            BY <3>1, <3>2, <4>2, <5>2
        <4> QED
          BY <4>1, <4>2
      <3> QED
        BY <2>1, <3>2, <3>3, <3>4 DEF Totals
    <2> QED
      BY <1>6, <2>2, <2>3 DEF Post
  <1>7. CASE Interrupt \/ Shutdown \/ InterruptAgain \/ Stop
    BY <1>7, <1>a DEF Interrupt, Shutdown, Step, InterruptAgain, Stop
  <1>8. ASSUME NEW k \in Keys, SavePlan(k) PROVE Totals'
    BY <1>8, <1>a DEF SavePlan
  <1>9. CASE SaveRaises \/ SaveLedger \/ Saved
    BY <1>9, <1>a DEF SaveRaises, SaveLedger, Saved
  <1>10. ASSUME NEW k \in Keys, NEW d \in Days, SaveCalls(k, d) PROVE Totals'
    <2>1. /\ dbCalls' = [dbCalls EXCEPT ![k][d] = daily[k][d]]
          /\ UNCHANGED <<today, total, daily, removed, phase>>
      BY <1>10 DEF SaveCalls, SavedRow
    <2> DEFINE g == [dbCalls[k] EXCEPT ![d] = daily[k][d]]
    <2>2. dbCalls[k] \in [Days -> Nat] /\ daily[k][d] \in Nat
      BY DEF Totals
    <2>3. dbCalls' = [dbCalls EXCEPT ![k] = g]
      BY <2>1, <2>2
    <2>4. g \in [Days -> Nat] /\ g[d] = daily[k][d]
          /\ \A e \in Days \ {d} : g[e] = dbCalls[k][e]
      BY <2>2
    <2> HIDE DEF g
    <2>5. dbCalls' \in [Keys -> [Days -> Nat]] /\ dbCalls'[k] = g
          /\ \A m \in Keys \ {k} : dbCalls'[m] = dbCalls[m]
      BY <2>3, <2>4 DEF Totals
    <2>6. ASSUME phase \notin {"down", "configured", "failed"},
                 NEW m \in Keys \ removed, NEW e \in Days
          PROVE  dbCalls'[m][e] <= daily[m][e]
      <3>1. dbCalls[m][e] <= daily[m][e] /\ daily[m][e] \in Nat
        BY <2>6 DEF Totals
      <3> QED
        BY <2>4, <2>5, <3>1
    <2> QED
      BY <2>1, <2>5, <2>6 DEF Totals
  <1>11. CASE End \/ Crash
    BY <1>11, <1>z DEF End, Crash, Over
  <1>12. CASE UNCHANGED vars
    BY <1>12, <1>a DEF vars, Totals
  <1> QED
    BY <1>1, <1>2, <1>3, <1>4, <1>5, <1>6, <1>7, <1>8, <1>9, <1>10, <1>11, <1>12
    DEF Next, Main

\* Nobody but the saving changes what it works on, unless it is hurried.
LEMMA ProgressStep == Rows /\ Totals /\ Progress /\ [Next]_vars => Progress'
  <1> SUFFICES ASSUME Rows, Totals, Progress, [Next]_vars PROVE Progress'
    OBVIOUS
  <1> USE DEF memVars, dbVars, histVars
  <1>a. ASSUME UNCHANGED <<phase, admin, hurried, users, daily, dbVars, unsaved,
                           removed, last>>
        PROVE  Progress'
    BY <1>a DEF Progress, Registered
  <1>b. ASSUME phase' \notin {"down", "configured", "upnp", "saving", "saving calls"}
        PROVE  Progress'
    BY <1>b DEF Progress
  <1>c. ASSUME phase' = "down", admin' = "off", hurried' = FALSE PROVE Progress'
    BY <1>c DEF Progress
  <1>1. CASE Configure
    BY <1>1 DEF Configure, Progress
  <1>2. CASE Load
    <2>1. /\ users' = [k \in Keys |->
                 CASE dbPlan[k] # None -> [value |-> dbPlan[k], row |-> TRUE]
                   [] dbPlan[k] = None /\ config.MODE = "DEV" /\ k \in TestKeys
                        -> [value |-> TestPlan, row |-> FALSE]
                   [] OTHER -> None]
          /\ phase = "configured" /\ phase' = "upnp" /\ daily' = dbCalls
          /\ hurried' = FALSE /\ UNCHANGED <<admin, dbPlan, dbCalls>>
      BY <1>2 DEF Load
    <2>2. ASSUME NEW k \in Keys, dbPlan[k] # None
          PROVE  users'[k] # None /\ users'[k].value = dbPlan[k]
      <3> DEFINE e == [value |-> dbPlan[k], row |-> TRUE]
      <3>1. users'[k] = e
        BY <2>1, <2>2
      <3>2. e \in Entries /\ e.value = dbPlan[k]
        BY <2>2 DEF Rows, Entries
      <3>3. None \notin Entries
        BY NoneAssumption DEF Entries
      <3> HIDE DEF e
      <3> QED
        BY <3>1, <3>2, <3>3
    <2>3. admin = "off"
      BY <2>1 DEF Progress
    <2> QED
      BY <2>1, <2>2, <2>3 DEF Progress
  <1>3. CASE TryInitUpnp
    BY <1>3, <1>b DEF TryInitUpnp, Step
  <1>4. CASE Bind
    BY <1>4, <1>b DEF Bind
  <1>5. ASSUME NEW k \in Keys, Charge(k) PROVE Progress'
    <2>1. /\ UNCHANGED <<phase, admin, hurried, users, dbVars, unsaved, removed, last>>
          /\ WorkersRun
      BY <1>5 DEF Charge
    <2> QED
      BY <2>1 DEF WorkersRun, Progress, Registered
  <1>6. CASE NextDay \/ LeaseEnds
    BY <1>6, <1>a DEF NextDay, LeaseEnds
  <1>7. CASE Accept
    BY <1>7, <1>b DEF Accept
  <1>8. ASSUME NEW call, NEW op, NEW k \in Keys, NEW v, Post(call, op, k, v)
        PROVE  Progress'
    <2>1. admin = "reading" /\ UNCHANGED <<phase, hurried, last>>
      BY <1>8 DEF Post
    <2>2. phase \notin {"down", "configured", "upnp"}
      BY <2>1 DEF Progress
    <2>3. phase \in {"saving", "saving calls"} => hurried /\ last = None
      BY <2>1 DEF Progress
    <2> QED
      BY <2>1, <2>2, <2>3 DEF Progress
  <1>9. CASE Interrupt \/ Shutdown
    BY <1>9, <1>b DEF Interrupt, Shutdown, Step
  <1>10. CASE InterruptAgain
    BY <1>10 DEF InterruptAgain, Progress
  <1>11. CASE Stop
    BY <1>11 DEF Stop, StopAdmin, Progress, Registered
  <1>12. ASSUME NEW k \in Keys, SavePlan(k) PROVE Progress'
    <2>1. /\ users[k] # None /\ phase = "saving"
          /\ dbPlan' = [dbPlan EXCEPT ![k] = users[k].value]
          /\ users' = [users EXCEPT ![k].row = TRUE]
          /\ unsaved' = unsaved \ {k}
          /\ UNCHANGED <<phase, admin, hurried, last>>
      BY <1>12 DEF SavePlan, Registered
    <2>2. users[k] \in Entries /\ users \in [Keys -> Entries \cup {None}]
      BY <2>1 DEF Rows
    <2> DEFINE u == [users[k] EXCEPT !.row = TRUE]
    <2>3. users' = [users EXCEPT ![k] = u]
      BY <2>1, <2>2
    <2>4. u \in Entries /\ u.value = users[k].value
      BY <2>2 DEF Entries
    <2> HIDE DEF u
    <2>5. users'[k] = u /\ \A m \in Keys \ {k} : users'[m] = users[m]
      BY <2>2, <2>3
    <2>6. /\ dbPlan'[k] = users[k].value
          /\ \A m \in Keys \ {k} : dbPlan'[m] = dbPlan[m]
      <3> DEFINE value == users[k].value
      <3> HIDE DEF value
      <3>1. dbPlan' = [dbPlan EXCEPT ![k] = value] /\ dbPlan = [m \in Keys |-> dbPlan[m]]
        BY <2>1 DEF Rows, value
      <3> QED
        BY <3>1 DEF value
    <2>7. ASSUME ~hurried, NEW m \in Registered' \ unsaved'
          PROVE  dbPlan'[m] = users'[m].value
      <3>1. CASE m = k
        BY <2>4, <2>5, <2>6, <3>1
      <3>2. CASE m # k
        <4>1. m \in Registered \ unsaved
          BY <2>1, <2>5, <2>7, <3>2 DEF Registered
        <4> QED
          BY <2>1, <2>5, <2>6, <2>7, <3>2, <4>1 DEF Progress, Registered
      <3> QED
        BY <3>1, <3>2
    <2> QED
      BY <2>1, <2>7 DEF Progress
  <1>13. CASE SaveRaises \/ Saved
    BY <1>13, <1>b DEF SaveRaises, Saved
  <1>14. CASE SaveLedger
    <2>1. /\ phase = "saving" /\ phase' = "saving calls"
          /\ unsaved \cap Registered = {}
          /\ unsaved' = {kd \in Keys \X Days : daily[kd[1]][kd[2]] > 0}
          /\ UNCHANGED <<admin, hurried, users, daily, dbPlan, dbCalls, removed, last>>
      BY <1>14 DEF SaveLedger
    <2>2. ASSUME NEW k \in Keys \ removed, NEW d \in Days, <<k, d>> \notin unsaved'
          PROVE  dbCalls[k][d] = daily[k][d]
      <3>1. ~(daily[k][d] > 0)
        BY <2>1, <2>2
      <3>2. dbCalls[k][d] \in Nat /\ daily[k][d] \in Nat /\ dbCalls[k][d] <= daily[k][d]
        BY <2>1 DEF Totals
      <3> QED
        BY <3>1, <3>2
    <2>3. \A k \in Registered : ~hurried => dbPlan[k] = users[k].value
      BY <2>1 DEF Progress
    <2> QED
      BY <2>1, <2>2, <2>3 DEF Progress, Registered
  <1>15. ASSUME NEW k \in Keys, NEW d \in Days, SaveCalls(k, d) PROVE Progress'
    <2>1. /\ phase = "saving calls"
          /\ dbCalls' = [dbCalls EXCEPT ![k][d] = daily[k][d]]
          /\ unsaved' = unsaved \ {<<k, d>>}
          /\ UNCHANGED <<phase, admin, hurried, users, daily, dbPlan, removed, last>>
      BY <1>15 DEF SaveCalls, SavedRow
    <2> DEFINE n == daily[k][d]
    <2> HIDE DEF n
    <2>2. dbCalls' = [dbCalls EXCEPT ![k][d] = n] /\ dbCalls \in [Keys -> [Days -> Nat]]
      BY <2>1 DEF n, Totals
    <2>3. \A m \in Keys, e \in Days :
            dbCalls'[m][e] = IF m = k /\ e = d THEN n ELSE dbCalls[m][e]
      BY <2>2
    <2>4. ASSUME ~hurried, NEW m \in Keys \ removed, NEW e \in Days, <<m, e>> \notin unsaved'
          PROVE  dbCalls'[m][e] = daily[m][e]
      <3>1. CASE m = k /\ e = d
        BY <2>3, <3>1 DEF n
      <3>2. CASE ~(m = k /\ e = d)
        <4>1. <<m, e>> \notin unsaved
          BY <2>1, <2>4, <3>2
        <4> QED
          BY <2>1, <2>3, <2>4, <3>2, <4>1 DEF Progress
      <3> QED
        BY <3>1, <3>2
    <2>5. /\ last = None /\ (~hurried => admin = "off")
          /\ ~hurried => \A m \in Registered : dbPlan[m] = users[m].value
      BY <2>1 DEF Progress
    <2>6. Registered' = Registered
      BY <2>1 DEF Registered
    <2>7. \A m \in Registered' : ~hurried' => dbPlan'[m] = users'[m].value
      BY <2>1, <2>5, <2>6
    <2>8. phase' = "saving calls" /\ last' = None /\ (~hurried' => admin' = "off")
      BY <2>1, <2>5
    <2>9. \A m \in Keys \ removed', e \in Days :
            ~hurried' /\ <<m, e>> \notin unsaved' => dbCalls'[m][e] = daily'[m][e]
      <3>1. UNCHANGED <<removed, hurried, daily>>
        BY <2>1
      <3> QED
        BY <2>4, <3>1
    <2> QED
      BY <2>7, <2>8, <2>9 DEF Progress
  <1>16. CASE End \/ Crash
    BY <1>16, <1>c DEF End, Crash, Over
  <1>17. CASE UNCHANGED vars
    BY <1>17, <1>a DEF vars
  <1> QED
    BY <1>1, <1>2, <1>3, <1>4, <1>5, <1>6, <1>7, <1>8, <1>9, <1>10, <1>11, <1>12,
       <1>13, <1>14, <1>15, <1>16, <1>17 DEF Next, Main

\* The rows change only while there is no last save to keep to.
LEMMA KeptStep == Rows /\ Totals /\ Progress /\ Kept /\ [Next]_vars => Kept'
  <1> SUFFICES ASSUME Rows, Totals, Progress, Kept, [Next]_vars PROVE Kept'
    OBVIOUS
  <1> USE DEF memVars, dbVars, histVars
  <1>a. ASSUME UNCHANGED <<last, dbPlan, dbCalls>> PROVE Kept'
    BY <1>a DEF Kept
  <1>b. ASSUME last' = None PROVE Kept'
    BY <1>b DEF Kept
  <1>1. CASE Configure \/ Load \/ TryInitUpnp \/ Bind
    BY <1>1, <1>a DEF Configure, Load, TryInitUpnp, Step, Bind
  <1>2. ASSUME NEW k \in Keys, Charge(k) PROVE Kept'
    BY <1>2, <1>a DEF Charge
  <1>3. CASE NextDay \/ LeaseEnds \/ Accept \/ Interrupt \/ Shutdown
    BY <1>3, <1>a DEF NextDay, LeaseEnds, Accept, Interrupt, Shutdown, Step
  <1>4. ASSUME NEW call, NEW op, NEW k \in Keys, NEW v, Post(call, op, k, v)
        PROVE  Kept'
    BY <1>4, <1>a DEF Post
  <1>5. CASE InterruptAgain \/ Stop
    BY <1>5, <1>a, <1>b DEF InterruptAgain, Stop
  <1>6. ASSUME NEW k \in Keys, SavePlan(k) PROVE Kept'
    BY <1>6, <1>b DEF SavePlan, Progress
  <1>7. CASE SaveRaises \/ SaveLedger
    BY <1>7, <1>a DEF SaveRaises, SaveLedger
  <1>8. ASSUME NEW k \in Keys, NEW d \in Days, SaveCalls(k, d) PROVE Kept'
    BY <1>8, <1>b DEF SaveCalls, Progress
  <1>9. CASE Saved
    <2>1. /\ phase = "saving calls" /\ unsaved = {}
          /\ UNCHANGED <<dbPlan, dbCalls>>
      BY <1>9 DEF Saved
    <2>2. CASE hurried
      BY <1>9, <1>b, <2>2 DEF Saved
    <2>3. CASE ~hurried
      <3> DEFINE plan == [k \in Keys |-> IF k \in Registered \ removed
                                         THEN users[k].value ELSE None]
      <3>1. last' = [plan |-> plan, total |-> total]
        BY <1>9, <2>3 DEF Saved
      <3>2. ASSUME NEW k \in Keys, plan[k] # None
            PROVE  dbPlan[k] = plan[k] /\ SumOf(dbCalls[k]) = total[k]
        <4>1. k \in Registered \ removed /\ plan[k] = users[k].value
          BY <3>2
        <4>2. dbPlan[k] = users[k].value
          BY <2>1, <2>3, <4>1 DEF Progress
        <4>3. \A d \in Days : dbCalls[k][d] = daily[k][d]
          BY <2>1, <2>3, <4>1 DEF Progress
        <4>4. dbCalls[k] = daily[k]
          <5>1. dbCalls[k] \in [Days -> Nat] /\ daily[k] \in [Days -> Nat]
            BY DEF Totals
          <5> QED
            BY <4>3, <5>1
        <4>5. SumOf(dbCalls[k]) = total[k]
          BY <4>4 DEF Totals
        <4> QED
          BY <4>1, <4>2, <4>5
      <3> HIDE DEF plan
      <3>3. last'.plan = plan /\ last'.total = total
        BY <3>1
      <3> QED
        BY <2>1, <3>2, <3>3 DEF Kept
    <2> QED
      BY <2>2, <2>3
  <1>10. CASE End \/ Crash
    BY <1>10, <1>a DEF End, Crash, Over
  <1>11. CASE UNCHANGED vars
    BY <1>11, <1>a DEF vars
  <1> QED
    BY <1>1, <1>2, <1>3, <1>4, <1>5, <1>6, <1>7, <1>8, <1>9, <1>10, <1>11
    DEF Next, Main

\* Nothing was ever saved.
LEMMA StartsInLife == Init => LifeInv
  <1> SUFFICES ASSUME Init PROVE LifeInv
    OBVIOUS
  <1>1. Totals
    <2>1. daily \in [Keys -> [Days -> Nat]] /\ dbCalls = daily /\ total \in [Keys -> Nat]
      BY DEF Init, NoCalls
    <2>2. \A k \in Keys : total[k] = SumOf(daily[k])
      BY SumOfNone DEF Init, NoCalls
    <2>3. today \in Days
      BY DaysAssumption DEF Init, Days
    <2> QED
      BY <2>1, <2>2, <2>3 DEF Init, Totals
  <1>2. Progress
    BY DEF Init, Progress
  <1>3. Kept
    BY DEF Init, Kept, NoUsers
  <1> QED
    BY <1>1, <1>2, <1>3, StartsWithRows DEF LifeInv

\* For any users, plans and days: a start loads the plans and the totals of the
\* last save that completed, whatever crashed since then.
THEOREM RestartsRestore == Spec => []RestartRestoresLastSave
  <1>1. LifeInv /\ [Next]_vars => LifeInv'
    BY RowsStep, TotalsStep, ProgressStep, KeptStep DEF LifeInv
  <1>2. LifeInv => RestartRestoresLastSave
    BY DEF LifeInv, Totals, Progress, Kept, RestartRestoresLastSave
  <1> QED
    BY <1>1, <1>2, StartsInLife, PTL DEF Spec

-----------------------------------------------------------------------------
(* The types of what the invariants above leave open.                      *)

PortsTyped == ext_ports \cup mapped \cup to_delete \cup undeleted \subseteq ToSet(Ports)

Kinds ==
  /\ env \in Envs
  /\ config = None \/ config = Raised \/ config = Configured(env)
  /\ daily \in [Keys -> [Days -> 0 .. MaxCalls]]
  /\ dbCalls \in [Keys -> [Days -> 0 .. MaxCalls]]
  /\ admin \in {"off", "idle", "reading"}
  /\ phase = "down" => config = None /\ admin = "off"
  /\ PortsTyped

\* As long as a port is not mapped there is a first one.
LEMMA NextPortIsPort == ~AllMapped => NextPort \in ToSet(Ports)
  <1> SUFFICES ASSUME ~AllMapped PROVE NextPort \in ToSet(Ports)
    OBVIOUS
  <1>1. DOMAIN Ports = 1 .. Len(Ports) /\ Len(Ports) \in Nat
    BY PortsAssumption
  <1> DEFINE open == {i \in DOMAIN Ports : Ports[i] \notin ext_ports}
  <1>2. open # {} /\ open \subseteq Nat
    BY <1>1 DEF AllMapped, ToSet
  <1>3. PICK i \in open : \A j \in open : i <= j
    BY <1>2, LeastExists
  <1>4. \A j \in 1 .. (i - 1) : Ports[j] \in ext_ports
    <2>1. ASSUME NEW j \in 1 .. (i - 1), Ports[j] \notin ext_ports PROVE FALSE
      <3>1. j \in DOMAIN Ports /\ j < i
        BY <1>1, <1>3
      <3> QED
        BY <1>3, <2>1, <3>1, <1>1
    <2> QED
      BY <2>1
  <1>5. \E n \in DOMAIN Ports : Ports[n] \notin ext_ports
                               /\ \A j \in 1 .. (n - 1) : Ports[j] \in ext_ports
    BY <1>3, <1>4
  <1> QED
    BY <1>5 DEF NextPort, ToSet

LEMMA PortsKept ==
  ASSUME PortsTyped,
         \/ UNCHANGED portVars
         \/ NewMapper
         \/ AddMapping
         \/ DeleteAll
         \/ \E p : DeleteMapping(p) \/ LeaseExpires(p)
  PROVE  PortsTyped'
  <1>1. CASE AddMapping
    BY <1>1, NextPortIsPort DEF AddMapping, Note, PortsTyped
  <1> QED
    BY <1>1 DEF portVars, NewMapper, DeleteAll, DeleteMapping, LeaseExpires, PortsTyped

LEMMA StartsTyped == Init => Kinds
  BY DaysAssumption DEF Init, PortsInit, NoCalls, Kinds, PortsTyped

LEMMA KindsStep == Kinds /\ Totals /\ [Next]_vars => Kinds'
  <1> SUFFICES ASSUME Kinds, Totals, [Next]_vars PROVE Kinds'
    OBVIOUS
  <1> USE DEF memVars, dbVars, histVars
  <1>a. ASSUME UNCHANGED <<env, config, daily, dbCalls, admin>>, PortsTyped',
               phase' = "down" => phase = "down"
        PROVE  Kinds'
    BY <1>a DEF Kinds
  <1>b. UNCHANGED portVars => PortsTyped'
    BY PortsKept DEF Kinds
  <1>1. CASE Configure
    BY <1>1, <1>b DEF Configure, Kinds
  <1>2. CASE Load
    BY <1>2, PortsKept DEF Load, Kinds
  <1>3. CASE TryInitUpnp
    BY <1>3, <1>a, PortsKept DEF TryInitUpnp, Step, Kinds
  <1>4. CASE Bind
    BY <1>4, <1>b DEF Bind, Kinds
  <1>5. ASSUME NEW k \in Keys, Charge(k) PROVE Kinds'
    <2>1. /\ daily' = [daily EXCEPT ![k] = [daily[k] EXCEPT ![today] = daily[k][today] + 1]]
          /\ UNCHANGED <<env, config, phase, dbCalls, admin, portVars>>
          /\ daily[k][today] < MaxCalls
      BY <1>5 DEF Charge, Kinds
    <2>2. daily[k][today] + 1 \in 0 .. MaxCalls /\ daily[k] \in [Days -> 0 .. MaxCalls]
      BY <2>1, DaysAssumption DEF Kinds, Totals
    <2>3. [daily[k] EXCEPT ![today] = daily[k][today] + 1] \in [Days -> 0 .. MaxCalls]
      BY <2>2
    <2>4. daily' \in [Keys -> [Days -> 0 .. MaxCalls]]
      BY <2>1, <2>3 DEF Kinds
    <2> QED
      BY <1>b, <2>1, <2>4 DEF Kinds
  <1>6. CASE NextDay
    BY <1>6, <1>a, <1>b DEF NextDay
  <1>7. CASE LeaseEnds
    BY <1>7, <1>a, PortsKept DEF LeaseEnds, Kinds
  <1>8. CASE Accept
    BY <1>8, <1>b DEF Accept, Kinds
  <1>9. ASSUME NEW call, NEW op, NEW k \in Keys, NEW v, Post(call, op, k, v)
        PROVE  Kinds'
    <2>1. /\ UNCHANGED <<env, config, phase, dbCalls, portVars>>
          /\ admin = "reading" /\ admin' = "idle"
          /\ daily' = daily \/ daily' = [daily EXCEPT ![k] = NoCalls[k]]
      BY <1>9 DEF Post
    <2>2. NoCalls[k] \in [Days -> 0 .. MaxCalls]
      BY DaysAssumption DEF NoCalls
    <2>3. daily' \in [Keys -> [Days -> 0 .. MaxCalls]]
      BY <2>1, <2>2 DEF Kinds
    <2> QED
      BY <1>b, <2>1, <2>3 DEF Kinds
  <1>10. CASE Interrupt \/ SaveRaises \/ SaveLedger \/ Saved
    BY <1>10, <1>a, <1>b DEF Interrupt, Step, SaveRaises, SaveLedger, Saved
  <1>11. CASE Shutdown
    BY <1>11, <1>a, PortsKept DEF Shutdown, Step, Kinds
  <1>12. CASE InterruptAgain
    BY <1>12, <1>a, PortsKept DEF InterruptAgain, Kinds
  <1>13. CASE Stop
    BY <1>13, <1>b DEF Stop, StopAdmin, Kinds
  <1>14. ASSUME NEW k \in Keys, SavePlan(k) PROVE Kinds'
    BY <1>14, <1>a, <1>b DEF SavePlan
  <1>15. ASSUME NEW k \in Keys, NEW d \in Days, SaveCalls(k, d) PROVE Kinds'
    <2>1. /\ dbCalls' = [dbCalls EXCEPT ![k] = [dbCalls[k] EXCEPT ![d] = daily[k][d]]]
          /\ UNCHANGED <<env, config, phase, daily, admin, portVars>>
      BY <1>15 DEF SaveCalls, SavedRow, Kinds
    <2>2. [dbCalls[k] EXCEPT ![d] = daily[k][d]] \in [Days -> 0 .. MaxCalls]
      BY DEF Kinds
    <2>3. dbCalls' \in [Keys -> [Days -> 0 .. MaxCalls]]
      BY <2>1, <2>2 DEF Kinds
    <2> QED
      BY <1>b, <2>1, <2>3 DEF Kinds
  <1>16. CASE End \/ Crash
    <2>1. /\ UNCHANGED <<env, dbCalls>> /\ config' = None /\ admin' = "off"
          /\ daily' = NoCalls /\ ext_ports' = {} /\ to_delete' = {}
          /\ UNCHANGED <<mapped, undeleted>>
      BY <1>16 DEF End, Crash, Over
    <2>2. NoCalls \in [Keys -> [Days -> 0 .. MaxCalls]]
      BY DaysAssumption DEF NoCalls
    <2>3. PortsTyped'
      BY <2>1 DEF Kinds, PortsTyped
    <2> QED
      BY <2>1, <2>2, <2>3 DEF Kinds
  <1>17. CASE UNCHANGED vars
    BY <1>17, <1>a, <1>b DEF vars
  <1> QED
    BY <1>1, <1>2, <1>3, <1>4, <1>5, <1>6, <1>7, <1>8, <1>9, <1>10, <1>11, <1>12,
       <1>13, <1>14, <1>15, <1>16, <1>17 DEF Next, Main

\* Every variable has its type; a service that is down has no settings and no
\* admin server.
THEOREM TypeCorrect == Spec => []TypeOK
  <1>1. Kinds /\ Totals /\ Rows => TypeOK
    <2> SUFFICES ASSUME Kinds, Totals, Rows PROVE TypeOK
      OBVIOUS
    <2>1. dbPlan \in [Keys -> Plans \cup {TestPlan, None}]
      BY DEF Rows
    <2> QED
      BY <2>1 DEF Kinds, PortsTyped, Totals, Rows, Entries, TypeOK
  <1>2. Init => Totals /\ Rows
    BY StartsInLife DEF LifeInv
  <1> QED
    BY <1>1, <1>2, StartsTyped, KindsStep, TotalsStep, RowsStep, PTL DEF Spec
=============================================================================
