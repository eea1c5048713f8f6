------------------------ MODULE EndpointRegistryProofs ------------------------
(***************************************************************************)
(* Proofs about EndpointRegistry, for any endpoints, pools and workers.    *)
(***************************************************************************)
EXTENDS EndpointRegistry, FiniteSetTheorems, WellFoundedInduction, TLAPS

Places == [Names -> Pools \cup {None}]
Lists == [Names -> GoodUrls \cup {None}]

Typed ==
  /\ store \in BOOLEAN /\ balancer \in Balancers
  /\ life \in {"up", "closing", "down"}
  /\ pools \in Places /\ stats \in Places
  /\ config \in Lists /\ rows \in Lists /\ told \in Lists
  /\ descr \in [Pools -> {FromUrl(u) : u \in Urls} \cup {None}]
  /\ \A m, n \in Names : pools[m] = pools[n] /\ pools[m] # None => m = n

\* Where the admin's call is says what is left to do of it.
CallTyped ==
  /\ call.at = "idle" => call = NoCall
  /\ call.at # "idle" =>
       /\ life # "down" /\ store
       /\ call.name \in Names /\ call.op # "none"
       /\ call.url = None <=> call.op = "remove"
       /\ call.url \in GoodUrls \cup {None}
  /\ call.at \in {"idle", "creating", "deleting", "adding", "saving", "counting"}
  /\ call.op \in {"none", "add", "remove", "update"}
  /\ call.at = "creating" => call.op = "add"
  /\ call.at = "deleting" => call.op = "remove"
  /\ call.at \in {"adding", "saving"} => call.op = "update"
  /\ call = [op |-> call.op, name |-> call.name, url |-> call.url, at |-> call.at]

\* The endpoint a call is about: its pool is changed first, then its row, then
\* its statistics.
Halfway ==
  LET n == call.name IN
  /\ call.at = "creating" =>
       /\ Serves(n, call.url)
       /\ rows[n] = None <=> stats[n] = None
       /\ n \notin failed => stats[n] = None
  /\ call.at \in {"deleting", "adding"} => pools[n] = None
  /\ call.at \in {"deleting", "adding", "saving"} =>
       stats[n] # None /\ rows[n] # None
  /\ call.at = "saving" => Serves(n, call.url)
  /\ call.at = "counting" =>
       /\ Serves(n, call.url) /\ rows[n] = call.url
       /\ stats[n] = None <=> call.op = "add"

\* The other endpoints.
Others ==
  life # "down" /\ store =>
    \A n \in Names :
      call.name = n \/
      /\ rows[n] = None <=> stats[n] = None
      /\ pools[n] # None => stats[n] # None
      /\ n \notin failed => stats[n] = pools[n] /\ Serves(n, rows[n])

Static ==
  ~store => /\ call = NoCall
            /\ life # "down" => \A n \in Names : Serves(n, config[n])

Durable ==
  \A n \in Names :
    rows[n] = told[n] \/ (call.at = "counting" /\ call.name = n)

Books == Typed /\ CallTyped /\ Halfway /\ Others /\ Static /\ Durable


IsJob(j) == j = [at |-> j.at, want |-> j.want, pool |-> j.pool,
                 active |-> j.active, load |-> j.load, calm |-> j.calm]

\* A worker chooses among pools that stay registered, for it holds the lock.
Chosen ==
  /\ job = [w \in Workers |-> job[w]]
  /\ \A w \in Workers :
       /\ IsJob(job[w])
       /\ job[w].at # "idle" => life # "down"
       /\ job[w].at = "choosing" => job[w].active \subseteq Registered(pools)

-----------------------------------------------------------------------------
LEMMA Consts ==
  /\ None \notin GoodUrls /\ None \notin Pools /\ None \notin Names
  /\ \A u \in GoodUrls : u \in Urls /\ FromUrl(u) # None
  BY NoneAssumption DEF GoodUrls

\* Pools that are added and removed leave the other names alone.
LEMMA AddPoolServes ==
  ASSUME Typed, NEW n \in Names, NEW u \in GoodUrls, AddPool(n, u)
  PROVE  /\ pools' \in Places
         /\ descr' \in [Pools -> {FromUrl(v) : v \in Urls} \cup {None}]
         /\ \A m, k \in Names : pools'[m] = pools'[k] /\ pools'[m] # None => m = k
         /\ pools'[n] # None
         /\ Serves(n, u)'
         /\ \A m \in Names \ {n} :
              /\ pools'[m] = pools[m]
              /\ \A v : Serves(m, v) => Serves(m, v)'
  <1>1. PICK p \in Pools :
          /\ Unused(p)
          /\ pools' = [pools EXCEPT ![n] = p]
          /\ descr' = [descr EXCEPT ![p] = FromUrl(u)]
    BY DEF AddPool
  <1>2. p # None /\ \A m \in Names : pools[m] # p
    BY <1>1, Consts DEF Unused, Registered
  <1>3. pools' \in Places
    BY <1>1 DEF Typed, Places
  <1>4. descr' \in [Pools -> {FromUrl(v) : v \in Urls} \cup {None}]
    <2>1. FromUrl(u) \in {FromUrl(v) : v \in Urls}
      BY Consts
    <2> QED
      BY <1>1, <2>1 DEF Typed
  <1>5. \A m \in Names \ {n} : pools'[m] = pools[m]
    BY <1>1 DEF Typed, Places
  <1>6. pools'[n] = p /\ descr'[p] = FromUrl(u)
    BY <1>1 DEF Typed, Places
  <1>7. \A q \in Pools \ {p} : descr'[q] = descr[q]
    BY <1>1 DEF Typed
  <1>8. \A m, k \in Names : pools'[m] = pools'[k] /\ pools'[m] # None => m = k
    BY <1>2, <1>5, <1>6 DEF Typed
  <1>9. Serves(n, u)'
    BY <1>2, <1>6, Consts DEF Serves
  <1>10. ASSUME NEW m \in Names \ {n}, NEW v, Serves(m, v) PROVE Serves(m, v)'
    <2>1. pools[m] \in Pools \cup {None}
      BY DEF Typed, Places
    <2> QED
      BY <1>2, <1>5, <1>7, <1>10, <2>1 DEF Serves
  <1> QED
    BY <1>2, <1>3, <1>4, <1>5, <1>6, <1>8, <1>9, <1>10

LEMMA RemovePoolServes ==
  ASSUME Typed, NEW n \in Names, RemovePool(n)
  PROVE  /\ pools' \in Places /\ descr' = descr
         /\ \A m, k \in Names : pools'[m] = pools'[k] /\ pools'[m] # None => m = k
         /\ pools'[n] = None
         /\ \A m \in Names \ {n} :
              /\ pools'[m] = pools[m]
              /\ \A v : Serves(m, v) => Serves(m, v)'
  <1>1. /\ pools' = [pools EXCEPT ![n] = None] /\ descr' = descr
    BY DEF RemovePool
  <1>2. pools' \in Places /\ pools'[n] = None
    BY <1>1 DEF Typed, Places
  <1>3. \A m \in Names \ {n} : pools'[m] = pools[m]
    BY <1>1 DEF Typed, Places
  <1>4. \A m, k \in Names : pools'[m] = pools'[k] /\ pools'[m] # None => m = k
    BY <1>2, <1>3 DEF Typed
  <1>5. \A m \in Names \ {n} : \A v : Serves(m, v) => Serves(m, v)'
    BY <1>1, <1>3 DEF Serves
  <1> QED
    BY <1>1, <1>2, <1>3, <1>4, <1>5

LEMMA BuildServes ==
  ASSUME NEW list \in Lists, Build(list)
  PROVE  /\ pools' \in Places /\ stats' = pools'
         /\ descr' \in [Pools -> {FromUrl(u) : u \in Urls} \cup {None}]
         /\ \A m, n \in Names : pools'[m] = pools'[n] /\ pools'[m] # None => m = n
         /\ \A n \in Names : /\ pools'[n] = None <=> list[n] = None
                             /\ Serves(n, list[n])'
  <1>1. PICK ps \in Places :
          /\ \A n \in Names : ps[n] = None <=> list[n] = None
          /\ \A m, n \in Names : ps[m] = ps[n] /\ ps[m] # None => m = n
          /\ pools' = ps /\ stats' = ps
          /\ descr' = [p \in Pools |->
                         IF p \in Registered(ps)
                         THEN FromUrl(list[CHOOSE n \in Names : ps[n] = p])
                         ELSE None]
    BY DEF Build, Places
  <1>2. ASSUME NEW n \in Names, ps[n] # None
        PROVE  /\ list[n] \in GoodUrls /\ ps[n] \in Pools
               /\ (CHOOSE m \in Names : ps[m] = ps[n]) = n
               /\ ps[n] \in Registered(ps)
    BY <1>1, <1>2 DEF Lists, Places, Registered
  <1>3. \A n \in Names : ps[n] # None => descr'[ps[n]] = FromUrl(list[n])
    BY <1>1, <1>2
  <1>4. \A n \in Names : Serves(n, list[n])'
    BY <1>1, <1>3 DEF Serves
  <1>5. ASSUME NEW p \in Pools
        PROVE  descr'[p] \in {FromUrl(u) : u \in Urls} \cup {None}
    <2>1. CASE p \in Registered(ps)
      <3>1. PICK n \in Names : ps[n] = p /\ ps[n] # None
        BY <2>1 DEF Registered
      <3>2. descr'[p] = FromUrl(list[n]) /\ list[n] \in Urls
        BY <1>2, <1>3, <3>1, Consts
      <3> QED
        BY <3>2
    <2>2. CASE p \notin Registered(ps)
      BY <1>1, <2>2
    <2> QED
      BY <2>1, <2>2
  <1>6. descr' \in [Pools -> {FromUrl(u) : u \in Urls} \cup {None}]
    BY <1>1, <1>5
  <1> QED
    BY <1>1, <1>4, <1>6

-----------------------------------------------------------------------------
LEMMA Starts == Init => Books
  <1> SUFFICES ASSUME Init PROVE Books
    OBVIOUS
  <1>1. Typed
    BY DEF Init, Configure, NoPools, Typed, Places, Lists
  <1>2. CallTyped /\ Halfway
    BY DEF Init, NoCall, CallTyped, Halfway
  <1>3. Others /\ Static /\ Durable
    BY DEF Init, Others, Static, Durable
  <1> QED
    BY <1>1, <1>2, <1>3 DEF Books

LEMMA BooksStep == Books /\ [Next]_vars => Books'
  <1> SUFFICES ASSUME Books, [Next]_vars PROVE Books'
    OBVIOUS
  <1> USE DEF Books
  <1>a. /\ \A n \in Names : /\ rows[n] \in GoodUrls \cup {None}
                            /\ config[n] \in GoodUrls \cup {None}
        /\ None \notin GoodUrls /\ None \notin Names
    BY Consts DEF Typed, Lists
  <1>0. ASSUME UNCHANGED <<configVars, pools, descr, adminVars>>,
               life' = life \/ (life # "down" /\ life' = "closing")
        PROVE  Books'
    <2>1. Typed'
      BY <1>0 DEF Typed, configVars, adminVars
    <2>2. CallTyped' /\ Halfway'
      BY <1>0 DEF CallTyped, Halfway, Serves, configVars, adminVars
    <2>3. Others' /\ Static' /\ Durable'
      BY <1>0 DEF Others, Static, Durable, Serves, configVars, adminVars
    <2> QED
      BY <2>1, <2>2, <2>3
  <1>1. CASE Start
    <2>l. PICK list : list = IF store THEN rows ELSE config
      OBVIOUS
    <2>1. /\ list \in Lists /\ Build(list) /\ life' = "up" /\ life = "down"
          /\ UNCHANGED <<configVars, rows, call, told, failed>>
      BY <1>1, <2>l DEF Start, Typed
    <2>2. call = NoCall
      BY <2>1 DEF CallTyped
    <2>3. Typed'
      BY <2>1, BuildServes DEF Typed, configVars
    <2>4. CallTyped' /\ Halfway' /\ Durable'
      BY <2>1, <2>2 DEF CallTyped, Halfway, Durable, NoCall, configVars
    <2>5. /\ stats' = pools'
          /\ \A n \in Names : /\ pools'[n] = None <=> list[n] = None
                              /\ Serves(n, list[n])'
      BY <2>1, BuildServes
    <2>6. Others'
      BY <2>l, <2>1, <2>5 DEF Others, Serves, configVars
    <2>7. Static'
      BY <2>l, <2>1, <2>2, <2>5 DEF Static, Serves, configVars
    <2> QED
      BY <2>3, <2>4, <2>6, <2>7
  <1>2. CASE Interrupt
    BY <1>2, <1>0 DEF Interrupt
  <1>3. CASE End
    <2>1. /\ life' = "down" /\ pools' = NoPools /\ stats' = NoPools
          /\ descr' = [p \in Pools |-> None]
          /\ call' = NoCall /\ failed' = {}
          /\ told' = IF call = NoCall THEN told
                     ELSE [told EXCEPT ![call.name] = rows[call.name]]
          /\ UNCHANGED <<configVars, rows>>
      BY <1>3 DEF End
    <2>2. call # NoCall => call.name \in Names
      BY DEF CallTyped
    <2>3. told' \in Lists
      BY <2>1, <2>2, <1>a DEF Typed, Lists
    <2>4. Typed'
      BY <2>1, <2>3 DEF Typed, Places, NoPools, configVars
    <2>5. Durable'
      <3>1. CASE call = NoCall
        BY <2>1, <3>1 DEF Durable, NoCall
      <3>2. CASE call # NoCall
        BY <2>1, <2>2, <3>2 DEF Durable, Typed, Lists
      <3> QED
        BY <3>1, <3>2
    <2>6. CallTyped' /\ Halfway' /\ Others' /\ Static'
      BY <2>1 DEF CallTyped, Halfway, Others, Static, NoCall, configVars
    <2> QED
      BY <2>4, <2>5, <2>6
  <1>4. ASSUME NEW op \in {"add", "remove", "update"}, NEW n \in Names,
               NEW u \in Urls \cup {None}, Change(op, n, u),
               u = None <=> op = "remove"
        PROVE  Books'
    <2>1. /\ call = NoCall /\ ~Refused(op, n, u)
          /\ life # "down"
          /\ IF op = "add" THEN AddPool(n, u) ELSE RemovePool(n)
          /\ UNCHANGED <<life, configVars, rows, stats, told, failed>>
      BY <1>4 DEF Change, Serving
    <2>2. /\ store /\ (op # "remove" => u \in GoodUrls)
          /\ op = "add" => pools[n] = None
          /\ op # "add" => pools[n] # None
      BY <1>4, <2>1 DEF Refused, GoodUrls
    <2>3. /\ call'.op = op /\ call'.name = n /\ call'.url = u
          /\ call'.at = CASE op = "add"    -> "creating"
                          [] op = "remove" -> "deleting"
                          [] op = "update" -> "adding"
          /\ call' = [op |-> call'.op, name |-> call'.name, url |-> call'.url,
                      at |-> call'.at]
      BY <1>4 DEF Change
    <2>4. CallTyped'
      BY <1>4, <2>1, <2>2, <2>3 DEF CallTyped, configVars
    <2>5. /\ rows[n] = None <=> stats[n] = None
          /\ pools[n] # None => stats[n] # None
          /\ n \notin failed => stats[n] = pools[n]
      BY <1>a, <2>1, <2>2, <1>4 DEF Others, NoCall, CallTyped
    <2>6. Static' /\ Durable'
      BY <2>1, <2>2 DEF Static, Durable, NoCall, configVars
    <2>7. /\ \A m \in Names \ {n} : /\ pools'[m] = pools[m]
                                    /\ \A v : Serves(m, v) => Serves(m, v)'
          /\ op # "add" => pools'[n] = None
          /\ op = "add" => Serves(n, u)'
      BY <2>1, <2>2, AddPoolServes, RemovePoolServes
    <2>8. Typed'
      BY <2>1, <2>2, AddPoolServes, RemovePoolServes DEF Typed, configVars
    <2>9. Halfway'
      BY <2>1, <2>2, <2>3, <2>5, <2>7 DEF Halfway
    <2>10. Others'
      <3>1. ASSUME NEW m \in Names \ {n}
            PROVE  /\ rows[m] = None <=> stats[m] = None
                   /\ pools[m] # None => stats[m] # None
                   /\ m \notin failed => stats[m] = pools[m] /\ Serves(m, rows[m])
        BY <1>a, <2>1, <2>2 DEF Others, NoCall, CallTyped
      <3> QED
        BY <2>1, <2>3, <2>7, <3>1 DEF Others
    <2> QED
      BY <2>4, <2>6, <2>8, <2>9, <2>10
  \* A step of the call under way.
  <1>b. ASSUME call.at # "idle"
        PROVE  /\ life # "down" /\ store /\ call.name \in Names
               /\ call.url \in GoodUrls \cup {None}
               /\ call.url = None <=> call.op = "remove"
               /\ \A m \in Names \ {call.name} :
                    /\ rows[m] = None <=> stats[m] = None
                    /\ pools[m] # None => stats[m] # None
                    /\ m \notin failed => stats[m] = pools[m] /\ Serves(m, rows[m])
    BY <1>b DEF CallTyped, Others
  <1>5. CASE AddAgain
    <2>n. PICK n : n = call.name
      OBVIOUS
    <2>u. PICK u : u = call.url
      OBVIOUS
    <2>1. /\ call.at = "adding" /\ AddPool(n, u)
          /\ UNCHANGED <<life, configVars, rows, stats, told, failed>>
      BY <1>5, <2>n, <2>u DEF AddAgain
    <2>2. /\ call'.op = call.op /\ call'.name = n /\ call'.url = u
          /\ call'.at = "saving" /\ call.op = "update"
          /\ call' = [op |-> call'.op, name |-> call'.name, url |-> call'.url,
                      at |-> call'.at]
      BY <1>5, <2>n, <2>u, <2>1 DEF AddAgain, Continue, CallTyped
    <2>3. n \in Names /\ u \in GoodUrls
      BY <1>b, <2>n, <2>u, <2>1, <2>2
    <2>4. Typed'
      BY <2>1, <2>3, AddPoolServes DEF Typed, configVars
    <2>5. CallTyped'
      BY <2>n, <2>u, <2>1, <2>2 DEF CallTyped, configVars
    <2>6. /\ \A m \in Names \ {n} : /\ pools'[m] = pools[m]
                                    /\ \A v : Serves(m, v) => Serves(m, v)'
          /\ Serves(n, u)'
      BY <2>1, <2>3, AddPoolServes
    <2>7. Halfway'
      BY <2>n, <2>u, <2>1, <2>2, <2>6 DEF Halfway, Serves
    <2>8. Others'
      BY <1>b, <2>n, <2>u, <2>1, <2>2, <2>6 DEF Others
    <2>9. Static' /\ Durable'
      BY <1>b, <2>n, <2>u, <2>1, <2>2 DEF Static, Durable, configVars
    <2> QED
      BY <2>4, <2>5, <2>7, <2>8, <2>9
  <1>6. CASE Write
    <2> DEFINE n == call.name
    <2>1. /\ call.at \in {"creating", "deleting", "saving"} /\ RowWritable
          /\ rows' = [rows EXCEPT ![n] = call.url]
          /\ UNCHANGED <<life, configVars, poolVars, stats, told, failed>>
      BY <1>6 DEF Write, Written, RowWritable, CallTyped
    <2>2. /\ call'.op = call.op /\ call'.name = n /\ call'.url = call.url
          /\ call'.at = "counting"
          /\ call' = [op |-> call'.op, name |-> call'.name, url |-> call'.url,
                      at |-> call'.at]
      BY <1>6 DEF Write, Continue, CallTyped
    <2>3. n \in Names /\ call.url \in GoodUrls \cup {None} /\ store /\ life # "down"
      BY <1>b, <2>1
    <2>4. /\ rows' \in Lists /\ rows'[n] = call.url
          /\ \A m \in Names \ {n} : rows'[m] = rows[m]
      BY <2>1, <2>3 DEF Typed, Lists
    <2>5. Typed'
      BY <2>1, <2>4 DEF Typed, configVars, poolVars
    <2>6. CallTyped'
      BY <2>1, <2>2 DEF CallTyped, configVars
    <2>7. Serves(n, call.url)
      <3>1. CASE call.at = "deleting"
        BY <3>1, <1>b DEF Halfway, Serves, CallTyped
      <3>2. CASE call.at \in {"creating", "saving"}
        BY <3>2 DEF Halfway
      <3> QED
        BY <2>1, <3>1, <3>2
    <2>8. stats[n] = None <=> call.op = "add"
      BY <2>1 DEF Halfway, CallTyped, RowWritable
    <2>9. Halfway'
      BY <2>1, <2>2, <2>4, <2>7, <2>8 DEF Halfway, Serves, poolVars
    <2>10. Others'
      BY <1>b, <2>1, <2>2, <2>4 DEF Others, Serves, poolVars
    <2>11. Static' /\ Durable'
      BY <2>1, <2>2, <2>3, <2>4 DEF Static, Durable, configVars
    <2> QED
      BY <2>5, <2>6, <2>9, <2>10, <2>11
  <1>7. CASE WriteFails
    <2>n. PICK n : n = call.name
      OBVIOUS
    <2>1. /\ call.at \in {"creating", "deleting", "saving"}
          /\ IF call.at = "creating"
             THEN RemovePool(n) /\ failed' = failed
             ELSE failed' = failed \cup {n} /\ UNCHANGED poolVars
          /\ call' = NoCall
          /\ UNCHANGED <<life, configVars, rows, stats, told>>
      BY <1>7, <2>n DEF WriteFails, UndoAdd, Reply
    <2>2. n \in Names /\ store /\ life # "down"
      BY <1>b, <2>n, <2>1
    <2>3. /\ \A m \in Names \ {n} : /\ pools'[m] = pools[m]
                                    /\ \A v : Serves(m, v) => Serves(m, v)'
          /\ \A m \in Names \ {n} : m \in failed' <=> m \in failed
      BY <2>1, <2>2, RemovePoolServes DEF poolVars, Serves
    <2>4. Typed'
      BY <2>1, <2>2, RemovePoolServes DEF Typed, configVars, poolVars
    <2>5. CallTyped' /\ Halfway'
      BY <2>1 DEF CallTyped, Halfway, NoCall
    <2>6. Static' /\ Durable'
      BY <2>n, <2>1, <2>2 DEF Static, Durable, configVars
    <2>7. /\ rows[n] = None <=> stats[n] = None
          /\ pools'[n] # None => stats[n] # None
          /\ n \notin failed' => stats[n] = pools'[n] /\ Serves(n, rows[n])'
      <3>1. CASE call.at = "creating"
        BY <2>n, <2>1, <2>2, <3>1, RemovePoolServes DEF Halfway, Serves
      <3>2. CASE call.at \in {"deleting", "saving"}
        BY <2>n, <2>1, <3>2 DEF Halfway
      <3> QED
        BY <2>1, <3>1, <3>2
    <2>8. Others'
      BY <1>b, <2>n, <2>1, <2>2, <2>3, <2>7 DEF Others
    <2> QED
      BY <2>4, <2>5, <2>6, <2>8
  <1>8. CASE Count
    <2> DEFINE n == call.name
    <2>1. call.at = "counting" /\ UNCHANGED <<life, configVars, poolVars, rows, failed>>
      BY <1>8 DEF Count
    <2>2. /\ n \in Names /\ store /\ life # "down" /\ call.op \in {"add", "remove", "update"}
          /\ Serves(n, call.url) /\ rows[n] = call.url
          /\ stats[n] = None <=> call.op = "add"
      BY <1>b, <2>1 DEF Halfway, CallTyped, NoCall
    <2>3. ~StatsRaise
      BY <2>2 DEF StatsRaise
    <2>4. /\ stats' = [stats EXCEPT ![n] = pools[n]]
          /\ told' = [told EXCEPT ![n] = call.url]
          /\ call' = NoCall
      BY <1>8, <2>3 DEF Count, Counted, ReplyDone, Reply
    <2>5. Typed'
      <3>1. pools[n] \in Pools \cup {None} /\ call.url \in GoodUrls \cup {None}
        BY <1>b, <2>1, <2>2 DEF Typed, Places
      <3> QED
        BY <2>1, <2>2, <2>4, <3>1 DEF Typed, Places, Lists, configVars, poolVars
    <2>6. CallTyped' /\ Halfway'
      BY <2>4 DEF CallTyped, Halfway, NoCall
    <2>7. Static' /\ Durable'
      BY <2>1, <2>2, <2>4 DEF Static, Durable, Typed, Lists, configVars
    <2>8. /\ stats'[n] = pools[n]
          /\ \A m \in Names \ {n} : stats'[m] = stats[m]
      BY <2>2, <2>4 DEF Typed, Places
    <2>9. pools[n] = None <=> rows[n] = None
      BY <2>2 DEF Serves
    <2>10. Others'
      BY <1>b, <2>1, <2>2, <2>8, <2>9 DEF Others, Serves, poolVars
    <2> QED
      BY <2>5, <2>6, <2>7, <2>10
  <1>9. ASSUME NEW p \in Pools, ChangeStatus(p) PROVE Books'
    BY <1>9, <1>0 DEF ChangeStatus
  <1>10. ASSUME NEW w \in Workers, Request(w) PROVE Books'
    BY <1>10, <1>0 DEF Request, Choose, Read, Pick, PickNone, Get, MarkBusy, Leave,
                       poolVars
  <1>11. CASE UNCHANGED vars
    BY <1>11, <1>0 DEF vars, poolVars
  <1>12. CASE \E n \in Names :
                \/ \E op \in {"add", "update"}, u \in Urls : Change(op, n, u)
                \/ Change("remove", n, None)
    BY <1>12, <1>4, NoneAssumption
  <1> QED
    BY <1>1, <1>2, <1>3, <1>5, <1>6, <1>7, <1>8, <1>9, <1>10, <1>11, <1>12
    DEF Next, AdminStep
-----------------------------------------------------------------------------
\* One field of a choice is changed.
LEMMA SetAt ==
  ASSUME NEW j, IsJob(j), NEW x
  PROVE  /\ IsJob([j EXCEPT !.at = x])
         /\ [j EXCEPT !.at = x].at = x
         /\ [j EXCEPT !.at = x].pool = j.pool
         /\ [j EXCEPT !.at = x].active = j.active
         /\ [j EXCEPT !.at = x].load = j.load
         /\ [j EXCEPT !.at = x].calm = j.calm
  BY DEF IsJob

LEMMA SetWant ==
  ASSUME NEW j, IsJob(j), NEW x
  PROVE  /\ IsJob([j EXCEPT !.want = x])
         /\ [j EXCEPT !.want = x].at = j.at
         /\ [j EXCEPT !.want = x].pool = j.pool
         /\ [j EXCEPT !.want = x].active = j.active
         /\ [j EXCEPT !.want = x].load = j.load
         /\ [j EXCEPT !.want = x].calm = j.calm
  BY DEF IsJob

LEMMA SetPool ==
  ASSUME NEW j, IsJob(j), NEW x
  PROVE  /\ IsJob([j EXCEPT !.pool = x])
         /\ [j EXCEPT !.pool = x].at = j.at
         /\ [j EXCEPT !.pool = x].pool = x
         /\ [j EXCEPT !.pool = x].active = j.active
         /\ [j EXCEPT !.pool = x].load = j.load
         /\ [j EXCEPT !.pool = x].calm = j.calm
  BY DEF IsJob

LEMMA SetActive ==
  ASSUME NEW j, IsJob(j), NEW x
  PROVE  /\ IsJob([j EXCEPT !.active = x])
         /\ [j EXCEPT !.active = x].at = j.at
         /\ [j EXCEPT !.active = x].pool = j.pool
         /\ [j EXCEPT !.active = x].active = x
         /\ [j EXCEPT !.active = x].load = j.load
         /\ [j EXCEPT !.active = x].calm = j.calm
  BY DEF IsJob

LEMMA SetLoad ==
  ASSUME NEW j, IsJob(j), NEW x
  PROVE  /\ IsJob([j EXCEPT !.load = x])
         /\ [j EXCEPT !.load = x].at = j.at
         /\ [j EXCEPT !.load = x].pool = j.pool
         /\ [j EXCEPT !.load = x].active = j.active
         /\ [j EXCEPT !.load = x].load = x
         /\ [j EXCEPT !.load = x].calm = j.calm
  BY DEF IsJob

LEMMA SetCalm ==
  ASSUME NEW j, IsJob(j), NEW x
  PROVE  /\ IsJob([j EXCEPT !.calm = x])
         /\ [j EXCEPT !.calm = x].at = j.at
         /\ [j EXCEPT !.calm = x].pool = j.pool
         /\ [j EXCEPT !.calm = x].active = j.active
         /\ [j EXCEPT !.calm = x].load = j.load
         /\ [j EXCEPT !.calm = x].calm = x
  BY DEF IsJob

LEMMA IdleJob == IsJob(NoJob) /\ NoJob.at = "idle" /\ NoJob.load = << >>
  BY DEF NoJob, IsJob

\* Disturb() changes a flag only.
LEMMA Disturbed ==
  ASSUME Chosen
  PROVE  /\ Disturb(job) = [w \in Workers |-> Disturb(job)[w]]
         /\ \A w \in Workers : /\ IsJob(Disturb(job)[w])
                               /\ Disturb(job)[w].at = job[w].at
                               /\ Disturb(job)[w].active = job[w].active
                               /\ Disturb(job)[w].pool = job[w].pool
                               /\ \/ Disturb(job)[w] = job[w]
                                  \/ ~Disturb(job)[w].calm
                               /\ job[w].at \in {"choosing", "picked"}
                                    => ~Disturb(job)[w].calm
  <1>1. ASSUME NEW w \in Workers
        PROVE  /\ IsJob(Disturb(job)[w])
               /\ Disturb(job)[w].at = job[w].at
               /\ Disturb(job)[w].active = job[w].active
               /\ Disturb(job)[w].pool = job[w].pool
               /\ Disturb(job)[w] = job[w] \/ ~Disturb(job)[w].calm
               /\ job[w].at \in {"choosing", "picked"} => ~Disturb(job)[w].calm
    <2>1. PICK j : j = job[w]
      OBVIOUS
    <2>2. IsJob(j)
      BY <2>1 DEF Chosen
    <2>3. Disturb(job)[w] = IF j.at \in {"choosing", "picked"}
                            THEN [j EXCEPT !.calm = FALSE] ELSE j
      BY <2>1 DEF Disturb
    <2>4. /\ IsJob([j EXCEPT !.calm = FALSE])
          /\ [j EXCEPT !.calm = FALSE].at = j.at
          /\ [j EXCEPT !.calm = FALSE].active = j.active
          /\ [j EXCEPT !.calm = FALSE].pool = j.pool
          /\ ~[j EXCEPT !.calm = FALSE].calm
      BY <2>2, SetCalm
    <2> QED
      BY <2>1, <2>2, <2>3, <2>4
  <1>2. Disturb(job) = [w \in Workers |-> Disturb(job)[w]]
    BY DEF Disturb
  <1> QED
    BY <1>1, <1>2

\* One worker's choice takes a step, the others may be disturbed.
Steps(w) ==
  /\ life # "down"
  /\ job' = [v \in Workers |-> job'[v]]
  /\ \A v \in Workers \ {w} : /\ IsJob(job'[v])
                              /\ job'[v].at = job[v].at
                              /\ job'[v].active = job[v].active
                              /\ job'[v].pool = job[v].pool
  /\ IsJob(job'[w])
  /\ job'[w].at = "choosing" => job'[w].active \subseteq Registered(pools)
  /\ UNCHANGED <<life, pools>>

LEMMA StepsChosen ==
  ASSUME Chosen, NEW w \in Workers, Steps(w) PROVE Chosen'
  BY DEF Chosen, Steps, Registered

\* What Pick() makes of a choice.
LEMMA PickMoves ==
  ASSUME Chosen, NEW w \in Workers, Pick(w)
  PROVE  \E j : /\ job' = [job EXCEPT ![w] = j]
                /\ IsJob(j) /\ j.at = "picked"
                /\ j.pool \in MayPick(job[w])
                /\ j.calm = job[w].calm
  <1>1. PICK p \in MayPick(job[w]) :
          job' = [job EXCEPT ![w].at = "picked", ![w].pool = p, ![w].load = << >>]
    BY DEF Pick
  <1> DEFINE j1 == [job[w] EXCEPT !.at = "picked"]
             j2 == [j1 EXCEPT !.pool = p]
             j3 == [j2 EXCEPT !.load = << >>]
  <1>2. IsJob(j1) /\ j1.at = "picked" /\ j1.calm = job[w].calm
    BY SetAt DEF Chosen
  <1>a. job' = [job EXCEPT ![w] = j3]
    BY <1>1 DEF Chosen
  <1> HIDE DEF j1
  <1>3. IsJob(j2) /\ j2.at = "picked" /\ j2.pool = p /\ j2.calm = job[w].calm
    BY <1>2, SetPool
  <1> HIDE DEF j2
  <1>4. IsJob(j3) /\ j3.at = "picked" /\ j3.pool = p /\ j3.calm = job[w].calm
    BY <1>3, SetLoad
  <1> HIDE DEF j3
  <1> QED
    BY <1>1, <1>a, <1>4

LEMMA RequestSteps ==
  ASSUME Chosen, NEW w \in Workers, Request(w) PROVE Steps(w)
  <1> USE DEF poolVars
  <1>b. job[w].at # "idle" => life # "down"
    BY DEF Chosen
  <1>1. ASSUME NEW j, job' = [job EXCEPT ![w] = j], IsJob(j), life # "down",
               j.at = "choosing" => j.active \subseteq Registered(pools),
               UNCHANGED <<life, pools>>
        PROVE  Steps(w)
    BY <1>1 DEF Chosen, Steps
  <1>2. ASSUME NEW j, job' = [Disturb(job) EXCEPT ![w] = j], IsJob(j),
               life # "down", j.at # "choosing", UNCHANGED <<life, pools>>
        PROVE  Steps(w)
    BY <1>2, Disturbed DEF Steps
  <1>3. ASSUME NEW n, Choose(w, n) PROVE Steps(w)
    <2> DEFINE j1 == [NoJob EXCEPT !.at = "choosing"]
               j2 == [j1 EXCEPT !.want = n]
               j3 == [j2 EXCEPT !.active = ActivePools]
    <2>1. IsJob(j1) /\ j1.at = "choosing"
      BY SetAt, IdleJob
    <2>2. IsJob(j2) /\ j2.at = "choosing"
      BY <2>1, SetWant
    <2>a. IsJob(j3) /\ j3.active = ActivePools
      BY <2>2, SetActive
    <2>3. IsJob(j3) /\ j3.active \subseteq Registered(pools)
      BY <2>a DEF ActivePools
    <2>4. job' = [job EXCEPT ![w] = j3] /\ life # "down" /\ UNCHANGED <<life, pools>>
      BY <1>3 DEF Choose
    <2> QED
      BY <1>1, <2>3, <2>4
  <1>4. ASSUME NEW p, Read(w, p) PROVE Steps(w)
    <2>1. PICK load : job' = [job EXCEPT ![w] = [job[w] EXCEPT !.load = load]]
      BY <1>4 DEF Read, Chosen
    <2>2. /\ IsJob([job[w] EXCEPT !.load = load])
          /\ [job[w] EXCEPT !.load = load].at = job[w].at
          /\ [job[w] EXCEPT !.load = load].active = job[w].active
      BY SetLoad DEF Chosen
    <2>3. job[w].at = "choosing" /\ UNCHANGED <<life, pools>>
      BY <1>4 DEF Read
    <2> QED
      BY <1>b, <1>1, <2>1, <2>2, <2>3 DEF Chosen
  <1>5. ASSUME Pick(w) PROVE Steps(w)
    BY <1>5, <1>b, <1>1, PickMoves DEF Pick
  <1>6. ASSUME PickNone(w) PROVE Steps(w)
    BY <1>6, IdleJob, <1>b, <1>1 DEF PickNone
  <1>7. ASSUME Get(w) PROVE Steps(w)
    <2> DEFINE d1 == [NoJob EXCEPT !.at = "dialling"]
               d2 == [d1 EXCEPT !.pool = job[w].pool]
               r1 == [job[w] EXCEPT !.at = "refused"]
               r2 == [r1 EXCEPT !.active = {}]
               r3 == [r2 EXCEPT !.load = << >>]
    <2>1. IsJob(d1) /\ d1.at = "dialling"
      BY SetAt, IdleJob
    <2>2. IsJob(d2) /\ d2.at = "dialling"
      BY <2>1, SetPool
    <2>3. IsJob(r1) /\ r1.at = "refused"
      BY SetAt DEF Chosen
    <2>4. IsJob(r2) /\ r2.at = "refused"
      BY <2>3, SetActive
    <2>5. IsJob(r3) /\ r3.at = "refused"
      BY <2>4, SetLoad
    <2>6. job' = [job EXCEPT ![w] = IF status[job[w].pool] = "ACTIVE" THEN d2 ELSE r3]
      BY <1>7 DEF Get, Chosen
    <2>7. job[w].at = "picked" /\ UNCHANGED <<life, pools>>
      BY <1>7 DEF Get
    <2>8. job' = [job EXCEPT ![w] = d2] \/ job' = [job EXCEPT ![w] = r3]
      BY <2>6
    <2> HIDE DEF d2, r3
    <2> QED
      BY <1>b, <1>1, <2>2, <2>5, <2>7, <2>8
  <1>8. ASSUME MarkBusy(w) PROVE Steps(w)
    <2> DEFINE j == [Disturb(job)[w] EXCEPT !.at = "using"]
    <2>1. job' = [Disturb(job) EXCEPT ![w] = j]
      BY <1>8, Disturbed DEF MarkBusy
    <2>2. IsJob(j) /\ j.at = "using"
      BY Disturbed, SetAt
    <2>3. job[w].at = "dialling" /\ UNCHANGED <<life, pools>>
      BY <1>8 DEF MarkBusy
    <2> HIDE DEF j
    <2> QED
      BY <1>b, <1>2, <2>1, <2>2, <2>3
  <1>9. ASSUME Leave(w) PROVE Steps(w)
    <2>1. job[w].at # "idle" /\ UNCHANGED <<life, pools>>
      BY <1>9 DEF Leave
    <2> QED
      BY <1>9, IdleJob, <1>b, <1>2, <2>1 DEF Leave
  <1> QED
    BY <1>3, <1>4, <1>5, <1>6, <1>7, <1>8, <1>9 DEF Request

LEMMA StartsChosen == Init => Chosen
  <1>1. Init => job = [w \in Workers |-> NoJob]
    BY DEF Init
  <1> QED
    BY <1>1, IdleJob DEF Chosen

\* Pools are added and removed under the manager's lock.
LEMMA ChosenStep == Books /\ Chosen /\ [Next]_vars => Chosen'
  <1> SUFFICES ASSUME Books, Chosen, [Next]_vars PROVE Chosen'
    OBVIOUS
  <1>1. ASSUME job' = job \/ job' = Disturb(job), life' = life \/ life' # "down",
               pools' = pools \/ LockFree
        PROVE  Chosen'
    <2>1. /\ job' = [w \in Workers |-> job'[w]]
          /\ \A w \in Workers : /\ IsJob(job'[w])
                                /\ job'[w].at = job[w].at
                                /\ job'[w].active = job[w].active
      BY <1>1, Disturbed DEF Chosen
    <2>2. CASE pools' = pools
      BY <1>1, <2>1, <2>2 DEF Chosen, Registered
    <2>3. CASE LockFree
      BY <1>1, <2>1, <2>3 DEF Chosen, LockFree
    <2> QED
      BY <1>1, <2>2, <2>3
  <1>2. CASE Start
    <2>1. \A w \in Workers : job[w].at = "idle"
      BY <1>2 DEF Start, Chosen
    <2>2. job' = job
      BY <1>2 DEF Start
    <2> QED
      BY <2>1, <2>2 DEF Chosen
  <1>3. CASE Interrupt
    BY <1>3, <1>1 DEF Interrupt
  <1>4. CASE End
    BY <1>4, IdleJob DEF End, Chosen
  <1>5. ASSUME NEW op, NEW n, NEW u, Change(op, n, u) PROVE Chosen'
    BY <1>5, <1>1 DEF Change, Serving, AddPool, RemovePool
  <1>6. CASE AddAgain
    BY <1>6, <1>1 DEF AddAgain, Serving, AddPool
  <1>7. CASE Write \/ WriteFails \/ Count
    <2>1. call.at # "idle" => life # "down"
      BY DEF Books, CallTyped
    <2>2. call.at # "idle"
      BY <1>7 DEF Write, RowWritable, WriteFails, Count
    <2> QED
      BY <1>7, <1>1, <2>1, <2>2
      DEF Write, WriteFails, Count, UndoAdd, RemovePool, poolVars
  <1>8. ASSUME NEW p \in Pools, ChangeStatus(p) PROVE Chosen'
    BY <1>8, <1>1 DEF ChangeStatus
  <1>9. ASSUME NEW w \in Workers, Request(w) PROVE Chosen'
    BY <1>9, RequestSteps, StepsChosen
  <1>10. CASE UNCHANGED vars
    BY <1>10 DEF vars, poolVars, Chosen, Registered
  <1> QED
    BY <1>2, <1>3, <1>4, <1>5, <1>6, <1>7, <1>8, <1>9, <1>10 DEF Next, AdminStep

-----------------------------------------------------------------------------
\* The assertion and the deletion in the admin's statistics never raise: a call
\* reaches them only if they have an entry exactly when one is to be replaced.
THEOREM StatisticsNeverRaise == Spec => []AdminNeverRaises
  <1>1. Books => AdminNeverRaises
    BY DEF Books, CallTyped, AdminNeverRaises
  <1> QED
    BY <1>1, Starts, BooksStep, PTL DEF Spec

\* What the admin was told is in the database, whatever fails or crashes: only
\* the call about a name changes its row, and replies right after.
THEOREM RepliesAreKept == Spec => []RepliesAreDurable
  <1>1. Books => RepliesAreDurable
    BY DEF Books, Durable, RepliesAreDurable
  <1> QED
    BY <1>1, Starts, BooksStep, PTL DEF Spec

\* Between two calls pools, rows and statistics agree on every endpoint of
\* which no call lost a statement.
THEOREM EndpointsAgree == Spec => []PartsAgree
  <1>1. Books => PartsAgree
    <2> SUFFICES ASSUME Books PROVE PartsAgree
      OBVIOUS
    <2>1. ASSUME life # "down", store, call = NoCall, NEW n \in Names \ failed
          PROVE  stats[n] = pools[n] /\ Serves(n, rows[n])
      BY <2>1, Consts DEF Books, Others, NoCall
    <2>2. ASSUME life # "down", ~store, NEW n \in Names
          PROVE  Serves(n, config[n])
      BY <2>2 DEF Books, Static
    <2> QED
      BY <2>1, <2>2 DEF PartsAgree
  <1> QED
    BY <1>1, Starts, BooksStep, PTL DEF Spec

\* Where a choice is picked, it is of a registered pool: the manager's lock
\* keeps the pools that were listed registered.
LEMMA NewlyPicked ==
  ASSUME Books, Chosen, [Next]_vars, NEW w \in Workers,
         job'[w].at = "picked", job[w].at # "picked"
  PROVE  job'[w].pool \in Registered(pools)
  <1>1. ASSUME job' = job \/ job' = Disturb(job) PROVE FALSE
    BY <1>1, Disturbed
  <1>2. Pick(w)
    <2>1. ~(Start \/ Interrupt \/ UNCHANGED vars)
      BY <1>1 DEF Start, Interrupt, vars
    <2>2. ~End
      BY DEF End, NoJob
    <2>3. ASSUME NEW op, NEW n, NEW u PROVE ~Change(op, n, u)
      BY <1>1 DEF Change, AddPool, RemovePool
    <2>4. ~AdminStep
      BY <1>1 DEF AdminStep, AddAgain, AddPool, Write, WriteFails, UndoAdd,
                  RemovePool, Count
    <2>5. ASSUME NEW p \in Pools PROVE ~ChangeStatus(p)
      BY <1>1 DEF ChangeStatus
    <2>6. PICK v \in Workers : Request(v)
      BY <2>1, <2>2, <2>3, <2>4, <2>5 DEF Next
    <2>7. v = w
      BY <2>6, RequestSteps DEF Steps
    <2>b. ASSUME NEW n PROVE ~Choose(w, n)
      <3> DEFINE j1 == [NoJob EXCEPT !.at = "choosing"]
                 j2 == [j1 EXCEPT !.want = n]
                 j3 == [j2 EXCEPT !.active = ActivePools]
      <3>1. IsJob(j1) /\ j1.at = "choosing"
        BY SetAt, IdleJob
      <3>2. IsJob(j2) /\ j2.at = "choosing"
        BY <3>1, SetWant
      <3>3. j3.at = "choosing"
        BY <3>2, SetActive
      <3> QED
        BY <3>3 DEF Choose, Chosen
    <2>c. ~PickNone(w)
      BY IdleJob DEF PickNone, Chosen
    <2>d. ~Leave(w)
      BY IdleJob, Disturbed DEF Leave
    <2>8. ~Get(w)
      BY DEF Get
    <2>9. ~(\E p : Read(w, p))
      BY DEF Read, Chosen, IsJob
    <2>10. ~MarkBusy(w)
      BY Disturbed DEF MarkBusy, IsJob
    <2> QED
      BY <2>6, <2>7, <2>b, <2>c, <2>d, <2>8, <2>9, <2>10 DEF Request
  <1>3. PICK j : /\ job' = [job EXCEPT ![w] = j]
                 /\ IsJob(j) /\ j.at = "picked"
                 /\ j.pool \in MayPick(job[w])
    BY <1>2, PickMoves
  <1> DEFINE p == j.pool
  <1>4. job'[w].pool = p
    BY <1>3 DEF Chosen
  <1>5. p \in job[w].active
    <2>1. LeastBusy(job[w].load) \subseteq DOMAIN job[w].load
      BY DEF LeastBusy
    <2>2. balancer \in Balancers
      BY DEF Books, Typed
    <2> QED
      BY <1>3, <2>1, <2>2 DEF MayPick, Balancers
  <1>6. life # "down" /\ p \in Registered(pools)
    BY <1>2, <1>5 DEF Pick, Chosen
  <1> QED
    BY <1>4, <1>6

-----------------------------------------------------------------------------
(* The pick of a load balancer: PickIsSound.  What a worker has listed and *)
(* read stays true as long as nobody disturbs its choice.                  *)

\* What a worker that was not disturbed has listed, read and picked is so.
Undisturbed ==
  \A w \in Workers : job[w].calm =>
    /\ job[w].at # "refused"
    /\ job[w].at = "choosing" =>
         /\ job[w].active = ActivePools
         /\ DOMAIN job[w].load \subseteq ActivePools
         /\ \A p \in DOMAIN job[w].load : job[w].load[p] = Busy(p)
    /\ job[w].at = "picked" =>
         /\ job[w].pool \in ActivePools
         /\ balancer = "LeastBusy" =>
              \A p \in ActivePools : Busy(job[w].pool) <= Busy(p)

\* A set of numbers has a least one: any other would be the least of a smaller
\* set.
LEMMA LeastExists ==
  ASSUME NEW S, S \subseteq Nat, S # {}
  PROVE  Min(S) \in S /\ \A y \in S : Min(S) <= y
  <1>1. PICK x \in S : \A y \in S : <<y, x>> \notin OpToRel(<, Nat)
    BY NatLessThanWellFounded, WFMin
  <1>2. \A y \in S : ~(y < x)
    BY <1>1, Zenon DEF OpToRel
  <1>3. \A y \in S : x <= y
    BY <1>2
  <1> QED
    BY <1>3 DEF Min

\* How many connections of a pool are busy is a number.
LEMMA BusyCounts == \A p : Busy(p) \in Nat
  <1>1. ASSUME NEW p PROVE Busy(p) \in Nat
    <2>1. {w \in Workers : job[w].at = "using" /\ job[w].pool = p} \subseteq Workers
      OBVIOUS
    <2> QED
      BY <2>1, WorkersAssumption, FS_Subset, FS_CardinalityType DEF Busy
  <1> QED
    BY <1>1

\* Workers that were disturbed, or have no pick to get, know nothing.
LEMMA DisturbedKeep ==
  ASSUME \A w \in Workers :
           job'[w].calm => job'[w].at \notin {"choosing", "picked", "refused"}
  PROVE  Undisturbed'
  BY DEF Undisturbed

\* The pools, and how busy they are, are what they were.
LEMMA SameKeep ==
  ASSUME Undisturbed, UNCHANGED <<pools, status, balancer, job>>
  PROVE  Undisturbed'
  <1>1. \A p : Busy(p)' = Busy(p)
    BY DEF Busy
  <1>2. ActivePools' = ActivePools
    BY DEF ActivePools, Registered
  <1> QED
    BY <1>1, <1>2 DEF Undisturbed

\* What is known of one choice, as Undisturbed says it.
Sound(j) ==
  /\ j.at # "refused"
  /\ j.at = "choosing" =>
       /\ j.active = ActivePools
       /\ DOMAIN j.load \subseteq ActivePools
       /\ \A p \in DOMAIN j.load : j.load[p] = Busy(p)
  /\ j.at = "picked" =>
       /\ j.pool \in ActivePools
       /\ balancer = "LeastBusy" => \A p \in ActivePools : Busy(j.pool) <= Busy(p)

\* A worker that chooses takes no connection into use.
LEMMA ChoiceKeeps ==
  ASSUME Chosen, Undisturbed, NEW w \in Workers, NEW j,
         job' = [job EXCEPT ![w] = j],
         UNCHANGED <<pools, status, balancer>>,
         job[w].at # "using", j.at # "using",
         j.calm => Sound(j)
  PROVE  Undisturbed'
  <1>1. /\ \A v \in Workers : v # w => job'[v] = job[v]
        /\ job'[w] = j
    BY DEF Chosen
  <1>2. \A p : {v \in Workers : job'[v].at = "using" /\ job'[v].pool = p}
                 = {v \in Workers : job[v].at = "using" /\ job[v].pool = p}
    BY <1>1
  <1>3. /\ \A p : Busy(p)' = Busy(p)
        /\ ActivePools' = ActivePools
    <2>1. ASSUME NEW p PROVE Busy(p)' = Busy(p)
      BY <1>2 DEF Busy
    <2>2. ActivePools' = ActivePools
      BY DEF ActivePools, Registered
    <2> QED
      BY <2>1, <2>2
  <1>4. ASSUME NEW v \in Workers, job'[v].calm PROVE Sound(job'[v])
    BY <1>1, <1>4 DEF Undisturbed, Sound
  <1> QED
    BY <1>3, <1>4 DEF Undisturbed, Sound

\* What the load balancer may pick of what was listed and read.
LEMMA PickSound ==
  ASSUME Books, NEW j, Sound(j), j.at = "choosing", NEW p \in MayPick(j)
  PROVE  /\ p \in ActivePools
         /\ balancer = "LeastBusy" => \A q \in ActivePools : Busy(p) <= Busy(q)
  <1>1. balancer \in {"Random", "LeastBusy", "Constant"}
    BY DEF Books, Typed, Balancers
  <1>2. CASE balancer # "LeastBusy"
    BY <1>1, <1>2 DEF MayPick, Sound
  <1>3. CASE balancer = "LeastBusy"
    <2>1. DOMAIN j.load = ActivePools /\ p \in LeastBusy(j.load)
      BY <1>3 DEF MayPick, Sound
    <2> DEFINE loads == {j.load[q] : q \in DOMAIN j.load}
    <2>2. p \in ActivePools /\ j.load[p] = Min(loads)
      BY <2>1 DEF LeastBusy
    <2>3. loads \subseteq Nat /\ loads # {}
      BY <2>1, <2>2, BusyCounts DEF Sound
    <2>4. \A n \in loads : Min(loads) <= n
      BY <2>3, LeastExists
    <2>5. \A q \in ActivePools : Busy(q) \in loads
      BY <2>1 DEF Sound
    <2>6. Busy(p) = Min(loads)
      BY <2>1, <2>2 DEF Sound
    <2> QED
      BY <2>2, <2>4, <2>5, <2>6
  <1> QED
    BY <1>2, <1>3

\* A worker's step tells no lie about its own choice or that of another.
LEMMA RequestKeeps ==
  ASSUME Books, Chosen, Undisturbed, NEW w \in Workers, Request(w)
  PROVE  Undisturbed'
  <1> USE DEF poolVars, configVars
  <1>1. ASSUME NEW n, Choose(w, n) PROVE Undisturbed'
    <2> DEFINE j1 == [NoJob EXCEPT !.at = "choosing"]
               j2 == [j1 EXCEPT !.want = n]
               j3 == [j2 EXCEPT !.active = ActivePools]
    <2>1. IsJob(j1) /\ j1.at = "choosing" /\ j1.load = << >>
      BY SetAt, IdleJob
    <2>2. job' = [job EXCEPT ![w] = j3]
      BY <1>1 DEF Choose
    <2> HIDE DEF j1
    <2>3. IsJob(j2) /\ j2.at = "choosing" /\ j2.load = << >>
      BY <2>1, SetWant
    <2> HIDE DEF j2
    <2>4. j3.at = "choosing" /\ j3.active = ActivePools /\ j3.load = << >>
      BY <2>3, SetActive
    <2> HIDE DEF j3
    <2>5. Sound(j3)
      BY <2>4 DEF Sound
    <2>6. job[w].at = "idle" /\ UNCHANGED <<pools, status, balancer>>
      BY <1>1 DEF Choose
    <2> QED
      BY <2>2, <2>4, <2>5, <2>6, ChoiceKeeps
  <1>2. ASSUME NEW p, Read(w, p) PROVE Undisturbed'
    <2> DEFINE load == job[w].load
               more == [q \in {p} \cup DOMAIN load |-> IF q = p THEN Busy(p) ELSE load[q]]
               j == [job[w] EXCEPT !.load = more]
    <2>1. job' = [job EXCEPT ![w] = j]
      BY <1>2 DEF Read, Chosen
    <2>2. /\ job[w].at = "choosing" /\ p \in job[w].active
          /\ UNCHANGED <<pools, status, balancer>>
      BY <1>2 DEF Read
    <2>3. DOMAIN more = {p} \cup DOMAIN load
          /\ \A q \in {p} \cup DOMAIN load : more[q] = IF q = p THEN Busy(p) ELSE load[q]
      OBVIOUS
    <2> HIDE DEF more
    <2>4. j.at = "choosing" /\ j.active = job[w].active /\ j.load = more
          /\ j.calm = job[w].calm
      BY <2>2, SetLoad DEF Chosen
    <2> HIDE DEF j
    <2>5. ASSUME j.calm PROVE Sound(j)
      <3>1. /\ job[w].active = ActivePools /\ DOMAIN load \subseteq ActivePools
            /\ \A q \in DOMAIN load : load[q] = Busy(q)
        BY <2>2, <2>4, <2>5 DEF Undisturbed
      <3> QED
        BY <2>2, <2>3, <2>4, <3>1 DEF Sound
    <2> QED
      BY <2>1, <2>2, <2>4, <2>5, ChoiceKeeps
  <1>3. ASSUME Pick(w) PROVE Undisturbed'
    <2>1. PICK j : /\ job' = [job EXCEPT ![w] = j]
                   /\ IsJob(j) /\ j.at = "picked"
                   /\ j.pool \in MayPick(job[w])
                   /\ j.calm = job[w].calm
      BY <1>3, PickMoves
    <2>2. job[w].at = "choosing" /\ UNCHANGED <<pools, status, balancer>>
      BY <1>3 DEF Pick
    <2>3. ASSUME j.calm PROVE Sound(j)
      <3>1. Sound(job[w])
        BY <2>1, <2>3 DEF Undisturbed, Sound
      <3> QED
        BY <2>1, <2>2, <3>1, PickSound DEF Sound
    <2> QED
      BY <2>1, <2>2, <2>3, ChoiceKeeps
  <1>4. ASSUME PickNone(w) PROVE Undisturbed'
    <2>1. job' = [job EXCEPT ![w] = NoJob] /\ job[w].at = "choosing"
          /\ UNCHANGED <<pools, status, balancer>>
      BY <1>4 DEF PickNone
    <2> QED
      BY <2>1, IdleJob, ChoiceKeeps DEF Sound
  <1>5. ASSUME Get(w) PROVE Undisturbed'
    <2> DEFINE d1 == [NoJob EXCEPT !.at = "dialling"]
               d2 == [d1 EXCEPT !.pool = job[w].pool]
               r1 == [job[w] EXCEPT !.at = "refused"]
               r2 == [r1 EXCEPT !.active = {}]
               r3 == [r2 EXCEPT !.load = << >>]
    <2>1. job' = [job EXCEPT ![w] = IF status[job[w].pool] = "ACTIVE" THEN d2 ELSE r3]
      BY <1>5 DEF Get, Chosen
    <2>2. IsJob(d1) /\ d1.at = "dialling"
      BY SetAt, IdleJob
    <2>3. IsJob(r1) /\ r1.at = "refused" /\ r1.calm = job[w].calm
      BY SetAt DEF Chosen
    <2> HIDE DEF d1, r1
    <2>4. IsJob(d2) /\ d2.at = "dialling"
      BY <2>2, SetPool
    <2>5. IsJob(r2) /\ r2.at = "refused" /\ r2.calm = job[w].calm
      BY <2>3, SetActive
    <2> HIDE DEF d2, r2
    <2>6. IsJob(r3) /\ r3.at = "refused" /\ r3.calm = job[w].calm
      BY <2>5, SetLoad
    <2> HIDE DEF r3
    <2>7. job[w].at = "picked" /\ UNCHANGED <<pools, status, balancer>>
      BY <1>5 DEF Get
    <2>8. CASE status[job[w].pool] = "ACTIVE"
      BY <2>1, <2>4, <2>7, <2>8, ChoiceKeeps DEF Sound
    <2>9. CASE status[job[w].pool] # "ACTIVE"
      <3>1. ~r3.calm
        BY <2>6, <2>7, <2>9 DEF Undisturbed, ActivePools
      <3> QED
        BY <2>1, <2>6, <2>7, <2>9, <3>1, ChoiceKeeps
    <2> QED
      BY <2>8, <2>9
  <1>6. ASSUME NEW j, job' = [Disturb(job) EXCEPT ![w] = j],
               j.at \notin {"choosing", "picked", "refused"}
        PROVE  Undisturbed'
    <2>1. ASSUME NEW v \in Workers, v # w, job'[v].calm
          PROVE  job'[v].at \notin {"choosing", "picked", "refused"}
      <3>1. job'[v] = Disturb(job)[v]
        BY <1>6, <2>1, Disturbed
      <3>2. job'[v] = job[v] /\ job[v].at \notin {"choosing", "picked"}
        BY <2>1, <3>1, Disturbed
      <3> QED
        BY <2>1, <3>2 DEF Undisturbed
    <2>2. job'[w] = j
      BY <1>6, Disturbed
    <2> QED
      BY <1>6, <2>1, <2>2, DisturbedKeep
  <1>7. ASSUME MarkBusy(w) PROVE Undisturbed'
    <2> DEFINE j == [Disturb(job)[w] EXCEPT !.at = "using"]
    <2>1. job' = [Disturb(job) EXCEPT ![w] = j]
      BY <1>7, Disturbed DEF MarkBusy
    <2>2. j.at = "using"
      BY Disturbed, SetAt
    <2> HIDE DEF j
    <2> QED
      BY <1>6, <2>1, <2>2
  <1>8. ASSUME Leave(w) PROVE Undisturbed'
    BY <1>6, <1>8, IdleJob DEF Leave
  <1> QED
    BY <1>1, <1>2, <1>3, <1>4, <1>5, <1>7, <1>8 DEF Request

\* No step makes what an undisturbed worker knows untrue.
LEMMA UndisturbedStep ==
  Books /\ Chosen /\ Undisturbed /\ [Next]_vars => Undisturbed'
  <1> SUFFICES ASSUME Books, Chosen, Undisturbed, [Next]_vars PROVE Undisturbed'
    OBVIOUS
  <1> USE DEF poolVars, configVars, adminVars
  <1>1. ASSUME job' = Disturb(job) PROVE Undisturbed'
    <2>1. ASSUME NEW v \in Workers, job'[v].calm
          PROVE  job'[v].at \notin {"choosing", "picked", "refused"}
      BY <1>1, <2>1, Disturbed DEF Undisturbed
    <2> QED
      BY <2>1, DisturbedKeep
  <1>2. ASSUME \A w \in Workers : job'[w].at = "idle" PROVE Undisturbed'
    BY <1>2, DisturbedKeep
  <1>3. CASE Start
    BY <1>2, <1>3 DEF Start, Chosen
  <1>4. CASE Interrupt
    BY <1>2, <1>4 DEF Interrupt
  <1>5. CASE End
    BY <1>2, <1>5, IdleJob DEF End
  <1>6. ASSUME NEW op, NEW n, NEW u, Change(op, n, u) PROVE Undisturbed'
    BY <1>1, <1>6 DEF Change, AddPool, RemovePool
  <1>7. CASE AddAgain
    BY <1>1, <1>7 DEF AddAgain, AddPool
  <1>8. CASE Write \/ Count
    BY <1>8, SameKeep DEF Write, Count
  <1>9. CASE WriteFails
    BY <1>1, <1>9, SameKeep DEF WriteFails, UndoAdd, RemovePool
  <1>10. ASSUME NEW p \in Pools, ChangeStatus(p) PROVE Undisturbed'
    BY <1>1, <1>10 DEF ChangeStatus
  <1>11. ASSUME NEW w \in Workers, Request(w) PROVE Undisturbed'
    BY <1>11, RequestKeeps
  <1>12. CASE UNCHANGED vars
    BY <1>12, SameKeep DEF vars
  <1> QED
    BY <1>3, <1>4, <1>5, <1>6, <1>7, <1>8, <1>9, <1>10, <1>11, <1>12
    DEF Next, AdminStep

\* A pick is sound: while nothing disturbs the choice, what was listed stays
\* active and what was read stays true, and of what was read a least exists.
THEOREM PicksAreSound == Spec => []PickIsSound
  <1>1. Init => Undisturbed
    <2> SUFFICES ASSUME Init PROVE Undisturbed
      OBVIOUS
    <2>1. \A w \in Workers : job[w].at = "idle"
      BY IdleJob DEF Init
    <2> QED
      BY <2>1 DEF Undisturbed
  <1>2. Undisturbed => PickIsSound
    BY DEF Undisturbed, PickIsSound
  <1> QED
    BY <1>1, <1>2, Starts, StartsChosen, BooksStep, ChosenStep, UndisturbedStep, PTL
    DEF Spec

-----------------------------------------------------------------------------
(* The types of what the invariants above leave open.                      *)

\* What a worker refers to are pools, and it reads those it has listed.
JobKinds(j) ==
  /\ j.pool \in Pools \cup {None}
  /\ j.active \subseteq Pools
  /\ DOMAIN j.load \subseteq j.active

Kinds ==
  /\ status \in [Pools -> {"ACTIVE", "SUSPENDED", "CLOSED"}]
  /\ failed \subseteq Names
  /\ \A w \in Workers : JobKinds(job[w])

LEMMA IdleKinds == JobKinds(NoJob) /\ DOMAIN << >> = {}
  BY DEF JobKinds, NoJob

LEMMA PlacedPools == Books => Registered(pools) \subseteq Pools
  BY DEF Books, Typed, Places, Registered

LEMMA DisturbedKinds ==
  ASSUME Chosen, NEW w \in Workers, JobKinds(job[w])
  PROVE  JobKinds(Disturb(job)[w])
  <1>1. PICK j : j = job[w]
    OBVIOUS
  <1>2. IsJob(j) /\ JobKinds(j)
    BY <1>1 DEF Chosen
  <1>3. Disturb(job)[w] = IF j.at \in {"choosing", "picked"}
                          THEN [j EXCEPT !.calm = FALSE] ELSE j
    BY <1>1 DEF Disturb
  <1>4. JobKinds([j EXCEPT !.calm = FALSE])
    BY <1>2, SetCalm DEF JobKinds
  <1> QED
    BY <1>2, <1>3, <1>4

\* A worker's step leads it from pools to pools.
LEMMA RequestKinds ==
  ASSUME Books, Chosen, Kinds, NEW w \in Workers, Request(w)
  PROVE  \A v \in Workers : JobKinds(job'[v])
  <1>1. ASSUME NEW j, job' = [job EXCEPT ![w] = j], JobKinds(j)
        PROVE  \A v \in Workers : JobKinds(job'[v])
    BY <1>1 DEF Chosen, Kinds
  <1>2. ASSUME NEW j, job' = [Disturb(job) EXCEPT ![w] = j], JobKinds(j)
        PROVE  \A v \in Workers : JobKinds(job'[v])
    <2>1. \A v \in Workers : job'[v] = IF v = w THEN j ELSE Disturb(job)[v]
      BY <1>2, Disturbed
    <2> QED
      BY <1>2, <2>1, DisturbedKinds DEF Kinds
  <1>3. ASSUME NEW n, Choose(w, n) PROVE \A v \in Workers : JobKinds(job'[v])
    <2> DEFINE j1 == [NoJob EXCEPT !.at = "choosing"]
               j2 == [j1 EXCEPT !.want = n]
               j3 == [j2 EXCEPT !.active = ActivePools]
    <2>1. IsJob(j1) /\ j1.pool = None /\ j1.load = << >>
      BY SetAt, IdleJob DEF NoJob
    <2>2. job' = [job EXCEPT ![w] = j3]
      BY <1>3 DEF Choose
    <2> HIDE DEF j1
    <2>3. IsJob(j2) /\ j2.pool = None /\ j2.load = << >>
      BY <2>1, SetWant
    <2> HIDE DEF j2
    <2>4. j3.pool = None /\ j3.load = << >> /\ j3.active = ActivePools
      BY <2>3, SetActive
    <2> HIDE DEF j3
    <2>5. ActivePools \subseteq Pools
      BY PlacedPools DEF ActivePools
    <2>6. JobKinds(j3)
      BY <2>4, <2>5, IdleKinds DEF JobKinds
    <2> QED
      BY <1>1, <2>2, <2>6
  <1>4. ASSUME NEW p, Read(w, p) PROVE \A v \in Workers : JobKinds(job'[v])
    <2> DEFINE load == job[w].load
               more == [q \in {p} \cup DOMAIN load |-> IF q = p THEN Busy(p) ELSE load[q]]
               j == [job[w] EXCEPT !.load = more]
    <2>1. job' = [job EXCEPT ![w] = j] /\ p \in job[w].active
      BY <1>4 DEF Read, Chosen
    <2>2. DOMAIN more = {p} \cup DOMAIN load
      OBVIOUS
    <2> HIDE DEF more
    <2>3. j.pool = job[w].pool /\ j.active = job[w].active /\ j.load = more
      BY SetLoad DEF Chosen
    <2> HIDE DEF j
    <2>4. JobKinds(j)
      BY <2>1, <2>2, <2>3 DEF Kinds, JobKinds
    <2> QED
      BY <1>1, <2>1, <2>4
  <1>5. ASSUME Pick(w) PROVE \A v \in Workers : JobKinds(job'[v])
    <2>1. PICK p \in MayPick(job[w]) :
            job' = [job EXCEPT ![w].at = "picked", ![w].pool = p, ![w].load = << >>]
      BY <1>5 DEF Pick
    <2> DEFINE j1 == [job[w] EXCEPT !.at = "picked"]
               j2 == [j1 EXCEPT !.pool = p]
               j3 == [j2 EXCEPT !.load = << >>]
    <2>2. job' = [job EXCEPT ![w] = j3]
      BY <2>1 DEF Chosen
    <2>3. IsJob(j1) /\ j1.active = job[w].active
      BY SetAt DEF Chosen
    <2> HIDE DEF j1
    <2>4. IsJob(j2) /\ j2.active = job[w].active /\ j2.pool = p
      BY <2>3, SetPool
    <2> HIDE DEF j2
    <2>5. j3.active = job[w].active /\ j3.pool = p /\ j3.load = << >>
      BY <2>4, SetLoad
    <2> HIDE DEF j3
    <2>6. p \in job[w].active
      <3>1. LeastBusy(job[w].load) \subseteq DOMAIN job[w].load
        BY DEF LeastBusy
      <3>2. balancer \in Balancers
        BY DEF Books, Typed
      <3> QED
        BY <2>1, <3>1, <3>2 DEF MayPick, Balancers
    <2>7. JobKinds(j3)
      BY <2>5, <2>6, IdleKinds DEF Kinds, JobKinds
    <2> QED
      BY <1>1, <2>2, <2>7
  <1>6. ASSUME PickNone(w) PROVE \A v \in Workers : JobKinds(job'[v])
    BY <1>1, <1>6, IdleKinds DEF PickNone
  <1>7. ASSUME Get(w) PROVE \A v \in Workers : JobKinds(job'[v])
    <2> DEFINE d1 == [NoJob EXCEPT !.at = "dialling"]
               d2 == [d1 EXCEPT !.pool = job[w].pool]
               r1 == [job[w] EXCEPT !.at = "refused"]
               r2 == [r1 EXCEPT !.active = {}]
               r3 == [r2 EXCEPT !.load = << >>]
    <2>1. job' = [job EXCEPT ![w] = d2] \/ job' = [job EXCEPT ![w] = r3]
      BY <1>7 DEF Get, Chosen
    <2>2. IsJob(d1) /\ d1.active = {} /\ d1.load = << >>
      BY SetAt, IdleJob DEF NoJob
    <2>3. IsJob(r1) /\ r1.pool = job[w].pool
      BY SetAt DEF Chosen
    <2> HIDE DEF d1, r1
    <2>4. d2.pool = job[w].pool /\ d2.active = {} /\ d2.load = << >>
      BY <2>2, SetPool
    <2>5. IsJob(r2) /\ r2.pool = job[w].pool /\ r2.active = {}
      BY <2>3, SetActive
    <2> HIDE DEF d2, r2
    <2>6. r3.pool = job[w].pool /\ r3.active = {} /\ r3.load = << >>
      BY <2>5, SetLoad
    <2> HIDE DEF r3
    <2>7. job[w].pool \in Pools \cup {None}
      BY DEF Kinds, JobKinds
    <2>8. JobKinds(d2) /\ JobKinds(r3)
      BY <2>4, <2>6, <2>7, IdleKinds DEF JobKinds
    <2> QED
      BY <1>1, <2>1, <2>8
  <1>8. ASSUME MarkBusy(w) PROVE \A v \in Workers : JobKinds(job'[v])
    <2> DEFINE d == Disturb(job)[w]
               j == [d EXCEPT !.at = "using"]
    <2>1. job' = [Disturb(job) EXCEPT ![w] = j]
      BY <1>8, Disturbed DEF MarkBusy
    <2>2. JobKinds(d) /\ IsJob(d)
      BY Disturbed, DisturbedKinds DEF Kinds
    <2> HIDE DEF d
    <2>3. j.pool = d.pool /\ j.active = d.active /\ j.load = d.load
      BY <2>2, SetAt
    <2> HIDE DEF j
    <2>4. JobKinds(j)
      BY <2>2, <2>3 DEF JobKinds
    <2> QED
      BY <1>2, <2>1, <2>4
  <1>9. ASSUME Leave(w) PROVE \A v \in Workers : JobKinds(job'[v])
    BY <1>2, <1>9, IdleKinds DEF Leave
  <1> QED
    BY <1>3, <1>4, <1>5, <1>6, <1>7, <1>8, <1>9 DEF Request

LEMMA KindsStep == Books /\ Chosen /\ Kinds /\ [Next]_vars => Kinds'
  <1> SUFFICES ASSUME Books, Chosen, Kinds, [Next]_vars PROVE Kinds'
    OBVIOUS
  <1> USE DEF poolVars, configVars, adminVars
  <1>1. ASSUME job' = job \/ job' = Disturb(job)
                 \/ job' = [w \in Workers |-> NoJob]
        PROVE  \A w \in Workers : JobKinds(job'[w])
    BY <1>1, DisturbedKinds, IdleKinds DEF Kinds
  <1>2. CASE Start
    BY <1>1, <1>2 DEF Start, Build, Kinds
  <1>3. CASE Interrupt \/ End
    BY <1>1, <1>3 DEF Interrupt, End, Kinds
  <1>4. ASSUME NEW n, NEW u, AddPool(n, u), failed' = failed PROVE Kinds'
    BY <1>1, <1>4 DEF AddPool, Kinds
  <1>5. ASSUME NEW n, RemovePool(n), failed' \subseteq Names PROVE Kinds'
    BY <1>1, <1>5 DEF RemovePool, Kinds
  <1>6. ASSUME NEW op, NEW n, NEW u, Change(op, n, u) PROVE Kinds'
    BY <1>4, <1>5, <1>6 DEF Change, Kinds
  <1>7. CASE AddAgain
    BY <1>4, <1>7 DEF AddAgain
  <1>8. CASE Write \/ Count
    BY <1>1, <1>8 DEF Write, Count, Kinds
  <1>9. CASE WriteFails
    <2>1. call.name \in Names
      BY <1>9 DEF WriteFails, Books, CallTyped
    <2> QED
      BY <1>1, <1>5, <1>9, <2>1 DEF WriteFails, UndoAdd, Kinds
  <1>10. ASSUME NEW p \in Pools, ChangeStatus(p) PROVE Kinds'
    BY <1>1, <1>10 DEF ChangeStatus, Kinds
  <1>11. ASSUME NEW w \in Workers, Request(w) PROVE Kinds'
    <2>1. UNCHANGED <<status, failed>>
      BY <1>11 DEF Request, Choose, Read, Pick, PickNone, Get, MarkBusy, Leave
    <2> QED
      BY <1>11, <2>1, RequestKinds DEF Kinds
  <1>12. CASE UNCHANGED vars
    BY <1>1, <1>12 DEF vars, Kinds
  <1> QED
    BY <1>2, <1>3, <1>6, <1>7, <1>8, <1>9, <1>10, <1>11, <1>12
    DEF Next, AdminStep

LEMMA KindsStarts == Init => Kinds
  BY IdleKinds DEF Init, Kinds

\* Every variable has its type; a worker reads only pools that it has listed.
THEOREM TypeCorrect == Spec => []TypeOK
  <1>2. Books /\ Kinds => TypeOK
    <2> SUFFICES ASSUME Books, Kinds PROVE TypeOK
      OBVIOUS
    <2>1. call.name \in Names \cup {None} /\ call.url \in GoodUrls \cup {None}
      BY DEF Books, CallTyped, NoCall
    <2> QED
      BY <2>1 DEF Books, Typed, Places, Lists, Kinds, JobKinds, TypeOK
  <1> QED
    BY <1>2, KindsStarts, Starts, StartsChosen, BooksStep, ChosenStep, KindsStep, PTL
    DEF Spec

-----------------------------------------------------------------------------
(* Which pools let a request in: LetInIsCurrent.                           *)

\* Only a registered pool hands out connections, and it is a pool that was
\* picked.
Open ==
  /\ \A p \in Pools : status[p] # "CLOSED" => p \in Registered(pools)
  /\ \A w \in Workers : job[w].at = "picked" => job[w].pool \in Pools

LEMMA StartsOpen == Init => Open
  BY IdleJob DEF Init, Open

\* What was picked is used or refused by get(), and then it is no longer picked.
LEMMA PickedGoes ==
  ASSUME Chosen, NEW w \in Workers, Request(w), job[w].at = "picked"
  PROVE  /\ job'[w].at # "picked"
         /\ job'[w].at = "dialling" => status[job[w].pool] = "ACTIVE"
  <1>1. Get(w)
    BY DEF Request, Choose, Read, Pick, PickNone, MarkBusy, Leave
  <1> DEFINE d1 == [NoJob EXCEPT !.at = "dialling"]
             d2 == [d1 EXCEPT !.pool = job[w].pool]
             r1 == [job[w] EXCEPT !.at = "refused"]
             r2 == [r1 EXCEPT !.active = {}]
             r3 == [r2 EXCEPT !.load = << >>]
  <1>2. IsJob(d1) /\ d1.at = "dialling"
    BY SetAt, IdleJob
  <1>3. d2.at = "dialling"
    BY <1>2, SetPool
  <1>4. IsJob(r1) /\ r1.at = "refused"
    BY SetAt DEF Chosen
  <1> HIDE DEF r1
  <1>5. IsJob(r2) /\ r2.at = "refused"
    BY <1>4, SetActive
  <1> HIDE DEF r2
  <1>6. r3.at = "refused"
    BY <1>5, SetLoad
  <1>7. job' = [job EXCEPT ![w] = IF status[job[w].pool] = "ACTIVE" THEN d2 ELSE r3]
    BY <1>1 DEF Get, Chosen, r1, r2
  <1> HIDE DEF d2, r3
  <1>8. job'[w] = IF status[job[w].pool] = "ACTIVE" THEN d2 ELSE r3
    BY <1>7 DEF Chosen
  <1> QED
    BY <1>3, <1>6, <1>8

\* A pool is closed when it is removed and opened when it is added.
LEMMA OpenStep == Books /\ Chosen /\ Kinds /\ Open /\ [Next]_vars => Open'
  <1> SUFFICES ASSUME Books, Chosen, Kinds, Open, [Next]_vars PROVE Open'
    OBVIOUS
  <1> USE DEF poolVars, configVars, adminVars
  <1>a. status \in [Pools -> {"ACTIVE", "SUSPENDED", "CLOSED"}] /\ pools \in Places
        /\ None \notin Pools
    BY NoneAssumption DEF Kinds, Books, Typed
  <1>1. \A p \in Pools : status'[p] # "CLOSED" => p \in Registered(pools')
    <2>0. ASSUME \A p \in Pools : status'[p] # "CLOSED" => status[p] # "CLOSED",
                 pools' = pools
          PROVE  \A p \in Pools : status'[p] # "CLOSED" => p \in Registered(pools')
      BY <2>0 DEF Open
    <2>1. CASE Start
      BY <2>1 DEF Start, Build
    <2>2. CASE Interrupt \/ End
      BY <2>2 DEF Interrupt, End
    <2>3. ASSUME NEW n \in Names, NEW u, AddPool(n, u)
          PROVE  \A p \in Pools : status'[p] # "CLOSED" => p \in Registered(pools')
      <3>1. PICK q \in Pools : /\ pools' = [pools EXCEPT ![n] = q]
                               /\ status' = [status EXCEPT ![q] = "ACTIVE"]
        BY <2>3 DEF AddPool
      <3>2. pools[n] = None
        BY <2>3 DEF AddPool
      <3>3. Registered(pools') = Registered(pools) \cup {q}
        BY <1>a, <3>1, <3>2 DEF Registered, Places
      <3> QED
        BY <1>a, <3>1, <3>3 DEF Open
    <2>4. ASSUME NEW n \in Names, RemovePool(n)
          PROVE  \A p \in Pools : status'[p] # "CLOSED" => p \in Registered(pools')
      <3>1. /\ pools[n] # None /\ pools' = [pools EXCEPT ![n] = None]
            /\ status' = [status EXCEPT ![pools[n]] = "CLOSED"]
        BY <2>4 DEF RemovePool
      <3>2. \A p \in Registered(pools) : p # pools[n] => p \in Registered(pools')
        BY <1>a, <3>1 DEF Registered, Places
      <3> QED
        BY <1>a, <3>1, <3>2 DEF Open, Places
    <2>5. ASSUME NEW op, NEW n \in Names, NEW u, Change(op, n, u)
          PROVE  \A p \in Pools : status'[p] # "CLOSED" => p \in Registered(pools')
      BY <2>3, <2>4, <2>5 DEF Change
    <2>6. call.at # "idle" => call.name \in Names
      BY DEF Books, CallTyped
    <2>7. CASE AddAgain
      BY <2>3, <2>6, <2>7 DEF AddAgain
    <2>8. CASE Write \/ Count
      BY <2>0, <2>8 DEF Write, Count
    <2>9. CASE WriteFails
      BY <2>0, <2>4, <2>6, <2>9 DEF WriteFails, UndoAdd
    <2>10. ASSUME NEW p \in Pools, ChangeStatus(p)
           PROVE  \A q \in Pools : status'[q] # "CLOSED" => q \in Registered(pools')
      BY <1>a, <2>0, <2>10 DEF ChangeStatus
    <2>11. ASSUME NEW w \in Workers, Request(w)
           PROVE  \A p \in Pools : status'[p] # "CLOSED" => p \in Registered(pools')
      <3>1. UNCHANGED <<status, pools>>
        BY <2>11 DEF Request, Choose, Read, Pick, PickNone, Get, MarkBusy, Leave
      <3> QED
        BY <2>0, <3>1
    <2>12. CASE UNCHANGED vars
      BY <2>0, <2>12 DEF vars
    <2> QED
      BY <2>1, <2>2, <2>5, <2>7, <2>8, <2>9, <2>10, <2>11, <2>12, NoneAssumption
      DEF Next, AdminStep
  <1>2. ASSUME NEW w \in Workers, job'[w].at = "picked" PROVE job'[w].pool \in Pools
    <2>1. CASE job[w].at # "picked"
      BY <1>2, <2>1, NewlyPicked, PlacedPools
    <2>2. CASE job[w].at = "picked"
      <3>1. ASSUME job' = job \/ job' = Disturb(job) PROVE job'[w].pool = job[w].pool
        BY <3>1, Disturbed
      <3>2. ~End
        BY <1>2, IdleJob DEF End
      <3>3. ASSUME NEW v \in Workers, Request(v) PROVE job'[w].pool = job[w].pool
        <4>1. v # w
          BY <1>2, <2>2, <3>3, PickedGoes
        <4> QED
          BY <3>3, <4>1, RequestSteps DEF Steps
      <3>4. job'[w].pool = job[w].pool
        BY <3>1, <3>2, <3>3
        DEF Next, AdminStep, Start, Interrupt, Change, AddPool, RemovePool, AddAgain, Write,
            WriteFails, UndoAdd, Count, ChangeStatus, vars
      <3> QED
        BY <2>2, <3>4 DEF Open
    <2> QED
      BY <2>1, <2>2
  <1> QED
    BY <1>1, <1>2 DEF Open

\* A request is let in only at a pool that is registered and dials what was
\* last replied, or what the call under way says: removing a pool closes it,
\* and the books say which URL a registered pool has.
THEOREM LetInAtCurrentEndpoints == Spec => LetInIsCurrent
  <1>1. Books /\ Chosen /\ Open /\ [Next]_vars =>
          \A w \in Workers :
             job[w].at = "picked" /\ job'[w].at = "dialling" =>
               /\ job[w].pool \in Registered(pools)
               /\ store => Current(job[w].pool)
    <2> SUFFICES ASSUME Books, Chosen, Open, [Next]_vars, NEW w \in Workers,
                        job[w].at = "picked", job'[w].at = "dialling"
                 PROVE  /\ job[w].pool \in Registered(pools)
                        /\ store => Current(job[w].pool)
      OBVIOUS
    <2>1. ASSUME job' = job \/ job' = Disturb(job) PROVE FALSE
      BY <2>1, Disturbed
    <2>2. ~End
      BY IdleJob DEF End
    <2>3. PICK v \in Workers : Request(v)
      BY <2>1, <2>2
      DEF Next, AdminStep, Start, Interrupt, Change, AddPool, RemovePool, AddAgain, Write,
          WriteFails, UndoAdd, Count, ChangeStatus, vars, poolVars
    <2>4. v = w
      BY <2>3, RequestSteps DEF Steps
    <2>5. status[job[w].pool] = "ACTIVE" /\ life # "down"
      BY <2>3, <2>4, PickedGoes DEF Chosen
    <2>6. job[w].pool \in Registered(pools)
      BY <2>5 DEF Open
    <2>7. ASSUME store, NEW n \in Names \ failed, pools[n] = job[w].pool
          PROVE  Serves(n, IF n = call.name THEN call.url ELSE told[n])
      <3>1. pools[n] # None
        BY <2>6, <2>7 DEF Registered
      <3>2. CASE n = call.name
        <4>1. call # NoCall
          BY <3>2, NoneAssumption DEF NoCall
        <4> QED
          BY <2>7, <3>1, <3>2, <4>1 DEF Books, CallTyped, Halfway
      <3>3. CASE n # call.name
        BY <2>5, <2>7, <3>3 DEF Books, Others, Durable
      <3> QED
        BY <3>2, <3>3
    <2> QED
      BY <2>6, <2>7 DEF Current
  <1> QED
    BY <1>1, Starts, StartsChosen, BooksStep, ChosenStep, KindsStarts, KindsStep, StartsOpen,
       OpenStep, PTL DEF Spec, LetInIsCurrent
=============================================================================
