---------------------- MODULE ClientConnectionsProofs ----------------------
(***************************************************************************)
(* Theorems about ClientConnections, for any sets of sockets, descriptors  *)
(* and workers, any bound on pending sockets and both kinds of poller.     *)
(***************************************************************************)
EXTENDS ClientConnections, SequenceTheorems, FiniteSetTheorems, TLAPS

-----------------------------------------------------------------------------
(* The operations of the pool: the type of what they return, and what they *)
(* do to the table, to the tail and to the links.                          *)

\* Making an entry the head leaves the table alone and links nothing else.
LEMMA LinkedFacts ==
  ASSUME NEW p \in Pools, NEW s \in Socks
  PROVE  /\ Linked(p, s) \in Pools
         /\ Linked(p, s).table = p.table
         /\ Linked(p, s).tail \in {p.tail, s}
         /\ \A x \in Socks : Linked(p, s).prev[x] \in {p.prev[x], s}
<1> DEFINE tail == IF p.head = None THEN s ELSE p.tail
           prev == IF p.head = None THEN p.prev
                   ELSE [p.prev EXCEPT ![p.head] = s]
<1>1. /\ p.prev \in [Socks -> Socks \cup {None}]
      /\ p.tail \in Socks \cup {None}
      /\ p.head \in Socks \cup {None}
      /\ p.size \in Int
  BY DEF Pools
<1>2. prev \in [Socks -> Socks \cup {None}] /\ tail \in Socks \cup {None}
  BY <1>1
<1>3. tail \in {p.tail, s} /\ \A x \in Socks : prev[x] \in {p.prev[x], s}
  BY <1>1
<1> DEFINE q == [p EXCEPT !.tail = tail, !.prev = prev]
<1>4. Linked(p, s) = [q EXCEPT !.head = s, !.size = p.size + 1]
  BY DEF Linked, Pools
<1> HIDE DEF tail, prev
<1>5. q \in Pools /\ q.table = p.table /\ q.tail = tail /\ q.prev = prev
  BY <1>2 DEF Pools
<1> HIDE DEF q
<1> DEFINE r == [q EXCEPT !.head = s]
<1>6. /\ r \in Pools
      /\ r.table = p.table /\ r.tail = tail /\ r.prev = prev
  BY <1>5 DEF Pools
<1>7. Linked(p, s) = [r EXCEPT !.size = p.size + 1]
  BY <1>4
<1> HIDE DEF r
<1>8. /\ Linked(p, s) \in Pools
      /\ Linked(p, s).table = p.table
      /\ Linked(p, s).tail = tail
      /\ Linked(p, s).prev = prev
  BY <1>1, <1>6, <1>7 DEF Pools
<1>9. QED
  BY <1>3, <1>8

\* A new socket enters the table at its descriptor.
LEMMA AddPendingFacts ==
  ASSUME NEW p \in Pools, NEW f \in FDs, NEW s \in Socks
  PROVE  /\ AddPending(p, f, s) \in Pools
         /\ AddPending(p, f, s).table = [p.table EXCEPT ![f] = s]
         /\ AddPending(p, f, s).tail \in {p.tail, s}
         /\ \A x \in Socks : AddPending(p, f, s).prev[x] \in {p.prev[x], s}
<1> DEFINE q == [p EXCEPT !.table[f] = s]
<1>1. /\ q \in Pools
      /\ q.table = [p.table EXCEPT ![f] = s]
      /\ q.tail = p.tail
      /\ q.prev = p.prev
  BY DEF Pools
<1>2. AddPending(p, f, s) = Linked(q, s)
  BY DEF AddPending
<1> HIDE DEF q
<1>3. QED
  BY <1>1, <1>2, LinkedFacts

\* Taking a socket into use leaves the table and the links alone.
LEMMA SetInUseFacts ==
  ASSUME NEW p \in Pools, NEW f \in FDs, Known(p, f)
  PROVE  /\ SetInUse(p, f) \in Pools
         /\ SetInUse(p, f).table = p.table
         /\ SetInUse(p, f).prev = p.prev
         /\ SetInUse(p, f).tail \in {None, p.prev[p.table[f]]}
<1> DEFINE s == p.table[f]
           q == [p EXCEPT !.inUse = @ \cup {s}]
<1>1. s \in Socks
  BY DEF Pools, Known
<1>2. q \in Pools /\ q.table = p.table /\ q.prev = p.prev
  BY <1>1 DEF Pools
<1>3. SetInUse(p, f) = Unlinked(q, s)
  BY DEF SetInUse
<1> HIDE DEF q, s
<1>4. q.prev[s] \in Socks \cup {None} /\ q.size \in Int
  BY <1>1, <1>2 DEF Pools
<1>5. CASE q.prev[s] = None
  <2> DEFINE r == [q EXCEPT !.head = None, !.tail = None]
  <2>1. SetInUse(p, f) = [r EXCEPT !.size = q.size - 1]
    BY <1>3, <1>5 DEF Unlinked
  <2>2. r \in Pools /\ r.table = p.table /\ r.prev = p.prev /\ r.tail = None
    BY <1>2 DEF Pools
  <2> HIDE DEF r
  <2>3. QED
    BY <1>4, <2>1, <2>2 DEF Pools
<1>6. CASE q.prev[s] # None
  <2> DEFINE r == [q EXCEPT !.tail = q.prev[s]]
  <2>1. SetInUse(p, f) = [r EXCEPT !.size = q.size - 1]
    BY <1>3, <1>6 DEF Unlinked
  <2>2. r \in Pools /\ r.table = p.table /\ r.prev = p.prev /\ r.tail = q.prev[s]
    BY <1>2, <1>4 DEF Pools
  <2> HIDE DEF r
  <2>3. /\ SetInUse(p, f) \in Pools
        /\ SetInUse(p, f).table = p.table
        /\ SetInUse(p, f).prev = p.prev
        /\ SetInUse(p, f).tail = q.prev[s]
    BY <1>4, <2>1, <2>2 DEF Pools
  <2>4. q.prev[s] = p.prev[p.table[f]]
    BY <1>2 DEF s
  <2>5. QED
    BY <2>3, <2>4
<1>7. QED
  BY <1>5, <1>6

\* Making a socket pending leaves the table alone and links that socket only.
LEMMA SetPendingFacts ==
  ASSUME NEW p \in Pools, NEW f \in FDs, Known(p, f)
  PROVE  /\ SetPending(p, f) \in Pools
         /\ SetPending(p, f).table = p.table
         /\ SetPending(p, f).tail \in {p.tail, p.table[f]}
         /\ \A x \in Socks :
              SetPending(p, f).prev[x] \in {p.prev[x], None, p.table[f]}
<1> DEFINE s == p.table[f]
           q == [p EXCEPT !.inUse = @ \ {s}, !.prev[s] = None]
<1>1. s \in Socks
  BY DEF Pools, Known
<1>2. /\ q \in Pools
      /\ q.table = p.table
      /\ q.tail = p.tail
      /\ \A x \in Socks : q.prev[x] \in {p.prev[x], None}
  BY <1>1 DEF Pools
<1>3. SetPending(p, f) = Linked(q, s)
  BY DEF SetPending
<1> HIDE DEF q, s
<1>4. SetPending(p, f) \in Pools /\ SetPending(p, f).table = p.table
  BY <1>1, <1>2, <1>3, LinkedFacts
<1>5. SetPending(p, f).tail \in {p.tail, s}
  BY <1>1, <1>2, <1>3, LinkedFacts
<1>6. \A x \in Socks : SetPending(p, f).prev[x] \in {p.prev[x], None, s}
  BY <1>1, <1>2, <1>3, LinkedFacts
<1>7. QED
  BY <1>4, <1>5, <1>6 DEF s

\* Deleting a descriptor clears its place in the table.
LEMMA DeleteFacts ==
  ASSUME NEW p \in Pools, NEW f \in FDs
  PROVE  /\ Delete(p, f) \in Pools
         /\ Delete(p, f).table = [p.table EXCEPT ![f] = None]
         /\ Delete(p, f).tail = p.tail
         /\ Delete(p, f).prev = p.prev
BY DEF Delete, Pools

\* Popping the tail clears its place in the table and follows its link.
LEMMA PopTailFacts ==
  ASSUME NEW p \in Pools, NEW f \in FDs, p.tail # None
  PROVE  /\ PopTail(p, f) \in Pools
         /\ PopTail(p, f).table = [p.table EXCEPT ![f] = None]
         /\ PopTail(p, f).tail = p.prev[p.tail]
         /\ PopTail(p, f).prev = p.prev
<1>1. p.tail \in Socks /\ p.prev \in [Socks -> Socks \cup {None}] /\ p.size \in Int
  BY DEF Pools
<1>2. p.prev[p.tail] \in Socks \cup {None}
  BY <1>1
<1> DEFINE r == [p EXCEPT !.tail = p.prev[p.tail]]
           q == [r EXCEPT !.size = p.size - 1]
<1>3. /\ r \in Pools
      /\ r.tail = p.prev[p.tail]
      /\ r.table = p.table
      /\ r.prev = p.prev
  BY <1>1, <1>2 DEF Pools
<1> HIDE DEF r
<1>4. /\ q \in Pools
      /\ q.tail = p.prev[p.tail]
      /\ q.table = p.table
      /\ q.prev = p.prev
  BY <1>1, <1>3 DEF Pools
<1>5. PopTail(p, f) = [q EXCEPT !.table = [p.table EXCEPT ![f] = None]]
  BY DEF PopTail, Pools, r
<1>6. [p.table EXCEPT ![f] = None] \in [FDs -> Socks \cup {None}]
  BY DEF Pools
<1> HIDE DEF q
<1>7. QED
  BY <1>4, <1>5, <1>6 DEF Pools

-----------------------------------------------------------------------------
\* A socket that was accepted.
Accepted(s) == sock[s] \in {"open", "closed"} /\ fd[s] \in FDs

\* Whatever a thread has, waits in a queue or is in the list was accepted.
Traced ==
  /\ \A w \in Workers : cs[w] # None => Accepted(cs[w])
  /\ \A i \in 1 .. Len(jobs) : Accepted(jobs[i])
  /\ \A i \in 1 .. Len(evicted) : Accepted(evicted[i])
  /\ closing # None => Accepted(closing)
  /\ pool.tail # None => Accepted(pool.tail)
  /\ \A s \in Socks : pool.prev[s] # None => Accepted(pool.prev[s])

\* What a thread is about to unregister or close is not in the pool any more.
Untabled(s) == \A f \in FDs : pool.table[f] # s
Removed ==
  /\ \A w \in Workers :
       wpc[w] \in {"unregistering", "closing"} => Untabled(cs[w])
  /\ \A i \in 1 .. Len(evicted) : Untabled(evicted[i])
  /\ closing # None => Untabled(closing)

Inv == TypeOK /\ TableIsOpen /\ Traced /\ Removed

\* Every step keeps the type invariant.
LEMMA TypeStep ==
  ASSUME TypeOK, Traced, Next
  PROVE  TypeOK'
<1> USE DEF WorkerStates
<1>1. ASSUME NEW s \in Socks, Dial(s) PROVE TypeOK'
  BY <1>1 DEF TypeOK, Dial, mainVars, workerVars, closerVars
<1>2. ASSUME NEW s \in Socks, Say(s) PROVE TypeOK'
  BY <1>2 DEF TypeOK, Say, mainVars, workerVars, closerVars
<1>3. CASE Measure
  BY <1>3, ClientConnectionsAssumption
  DEF TypeOK, Pools, Measure, mainVars, workerVars, closerVars
<1>4. CASE Evict
  <2>1. CASE pool.tail # None /\ Known(pool, fd[pool.tail])
    <3>1. pool \in Pools /\ pool.tail \in Socks
      BY <2>1 DEF TypeOK, Pools
    <3>2. fd[pool.tail] \in FDs
      BY <2>1, <3>1 DEF Traced, Accepted
    <3>3. pool' \in Pools
      BY <1>4, <2>1, <3>1, <3>2, PopTailFacts DEF Evict
    <3> evicted \in Seq(Socks) /\ surplus \in Int
      BY DEF TypeOK
    <3> evicted' = Append(evicted, pool.tail) /\ surplus' = surplus - 1
      BY <1>4, <2>1 DEF Evict
    <3>4. evicted' \in Seq(Socks) /\ surplus' \in Int
      BY <3>1
    <3>5. QED
      BY <1>4, <3>3, <3>4
      DEF TypeOK, Evict, mainVars, workerVars, closerVars
  <2>2. CASE ~(pool.tail # None /\ Known(pool, fd[pool.tail]))
    BY <1>4, <2>2 DEF TypeOK, Evict, mainVars, workerVars, closerVars
  <2>3. QED
    BY <2>1, <2>2
<1>5. CASE Poll
  BY <1>5
  DEF TypeOK, Poll, Disarmed, LoopAfter, Ready, mainVars, workerVars,
      closerVars
<1>6. CASE Accept
  <2>1. PICK s \in Socks, f \in FDs :
          /\ sock' = [sock EXCEPT ![s] = "open"]
          /\ fd' = [fd EXCEPT ![s] = f]
          /\ pool' = AddPending(pool, f, s)
          /\ watch' = [watch EXCEPT ![f] = "armed"]
    BY <1>6 DEF Accept
  <2>2. pool' \in Pools
    BY <2>1, AddPendingFacts DEF TypeOK
  <2>3. loop' \in {"top", "events"} /\ batch' = batch \ {Listener}
    BY <1>6 DEF Accept, LoopAfter, Handled
  <2>4. sock' \in [Socks -> {"new", "queued", "open", "closed"}]
    BY <2>1 DEF TypeOK
  <2>5. fd' \in [Socks -> FDs \cup {None}]
    BY <2>1 DEF TypeOK
  <2>6. watch' \in [FDs -> {"off", "armed", "disarmed"}]
    BY <2>1 DEF TypeOK
  <2>7. QED
    BY <1>6, <2>2, <2>3, <2>4, <2>5, <2>6
    DEF TypeOK, Accept, workerVars, closerVars
<1>7. CASE AcceptFail
  BY <1>7 DEF TypeOK, AcceptFail, Shut, mainVars, workerVars, closerVars
<1>8. ASSUME NEW f \in FDs, Check(f) PROVE TypeOK'
  BY <1>8 DEF TypeOK, Check, mainVars, workerVars, closerVars
<1>9. CASE Dispatch
  <2>1. CASE Known(pool, cur)
    <3>1. cur \in FDs /\ pool \in Pools
      BY <1>9 DEF Dispatch, TypeOK
    <3>2. pool.table[cur] \in Socks
      BY <2>1, <3>1 DEF Known, Pools
    <3>3. pool' \in Pools
      BY <1>9, <2>1, <3>1, SetInUseFacts DEF Dispatch
    <3> jobs \in Seq(Socks)
      BY DEF TypeOK
    <3> jobs' = Append(jobs, pool.table[cur])
      BY <1>9, <2>1 DEF Dispatch
    <3>4. jobs' \in Seq(Socks)
      BY <3>2
    <3>5. loop' \in {"top", "events"} /\ batch' = batch \ {cur} /\ cur' = None
      BY <1>9, <2>1 DEF Dispatch, LoopAfter, Handled
    <3>6. QED
      BY <1>9, <3>3, <3>4, <3>5
      DEF TypeOK, Dispatch, workerVars, closerVars
  <2>2. CASE ~Known(pool, cur)
    BY <1>9, <2>2 DEF TypeOK, Dispatch, workerVars, closerVars
  <2>3. QED
    BY <2>1, <2>2
<1>10. ASSUME NEW w \in Workers, Take(w) PROVE TypeOK'
  BY <1>10, ClientSocketPoolAssumption
  DEF TypeOK, Take, Goto, mainVars, workerVars, closerVars
<1>11. ASSUME NEW w \in Workers, Read(w) PROVE TypeOK'
  BY <1>11 DEF TypeOK, Read, Goto, Outcomes, mainVars, workerVars, closerVars
<1>12. ASSUME NEW w \in Workers, Keep(w) PROVE TypeOK'
  <2>1. fd[cs[w]] \in FDs /\ pool \in Pools
    BY <1>12 DEF TypeOK, Traced, Accepted, Keep
  <2>2. pool' \in Pools
    BY <1>12, <2>1, SetPendingFacts DEF Keep
  <2>3. \/ Leave(w) \/ Fail(w)
        \/ Goto(w, "rearming") /\ UNCHANGED <<cs, excepted>>
    BY <1>12 DEF Keep
  <2>4. /\ wpc' \in [Workers -> WorkerStates]
        /\ cs' \in [Workers -> Socks \cup {None}]
        /\ \A x \in Workers : cs'[x] = None <=> wpc'[x] = "idle"
        /\ excepted' \subseteq Workers
    <3>1. CASE Leave(w)
      BY <1>12, <3>1 DEF TypeOK, Keep, Leave, Goto
    <3>2. CASE w \notin excepted /\ Fail(w)
      BY <1>12, <3>2 DEF TypeOK, Keep, Fail, Goto
    <3>3. CASE Goto(w, "rearming") /\ UNCHANGED <<cs, excepted>>
      BY <1>12, <3>3 DEF TypeOK, Keep, Goto
    <3>4. QED
      BY <2>3, <3>1, <3>2, <3>3 DEF Fail
  <2>5. QED
    BY <1>12, <2>2, <2>4 DEF TypeOK, Keep, mainVars, closerVars
<1>13. ASSUME NEW w \in Workers, Drop(w) PROVE TypeOK'
  BY <1>13 DEF TypeOK, Drop, Goto, mainVars, workerVars, closerVars
<1>14. ASSUME NEW w \in Workers, Rearm(w) PROVE TypeOK'
  <2>1. watch' \in [FDs -> {"off", "armed", "disarmed"}]
    BY <1>14 DEF TypeOK, Rearm, Rearmed
  <2>2. Leave(w) \/ Fail(w)
    BY <1>14 DEF Rearm
  <2>3. /\ wpc' \in [Workers -> WorkerStates]
        /\ cs' \in [Workers -> Socks \cup {None}]
        /\ \A x \in Workers : cs'[x] = None <=> wpc'[x] = "idle"
        /\ excepted' \subseteq Workers
    <3>1. CASE Leave(w)
      BY <1>14, <3>1 DEF TypeOK, Rearm, Leave, Goto
    <3>2. CASE w \notin excepted /\ Fail(w)
      <4>1. /\ wpc' = [wpc EXCEPT ![w] = "deleting"]
            /\ excepted' = excepted \cup {w}
            /\ cs' = cs
        BY <3>2 DEF Fail, Goto
      <4>2. wpc[w] = "rearming"
        BY <1>14 DEF Rearm
      <4>3. QED
        BY <4>1, <4>2 DEF TypeOK
    <3>3. CASE w \in excepted /\ Fail(w)
      <4>1. Leave(w)
        BY <3>3 DEF Fail
      <4>2. QED
        BY <3>1, <4>1
    <3>4. QED
      BY <2>2, <3>1, <3>2, <3>3
  <2>4. QED
    BY <1>14, <2>1, <2>3 DEF TypeOK, Rearm, mainVars, closerVars
<1>15. ASSUME NEW w \in Workers, DeleteSocket(w) PROVE TypeOK'
  <2>1. fd[cs[w]] \in FDs /\ pool \in Pools
    BY <1>15 DEF TypeOK, Traced, Accepted, DeleteSocket
  <2>2. pool' \in Pools
    BY <1>15, <2>1, DeleteFacts DEF DeleteSocket
  <2>3. \/ Leave(w) \/ Fail(w)
        \/ Goto(w, "unregistering") /\ UNCHANGED <<cs, excepted>>
    BY <1>15 DEF DeleteSocket
  <2>4. /\ wpc' \in [Workers -> WorkerStates]
        /\ cs' \in [Workers -> Socks \cup {None}]
        /\ \A x \in Workers : cs'[x] = None <=> wpc'[x] = "idle"
        /\ excepted' \subseteq Workers
    <3>1. CASE Leave(w)
      BY <1>15, <3>1 DEF TypeOK, DeleteSocket, Leave, Goto
    <3>2. CASE w \notin excepted /\ Fail(w)
      BY <1>15, <3>2 DEF TypeOK, DeleteSocket, Fail, Goto
    <3>3. CASE Goto(w, "unregistering") /\ UNCHANGED <<cs, excepted>>
      BY <1>15, <3>3 DEF TypeOK, DeleteSocket, Goto
    <3>4. QED
      BY <2>3, <3>1, <3>2, <3>3 DEF Fail
  <2>5. QED
    BY <1>15, <2>2, <2>4 DEF TypeOK, DeleteSocket, mainVars, closerVars
<1>16. ASSUME NEW w \in Workers, Unregister(w) PROVE TypeOK'
  <2>1. watch' \in [FDs -> {"off", "armed", "disarmed"}]
    BY <1>16 DEF TypeOK, Unregister
  <2>2. \/ Leave(w) \/ Fail(w)
        \/ Goto(w, "closing") /\ UNCHANGED <<cs, excepted>>
    BY <1>16 DEF Unregister
  <2>3. /\ wpc' \in [Workers -> WorkerStates]
        /\ cs' \in [Workers -> Socks \cup {None}]
        /\ \A x \in Workers : cs'[x] = None <=> wpc'[x] = "idle"
        /\ excepted' \subseteq Workers
    <3>1. CASE Leave(w)
      BY <1>16, <3>1 DEF TypeOK, Unregister, Leave, Goto
    <3>2. CASE w \notin excepted /\ Fail(w)
      BY <1>16, <3>2 DEF TypeOK, Unregister, Fail, Goto
    <3>3. CASE Goto(w, "closing") /\ UNCHANGED <<cs, excepted>>
      BY <1>16, <3>3 DEF TypeOK, Unregister, Goto
    <3>4. QED
      BY <2>2, <3>1, <3>2, <3>3 DEF Fail
  <2>4. QED
    BY <1>16, <2>1, <2>3 DEF TypeOK, Unregister, mainVars, closerVars
<1>17. ASSUME NEW w \in Workers, CloseSocket(w) PROVE TypeOK'
  BY <1>17
  DEF TypeOK, CloseSocket, Goto, Leave, Shut, WatchWithout, mainVars,
      workerVars, closerVars
<1>18. CASE CloserUnregister
  <2>1. Head(evicted) \in Socks /\ evicted' \in Seq(Socks)
    BY <1>18 DEF TypeOK, CloserUnregister
  <2>2. watch' \in [FDs -> {"off", "armed", "disarmed"}]
    BY <1>18 DEF TypeOK, CloserUnregister
  <2>3. closing' \in Socks \cup {None} /\ closer' \in BOOLEAN
    BY <1>18, <2>1 DEF TypeOK, CloserUnregister
  <2>4. QED
    BY <1>18, <2>1, <2>2, <2>3
    DEF TypeOK, CloserUnregister, mainVars, workerVars
<1>19. CASE CloserClose
  BY <1>19
  DEF TypeOK, CloserClose, Shut, WatchWithout, mainVars, workerVars,
      closerVars
<1>20. QED
  BY <1>1, <1>2, <1>3, <1>4, <1>5, <1>6, <1>7, <1>8, <1>9, <1>10, <1>11, <1>12,
     <1>13, <1>14, <1>15, <1>16, <1>17, <1>18, <1>19
  DEF Next, MainStep, WorkerStep, CloserStep

-----------------------------------------------------------------------------
(* What a step does to the sockets and to the table.                       *)

\* Besides accept() a step leaves the sockets alone, moves one that was not
\* accepted yet, or closes one that is not in the pool.
LEMMA SockEffect ==
  ASSUME TypeOK, Traced, Removed, Next
  PROVE  \/ UNCHANGED <<sock, fd>>
         \/ Accept
         \/ /\ UNCHANGED fd
            /\ \E s \in Socks, v \in {"queued", "closed"} :
                 /\ sock[s] \in {"new", "queued"}
                 /\ sock' = [sock EXCEPT ![s] = v]
         \/ /\ UNCHANGED fd
            /\ \E s \in Socks :
                 /\ Untabled(s)
                 /\ sock' = [sock EXCEPT ![s] = "closed"]
<1>1. ASSUME NEW s \in Socks, Dial(s)
      PROVE  /\ UNCHANGED fd
             /\ sock[s] \in {"new", "queued"}
             /\ sock' = [sock EXCEPT ![s] = "queued"]
  BY <1>1 DEF Dial
<1>2. ASSUME AcceptFail
      PROVE  /\ UNCHANGED fd
             /\ \E s \in Socks : /\ sock[s] \in {"new", "queued"}
                                 /\ sock' = [sock EXCEPT ![s] = "closed"]
  BY <1>2 DEF AcceptFail, Shut
<1>3. ASSUME NEW w \in Workers, CloseSocket(w)
      PROVE  /\ UNCHANGED fd
             /\ cs[w] \in Socks
             /\ Untabled(cs[w])
             /\ sock' = [sock EXCEPT ![cs[w]] = "closed"]
  BY <1>3 DEF CloseSocket, Shut, TypeOK, Removed
<1>4. ASSUME CloserClose
      PROVE  /\ UNCHANGED fd
             /\ closing \in Socks
             /\ Untabled(closing)
             /\ sock' = [sock EXCEPT ![closing] = "closed"]
  BY <1>4 DEF CloserClose, Shut, TypeOK, Removed
<1>5. \/ UNCHANGED <<sock, fd>>
      \/ Accept \/ AcceptFail \/ CloserClose
      \/ \E s \in Socks : Dial(s)
      \/ \E w \in Workers : CloseSocket(w)
  BY DEF Next, MainStep, WorkerStep, CloserStep, Say, Measure, Evict, Poll,
         Check, Dispatch, Take, Read, Keep, Drop, Rearm, DeleteSocket,
         Unregister, CloserUnregister
<1>6. QED
  BY <1>1, <1>2, <1>3, <1>4, <1>5

\* Besides accept() a step adds nothing to the table.
LEMMA TableEffect ==
  ASSUME TypeOK, Traced, Next, ~Accept
  PROVE  \A f \in FDs : pool'.table[f] \in {pool.table[f], None}
<1>1. pool \in Pools
  BY DEF TypeOK
<1>2. CASE Evict
  <2>1. CASE pool.tail # None /\ Known(pool, fd[pool.tail])
    <3>1. pool.tail \in Socks
      BY <1>1, <2>1 DEF Pools
    <3>2. fd[pool.tail] \in FDs /\ pool' = PopTail(pool, fd[pool.tail])
      BY <1>2, <2>1, <3>1 DEF Traced, Accepted, Evict
    <3>3. pool'.table = [pool.table EXCEPT ![fd[pool.tail]] = None]
      BY <1>1, <2>1, <3>2, PopTailFacts
    <3>4. QED
      BY <1>1, <3>2, <3>3 DEF Pools
  <2>2. CASE ~(pool.tail # None /\ Known(pool, fd[pool.tail]))
    BY <1>2, <2>2 DEF Evict
  <2>3. QED
    BY <2>1, <2>2
<1>3. CASE Dispatch
  <2>1. cur \in FDs
    BY <1>3 DEF Dispatch, TypeOK
  <2>2. CASE Known(pool, cur)
    BY <1>1, <1>3, <2>1, <2>2, SetInUseFacts DEF Dispatch
  <2>3. CASE ~Known(pool, cur)
    BY <1>3, <2>3 DEF Dispatch
  <2>4. QED
    BY <2>2, <2>3
<1>4. ASSUME NEW w \in Workers, Keep(w)
      PROVE  pool'.table = pool.table
  <2>1. fd[cs[w]] \in FDs
    BY <1>4 DEF Keep, TypeOK, Traced, Accepted
  <2>2. CASE Known(pool, fd[cs[w]])
    BY <1>1, <1>4, <2>1, <2>2, SetPendingFacts DEF Keep
  <2>3. CASE ~Known(pool, fd[cs[w]])
    BY <1>4, <2>3 DEF Keep
  <2>4. QED
    BY <2>2, <2>3
<1>5. ASSUME NEW w \in Workers, DeleteSocket(w)
      PROVE  \A f \in FDs : pool'.table[f] \in {pool.table[f], None}
  <2>1. fd[cs[w]] \in FDs
    BY <1>5 DEF DeleteSocket, TypeOK, Traced, Accepted
  <2>2. CASE Known(pool, fd[cs[w]])
    <3>1. pool'.table = [pool.table EXCEPT ![fd[cs[w]]] = None]
      BY <1>1, <1>5, <2>1, <2>2, DeleteFacts DEF DeleteSocket
    <3>2. QED
      BY <1>1, <2>1, <3>1 DEF Pools
  <2>3. CASE ~Known(pool, fd[cs[w]])
    BY <1>5, <2>3 DEF DeleteSocket
  <2>4. QED
    BY <2>2, <2>3
<1>6. \/ UNCHANGED pool
      \/ Evict \/ Dispatch
      \/ \E w \in Workers : Keep(w) \/ DeleteSocket(w)
  BY DEF Next, MainStep, WorkerStep, CloserStep, Dial, Say, Measure, Poll,
         AcceptFail, Check, Take, Read, Drop, Rearm, Unregister, CloseSocket,
         CloserUnregister, CloserClose
<1>7. QED
  BY <1>2, <1>3, <1>4, <1>5, <1>6

\* What accept() does.
LEMMA AcceptEffect ==
  ASSUME TypeOK, Accept
  PROVE  \E s \in Socks, f \in FDs :
           /\ sock[s] = "queued"
           /\ sock' = [sock EXCEPT ![s] = "open"]
           /\ fd' = [fd EXCEPT ![s] = f]
           /\ pool'.table = [pool.table EXCEPT ![f] = s]
           /\ pool'.tail \in {pool.tail, s}
           /\ \A x \in Socks : pool'.prev[x] \in {pool.prev[x], s}
<1>1. pool \in Pools
  BY DEF TypeOK
<1>2. PICK s \in Socks, f \in FDs :
        /\ sock[s] = "queued"
        /\ sock' = [sock EXCEPT ![s] = "open"]
        /\ fd' = [fd EXCEPT ![s] = f]
        /\ pool' = AddPending(pool, f, s)
  BY DEF Accept
<1>3. /\ pool'.table = [pool.table EXCEPT ![f] = s]
      /\ pool'.tail \in {pool.tail, s}
      /\ \A x \in Socks : pool'.prev[x] \in {pool.prev[x], s}
  BY <1>1, <1>2, AddPendingFacts
<1>4. QED
  BY <1>2, <1>3

\* A socket that was accepted stays so.
LEMMA AcceptedForGood ==
  ASSUME TypeOK, Traced, Removed, Next, NEW s \in Socks, Accepted(s)
  PROVE  Accepted(s)'
<1>1. CASE Accept
  <2>1. PICK x \in Socks, f \in FDs :
          /\ sock' = [sock EXCEPT ![x] = "open"]
          /\ fd' = [fd EXCEPT ![x] = f]
    BY <1>1, AcceptEffect
  <2>2. QED
    BY <2>1 DEF TypeOK, Accepted
<1>2. CASE ~Accept
  BY <1>2, SockEffect DEF TypeOK, Accepted
<1>3. QED
  BY <1>1, <1>2

\* A socket that left the pool never returns to it.
LEMMA UntabledForGood ==
  ASSUME TypeOK, Traced, Next, NEW s \in Socks, Accepted(s), Untabled(s)
  PROVE  Untabled(s)'
<1>1. CASE Accept
  <2>1. PICK x \in Socks, f \in FDs :
          /\ sock[x] = "queued"
          /\ pool'.table = [pool.table EXCEPT ![f] = x]
    BY <1>1, AcceptEffect
  <2>2. x # s
    BY <2>1 DEF Accepted
  <2>3. QED
    BY <2>1, <2>2 DEF Untabled, TypeOK, Pools
<1>2. CASE ~Accept
  BY <1>2, TableEffect, ClientSocketPoolAssumption DEF Untabled
<1>3. QED
  BY <1>1, <1>2

-----------------------------------------------------------------------------
(* Each step keeps the parts of the invariant.                             *)

\* The table leads to open sockets of the right descriptor only.
LEMMA TableStep ==
  ASSUME TypeOK, TableIsOpen, Traced, Removed, Next
  PROVE  TableIsOpen'
<1>1. CASE Accept
  <2>1. PICK s \in Socks, f \in FDs :
          /\ sock[s] = "queued"
          /\ sock' = [sock EXCEPT ![s] = "open"]
          /\ fd' = [fd EXCEPT ![s] = f]
          /\ pool'.table = [pool.table EXCEPT ![f] = s]
    BY <1>1, AcceptEffect
  <2> SUFFICES ASSUME NEW g \in FDs, Known(pool, g)'
               PROVE  Owns(pool.table[g], g)'
    BY DEF TableIsOpen
  <2>2. CASE g = f
    BY <2>1, <2>2 DEF Owns, TypeOK, Pools
  <2>3. CASE g # f
    <3>1. pool'.table[g] = pool.table[g] /\ Known(pool, g)
      BY <2>1, <2>3 DEF Known, TypeOK, Pools
    <3>2. Owns(pool.table[g], g) /\ pool.table[g] \in Socks
      BY <3>1 DEF TableIsOpen, Known, TypeOK, Pools
    <3>3. QED
      BY <2>1, <3>1, <3>2 DEF Owns, TypeOK
  <2>4. QED
    BY <2>2, <2>3
<1>2. CASE ~Accept
  <2> SUFFICES ASSUME NEW g \in FDs, Known(pool, g)'
               PROVE  Owns(pool.table[g], g)'
    BY DEF TableIsOpen
  <2>1. pool'.table[g] = pool.table[g] /\ Known(pool, g)
    BY <1>2, TableEffect DEF Known
  <2>2. Owns(pool.table[g], g) /\ pool.table[g] \in Socks
    BY <2>1 DEF TableIsOpen, Known, TypeOK, Pools
  <2>3. sock'[pool.table[g]] = "open" /\ fd' = fd
    <3>1. CASE UNCHANGED <<sock, fd>>
      BY <2>2, <3>1 DEF Owns
    <3>2. ASSUME NEW s \in Socks, NEW v \in {"queued", "closed"},
                 sock[s] \in {"new", "queued"},
                 sock' = [sock EXCEPT ![s] = v], UNCHANGED fd
          PROVE  sock'[pool.table[g]] = "open" /\ fd' = fd
      BY <2>2, <3>2 DEF Owns, TypeOK
    <3>3. ASSUME NEW s \in Socks, Untabled(s),
                 sock' = [sock EXCEPT ![s] = "closed"], UNCHANGED fd
          PROVE  sock'[pool.table[g]] = "open" /\ fd' = fd
      BY <2>2, <3>3 DEF Owns, TypeOK, Untabled
    <3>4. QED
      BY <1>2, <3>1, <3>2, <3>3, SockEffect
  <2>4. QED
    BY <2>1, <2>2, <2>3 DEF Owns
<1>3. QED
  BY <1>1, <1>2

\* The list leads to accepted sockets only.
LEMMA ListStep ==
  ASSUME TypeOK, TableIsOpen, Traced, Removed, Next
  PROVE  /\ (pool.tail # None => Accepted(pool.tail))'
         /\ (\A s \in Socks : pool.prev[s] # None => Accepted(pool.prev[s]))'
<1>1. pool \in Pools
  BY DEF TypeOK
<1>2. /\ pool.tail # None => pool.tail \in Socks /\ Accepted(pool.tail)
      /\ \A x \in Socks :
           pool.prev[x] # None => pool.prev[x] \in Socks /\ Accepted(pool.prev[x])
  BY <1>1 DEF Pools, Traced
<1>3. ASSUME NEW f \in FDs, Known(pool, f)
      PROVE  pool.table[f] \in Socks /\ Accepted(pool.table[f])
  BY <1>1, <1>3 DEF TableIsOpen, Owns, Accepted, Known, Pools
<1> DEFINE Old(x) == x = None \/ (x \in Socks /\ Accepted(x))
<1>4. ASSUME NEW x, Old(x), x # None
      PROVE  Accepted(x)'
  BY <1>4, AcceptedForGood
<1>5. CASE Accept
  <2>1. PICK s \in Socks, f \in FDs :
          /\ sock' = [sock EXCEPT ![s] = "open"]
          /\ fd' = [fd EXCEPT ![s] = f]
          /\ pool'.tail \in {pool.tail, s}
          /\ \A x \in Socks : pool'.prev[x] \in {pool.prev[x], s}
    BY <1>5, AcceptEffect
  <2>2. Accepted(s)'
    BY <2>1 DEF Accepted, TypeOK
  <2>3. ASSUME NEW x, x = s \/ Old(x), x # None
        PROVE  Accepted(x)'
    BY <1>4, <2>2, <2>3
  <2> HIDE DEF Old
  <2>4. Old(pool.tail) /\ \A x \in Socks : Old(pool.prev[x])
    BY <1>2 DEF Old
  <2>5. QED
    BY <2>1, <2>3, <2>4 DEF Accepted
<1>6. ASSUME UNCHANGED pool
      PROVE  Old(pool'.tail) /\ \A x \in Socks : Old(pool'.prev[x])
  BY <1>2, <1>6
<1>7. ASSUME Evict
      PROVE  Old(pool'.tail) /\ \A x \in Socks : Old(pool'.prev[x])
  <2>1. CASE pool.tail # None /\ Known(pool, fd[pool.tail])
    <3>1. pool.tail \in Socks /\ fd[pool.tail] \in FDs
      BY <1>2, <2>1 DEF Accepted
    <3>2. pool' = PopTail(pool, fd[pool.tail])
      BY <1>7, <2>1 DEF Evict
    <3>3. pool'.tail = pool.prev[pool.tail] /\ pool'.prev = pool.prev
      BY <1>1, <2>1, <3>1, <3>2, PopTailFacts
    <3>4. QED
      BY <1>2, <3>1, <3>3
  <2>2. CASE ~(pool.tail # None /\ Known(pool, fd[pool.tail]))
    BY <1>2, <1>7, <2>2 DEF Evict
  <2>3. QED
    BY <2>1, <2>2
<1>8. ASSUME Dispatch
      PROVE  Old(pool'.tail) /\ \A x \in Socks : Old(pool'.prev[x])
  <2>1. CASE Known(pool, cur)
    <3>1. cur \in FDs /\ pool.table[cur] \in Socks
      BY <1>3, <1>8, <2>1 DEF Dispatch, TypeOK
    <3>2. /\ pool'.prev = pool.prev
          /\ pool'.tail \in {None, pool.prev[pool.table[cur]]}
      BY <1>1, <1>8, <2>1, <3>1, SetInUseFacts DEF Dispatch
    <3>3. QED
      BY <1>2, <3>1, <3>2
  <2>2. CASE ~Known(pool, cur)
    BY <1>2, <1>8, <2>2 DEF Dispatch
  <2>3. QED
    BY <2>1, <2>2
<1>9. ASSUME NEW w \in Workers, Keep(w)
      PROVE  Old(pool'.tail) /\ \A x \in Socks : Old(pool'.prev[x])
  <2> DEFINE f == fd[cs[w]]
  <2>1. CASE Known(pool, f)
    <3>1. f \in FDs
      BY <1>9 DEF Keep, TypeOK, Traced, Accepted
    <3>2. pool' = SetPending(pool, f)
      BY <1>9, <2>1 DEF Keep
    <3> HIDE DEF f
    <3>3. /\ pool'.tail \in {pool.tail, pool.table[f]}
          /\ \A x \in Socks : pool'.prev[x] \in {pool.prev[x], None, pool.table[f]}
      BY <1>1, <2>1, <3>1, <3>2, SetPendingFacts
    <3>4. Old(pool.table[f])
      BY <1>3, <2>1, <3>1
    <3>5. QED
      BY <1>2, <3>3, <3>4
  <2>2. CASE ~Known(pool, f)
    BY <1>2, <1>9, <2>2 DEF Keep
  <2>3. QED
    BY <2>1, <2>2
<1>10. ASSUME NEW w \in Workers, DeleteSocket(w)
       PROVE  Old(pool'.tail) /\ \A x \in Socks : Old(pool'.prev[x])
  <2>1. fd[cs[w]] \in FDs
    BY <1>10 DEF DeleteSocket, TypeOK, Traced, Accepted
  <2>2. pool'.tail = pool.tail /\ pool'.prev = pool.prev
    BY <1>1, <1>10, <2>1, DeleteFacts DEF DeleteSocket
  <2>3. QED
    BY <1>2, <2>2
<1>11. \/ UNCHANGED pool
       \/ Accept \/ Evict \/ Dispatch
       \/ \E w \in Workers : Keep(w) \/ DeleteSocket(w)
  BY DEF Next, MainStep, WorkerStep, CloserStep, Dial, Say, Measure, Poll,
         AcceptFail, Check, Take, Read, Drop, Rearm, Unregister, CloseSocket,
         CloserUnregister, CloserClose
<1>12. Accept \/ (Old(pool'.tail) /\ \A x \in Socks : Old(pool'.prev[x]))
  BY <1>6, <1>7, <1>8, <1>9, <1>10, <1>11
<1> HIDE DEF Old
<1>13. QED
  BY <1>4, <1>5, <1>12 DEF Accepted

\* Whatever is queued, held or listed was accepted.
LEMMA TracedStep ==
  ASSUME TypeOK, TableIsOpen, Traced, Removed, Next
  PROVE  Traced'
<1>1. ASSUME NEW s \in Socks, Accepted(s)
      PROVE  Accepted(s)'
  BY <1>1, AcceptedForGood
<1>2. /\ jobs \in Seq(Socks) /\ evicted \in Seq(Socks)
      /\ cs \in [Workers -> Socks \cup {None}] /\ closing \in Socks \cup {None}
  BY DEF TypeOK
<1>3. (\A w \in Workers : cs[w] # None => Accepted(cs[w]))'
  <2> SUFFICES ASSUME NEW w \in Workers, cs'[w] # None
               PROVE  Accepted(cs[w])'
    OBVIOUS
  <2>1. CASE cs'[w] = cs[w]
    BY <1>1, <1>2, <2>1 DEF Traced, Accepted
  <2>2. CASE jobs # <<>> /\ cs'[w] = jobs[1]
    <3>1. jobs[1] \in Socks /\ Accepted(jobs[1])
      BY <1>2, <2>2 DEF Traced
    <3>2. QED
      BY <1>1, <2>2, <3>1 DEF Accepted
  <2>3. ASSUME NEW v \in Workers, Take(v)
        PROVE  cs'[w] = cs[w] \/ (jobs # <<>> /\ cs'[w] = jobs[1])
    BY <1>2, <2>3 DEF Take
  <2>4. ASSUME NEW v \in Workers, Leave(v)
        PROVE  cs'[w] = cs[w]
    BY <1>2, <2>4 DEF Leave
  <2>5. UNCHANGED cs \/ \E v \in Workers : Take(v) \/ Leave(v)
    BY DEF Next, MainStep, WorkerStep, CloserStep, Dial, Say, Measure, Evict,
           Poll, Accept, AcceptFail, Check, Dispatch, Read, Keep, Drop, Rearm,
           DeleteSocket, Unregister, CloseSocket, CloserUnregister,
           CloserClose, workerVars, Fail
  <2>6. QED
    BY <2>1, <2>2, <2>3, <2>4, <2>5
<1>4. (\A i \in 1 .. Len(jobs) : Accepted(jobs[i]))'
  <2>1. CASE UNCHANGED jobs
    BY <1>1, <1>2, <2>1 DEF Traced, Accepted
  <2>2. CASE jobs # <<>> /\ jobs' = Tail(jobs)
    <3> SUFFICES ASSUME NEW i \in 1 .. Len(jobs')
                 PROVE  Accepted(jobs[i])'
      OBVIOUS
    <3>1. i + 1 \in 1 .. Len(jobs) /\ jobs'[i] = jobs[i + 1]
      BY <1>2, <2>2
    <3>2. jobs[i + 1] \in Socks /\ Accepted(jobs[i + 1])
      BY <1>2, <3>1 DEF Traced
    <3>3. QED
      BY <1>1, <3>1, <3>2 DEF Accepted
  <2>3. CASE Dispatch /\ Known(pool, cur)
    <3>1. /\ pool.table[cur] \in Socks
          /\ Accepted(pool.table[cur])
          /\ jobs' = Append(jobs, pool.table[cur])
      BY <2>3 DEF Dispatch, TableIsOpen, Owns, Accepted, Known, TypeOK, Pools
    <3> SUFFICES ASSUME NEW i \in 1 .. Len(jobs')
                 PROVE  Accepted(jobs[i])'
      OBVIOUS
    <3>2. \/ i \in 1 .. Len(jobs) /\ jobs'[i] = jobs[i]
          \/ jobs'[i] = pool.table[cur]
      BY <1>2, <3>1
    <3>3. jobs'[i] \in Socks /\ Accepted(jobs'[i])
      BY <1>2, <3>1, <3>2 DEF Traced
    <3>4. QED
      BY <1>1, <3>3 DEF Accepted
  <2>4. QED
    BY <2>1, <2>2, <2>3
    DEF Next, MainStep, WorkerStep, CloserStep, Dial, Say, Measure, Evict,
        Poll, Accept, AcceptFail, Check, Dispatch, Take, Read, Keep, Drop,
        Rearm, DeleteSocket, Unregister, CloseSocket, CloserUnregister,
        CloserClose
<1>5. (\A i \in 1 .. Len(evicted) : Accepted(evicted[i]))'
  <2>1. CASE UNCHANGED evicted
    BY <1>1, <1>2, <2>1 DEF Traced, Accepted
  <2>2. CASE evicted # <<>> /\ evicted' = Tail(evicted)
    <3> SUFFICES ASSUME NEW i \in 1 .. Len(evicted')
                 PROVE  Accepted(evicted[i])'
      OBVIOUS
    <3>1. i + 1 \in 1 .. Len(evicted) /\ evicted'[i] = evicted[i + 1]
      BY <1>2, <2>2
    <3>2. evicted[i + 1] \in Socks /\ Accepted(evicted[i + 1])
      BY <1>2, <3>1 DEF Traced
    <3>3. QED
      BY <1>1, <3>1, <3>2 DEF Accepted
  <2>3. CASE pool.tail # None /\ evicted' = Append(evicted, pool.tail)
    <3>1. pool.tail \in Socks /\ Accepted(pool.tail)
      BY <2>3 DEF Traced, TypeOK, Pools
    <3> SUFFICES ASSUME NEW i \in 1 .. Len(evicted')
                 PROVE  Accepted(evicted[i])'
      OBVIOUS
    <3>2. \/ i \in 1 .. Len(evicted) /\ evicted'[i] = evicted[i]
          \/ evicted'[i] = pool.tail
      BY <1>2, <2>3, <3>1
    <3>3. evicted'[i] \in Socks /\ Accepted(evicted'[i])
      BY <1>2, <3>1, <3>2 DEF Traced
    <3>4. QED
      BY <1>1, <3>3 DEF Accepted
  <2>4. QED
    BY <2>1, <2>2, <2>3
    DEF Next, MainStep, WorkerStep, CloserStep, Dial, Say, Measure, Evict,
        Poll, Accept, AcceptFail, Check, Dispatch, Take, Read, Keep, Drop,
        Rearm, DeleteSocket, Unregister, CloseSocket, CloserUnregister,
        CloserClose, closerVars
<1>6. (closing # None => Accepted(closing))'
  <2>1. CASE UNCHANGED closing
    BY <1>1, <1>2, <2>1 DEF Traced, Accepted
  <2>2. CASE evicted # <<>> /\ closing' = Head(evicted)
    <3>1. closing' = evicted[1] /\ evicted[1] \in Socks /\ Accepted(evicted[1])
      BY <1>2, <2>2 DEF Traced
    <3>2. QED
      BY <1>1, <3>1 DEF Accepted
  <2>3. CASE closing' = None
    BY <2>3
  <2>4. QED
    BY <2>1, <2>2, <2>3
    DEF Next, MainStep, WorkerStep, CloserStep, Dial, Say, Measure, Evict,
        Poll, Accept, AcceptFail, Check, Dispatch, Take, Read, Keep, Drop,
        Rearm, DeleteSocket, Unregister, CloseSocket, CloserUnregister,
        CloserClose, closerVars
<1>7. QED
  BY <1>3, <1>4, <1>5, <1>6, ListStep DEF Traced

\* What is being closed has left the pool.
LEMMA RemovedStep ==
  ASSUME TypeOK, TableIsOpen, Traced, Removed, Next
  PROVE  Removed'
<1>1. ASSUME NEW s \in Socks, Accepted(s), Untabled(s)
      PROVE  Untabled(s)'
  BY <1>1, UntabledForGood
<1>2. /\ evicted \in Seq(Socks)
      /\ cs \in [Workers -> Socks \cup {None}] /\ closing \in Socks \cup {None}
      /\ wpc \in [Workers -> WorkerStates]
      /\ \A w \in Workers : cs[w] = None <=> wpc[w] = "idle"
      /\ pool \in Pools
  BY DEF TypeOK
<1>3. (\A w \in Workers :
         wpc[w] \in {"unregistering", "closing"} => Untabled(cs[w]))'
  <2> SUFFICES ASSUME NEW w \in Workers, wpc'[w] \in {"unregistering", "closing"}
               PROVE  Untabled(cs[w])'
    OBVIOUS
  <2>1. CASE wpc[w] \in {"unregistering", "closing"} /\ cs'[w] = cs[w]
    <3>1. cs[w] \in Socks /\ Accepted(cs[w]) /\ Untabled(cs[w])
      BY <1>2, <2>1 DEF Traced, Removed
    <3>2. QED
      BY <1>1, <2>1, <3>1 DEF Untabled
  <2>2. CASE DeleteSocket(w) /\ Known(pool, fd[cs[w]])
    <3>1. cs[w] \in Socks /\ fd[cs[w]] \in FDs
      BY <1>2, <2>2 DEF DeleteSocket, Traced, Accepted
    <3>2. pool'.table = [pool.table EXCEPT ![fd[cs[w]]] = None] /\ cs' = cs
      BY <1>2, <2>2, <3>1, DeleteFacts DEF DeleteSocket
    <3>3. \A f \in FDs : pool.table[f] = cs[w] => f = fd[cs[w]]
      BY <3>1, ClientSocketPoolAssumption DEF TableIsOpen, Owns, Known
    <3>4. QED
      BY <1>2, <3>1, <3>2, <3>3, ClientSocketPoolAssumption DEF Untabled, Pools
  <2>3. \/ wpc[w] \in {"unregistering", "closing"} /\ cs'[w] = cs[w]
        \/ DeleteSocket(w) /\ Known(pool, fd[cs[w]])
    <3>1. ASSUME NEW v \in Workers, WorkerStep(v), v # w
          PROVE  wpc'[w] = wpc[w] /\ cs'[w] = cs[w]
      BY <1>2, <3>1 DEF WorkerStep, Take, Read, Keep, Drop, Rearm,
         DeleteSocket, Unregister, CloseSocket, Goto, Leave, Fail
    <3>2. CASE Take(w)
      BY <1>2, <3>2 DEF Take, Goto
    <3>3. CASE Read(w)
      BY <1>2, <3>3 DEF Read, Goto, Outcomes
    <3>4. CASE Keep(w)
      BY <1>2, <3>4 DEF Keep, Goto, Leave, Fail
    <3>5. CASE Drop(w)
      BY <1>2, <3>5 DEF Drop, Goto
    <3>6. CASE Rearm(w)
      BY <1>2, <3>6 DEF Rearm, Goto, Leave, Fail
    <3>7. CASE DeleteSocket(w)
      BY <1>2, <3>7 DEF DeleteSocket, Goto, Leave, Fail
    <3>8. CASE Unregister(w)
      BY <1>2, <3>8 DEF Unregister, Goto, Leave, Fail
    <3>9. CASE CloseSocket(w)
      BY <1>2, <3>9 DEF CloseSocket, Goto, Leave
    <3>10. CASE UNCHANGED workerVars
      BY <3>10 DEF workerVars
    <3>11. UNCHANGED workerVars \/ \E v \in Workers : WorkerStep(v)
      BY DEF Next, MainStep, CloserStep, Dial, Say, Measure, Evict, Poll,
             Accept, AcceptFail, Check, Dispatch, CloserUnregister, CloserClose
    <3>12. WorkerStep(w) => \/ Take(w) \/ Read(w) \/ Keep(w) \/ Drop(w)
                            \/ Rearm(w) \/ DeleteSocket(w) \/ Unregister(w)
                            \/ CloseSocket(w)
      BY DEF WorkerStep
    <3>13. QED
      BY <3>1, <3>2, <3>3, <3>4, <3>5, <3>6, <3>7, <3>8, <3>9, <3>10, <3>11,
         <3>12
  <2>4. QED
    BY <2>1, <2>2, <2>3
<1>4. (\A i \in 1 .. Len(evicted) : Untabled(evicted[i]))'
  <2> SUFFICES ASSUME NEW i \in 1 .. Len(evicted')
               PROVE  Untabled(evicted[i])'
    OBVIOUS
  <2>1. ASSUME NEW j \in 1 .. Len(evicted), evicted'[i] = evicted[j]
        PROVE  Untabled(evicted[i])'
    <3>1. /\ evicted[j] \in Socks
          /\ Accepted(evicted[j])
          /\ Untabled(evicted[j])
      BY <1>2, <2>1 DEF Traced, Removed
    <3>2. QED
      BY <1>1, <2>1, <3>1 DEF Untabled
  <2>2. CASE UNCHANGED evicted
    BY <2>1, <2>2
  <2>3. CASE evicted # <<>> /\ evicted' = Tail(evicted)
    <3>1. i + 1 \in 1 .. Len(evicted) /\ evicted'[i] = evicted[i + 1]
      BY <1>2, <2>3
    <3>2. QED
      BY <2>1, <3>1
  <2>4. CASE Evict /\ pool.tail # None /\ Known(pool, fd[pool.tail])
    <3>1. pool.tail \in Socks /\ fd[pool.tail] \in FDs
      BY <1>2, <2>4 DEF Traced, Accepted, Pools
    <3>2. pool' = PopTail(pool, fd[pool.tail])
      BY <2>4 DEF Evict
    <3>3. evicted' = Append(evicted, pool.tail)
      BY <2>4 DEF Evict
    <3>4. pool'.table = [pool.table EXCEPT ![fd[pool.tail]] = None]
      BY <1>2, <2>4, <3>1, <3>2, PopTailFacts
    <3>5. \A f \in FDs : pool.table[f] = pool.tail => f = fd[pool.tail]
      BY <3>1, ClientSocketPoolAssumption DEF TableIsOpen, Owns, Known
    <3>6. \A f \in FDs : pool'.table[f] # pool.tail
      BY <1>2, <3>1, <3>4, <3>5, ClientSocketPoolAssumption DEF Pools
    <3>7. \/ i \in 1 .. Len(evicted) /\ evicted'[i] = evicted[i]
          \/ evicted'[i] = pool.tail
      BY <1>2, <3>1, <3>3
    <3>8. QED
      BY <2>1, <3>6, <3>7 DEF Untabled
  <2>5. QED
    BY <2>2, <2>3, <2>4
    DEF Next, MainStep, WorkerStep, CloserStep, Dial, Say, Measure, Evict,
        Poll, Accept, AcceptFail, Check, Dispatch, Take, Read, Keep, Drop,
        Rearm, DeleteSocket, Unregister, CloseSocket, CloserUnregister,
        CloserClose, closerVars
<1>5. (closing # None => Untabled(closing))'
  <2>1. CASE UNCHANGED closing
    BY <1>1, <1>2, <2>1 DEF Traced, Removed, Untabled
  <2>2. CASE evicted # <<>> /\ closing' = Head(evicted)
    <3>1. /\ closing' = evicted[1]
          /\ evicted[1] \in Socks
          /\ Accepted(evicted[1])
          /\ Untabled(evicted[1])
      BY <1>2, <2>2 DEF Traced, Removed
    <3>2. QED
      BY <1>1, <3>1 DEF Untabled
  <2>3. CASE closing' = None
    BY <2>3
  <2>4. QED
    BY <2>1, <2>2, <2>3
    DEF Next, MainStep, WorkerStep, CloserStep, Dial, Say, Measure, Evict,
        Poll, Accept, AcceptFail, Check, Dispatch, Take, Read, Keep, Drop,
        Rearm, DeleteSocket, Unregister, CloseSocket, CloserUnregister,
        CloserClose, closerVars
<1>6. QED
  BY <1>3, <1>4, <1>5 DEF Removed

-----------------------------------------------------------------------------
\* The first state satisfies the invariant.
LEMMA InitInv ==
  ASSUME Init
  PROVE  Inv
<1>1. EmptyPool \in Pools
  BY DEF EmptyPool, Pools
<1>2. TypeOK
  BY <1>1 DEF Init, TypeOK, WorkerStates
<1>3. TableIsOpen
  BY DEF Init, EmptyPool, TableIsOpen, Known
<1>4. Traced
  BY DEF Init, EmptyPool, Traced
<1>5. Removed
  BY DEF Init, Removed
<1>6. QED
  BY <1>2, <1>3, <1>4, <1>5 DEF Inv

\* The inductive invariant holds in every reachable state.
LEMMA Invariance == Spec => []Inv
<1>1. Init => Inv
  BY InitInv
<1>2. Inv /\ [Next]_vars => Inv'
  <2>1. CASE Next
    BY <2>1, TypeStep, TableStep, TracedStep, RemovedStep DEF Inv
  <2>2. CASE UNCHANGED vars
    BY <2>2 DEF Inv, TypeOK, TableIsOpen, Traced, Removed, Accepted, Untabled,
       Owns, Known, vars, mainVars, workerVars, closerVars
  <2>3. QED
    BY <2>1, <2>2
<1>3. QED
  BY <1>1, <1>2, PTL DEF Spec

\* The variables keep their types, for every bound on pending sockets and
\* both pollers: whatever eviction does to the list, its links never point
\* outside the sockets, and a worker that has no job has no client socket.
THEOREM TypeCorrect == Spec => []TypeOK
BY Invariance, PTL DEF Inv

\* all_client_connections never leads to a closed socket, nor to one of
\* another descriptor, although accept() reuses a descriptor as soon as a
\* worker or the closing thread has closed it.
THEOREM TableLeadsToOpenSockets == Spec => []TableIsOpen
BY Invariance, PTL DEF Inv

-----------------------------------------------------------------------------
(* Who will unregister and close a descriptor.                             *)

\* A worker that has deleted the entry of its socket.
Leaving(w) == wpc[w] \in {"unregistering", "closing"}

\* A descriptor has one holder at most: the table, a worker that has deleted its
\* entry, the queue of the closing thread at one place, or the closing thread.
OneHolder ==
  /\ \A v, w \in Workers :
       Leaving(v) /\ Leaving(w) /\ fd[cs[v]] = fd[cs[w]] => v = w
  /\ \A w \in Workers : Leaving(w) => ~Known(pool, fd[cs[w]])
  /\ \A i \in 1 .. Len(evicted) :
       /\ ~Known(pool, fd[evicted[i]])
       /\ \A w \in Workers : Leaving(w) => fd[cs[w]] # fd[evicted[i]]
       /\ \A j \in 1 .. Len(evicted) : fd[evicted[i]] = fd[evicted[j]] => i = j
  /\ closing # None =>
       /\ ~Known(pool, fd[closing])
       /\ \A w \in Workers : Leaving(w) => fd[cs[w]] # fd[closing]
       /\ \A i \in 1 .. Len(evicted) : fd[evicted[i]] # fd[closing]

\* Until its holder has unregistered it, a descriptor is registered.
HeldAreRegistered ==
  /\ \A f \in FDs : Known(pool, f) => watch[f] # "off"
  /\ \A w \in Workers : wpc[w] = "unregistering" => watch[fd[cs[w]]] # "off"
  /\ \A i \in 1 .. Len(evicted) : watch[fd[evicted[i]]] # "off"

\* Until its holder has closed the socket, accept() cannot reuse a descriptor.
HeldAreTaken ==
  /\ \A w \in Workers : Leaving(w) => ~Free(fd[cs[w]])
  /\ \A i \in 1 .. Len(evicted) : ~Free(fd[evicted[i]])
  /\ closing # None => ~Free(fd[closing])

HolderInv == OneHolder /\ HeldAreRegistered /\ HeldAreTaken

\* An accepted socket keeps its descriptor.
LEMMA FdKept ==
  ASSUME TypeOK, Traced, Removed, Next, NEW s \in Socks, Accepted(s)
  PROVE  fd'[s] = fd[s]
<1>1. CASE Accept
  BY <1>1, AcceptEffect DEF TypeOK, Accepted
<1>2. CASE ~Accept
  BY <1>2, SockEffect
<1>3. QED
  BY <1>1, <1>2

\* What a holder has is an accepted socket, which keeps its descriptor.
LEMMA HoldersKeep ==
  ASSUME TypeOK, Traced, Removed, Next
  PROVE  /\ \A w \in Workers :
              Leaving(w) => /\ cs[w] \in Socks
                            /\ fd[cs[w]] \in FDs
                            /\ fd'[cs[w]] = fd[cs[w]]
         /\ evicted \in Seq(Socks)
         /\ \A i \in 1 .. Len(evicted) :
              /\ evicted[i] \in Socks
              /\ fd[evicted[i]] \in FDs
              /\ fd'[evicted[i]] = fd[evicted[i]]
         /\ closing # None => /\ closing \in Socks
                              /\ fd[closing] \in FDs
                              /\ fd'[closing] = fd[closing]
<1>1. \A s \in Socks : Accepted(s) => fd'[s] = fd[s] /\ fd[s] \in FDs
  BY FdKept DEF Accepted
<1>2. ASSUME NEW w \in Workers, Leaving(w)
      PROVE  cs[w] \in Socks /\ Accepted(cs[w])
  BY <1>2 DEF TypeOK, Leaving, Traced
<1>3. evicted \in Seq(Socks) /\ closing \in Socks \cup {None}
  BY DEF TypeOK
<1>4. ASSUME NEW i \in 1 .. Len(evicted)
      PROVE  evicted[i] \in Socks /\ Accepted(evicted[i])
  BY <1>3 DEF Traced
<1>5. QED
  BY <1>1, <1>2, <1>3, <1>4 DEF Traced

\* An open socket stays open but for who closes it.
LEMMA OpenKept ==
  ASSUME TypeOK, Traced, Removed, Next, NEW s \in Socks, sock[s] = "open"
  PROVE  \/ sock'[s] = "open"
         \/ CloserClose /\ closing = s
         \/ \E w \in Workers : CloseSocket(w) /\ cs[w] = s
<1>1. CASE \E x \in Socks : Dial(x) \/ Say(x)
  BY <1>1 DEF Dial, Say, TypeOK
<1>2. CASE MainStep
  BY <1>2 DEF MainStep, Measure, Evict, Poll, Accept, AcceptFail, Shut, Check,
     Dispatch, TypeOK
<1>3. CASE \E w \in Workers : WorkerStep(w)
  BY <1>3 DEF WorkerStep, Take, Read, Keep, Drop, Rearm, DeleteSocket,
     Unregister, CloseSocket, Shut, TypeOK
<1>4. CASE CloserStep
  BY <1>4 DEF CloserStep, CloserUnregister, CloserClose, Shut, TypeOK
<1>5. QED
  BY <1>1, <1>2, <1>3, <1>4 DEF Next

\* A descriptor that is taken stays so unless the socket of it is closed.
LEMMA TakenKept ==
  ASSUME TypeOK, Traced, Removed, Next, NEW f \in FDs, ~Free(f)
  PROVE  \/ ~Free(f)'
         \/ CloserClose /\ fd[closing] = f
         \/ \E w \in Workers : CloseSocket(w) /\ fd[cs[w]] = f
<1>1. PICK s \in Socks : sock[s] = "open" /\ fd[s] = f
  BY DEF Free, Owns
<1>2. fd'[s] = f
  BY <1>1, FdKept DEF Accepted
<1>3. QED
  BY <1>1, <1>2, OpenKept DEF Free, Owns

\* The steps after which every holder holds what it held.
Calm ==
  /\ \A f \in FDs : pool'.table[f] = pool.table[f]
  /\ \A f \in FDs : watch'[f] = "off" <=> watch[f] = "off"
  /\ \A w \in Workers :
       /\ wpc'[w] = wpc[w] \/ ~(Leaving(w) \/ Leaving(w)')
       /\ Leaving(w) => cs'[w] = cs[w]
  /\ UNCHANGED <<evicted, closing, closer>>

\* All steps but those of accept(), deletion, eviction, unregistering and closing.
LEMMA CalmSteps ==
  ASSUME TypeOK, Traced, Next
  PROVE  \/ Calm
         \/ Accept
         \/ Evict /\ pool.tail # None /\ Known(pool, fd[pool.tail])
         \/ \E w \in Workers : \/ DeleteSocket(w) /\ Known(pool, fd[cs[w]])
                               \/ Unregister(w)
                               \/ CloseSocket(w)
         \/ CloserStep
<1>1. pool \in Pools /\ wpc \in [Workers -> WorkerStates]
      /\ watch \in [FDs -> {"off", "armed", "disarmed"}]
      /\ cs \in [Workers -> Socks \cup {None}]
  BY DEF TypeOK
<1>2. CASE \E x \in Socks : Dial(x) \/ Say(x)
  BY <1>2 DEF Dial, Say, Calm, Leaving, workerVars, closerVars
<1>3. CASE Measure \/ AcceptFail \/ \E f \in FDs : Check(f)
  BY <1>3 DEF Measure, AcceptFail, Check, Calm, Leaving, workerVars, closerVars
<1>4. CASE Evict /\ ~(pool.tail # None /\ Known(pool, fd[pool.tail]))
  BY <1>4 DEF Evict, Calm, Leaving, workerVars, closerVars
<1>5. CASE Poll
  <2>1. \A f \in FDs : watch'[f] = "off" <=> watch[f] = "off"
    <3>1. watch' = [f \in FDs |-> IF poller = "epoll" /\ f \in Ready
                                  THEN "disarmed" ELSE watch[f]]
      BY <1>5 DEF Poll, Disarmed
    <3>2. \A f \in Ready : f \in FDs => watch[f] = "armed"
      BY ClientConnectionsAssumption DEF Ready
    <3> HIDE DEF Ready
    <3>3. QED
      BY <3>1, <3>2
  <2>2. QED
    BY <1>5, <2>1 DEF Poll, Calm, Leaving, workerVars, closerVars
<1>6. CASE Dispatch
  <2>1. cur \in FDs
    BY <1>6 DEF Dispatch, TypeOK
  <2>2. pool'.table = pool.table
    BY <1>1, <1>6, <2>1, SetInUseFacts DEF Dispatch
  <2>3. QED
    BY <1>6, <2>2 DEF Dispatch, Calm, Leaving, workerVars, closerVars
<1>7. ASSUME NEW w \in Workers, Take(w) \/ Read(w) \/ Drop(w)
      PROVE  Calm
  BY <1>1, <1>7 DEF Take, Read, Outcomes, Drop, Goto, Calm, Leaving, closerVars
<1>8. ASSUME NEW w \in Workers, Keep(w)
      PROVE  Calm
  <2>1. fd[cs[w]] \in FDs
    BY <1>8 DEF Keep, TypeOK, Traced, Accepted
  <2>2. pool'.table = pool.table
    BY <1>1, <1>8, <2>1, SetPendingFacts DEF Keep
  <2>3. QED
    BY <1>1, <1>8, <2>2
    DEF Keep, Goto, Leave, Fail, Calm, Leaving, closerVars
<1>9. ASSUME NEW w \in Workers, Rearm(w)
      PROVE  Calm
  <2>1. fd[cs[w]] \in FDs
    BY <1>9 DEF Rearm, TypeOK, Traced, Accepted
  <2>2. \A f \in FDs : watch'[f] = "off" <=> watch[f] = "off"
    BY <1>1, <1>9, <2>1 DEF Rearm, Rearmed
  <2>3. QED
    BY <1>1, <1>9, <2>2 DEF Rearm, Goto, Leave, Fail, Calm, Leaving, closerVars
<1>10. ASSUME NEW w \in Workers, DeleteSocket(w), ~Known(pool, fd[cs[w]])
       PROVE  Calm
  BY <1>1, <1>10 DEF DeleteSocket, Goto, Leave, Fail, Calm, Leaving, closerVars
<1>11. QED
  BY <1>2, <1>3, <1>4, <1>5, <1>6, <1>7, <1>8, <1>9, <1>10
  DEF Next, MainStep, WorkerStep

\* Every step keeps the holders of descriptors apart.
LEMMA HolderStep ==
  ASSUME TypeOK, TableIsOpen, Traced, Removed, HolderInv, Next
  PROVE  HolderInv' /\ (closer => closer')
<1> USE DEF HolderInv
<1>1. /\ wpc \in [Workers -> WorkerStates] /\ cs \in [Workers -> Socks \cup {None}]
      /\ watch \in [FDs -> {"off", "armed", "disarmed"}]
      /\ pool \in Pools
      /\ pool.table \in [FDs -> Socks \cup {None}]
  BY DEF TypeOK, Pools
<1>2. /\ \A w \in Workers :
           Leaving(w) => /\ cs[w] \in Socks
                         /\ fd[cs[w]] \in FDs
                         /\ fd'[cs[w]] = fd[cs[w]]
      /\ evicted \in Seq(Socks)
      /\ \A i \in 1 .. Len(evicted) :
           /\ evicted[i] \in Socks
           /\ fd[evicted[i]] \in FDs
           /\ fd'[evicted[i]] = fd[evicted[i]]
      /\ closing # None => /\ closing \in Socks
                           /\ fd[closing] \in FDs
                           /\ fd'[closing] = fd[closing]
  BY HoldersKeep
<1>3. ASSUME NEW f \in FDs, ~Free(f), ~CloserClose,
             \A w \in Workers : ~CloseSocket(w)
      PROVE  ~Free(f)'
  BY <1>3, TakenKept
<1>4. ASSUME NEW f \in FDs, Known(pool, f)
      PROVE  ~Free(f)
  BY <1>1, <1>4 DEF TableIsOpen, Free, Known
<1>5. CASE Calm /\ ~Accept /\ ~CloserStep /\ \A w \in Workers : ~CloseSocket(w)
  <2>1. \A f \in FDs : Known(pool, f)' <=> Known(pool, f)
    BY <1>5 DEF Calm, Known
  <2>2. /\ \A w \in Workers :
             Leaving(w)' => /\ Leaving(w)
                            /\ wpc'[w] = wpc[w]
                            /\ fd'[cs'[w]] = fd[cs[w]]
                            /\ fd[cs[w]] \in FDs
    BY <1>2, <1>5 DEF Calm, Leaving
  <2>3. OneHolder'
    <3> evicted' = evicted /\ closing' = closing
      BY <1>5 DEF Calm
    <3>1. (\A v, w \in Workers :
             Leaving(v) /\ Leaving(w) /\ fd[cs[v]] = fd[cs[w]] => v = w)'
      BY <2>2 DEF OneHolder
    <3>2. (\A w \in Workers : Leaving(w) => ~Known(pool, fd[cs[w]]))'
      BY <2>1, <2>2 DEF OneHolder
    <3>3. (\A i \in 1 .. Len(evicted) :
             /\ ~Known(pool, fd[evicted[i]])
             /\ \A w \in Workers : Leaving(w) => fd[cs[w]] # fd[evicted[i]]
             /\ \A j \in 1 .. Len(evicted) :
                  fd[evicted[i]] = fd[evicted[j]] => i = j)'
      BY <1>2, <2>1, <2>2 DEF OneHolder
    <3>4. (closing # None =>
             /\ ~Known(pool, fd[closing])
             /\ \A w \in Workers : Leaving(w) => fd[cs[w]] # fd[closing]
             /\ \A i \in 1 .. Len(evicted) : fd[evicted[i]] # fd[closing])'
      BY <1>2, <2>1, <2>2 DEF OneHolder
    <3>5. QED
      BY <3>1, <3>2, <3>3, <3>4 DEF OneHolder
  <2>4. HeldAreRegistered'
    BY <1>2, <1>5, <2>1, <2>2 DEF HeldAreRegistered, Calm, Leaving
  <2>5. HeldAreTaken'
    <3>1. ASSUME NEW w \in Workers, Leaving(w)'
          PROVE  ~Free(fd[cs[w]])'
      <4>1. PICK f \in FDs : f = fd[cs[w]] /\ f = fd'[cs'[w]]
        BY <2>2, <3>1
      <4>2. ~Free(f)
        BY <2>2, <3>1, <4>1 DEF HeldAreTaken
      <4>3. ~Free(f)'
        BY <1>3, <1>5, <4>2 DEF CloserStep
      <4>4. QED
        BY <4>1, <4>3 DEF Free, Owns
    <3>2. ASSUME NEW i \in 1 .. Len(evicted)
          PROVE  ~Free(fd[evicted[i]])'
      <4>1. PICK f \in FDs : f = fd[evicted[i]] /\ f = fd'[evicted'[i]]
        BY <1>2, <1>5 DEF Calm
      <4>2. ~Free(f)
        BY <4>1 DEF HeldAreTaken
      <4>3. ~Free(f)'
        BY <1>3, <1>5, <4>2 DEF CloserStep
      <4>4. QED
        BY <4>1, <4>3 DEF Free, Owns
    <3>3. ASSUME closing # None
          PROVE  ~Free(fd[closing])'
      <4>1. PICK f \in FDs : f = fd[closing] /\ f = fd'[closing']
        BY <1>2, <1>5, <3>3 DEF Calm
      <4>2. ~Free(f)
        BY <3>3, <4>1 DEF HeldAreTaken
      <4>3. ~Free(f)'
        BY <1>3, <1>5, <4>2 DEF CloserStep
      <4>4. QED
        BY <4>1, <4>3 DEF Free, Owns
    <3>4. QED
      BY <1>5, <3>1, <3>2, <3>3 DEF HeldAreTaken, Calm
  <2>6. QED
    BY <1>5, <2>3, <2>4, <2>5 DEF Calm
<1>6. \A f \in FDs : Free(f) => /\ ~Known(pool, f)
                                /\ \A w \in Workers : Leaving(w) => fd[cs[w]] # f
                                /\ \A i \in 1 .. Len(evicted) : fd[evicted[i]] # f
                                /\ closing # None => fd[closing] # f
  BY <1>4 DEF HeldAreTaken
<1>a. /\ CloserClose => closing # None /\ closing' = None
      /\ \A w \in Workers : CloseSocket(w) => wpc[w] # wpc'[w]
  BY <1>1 DEF CloserClose, CloseSocket, Leave, Goto
<1>7. CASE Accept
  <2>1. PICK s \in Socks, f0 \in FDs :
          /\ Free(f0)
          /\ fd' = [fd EXCEPT ![s] = f0]
          /\ pool' = AddPending(pool, f0, s)
          /\ watch' = [watch EXCEPT ![f0] = "armed"]
    BY <1>7 DEF Accept
  <2>2. UNCHANGED <<wpc, cs, evicted, closing, closer>>
    BY <1>7 DEF Accept, workerVars, closerVars
  <2>3. \A f \in FDs : Known(pool, f)' <=> Known(pool, f) \/ f = f0
    <3>1. pool'.table = [pool.table EXCEPT ![f0] = s]
      BY <1>1, <2>1, AddPendingFacts
    <3>2. QED
      BY <1>1, <3>1, ClientSocketPoolAssumption DEF Known
  <2>4. \A w \in Workers : Leaving(w)' <=> Leaving(w)
    BY <2>2 DEF Leaving
  <2>5. OneHolder'
    BY <1>2, <1>6, <2>1, <2>2, <2>3, <2>4 DEF OneHolder
  <2>6. HeldAreRegistered'
    BY <1>1, <1>2, <2>1, <2>2, <2>3, <2>4 DEF HeldAreRegistered, Leaving
  <2>7. HeldAreTaken'
    <3>1. \A f \in FDs : ~Free(f) => ~Free(f)'
      BY <1>3, <1>a, <2>2
    <3>2. QED
      BY <1>2, <2>2, <2>4, <3>1 DEF HeldAreTaken, Free, Owns
  <2>8. QED
    BY <2>2, <2>5, <2>6, <2>7
<1>8. CASE Evict /\ pool.tail # None /\ Known(pool, fd[pool.tail])
  <2> DEFINE t == pool.tail
             f0 == fd[t]
  <2>1. t \in Socks /\ f0 \in FDs
    BY <1>1, <1>8 DEF Traced, Accepted, Pools
  <2>2. /\ UNCHANGED <<wpc, cs, watch, sock, fd, closing, closer>>
        /\ evicted' = Append(evicted, t)
        /\ pool' = PopTail(pool, f0)
    BY <1>8 DEF Evict, workerVars, closerVars
  <2> HIDE DEF t
  <2>3. pool'.table = [pool.table EXCEPT ![f0] = None]
    BY <1>1, <1>8, <2>1, <2>2, PopTailFacts DEF t
  <2>4. Known(pool, f0)
    BY <1>8 DEF t
  <2> HIDE DEF f0
  <2>5. \A f \in FDs : Known(pool, f)' <=> Known(pool, f) /\ f # f0
    BY <1>1, <2>1, <2>3 DEF Known
  <2>6. \A i \in 1 .. Len(evicted') :
          \/ /\ i \in 1 .. Len(evicted) /\ evicted'[i] = evicted[i]
             /\ fd'[evicted'[i]] = fd[evicted[i]]
             /\ fd[evicted[i]] \in FDs
          \/ i = Len(evicted) + 1 /\ evicted'[i] = t /\ fd'[evicted'[i]] = f0
    BY <1>2, <2>1, <2>2 DEF f0
  <2>7. \A w \in Workers :
          /\ Leaving(w)' <=> Leaving(w)
          /\ fd'[cs'[w]] = fd[cs[w]]
    BY <2>2 DEF Leaving
  <2>8. OneHolder'
    <3>1. (\A v, w \in Workers :
             Leaving(v) /\ Leaving(w) /\ fd[cs[v]] = fd[cs[w]] => v = w)'
      BY <2>7 DEF OneHolder
    <3>2. (\A w \in Workers : Leaving(w) => ~Known(pool, fd[cs[w]]))'
      BY <1>2, <2>5, <2>7 DEF OneHolder
    <3>3. (\A i \in 1 .. Len(evicted) :
             /\ ~Known(pool, fd[evicted[i]])
             /\ \A w \in Workers : Leaving(w) => fd[cs[w]] # fd[evicted[i]])'
      BY <1>2, <2>1, <2>4, <2>5, <2>6, <2>7 DEF OneHolder
    <3>4. (\A i \in 1 .. Len(evicted) : \A j \in 1 .. Len(evicted) :
             fd[evicted[i]] = fd[evicted[j]] => i = j)'
      <4> SUFFICES ASSUME NEW i \in 1 .. Len(evicted'),
                          NEW j \in 1 .. Len(evicted'),
                          fd'[evicted'[i]] = fd'[evicted'[j]]
                   PROVE  i = j
        OBVIOUS
      <4>1. QED
        BY <2>4, <2>6 DEF OneHolder
    <3>5. (closing # None =>
             /\ ~Known(pool, fd[closing])
             /\ \A w \in Workers : Leaving(w) => fd[cs[w]] # fd[closing]
             /\ \A i \in 1 .. Len(evicted) : fd[evicted[i]] # fd[closing])'
      BY <1>2, <2>2, <2>4, <2>5, <2>6, <2>7 DEF OneHolder
    <3>6. QED
      BY <3>1, <3>2, <3>3, <3>4, <3>5 DEF OneHolder
  <2>9. HeldAreRegistered'
    BY <2>1, <2>2, <2>4, <2>5, <2>6 DEF HeldAreRegistered
  <2>10. HeldAreTaken'
    <3>1. \A f : Free(f)' <=> Free(f)
      BY <2>2 DEF Free, Owns
    <3>2. ~Free(f0)
      BY <1>4, <2>1, <2>4
    <3>3. ASSUME NEW w \in Workers, Leaving(w)'
          PROVE  ~Free(fd[cs[w]])'
      BY <2>2, <2>7, <3>1, <3>3 DEF HeldAreTaken, Free, Owns
    <3>4. ASSUME NEW i \in 1 .. Len(evicted')
          PROVE  ~Free(fd[evicted[i]])'
      <4>1. PICK f : f = fd'[evicted'[i]]
        OBVIOUS
      <4>2. ~Free(f)
        BY <2>6, <3>2, <3>4, <4>1 DEF HeldAreTaken
      <4>3. QED
        BY <3>1, <4>1, <4>2 DEF Free, Owns
    <3>5. (closing # None => ~Free(fd[closing]))'
      BY <2>2 DEF HeldAreTaken, Free, Owns
    <3>6. QED
      BY <3>3, <3>4, <3>5 DEF HeldAreTaken
  <2>11. QED
    BY <2>2, <2>8, <2>9, <2>10
<1>9. ASSUME NEW u \in Workers, DeleteSocket(u), Known(pool, fd[cs[u]])
      PROVE  HolderInv' /\ closer' = closer
  <2> DEFINE f0 == fd[cs[u]]
  <2>1. f0 \in FDs /\ cs[u] \in Socks
    BY <1>1, <1>9 DEF DeleteSocket, TypeOK, Traced, Accepted
  <2>2. /\ UNCHANGED <<cs, watch, sock, fd, evicted, closing, closer>>
        /\ wpc' = [wpc EXCEPT ![u] = "unregistering"]
        /\ wpc[u] = "deleting"
        /\ pool' = Delete(pool, f0)
    BY <1>9 DEF DeleteSocket, Goto, closerVars
  <2>3. Known(pool, f0)
    BY <1>9
  <2> HIDE DEF f0
  <2>4. pool'.table = [pool.table EXCEPT ![f0] = None]
    BY <1>1, <2>1, <2>2, DeleteFacts
  <2>5. \A f \in FDs : Known(pool, f)' <=> Known(pool, f) /\ f # f0
    BY <1>1, <2>1, <2>4 DEF Known
  <2>6. \A w \in Workers :
          /\ Leaving(w)' <=> Leaving(w) \/ w = u
          /\ fd'[cs'[w]] = fd[cs[w]]
    BY <1>1, <2>2 DEF Leaving
  <2>7. fd[cs[u]] = f0
    BY DEF f0
  <2>8. OneHolder'
    BY <1>2, <2>1, <2>2, <2>3, <2>5, <2>6, <2>7 DEF OneHolder
  <2>9. HeldAreRegistered'
    BY <1>1, <1>2, <2>1, <2>2, <2>3, <2>5, <2>7 DEF HeldAreRegistered
  <2>10. HeldAreTaken'
    <3>1. \A f : Free(f)' <=> Free(f)
      BY <2>2 DEF Free, Owns
    <3>2. ~Free(f0)
      BY <1>4, <2>1, <2>3
    <3>3. QED
      BY <2>2, <2>6, <2>7, <3>1, <3>2 DEF HeldAreTaken, Free, Owns
  <2>11. QED
    BY <2>2, <2>8, <2>9, <2>10
<1>10. ASSUME NEW u \in Workers, Unregister(u)
       PROVE  HolderInv' /\ closer' = closer
  <2> DEFINE f0 == fd[cs[u]]
  <2>1. wpc[u] = "unregistering" /\ Leaving(u)
    BY <1>10 DEF Unregister, Leaving
  <2>2. f0 \in FDs /\ cs[u] \in Socks /\ watch[f0] # "off"
    BY <1>2, <2>1 DEF HeldAreRegistered
  <2>3. /\ UNCHANGED <<pool, cs, sock, fd, evicted, closing, closer>>
        /\ wpc' = [wpc EXCEPT ![u] = "closing"]
        /\ watch' = [watch EXCEPT ![f0] = "off"]
    BY <1>10, <2>2 DEF Unregister, Goto, closerVars
  <2>4. fd[cs[u]] = f0
    OBVIOUS
  <2> HIDE DEF f0
  <2>5. \A w \in Workers :
          /\ Leaving(w)' <=> Leaving(w)
          /\ fd'[cs'[w]] = fd[cs[w]]
    BY <1>1, <2>1, <2>3 DEF Leaving
  <2>6. OneHolder'
    BY <2>3, <2>5 DEF OneHolder, Known
  <2>7. HeldAreRegistered'
    <3>1. \A w \in Workers : wpc'[w] = "unregistering" =>
            wpc[w] = "unregistering" /\ Leaving(w) /\ w # u
      BY <1>1, <2>3 DEF Leaving
    <3>2. \A f \in FDs : f # f0 => watch'[f] = watch[f]
      BY <1>1, <2>3
    <3>3. (\A f \in FDs : Known(pool, f) => watch[f] # "off")'
      BY <2>1, <2>2, <2>3, <2>4, <3>2 DEF HeldAreRegistered, OneHolder, Known
    <3>4. (\A w \in Workers : wpc[w] = "unregistering" => watch[fd[cs[w]]] # "off")'
      BY <1>2, <2>1, <2>2, <2>3, <2>4, <3>1, <3>2 DEF HeldAreRegistered, OneHolder
    <3>5. (\A i \in 1 .. Len(evicted) : watch[fd[evicted[i]]] # "off")'
      BY <1>2, <2>1, <2>2, <2>3, <2>4, <3>2 DEF HeldAreRegistered, OneHolder
    <3>6. QED
      BY <3>3, <3>4, <3>5 DEF HeldAreRegistered
  <2>8. HeldAreTaken'
    BY <2>3, <2>5 DEF HeldAreTaken, Free, Owns
  <2>9. QED
    BY <2>3, <2>6, <2>7, <2>8
<1>11. ASSUME NEW u \in Workers, CloseSocket(u)
       PROVE  HolderInv' /\ closer' = closer
  <2> DEFINE f0 == fd[cs[u]]
  <2>1. wpc[u] = "closing" /\ Leaving(u)
    BY <1>11 DEF CloseSocket, Leaving
  <2>2. f0 \in FDs /\ cs[u] \in Socks
    BY <1>2, <2>1
  <2>3. /\ UNCHANGED <<pool, fd, evicted, closing, closer>>
        /\ wpc' = [wpc EXCEPT ![u] = "idle"]
        /\ cs' = [cs EXCEPT ![u] = None]
        /\ \A f \in FDs : f # f0 => watch'[f] = watch[f]
    BY <1>1, <1>11, <2>2 DEF CloseSocket, WatchWithout, Leave, Goto, closerVars
  <2>4. fd[cs[u]] = f0
    OBVIOUS
  <2>5. \A f \in FDs : f # f0 /\ ~Free(f) => ~Free(f)'
    <3>1. ~CloserClose
      BY <1>a, <2>3
    <3>2. \A w \in Workers : CloseSocket(w) => w = u
      BY <1>1, <1>a, <2>3
    <3>3. QED
      BY <3>1, <3>2, TakenKept
  <2> HIDE DEF f0
  <2>6. \A w \in Workers :
          Leaving(w)' => Leaving(w) /\ w # u /\ cs'[w] = cs[w] /\ wpc'[w] = wpc[w]
    BY <1>1, <2>3 DEF Leaving
  <2>7. OneHolder'
    BY <2>3, <2>6 DEF OneHolder, Known
  <2>8. /\ ~Known(pool, f0)
        /\ \A w \in Workers : Leaving(w) /\ w # u => fd[cs[w]] # f0
        /\ \A i \in 1 .. Len(evicted) : fd[evicted[i]] # f0
        /\ closing # None => fd[closing] # f0
    BY <2>1, <2>4 DEF OneHolder
  <2>9. HeldAreRegistered'
    <3>1. (\A f \in FDs : Known(pool, f) => watch[f] # "off")'
      BY <2>3, <2>8 DEF HeldAreRegistered, Known
    <3>2. (\A w \in Workers : wpc[w] = "unregistering" => watch[fd[cs[w]]] # "off")'
      BY <1>2, <2>3, <2>6, <2>8 DEF HeldAreRegistered, Leaving
    <3>3. (\A i \in 1 .. Len(evicted) : watch[fd[evicted[i]]] # "off")'
      BY <1>2, <2>3, <2>8 DEF HeldAreRegistered
    <3>4. QED
      BY <3>1, <3>2, <3>3 DEF HeldAreRegistered
  <2>10. HeldAreTaken'
    <3>1. ASSUME NEW w \in Workers, Leaving(w)'
          PROVE  ~Free(fd[cs[w]])'
      <4>1. PICK f \in FDs : f = fd[cs[w]] /\ f = fd'[cs'[w]]
        BY <1>2, <2>3, <2>6, <3>1
      <4>2. ~Free(f)'
        BY <2>5, <2>6, <2>8, <3>1, <4>1 DEF HeldAreTaken
      <4>3. QED
        BY <4>1, <4>2 DEF Free, Owns
    <3>2. ASSUME NEW i \in 1 .. Len(evicted)
          PROVE  ~Free(fd[evicted[i]])'
      <4>1. PICK f \in FDs : f = fd[evicted[i]] /\ f = fd'[evicted'[i]]
        BY <1>2, <2>3
      <4>2. ~Free(f)'
        BY <2>5, <2>8, <4>1 DEF HeldAreTaken
      <4>3. QED
        BY <4>1, <4>2 DEF Free, Owns
    <3>3. ASSUME closing # None
          PROVE  ~Free(fd[closing])'
      <4>1. PICK f \in FDs : f = fd[closing] /\ f = fd'[closing']
        BY <1>2, <2>3, <3>3
      <4>2. ~Free(f)'
        BY <2>5, <2>8, <3>3, <4>1 DEF HeldAreTaken
      <4>3. QED
        BY <4>1, <4>2 DEF Free, Owns
    <3>4. QED
      BY <2>3, <3>1, <3>2, <3>3 DEF HeldAreTaken
  <2>11. QED
    BY <2>3, <2>7, <2>9, <2>10
<1>12. CASE CloserUnregister
  <2> DEFINE h == Head(evicted)
             f0 == fd[h]
  <2>1. evicted # <<>> /\ evicted' = Tail(evicted) /\ closing = None
    BY <1>12 DEF CloserUnregister
  <2>2. 1 \in 1 .. Len(evicted) /\ h = evicted[1]
    BY <1>2, <2>1
  <2>3. h \in Socks /\ f0 \in FDs /\ watch[f0] # "off" /\ fd[evicted[1]] = f0
    BY <1>2, <2>2 DEF HeldAreRegistered
  <2>4. /\ UNCHANGED <<pool, sock, fd, wpc, cs, closer>>
        /\ closing' = h
        /\ watch' = [watch EXCEPT ![f0] = "off"]
    BY <1>12, <2>3 DEF CloserUnregister, workerVars
  <2> HIDE DEF h
  <2>5. fd[h] = f0
    OBVIOUS
  <2> HIDE DEF f0
  <2>6. \A i \in 1 .. Len(evicted') :
          /\ i + 1 \in 1 .. Len(evicted)
          /\ i + 1 # 1
          /\ evicted'[i] = evicted[i + 1]
          /\ fd'[evicted'[i]] = fd[evicted[i + 1]]
          /\ fd[evicted[i + 1]] \in FDs
    BY <1>2, <2>1, <2>4
  <2>7. \A w \in Workers : Leaving(w)' <=> Leaving(w)
    BY <2>4 DEF Leaving
  <2>8. /\ ~Known(pool, f0)
        /\ \A w \in Workers : Leaving(w) => fd[cs[w]] # f0
        /\ \A i \in 1 .. Len(evicted) : i # 1 => fd[evicted[i]] # f0
    BY <2>2, <2>3 DEF OneHolder
  <2>9. OneHolder'
    <3>1. (\A v, w \in Workers :
             Leaving(v) /\ Leaving(w) /\ fd[cs[v]] = fd[cs[w]] => v = w)'
      BY <2>4, <2>7 DEF OneHolder
    <3>2. (\A w \in Workers : Leaving(w) => ~Known(pool, fd[cs[w]]))'
      BY <2>4, <2>7 DEF OneHolder, Known
    <3>3. (\A i \in 1 .. Len(evicted) :
             /\ ~Known(pool, fd[evicted[i]])
             /\ \A w \in Workers : Leaving(w) => fd[cs[w]] # fd[evicted[i]]
             /\ \A j \in 1 .. Len(evicted) :
                  fd[evicted[i]] = fd[evicted[j]] => i = j)'
      <4> SUFFICES ASSUME NEW i \in 1 .. Len(evicted')
                   PROVE  /\ pool.table[fd'[evicted'[i]]] = None
                          /\ \A w \in Workers :
                               Leaving(w) => fd[cs[w]] # fd'[evicted'[i]]
                          /\ \A j \in 1 .. Len(evicted') :
                               fd'[evicted'[i]] = fd'[evicted'[j]] => i = j
        BY <2>4, <2>7 DEF Known
      <4>1. \A j \in 1 .. Len(evicted') :
              fd'[evicted'[i]] = fd'[evicted'[j]] => i + 1 = j + 1
        BY <2>6 DEF OneHolder
      <4>2. QED
        BY <2>6, <4>1 DEF OneHolder, Known
    <3>4. (closing # None =>
             /\ ~Known(pool, fd[closing])
             /\ \A w \in Workers : Leaving(w) => fd[cs[w]] # fd[closing]
             /\ \A i \in 1 .. Len(evicted) : fd[evicted[i]] # fd[closing])'
      BY <2>4, <2>5, <2>6, <2>7, <2>8 DEF Known
    <3>5. QED
      BY <3>1, <3>2, <3>3, <3>4 DEF OneHolder
  <2>10. HeldAreRegistered'
    <3>1. \A f \in FDs : f # f0 => watch'[f] = watch[f]
      BY <1>1, <2>4
    <3>2. (\A f \in FDs : Known(pool, f) => watch[f] # "off")'
      BY <2>4, <2>8, <3>1 DEF HeldAreRegistered, Known
    <3>3. (\A w \in Workers : wpc[w] = "unregistering" => watch[fd[cs[w]]] # "off")'
      BY <1>2, <2>4, <2>8, <3>1 DEF HeldAreRegistered, Leaving
    <3>4. (\A i \in 1 .. Len(evicted) : watch[fd[evicted[i]]] # "off")'
      BY <2>6, <2>8, <3>1 DEF HeldAreRegistered
    <3>5. QED
      BY <3>2, <3>3, <3>4 DEF HeldAreRegistered
  <2>11. HeldAreTaken'
    <3>1. \A f : Free(f)' <=> Free(f)
      BY <2>4 DEF Free, Owns
    <3>2. ASSUME NEW w \in Workers, Leaving(w)'
          PROVE  ~Free(fd[cs[w]])'
      BY <2>4, <2>7, <3>2 DEF HeldAreTaken, Free, Owns
    <3>3. ASSUME NEW i \in 1 .. Len(evicted')
          PROVE  ~Free(fd[evicted[i]])'
      <4>1. PICK f : f = fd'[evicted'[i]]
        OBVIOUS
      <4>2. ~Free(f)
        BY <2>6, <4>1 DEF HeldAreTaken
      <4>3. QED
        BY <3>1, <4>1, <4>2 DEF Free, Owns
    <3>4. ~Free(fd[closing])'
      <4>1. ~Free(f0)
        BY <2>2, <2>3 DEF HeldAreTaken
      <4>2. fd'[closing'] = f0
        BY <2>4, <2>5
      <4>3. QED
        BY <3>1, <4>1, <4>2 DEF Free, Owns
    <3>5. QED
      BY <3>2, <3>3, <3>4 DEF HeldAreTaken
  <2>12. QED
    BY <2>4, <2>9, <2>10, <2>11
<1>13. CASE CloserClose
  <2> DEFINE f0 == fd[closing]
  <2>1. closing # None /\ closing \in Socks /\ f0 \in FDs
    BY <1>2, <1>13 DEF CloserClose
  <2>2. /\ UNCHANGED <<pool, fd, wpc, cs, evicted, closer>>
        /\ closing' = None
        /\ \A f \in FDs : f # f0 => watch'[f] = watch[f]
    BY <1>1, <1>13, <2>1 DEF CloserClose, WatchWithout, workerVars
  <2>3. \A f \in FDs : f # f0 /\ ~Free(f) => ~Free(f)'
    <3>1. \A w \in Workers : ~CloseSocket(w)
      BY <1>a, <2>2
    <3>2. QED
      BY <3>1, TakenKept
  <2>4. fd[closing] = f0
    OBVIOUS
  <2> HIDE DEF f0
  <2>5. \A w \in Workers : Leaving(w)' <=> Leaving(w)
    BY <2>2 DEF Leaving
  <2>6. OneHolder'
    BY <2>2, <2>5 DEF OneHolder, Known
  <2>7. /\ ~Known(pool, f0)
        /\ \A w \in Workers : Leaving(w) => fd[cs[w]] # f0
        /\ \A i \in 1 .. Len(evicted) : fd[evicted[i]] # f0
    BY <2>1, <2>4 DEF OneHolder
  <2>8. HeldAreRegistered'
    <3>1. (\A f \in FDs : Known(pool, f) => watch[f] # "off")'
      BY <2>2, <2>7 DEF HeldAreRegistered, Known
    <3>2. (\A w \in Workers : wpc[w] = "unregistering" => watch[fd[cs[w]]] # "off")'
      BY <1>2, <2>2, <2>7 DEF HeldAreRegistered, Leaving
    <3>3. (\A i \in 1 .. Len(evicted) : watch[fd[evicted[i]]] # "off")'
      BY <1>2, <2>2, <2>7 DEF HeldAreRegistered
    <3>4. QED
      BY <3>1, <3>2, <3>3 DEF HeldAreRegistered
  <2>9. HeldAreTaken'
    <3>1. ASSUME NEW w \in Workers, Leaving(w)'
          PROVE  ~Free(fd[cs[w]])'
      <4>1. PICK f \in FDs : f = fd[cs[w]] /\ f = fd'[cs'[w]]
        BY <1>2, <2>2, <2>5, <3>1
      <4>2. ~Free(f)'
        BY <2>3, <2>5, <2>7, <3>1, <4>1 DEF HeldAreTaken
      <4>3. QED
        BY <4>1, <4>2 DEF Free, Owns
    <3>2. ASSUME NEW i \in 1 .. Len(evicted)
          PROVE  ~Free(fd[evicted[i]])'
      <4>1. PICK f \in FDs : f = fd[evicted[i]] /\ f = fd'[evicted'[i]]
        BY <1>2, <2>2
      <4>2. ~Free(f)'
        BY <2>3, <2>7, <4>1 DEF HeldAreTaken
      <4>3. QED
        BY <4>1, <4>2 DEF Free, Owns
    <3>3. QED
      BY <2>2, <3>1, <3>2 DEF HeldAreTaken
  <2>10. QED
    BY <2>2, <2>6, <2>8, <2>9
<1>14. QED
  BY <1>5, <1>7, <1>8, <1>9, <1>10, <1>11, <1>12, <1>13, CalmSteps
  DEF CloserStep, Evict

\* In the first state nobody holds anything.
LEMMA InitHolders ==
  ASSUME Init
  PROVE  HolderInv /\ closer
BY DEF Init, EmptyPool, HolderInv, OneHolder, HeldAreRegistered, HeldAreTaken,
       Leaving, Known

\* The holders of descriptors are kept apart in every reachable state.
LEMMA HoldersAlways == Spec => []HolderInv /\ []closer
<1>1. Init => HolderInv /\ closer
  BY InitHolders
<1>2. TypeOK /\ TableIsOpen /\ Traced /\ Removed /\ HolderInv /\ closer /\ [Next]_vars
        => (HolderInv /\ closer)'
  <2>1. ASSUME TypeOK, TableIsOpen, Traced, Removed, HolderInv, closer, Next
        PROVE  (HolderInv /\ closer)'
    BY <2>1, HolderStep
  <2>2. ASSUME HolderInv, closer, UNCHANGED vars
        PROVE  (HolderInv /\ closer)'
    BY <2>2 DEF HolderInv, OneHolder, HeldAreRegistered, HeldAreTaken, Leaving,
       Known, Free, Owns, vars, mainVars, workerVars, closerVars
  <2>3. QED
    BY <2>1, <2>2
<1>3. QED
  BY <1>1, <1>2, Invariance, PTL DEF Spec, Inv

\* Until the closing thread gets to it, the descriptor of an evicted socket stays
\* registered, so that the closing thread never dies, whatever eviction takes.
THEOREM ClosingThreadSurvives == Spec => []EvictedAreRegistered
<1>1. TypeOK /\ HolderInv /\ closer => EvictedAreRegistered
  <2> SUFFICES ASSUME TypeOK, HolderInv, closer, NEW s \in Range(evicted)
               PROVE  watch[fd[s]] # "off"
    BY DEF EvictedAreRegistered
  <2>1. PICK i \in 1 .. Len(evicted) : s = evicted[i]
    BY DEF Range, TypeOK
  <2>2. QED
    BY <2>1 DEF HolderInv, HeldAreRegistered
<1>2. QED
  BY <1>1, HoldersAlways, TypeCorrect, PTL

-----------------------------------------------------------------------------
(* Where MAX_PENDING_CLIENT_SOCKETS allows for all descriptors the process *)
(* may have, nothing is evicted, however many clients come and go.         *)

Roomy == Cardinality(FDs) <= MaxPending

\* A worker that may still delete the entry of its socket.
Working(w) == wpc[w] \in {"reading", "serving", "deleting"}
Rearming(w) == wpc[w] = "rearming"

\* The entry of s is in the table at its descriptor.
Tabled(s) == fd[s] \in FDs /\ pool.table[fd[s]] = s

\* The descriptor of an entry that is not in use.
Idle(f) == Known(pool, f) /\ pool.table[f] \notin pool.inUse

\* What is queued, or held by a worker that may still delete it, is in the table
\* and in use, and what is in the table and in use is queued or held.
WorkIsInUse ==
  /\ \A w \in Workers : Working(w) => Tabled(cs[w]) /\ cs[w] \in pool.inUse
  /\ \A i \in 1 .. Len(jobs) : Tabled(jobs[i]) /\ jobs[i] \in pool.inUse
  /\ \A f \in FDs :
       Known(pool, f) /\ ~Idle(f) =>
         \/ \E i \in 1 .. Len(jobs) : jobs[i] = pool.table[f]
         \/ \E w \in Workers : Working(w) /\ cs[w] = pool.table[f]
  /\ \A s \in pool.inUse : Accepted(s)

\* Nothing is queued twice, held twice, or queued and held.
WorkIsApart ==
  /\ \A v, w \in Workers : Working(v) /\ Working(w) /\ cs[v] = cs[w] => v = w
  /\ \A i, j \in 1 .. Len(jobs) : jobs[i] = jobs[j] => i = j
  /\ \A w \in Workers, i \in 1 .. Len(jobs) : Working(w) => cs[w] # jobs[i]

\* The main loop is about to take an idle socket into use.
CurIsIdle ==
  /\ cur # None => loop = "events" /\ cur \in batch /\ Idle(cur)
  /\ loop \in {"top", "evict"} => batch = {}

\* With epoll one alone has the turn of an idle socket: the poller, the batch or
\* the worker that is to arm it again.
RearmIsAlone ==
  /\ \A w \in Workers :
       Rearming(w) => /\ poller = "epoll"
                      /\ Tabled(cs[w])
                      /\ Idle(fd[cs[w]])
                      /\ watch[fd[cs[w]]] = "disarmed"
                      /\ fd[cs[w]] \notin batch
  /\ \A v, w \in Workers : Rearming(v) /\ Rearming(w) /\ cs[v] = cs[w] => v = w
ReportIsAlone ==
  /\ poller = "epoll" =>
       \A f \in FDs : /\ f \in batch => Idle(f) /\ watch[f] = "disarmed"
                      /\ watch[f] = "armed" => Idle(f)
  /\ poller = "poll" => \A f \in FDs : watch[f] # "disarmed"

\* An idle socket is watched, reported or about to be armed again.
IdleIsWatched ==
  \A f \in FDs :
    Idle(f) => \/ watch[f] = "armed"
               \/ f \in batch
               \/ \E w \in Workers : Rearming(w) /\ cs[w] = pool.table[f]

NothingEvicted ==
  /\ pool.size = Cardinality(Pending(pool))
  /\ surplus <= 0
  /\ evicted = <<>>
  /\ closing = None

RoomyInv ==
  /\ WorkIsInUse
  /\ WorkIsApart
  /\ CurIsIdle
  /\ RearmIsAlone
  /\ ReportIsAlone
  /\ IdleIsWatched
  /\ NothingEvicted

-----------------------------------------------------------------------------
(* What the operations of the pool do to inUse and to size.                *)

\* Linking an entry counts it and uses nothing.
LEMMA LinkedUse ==
  ASSUME NEW p \in Pools, NEW s \in Socks
  PROVE  Linked(p, s).inUse = p.inUse /\ Linked(p, s).size = p.size + 1
BY DEF Linked, Pools

\* A new socket counts as pending.
LEMMA AddPendingUse ==
  ASSUME NEW p \in Pools, NEW f \in FDs, NEW s \in Socks
  PROVE  /\ AddPending(p, f, s).inUse = p.inUse
         /\ AddPending(p, f, s).size = p.size + 1
<1> DEFINE q == [p EXCEPT !.table[f] = s]
<1>1. q \in Pools /\ q.inUse = p.inUse /\ q.size = p.size
  BY DEF Pools
<1>2. AddPending(p, f, s) = Linked(q, s)
  BY DEF AddPending
<1> HIDE DEF q
<1>3. QED
  BY <1>1, <1>2, LinkedUse

\* A socket that is taken into use counts no more.
LEMMA SetInUseUse ==
  ASSUME NEW p \in Pools, NEW f \in FDs, Known(p, f)
  PROVE  /\ SetInUse(p, f).inUse = p.inUse \cup {p.table[f]}
         /\ SetInUse(p, f).size = p.size - 1
<1> DEFINE s == p.table[f]
           q == [p EXCEPT !.inUse = @ \cup {s}]
<1>1. s \in Socks
  BY DEF Pools, Known
<1>2. q \in Pools /\ q.inUse = p.inUse \cup {s} /\ q.size = p.size
  BY <1>1 DEF Pools
<1>3. SetInUse(p, f) = Unlinked(q, s)
  BY DEF SetInUse
<1> HIDE DEF q
<1>4. Unlinked(q, s).inUse = q.inUse /\ Unlinked(q, s).size = q.size - 1
  BY <1>2 DEF Unlinked, Pools
<1>5. QED
  BY <1>2, <1>3, <1>4

\* A socket that is pending again counts again.
LEMMA SetPendingUse ==
  ASSUME NEW p \in Pools, NEW f \in FDs, Known(p, f)
  PROVE  /\ SetPending(p, f).inUse = p.inUse \ {p.table[f]}
         /\ SetPending(p, f).size = p.size + 1
<1> DEFINE s == p.table[f]
           q == [p EXCEPT !.inUse = @ \ {s}, !.prev[s] = None]
<1>1. s \in Socks
  BY DEF Pools, Known
<1>2. q \in Pools /\ q.inUse = p.inUse \ {s} /\ q.size = p.size
  BY <1>1 DEF Pools
<1>3. SetPending(p, f) = Linked(q, s)
  BY DEF SetPending
<1> HIDE DEF q
<1>4. QED
  BY <1>1, <1>2, <1>3, LinkedUse

\* Deleting an entry leaves inUse and size alone.
LEMMA DeleteUse ==
  ASSUME NEW p \in Pools, NEW f \in FDs
  PROVE  Delete(p, f).inUse = p.inUse /\ Delete(p, f).size = p.size
BY DEF Delete, Pools

\* There are no more pending sockets than descriptors.
LEMMA PendingFinite ==
  ASSUME NEW p \in Pools
  PROVE  /\ IsFiniteSet(Pending(p)) /\ Cardinality(Pending(p)) \in Nat
         /\ Cardinality(Pending(p)) <= Cardinality(FDs)
<1> DEFINE entries == {f \in FDs : p.table[f] \in Pending(p)}
           of == [f \in entries |-> p.table[f]]
<1>1. /\ IsFiniteSet(entries) /\ Cardinality(entries) \in Nat
      /\ Cardinality(FDs) \in Nat /\ Cardinality(entries) <= Cardinality(FDs)
  BY FS_Subset, FS_CardinalityType, ClientSocketPoolAssumption
<1>2. of \in Surjection(entries, Pending(p))
  <2>1. of \in [entries -> Pending(p)]
    OBVIOUS
  <2>2. ASSUME NEW s \in Pending(p) PROVE \E f \in entries : of[f] = s
    BY <2>2 DEF Pending
  <2> HIDE DEF entries, of
  <2>3. QED
    BY <2>1, <2>2 DEF Surjection
<1> HIDE DEF entries, of
<1>3. IsFiniteSet(Pending(p)) /\ Cardinality(Pending(p)) <= Cardinality(entries)
  BY <1>1, <1>2, FS_Surjection
<1>4. Cardinality(Pending(p)) \in Nat
  BY <1>3, FS_CardinalityType
<1>5. QED
  BY <1>1, <1>3, <1>4

\* The number of pending sockets when one more or one less is pending.
LEMMA PendingCounted ==
  ASSUME NEW p \in Pools, NEW q \in Pools, NEW s
  PROVE  /\ Pending(q) = Pending(p) \cup {s} /\ s \notin Pending(p)
              => Cardinality(Pending(q)) = Cardinality(Pending(p)) + 1
         /\ Pending(q) = Pending(p) \ {s} /\ s \in Pending(p)
              => Cardinality(Pending(q)) = Cardinality(Pending(p)) - 1
BY PendingFinite, FS_AddElement, FS_RemoveElement

-----------------------------------------------------------------------------
(* Each step keeps RoomyInv.                                               *)

All == Inv /\ HolderInv /\ RoomyInv

\* Sorts of what the invariant is about.
LEMMA RoomySorts ==
  ASSUME All
  PROVE  /\ pool \in Pools
         /\ pool.table \in [FDs -> Socks \cup {None}]
         /\ pool.inUse \subseteq Socks /\ pool.size \in Int
         /\ fd \in [Socks -> FDs \cup {None}]
         /\ wpc \in [Workers -> WorkerStates]
         /\ cs \in [Workers -> Socks \cup {None}]
         /\ jobs \in Seq(Socks)
         /\ Len(jobs) \in Nat
         /\ \A i \in 1 .. Len(jobs) : jobs[i] \in Socks
         /\ watch \in [FDs -> {"off", "armed", "disarmed"}]
         /\ \A w \in Workers :
              Working(w) \/ Rearming(w) => cs[w] \in Socks /\ fd[cs[w]] \in FDs
         /\ \A f, g \in FDs :
              pool.table[f] # None /\ pool.table[f] = pool.table[g] => f = g
         /\ \A f \in FDs :
              pool.table[f] # None =>
                /\ pool.table[f] \in Socks
                /\ fd[pool.table[f]] = f
                /\ sock[pool.table[f]] = "open"
<1>1. TypeOK /\ TableIsOpen /\ WorkIsInUse /\ RearmIsAlone
  BY DEF All, Inv, RoomyInv
<1>2. ASSUME NEW f \in FDs, pool.table[f] # None
      PROVE  /\ pool.table[f] \in Socks
             /\ fd[pool.table[f]] = f
             /\ sock[pool.table[f]] = "open"
  BY <1>1, <1>2 DEF TypeOK, Pools, TableIsOpen, Known, Owns
<1>3. ASSUME NEW w \in Workers, Working(w) \/ Rearming(w)
      PROVE  cs[w] \in Socks /\ fd[cs[w]] \in FDs
  <2>1. wpc[w] # "idle"
    BY <1>3 DEF Working, Rearming
  <2>2. QED
    BY <1>1, <1>3, <2>1 DEF TypeOK, WorkIsInUse, RearmIsAlone, Tabled
<1>4. jobs \in Seq(Socks) /\ Len(jobs) \in Nat /\ \A i \in 1 .. Len(jobs) : jobs[i] \in Socks
  BY <1>1 DEF TypeOK
<1>5. QED
  BY <1>1, <1>2, <1>3, <1>4 DEF TypeOK, Pools

\* The sockets in use stay accepted.
LEMMA UseAccepted ==
  ASSUME All, Next, NEW s \in pool.inUse
  PROVE  Accepted(s)'
BY AcceptedForGood, RoomySorts DEF All, Inv, RoomyInv, WorkIsInUse

\* Steps that touch neither the pool nor the workers.
LEMMA RoomyOthers ==
  ASSUME All, Roomy, Next,
         Measure \/ AcceptFail \/ \E s \in Socks : Dial(s) \/ Say(s)
  PROVE  RoomyInv'
<1>1. UNCHANGED <<pool, fd, wpc, cs, jobs, watch, poller, evicted, closing, cur, batch>>
  BY DEF Measure, AcceptFail, Dial, Say, mainVars, workerVars, closerVars
<1>2. /\ \/ loop' = "evict" /\ loop = "top" /\ surplus' = pool.size - MaxPending
         \/ loop' = "dead" /\ loop = "events" /\ cur = None /\ surplus' = surplus
         \/ loop' = loop /\ surplus' = surplus
  BY DEF Measure, AcceptFail, Dial, Say, mainVars, workerVars, closerVars
<1>3. WorkIsInUse /\ WorkIsApart /\ CurIsIdle /\ RearmIsAlone /\ ReportIsAlone
      /\ IdleIsWatched /\ NothingEvicted
  BY DEF All, RoomyInv
<1>4. WorkIsInUse'
  <2>1. (\A s \in pool.inUse : Accepted(s))'
    BY <1>1, UseAccepted DEF Accepted
  <2>2. QED
    BY <1>1, <1>3, <2>1 DEF WorkIsInUse, Working, Tabled, Known, Idle
<1>5. WorkIsApart'
  BY <1>1, <1>3 DEF WorkIsApart, Working
<1>6. CurIsIdle'
  BY <1>1, <1>2, <1>3 DEF CurIsIdle, Idle, Known
<1>7. RearmIsAlone' /\ ReportIsAlone' /\ IdleIsWatched'
  BY <1>1, <1>3
  DEF RearmIsAlone, ReportIsAlone, IdleIsWatched, Rearming, Tabled, Idle, Known
<1>8. NothingEvicted'
  <2>1. Pending(pool)' = Pending(pool)
    BY <1>1 DEF Pending
  <2>2. surplus' <= 0
    <3>1. /\ pool.size = Cardinality(Pending(pool)) /\ surplus <= 0
          /\ Cardinality(Pending(pool)) \in Nat
          /\ Cardinality(Pending(pool)) <= Cardinality(FDs)
      BY <1>3, PendingFinite, RoomySorts DEF NothingEvicted
    <3>2. Cardinality(FDs) \in Nat /\ MaxPending \in Nat
      BY FS_CardinalityType, ClientSocketPoolAssumption, ClientConnectionsAssumption
    <3>3. QED
      BY <1>2, <3>1, <3>2 DEF Roomy
  <2>3. QED
    BY <1>1, <1>3, <2>1, <2>2 DEF NothingEvicted
<1>9. QED
  BY <1>4, <1>5, <1>6, <1>7, <1>8 DEF RoomyInv

\* A poll reports idle sockets only, or it does not disarm what it reports.
LEMMA RoomyPoll ==
  ASSUME All, Next, Poll
  PROVE  RoomyInv'
<1>1. UNCHANGED <<pool, fd, sock, wpc, cs, jobs, poller, evicted, closing, cur>>
  BY DEF Poll, workerVars, closerVars
<1>2. /\ loop = "evict" /\ loop' \in {"top", "events"} /\ surplus' = 0
      /\ batch' = Ready
      /\ watch' = [f \in FDs |-> IF poller = "epoll" /\ f \in Ready
                                  THEN "disarmed" ELSE watch[f]]
      /\ loop' = "top" => Ready = {}
  BY DEF Poll, LoopAfter, Disarmed
<1>3. \A f \in Ready : f \in FDs => watch[f] = "armed"
  BY ClientConnectionsAssumption DEF Ready
<1> HIDE DEF Ready
<1>4. WorkIsInUse /\ WorkIsApart /\ CurIsIdle /\ RearmIsAlone /\ ReportIsAlone
      /\ IdleIsWatched /\ NothingEvicted
  BY DEF All, RoomyInv
<1>5. cur = None /\ batch = {}
  BY <1>2, <1>4 DEF CurIsIdle
<1>6. \A f : Idle(f)' <=> Idle(f)
  BY <1>1 DEF Idle, Known
<1>7. WorkIsInUse' /\ WorkIsApart'
  BY <1>1, <1>4
  DEF WorkIsInUse, WorkIsApart, Working, Tabled, Known, Idle, Accepted
<1>8. CurIsIdle'
  BY <1>1, <1>2, <1>5 DEF CurIsIdle
<1>9. RearmIsAlone'
  <2>1. ASSUME NEW w \in Workers, Rearming(w)
        PROVE  /\ watch'[fd[cs[w]]] = "disarmed"
               /\ fd[cs[w]] \notin batch'
    <3>1. watch[fd[cs[w]]] = "disarmed" /\ fd[cs[w]] \in FDs
      BY <1>4, <2>1 DEF RearmIsAlone, Tabled
    <3>2. QED
      BY <1>2, <1>3, <3>1
  <2>2. QED
    BY <1>1, <1>4, <2>1 DEF RearmIsAlone, Rearming, Tabled, Idle, Known
<1>10. ReportIsAlone'
  <2>1. ASSUME poller = "epoll", NEW f \in FDs
        PROVE  /\ f \in batch' => Idle(f) /\ watch'[f] = "disarmed"
               /\ watch'[f] = "armed" => Idle(f)
    BY <1>2, <1>3, <1>4, <2>1 DEF ReportIsAlone
  <2>2. ASSUME poller = "poll", NEW f \in FDs
        PROVE  watch'[f] # "disarmed"
    BY <1>2, <1>4, <2>2 DEF ReportIsAlone
  <2>3. QED
    BY <1>1, <1>6, <2>1, <2>2 DEF ReportIsAlone
<1>11. IdleIsWatched'
  <2> SUFFICES ASSUME NEW f \in FDs, Idle(f)
               PROVE  \/ watch'[f] = "armed"
                      \/ f \in batch'
                      \/ \E w \in Workers : Rearming(w) /\ cs[w] = pool.table[f]
    BY <1>1, <1>6 DEF IdleIsWatched, Rearming
  <2>1. QED
    BY <1>2, <1>4, <1>5 DEF IdleIsWatched
<1>12. NothingEvicted'
  BY <1>1, <1>2, <1>4 DEF NothingEvicted, Pending
<1>13. QED
  BY <1>7, <1>8, <1>9, <1>10, <1>11, <1>12 DEF RoomyInv

\* Only with poll(), which watches on, a report is skipped.
LEMMA RoomyCheck ==
  ASSUME All, Next, NEW f \in FDs, Check(f)
  PROVE  RoomyInv'
<1>1. UNCHANGED <<pool, fd, sock, wpc, cs, jobs, watch, poller, evicted, closing, surplus>>
  BY DEF Check, workerVars, closerVars
<1>2. /\ loop = "events" /\ cur = None /\ f \in batch
      /\ \/ /\ Skipped(f)
            /\ batch' = {} /\ loop' = "top" /\ cur' = None
         \/ /\ ~Skipped(f)
            /\ batch' = batch /\ loop' = loop /\ cur' = f
  BY DEF Check
<1>3. WorkIsInUse /\ WorkIsApart /\ CurIsIdle /\ RearmIsAlone /\ ReportIsAlone
      /\ IdleIsWatched /\ NothingEvicted
  BY DEF All, RoomyInv
<1>4. Skipped(f) <=> ~Idle(f)
  BY DEF Skipped, IsInUse, Idle
<1>5. \A g : Idle(g)' <=> Idle(g)
  BY <1>1 DEF Idle, Known
<1>6. WorkIsInUse' /\ WorkIsApart'
  BY <1>1, <1>3
  DEF WorkIsInUse, WorkIsApart, Working, Tabled, Known, Idle, Accepted
<1>7. CurIsIdle'
  <2>1. cur' # None => loop' = "events" /\ cur' \in batch' /\ Idle(cur')
    BY <1>2, <1>4
  <2>2. loop' \in {"top", "evict"} => batch' = {}
    BY <1>2
  <2>3. QED
    BY <1>1, <2>1, <2>2 DEF CurIsIdle, Idle, Known
<1>8. batch' \subseteq batch
  BY <1>2
<1>9. RearmIsAlone'
  BY <1>1, <1>3, <1>8 DEF RearmIsAlone, Rearming, Tabled, Idle, Known
<1>10. ReportIsAlone'
  BY <1>1, <1>3, <1>5, <1>8 DEF ReportIsAlone
<1>11. IdleIsWatched'
  <2>1. CASE batch' = batch
    BY <1>1, <1>3, <2>1 DEF IdleIsWatched, Rearming, Idle, Known
  <2>2. CASE Skipped(f)
    <3>1. poller = "poll"
      BY <1>2, <1>3, <1>4, <2>2, ClientConnectionsAssumption
      DEF ReportIsAlone, All, Inv, TypeOK
    <3>2. ASSUME NEW g \in FDs, Idle(g)
          PROVE  watch[g] = "armed"
      BY <1>3, <3>1, <3>2, RoomySorts
      DEF ReportIsAlone, All, HolderInv, HeldAreRegistered, Idle
    <3>3. QED
      BY <1>1, <1>5, <3>2 DEF IdleIsWatched
  <2>3. QED
    BY <1>2, <2>1, <2>2
<1>12. NothingEvicted'
  BY <1>1, <1>3 DEF NothingEvicted, Pending
<1>13. QED
  BY <1>6, <1>7, <1>9, <1>10, <1>11, <1>12 DEF RoomyInv

\* An accepted socket is idle and watched, at a descriptor nobody has.
LEMMA RoomyAccept ==
  ASSUME All, Next, Accept
  PROVE  RoomyInv'
<1>1. UNCHANGED <<wpc, cs, jobs, poller, evicted, closing, surplus, cur>>
  BY DEF Accept, workerVars, closerVars
<1>2. PICK s \in Socks, f0 \in FDs :
        /\ sock[s] = "queued"
        /\ Free(f0)
        /\ fd' = [fd EXCEPT ![s] = f0]
        /\ pool' = AddPending(pool, f0, s)
        /\ watch' = [watch EXCEPT ![f0] = "armed"]
  BY DEF Accept
<1>3. /\ loop = "events" /\ cur = None
      /\ batch' = batch \ {Listener}
      /\ loop' \in {"top", "events"} /\ (loop' = "top" => batch' = {})
  BY DEF Accept, Handled, LoopAfter
<1>4. WorkIsInUse /\ WorkIsApart /\ CurIsIdle /\ RearmIsAlone /\ ReportIsAlone
      /\ IdleIsWatched /\ NothingEvicted
  BY DEF All, RoomyInv
<1>5. /\ pool'.table = [pool.table EXCEPT ![f0] = s]
      /\ pool'.inUse = pool.inUse
      /\ pool'.size = pool.size + 1
  BY <1>2, AddPendingFacts, AddPendingUse, RoomySorts
<1>6. pool.table[f0] = None
  BY <1>2, RoomySorts DEF Free, Owns
<1>7. s \notin pool.inUse /\ \A f \in FDs : pool.table[f] # s
  BY <1>2, <1>4, RoomySorts, ClientSocketPoolAssumption DEF WorkIsInUse, Accepted
<1>8. \A x \in Socks : x # s => fd'[x] = fd[x]
  BY <1>2, RoomySorts
<1>9. /\ s # None
      /\ \A f \in FDs : f # f0 => pool'.table[f] = pool.table[f]
      /\ pool'.table[f0] = s
  BY <1>5, RoomySorts, ClientSocketPoolAssumption
<1>10. /\ \A f \in FDs : f # f0 => (Idle(f)' <=> Idle(f))
       /\ Idle(f0)'
  BY <1>5, <1>7, <1>9 DEF Idle, Known
<1>11. \A x \in Socks : Tabled(x) => Tabled(x)' /\ x # s /\ fd[x] # f0
  BY <1>6, <1>7, <1>8, <1>9, RoomySorts, ClientSocketPoolAssumption DEF Tabled
<1>12. /\ \A w \in Workers : Working(w)' <=> Working(w)
       /\ \A w \in Workers : Rearming(w)' <=> Rearming(w)
  BY <1>1 DEF Working, Rearming
<1>13. WorkIsInUse'
  <2>1. (\A w \in Workers : Working(w) => Tabled(cs[w]) /\ cs[w] \in pool.inUse)'
    <3> SUFFICES ASSUME NEW w \in Workers, Working(w)
                 PROVE  Tabled(cs[w])' /\ cs'[w] \in pool'.inUse
      BY <1>12
    <3>1. PICK x \in Socks : x = cs[w] /\ x = cs'[w] /\ Tabled(x) /\ x \in pool.inUse
      BY <1>1, <1>4, RoomySorts DEF WorkIsInUse
    <3>2. QED
      BY <1>5, <1>11, <3>1 DEF Tabled
  <2>2. (\A i \in 1 .. Len(jobs) : Tabled(jobs[i]) /\ jobs[i] \in pool.inUse)'
    <3> SUFFICES ASSUME NEW i \in 1 .. Len(jobs)
                 PROVE  Tabled(jobs[i])' /\ jobs'[i] \in pool'.inUse
      BY <1>1
    <3>1. PICK x \in Socks : x = jobs[i] /\ x = jobs'[i] /\ Tabled(x) /\ x \in pool.inUse
      BY <1>1, <1>4, RoomySorts DEF WorkIsInUse
    <3>2. QED
      BY <1>5, <1>11, <3>1 DEF Tabled
  <2>3. (\A f \in FDs :
           Known(pool, f) /\ ~Idle(f) =>
             \/ \E i \in 1 .. Len(jobs) : jobs[i] = pool.table[f]
             \/ \E w \in Workers : Working(w) /\ cs[w] = pool.table[f])'
    <3> SUFFICES ASSUME NEW f \in FDs, Known(pool, f)', ~Idle(f)'
                 PROVE  \/ \E i \in 1 .. Len(jobs) : jobs[i] = pool'.table[f]
                        \/ \E w \in Workers : Working(w) /\ cs[w] = pool'.table[f]
      BY <1>1, <1>12
    <3>1. f # f0 /\ pool'.table[f] = pool.table[f]
      BY <1>9, <1>10
    <3>2. Known(pool, f) /\ ~Idle(f)
      BY <1>10, <3>1 DEF Known
    <3>3. QED
      BY <1>4, <3>1, <3>2 DEF WorkIsInUse
  <2>4. (\A x \in pool.inUse : Accepted(x))'
    BY <1>5, UseAccepted DEF Accepted
  <2>5. QED
    BY <2>1, <2>2, <2>3, <2>4 DEF WorkIsInUse
<1>14. WorkIsApart'
  BY <1>1, <1>4 DEF WorkIsApart, Working
<1>15. CurIsIdle'
  BY <1>1, <1>3 DEF CurIsIdle
<1>16. RearmIsAlone'
  <2> SUFFICES ASSUME NEW w \in Workers, Rearming(w)
               PROVE  /\ poller = "epoll"
                      /\ Tabled(cs[w])'
                      /\ Idle(fd[cs[w]])'
                      /\ watch'[fd'[cs'[w]]] = "disarmed"
                      /\ fd'[cs'[w]] \notin batch'
    BY <1>1, <1>4, <1>12 DEF RearmIsAlone
  <2>1. PICK x \in Socks, f \in FDs : x = cs[w] /\ x = cs'[w] /\ f = fd[x]
    BY <1>1, RoomySorts
  <2>2. /\ poller = "epoll" /\ Tabled(x) /\ Idle(f) /\ watch[f] = "disarmed"
        /\ f \notin batch
    BY <1>4, <2>1 DEF RearmIsAlone
  <2>3. f # f0 /\ fd'[x] = f /\ Tabled(x)'
    BY <1>8, <1>11, <2>1, <2>2
  <2>4. Idle(f)' /\ watch'[f] = "disarmed" /\ f \notin batch'
    BY <1>2, <1>3, <1>10, <2>2, <2>3, RoomySorts
  <2>5. QED
    BY <2>1, <2>2, <2>3, <2>4 DEF Tabled, Idle, Known
<1>17. ReportIsAlone'
  <2>1. ASSUME poller = "epoll", NEW f \in FDs
        PROVE  /\ f \in batch' => Idle(f)' /\ watch'[f] = "disarmed"
               /\ watch'[f] = "armed" => Idle(f)'
    <3>1. ~Idle(f0)
      BY <1>6 DEF Idle, Known
    <3>2. f0 \notin batch
      BY <1>4, <2>1, <3>1 DEF ReportIsAlone
    <3>3. f # f0 => watch'[f] = watch[f]
      BY <1>2, RoomySorts
    <3>4. QED
      BY <1>3, <1>4, <1>10, <2>1, <3>2, <3>3 DEF ReportIsAlone
  <2>2. ASSUME poller = "poll", NEW f \in FDs
        PROVE  watch'[f] # "disarmed"
    BY <1>2, <1>4, <2>2, RoomySorts DEF ReportIsAlone
  <2>3. QED
    BY <1>1, <2>1, <2>2 DEF ReportIsAlone
<1>18. IdleIsWatched'
  <2> SUFFICES ASSUME NEW f \in FDs, Idle(f)'
               PROVE  \/ watch'[f] = "armed"
                      \/ f \in batch'
                      \/ \E w \in Workers : Rearming(w) /\ cs[w] = pool'.table[f]
    BY <1>1, <1>12 DEF IdleIsWatched
  <2>1. CASE f = f0
    BY <1>2, <2>1, RoomySorts
  <2>2. CASE f # f0
    <3>1. Idle(f) /\ watch'[f] = watch[f] /\ pool'.table[f] = pool.table[f]
      BY <1>2, <1>9, <1>10, <2>2, RoomySorts
    <3>2. f \in batch => f \in batch'
      BY <1>3, ClientConnectionsAssumption
    <3>3. QED
      BY <1>4, <3>1, <3>2 DEF IdleIsWatched
  <2>3. QED
    BY <2>1, <2>2
<1>19. NothingEvicted'
  <2>1. s \notin Pending(pool)
    BY <1>7 DEF Pending
  <2>2. Pending(pool') = Pending(pool) \cup {s}
    BY <1>5, <1>6, <1>7, <1>9, RoomySorts, ClientSocketPoolAssumption DEF Pending
  <2>3. pool' \in Pools
    BY <1>2, AddPendingFacts, RoomySorts
  <2>4. Cardinality(Pending(pool')) = Cardinality(Pending(pool)) + 1
    BY <2>1, <2>2, <2>3, PendingCounted, RoomySorts
  <2>5. QED
    BY <1>1, <1>4, <1>5, <2>4 DEF NothingEvicted
<1>20. QED
  BY <1>13, <1>14, <1>15, <1>16, <1>17, <1>18, <1>19 DEF RoomyInv

\* An idle socket is taken into use and queued, and its turn is nobody else's.
LEMMA RoomyDispatch ==
  ASSUME All, Next, Dispatch
  PROVE  RoomyInv'
<1>1. UNCHANGED <<fd, sock, wpc, cs, watch, poller, evicted, closing, surplus>>
  BY DEF Dispatch, workerVars, closerVars
<1>2. WorkIsInUse /\ WorkIsApart /\ CurIsIdle /\ RearmIsAlone /\ ReportIsAlone
      /\ IdleIsWatched /\ NothingEvicted
  BY DEF All, RoomyInv
<1>3. PICK f0 \in FDs, x \in Socks :
        f0 = cur /\ f0 \in batch /\ Idle(f0) /\ x = pool.table[f0]
  BY <1>2, RoomySorts DEF Dispatch, CurIsIdle, All, Inv, TypeOK, Idle, Known
<1>4. /\ jobs' = Append(jobs, x)
      /\ pool' = SetInUse(pool, f0)
      /\ batch' = batch \ {f0}
      /\ loop' \in {"top", "events"} /\ (loop' = "top" => batch' = {})
      /\ cur' = None
  BY <1>3 DEF Dispatch, Idle, Handled, LoopAfter
<1>5. /\ Known(pool, f0)
      /\ x = pool.table[f0]
  BY <1>3 DEF Idle
<1>6. /\ pool' \in Pools
      /\ pool'.table = pool.table
      /\ pool'.inUse = pool.inUse \cup {x}
      /\ pool'.size = pool.size - 1
  BY <1>3, <1>4, <1>5, SetInUseFacts, SetInUseUse, RoomySorts
<1>7. \A f \in FDs : Idle(f)' <=> Idle(f) /\ f # f0
  BY <1>3, <1>6, RoomySorts DEF Idle, Known
<1>8. /\ \A w \in Workers : Working(w)' <=> Working(w)
      /\ \A w \in Workers : Rearming(w)' <=> Rearming(w)
  BY <1>1 DEF Working, Rearming
<1>9. \A i \in 1 .. Len(jobs') :
        \/ i \in 1 .. Len(jobs) /\ jobs'[i] = jobs[i]
        \/ i = Len(jobs) + 1 /\ jobs'[i] = x
  BY <1>3, <1>4, RoomySorts
<1>10. /\ Len(jobs) + 1 \in 1 .. Len(jobs') /\ jobs'[Len(jobs) + 1] = x
       /\ \A i \in 1 .. Len(jobs) : i \in 1 .. Len(jobs') /\ jobs'[i] = jobs[i]
  BY <1>3, <1>4, RoomySorts
<1>11. Tabled(x) /\ x \notin pool.inUse
  BY <1>3, RoomySorts DEF Tabled, Idle, Known
<1>12. WorkIsInUse'
  <2>1. (\A w \in Workers : Working(w) => Tabled(cs[w]) /\ cs[w] \in pool.inUse)'
    BY <1>1, <1>2, <1>6, <1>8 DEF WorkIsInUse, Tabled
  <2>2. (\A i \in 1 .. Len(jobs) : Tabled(jobs[i]) /\ jobs[i] \in pool.inUse)'
    BY <1>1, <1>2, <1>6, <1>9, <1>11 DEF WorkIsInUse, Tabled
  <2>3. (\A f \in FDs :
           Known(pool, f) /\ ~Idle(f) =>
             \/ \E i \in 1 .. Len(jobs) : jobs[i] = pool.table[f]
             \/ \E w \in Workers : Working(w) /\ cs[w] = pool.table[f])'
    <3> SUFFICES ASSUME NEW f \in FDs, Known(pool, f)', ~Idle(f)'
                 PROVE  \/ \E i \in 1 .. Len(jobs') : jobs'[i] = pool.table[f]
                        \/ \E w \in Workers : Working(w) /\ cs[w] = pool.table[f]
      BY <1>1, <1>6, <1>8
    <3>1. CASE f = f0
      BY <1>3, <1>10, <3>1
    <3>2. CASE f # f0
      <4>1. Known(pool, f) /\ ~Idle(f)
        BY <1>6, <1>7, <3>2 DEF Known
      <4>2. QED
        BY <1>2, <1>10, <4>1 DEF WorkIsInUse
    <3>3. QED
      BY <3>1, <3>2
  <2>4. (\A y \in pool.inUse : Accepted(y))'
    <3>1. Accepted(x)
      BY <1>3, <1>5, RoomySorts DEF Accepted, Known
    <3>2. QED
      BY <1>1, <1>2, <1>6, <3>1 DEF WorkIsInUse, Accepted
  <2>5. QED
    BY <2>1, <2>2, <2>3, <2>4 DEF WorkIsInUse
<1>13. WorkIsApart'
  <2>1. (\A v, w \in Workers : Working(v) /\ Working(w) /\ cs[v] = cs[w] => v = w)'
    BY <1>1, <1>2, <1>8 DEF WorkIsApart
  <2>2. \A i \in 1 .. Len(jobs) : jobs[i] # x
    BY <1>2, <1>11 DEF WorkIsInUse
  <2>3. (\A i, j \in 1 .. Len(jobs) : jobs[i] = jobs[j] => i = j)'
    BY <1>2, <1>9, <2>2 DEF WorkIsApart
  <2>4. (\A w \in Workers, i \in 1 .. Len(jobs) : Working(w) => cs[w] # jobs[i])'
    BY <1>1, <1>2, <1>8, <1>9, <1>11 DEF WorkIsApart, WorkIsInUse
  <2>5. QED
    BY <2>1, <2>3, <2>4 DEF WorkIsApart
<1>14. CurIsIdle'
  BY <1>4 DEF CurIsIdle
<1>15. RearmIsAlone'
  <2> SUFFICES ASSUME NEW w \in Workers, Rearming(w)
               PROVE  /\ Tabled(cs[w])'
                      /\ Idle(fd[cs[w]])'
                      /\ fd[cs[w]] \notin batch'
    BY <1>1, <1>2, <1>8 DEF RearmIsAlone
  <2>1. PICK f \in FDs : f = fd[cs[w]]
    BY RoomySorts
  <2>2. f # f0 /\ Idle(f) /\ f \notin batch /\ Tabled(cs[w])
    BY <1>2, <1>3, <2>1 DEF RearmIsAlone
  <2>3. Idle(f)' /\ f \notin batch'
    BY <1>4, <1>7, <2>2
  <2>4. QED
    BY <1>1, <1>6, <2>1, <2>2, <2>3 DEF Tabled, Idle, Known
<1>16. ReportIsAlone'
  <2>1. ASSUME poller = "epoll", NEW f \in FDs
        PROVE  /\ f \in batch' => Idle(f)' /\ watch[f] = "disarmed"
               /\ watch[f] = "armed" => Idle(f)'
    BY <1>2, <1>3, <1>4, <1>7, <2>1 DEF ReportIsAlone
  <2>2. QED
    BY <1>1, <1>2, <2>1 DEF ReportIsAlone
<1>17. IdleIsWatched'
  <2> SUFFICES ASSUME NEW f \in FDs, Idle(f)'
               PROVE  \/ watch[f] = "armed"
                      \/ f \in batch'
                      \/ \E w \in Workers : Rearming(w) /\ cs[w] = pool.table[f]
    BY <1>1, <1>6, <1>8 DEF IdleIsWatched
  <2>1. QED
    BY <1>2, <1>4, <1>7 DEF IdleIsWatched
<1>18. NothingEvicted'
  <2>1. x \in Pending(pool)
    BY <1>3, <1>11 DEF Pending
  <2>2. Pending(pool') = Pending(pool) \ {x}
    BY <1>6 DEF Pending
  <2>3. Cardinality(Pending(pool')) = Cardinality(Pending(pool)) - 1
    BY <1>6, <2>1, <2>2, PendingCounted, RoomySorts
  <2>4. QED
    BY <1>1, <1>2, <1>6, <2>3 DEF NothingEvicted
<1>19. QED
  BY <1>12, <1>13, <1>14, <1>15, <1>16, <1>17, <1>18 DEF RoomyInv

\* A worker takes over what was queued.
LEMMA RoomyTake ==
  ASSUME All, Next, NEW u \in Workers, Take(u)
  PROVE  RoomyInv'
<1>1. UNCHANGED <<pool, fd, sock, watch, poller, evicted, closing, surplus, cur,
                  batch, loop>>
  BY DEF Take, mainVars, closerVars
<1>2. WorkIsInUse /\ WorkIsApart /\ CurIsIdle /\ RearmIsAlone /\ ReportIsAlone
      /\ IdleIsWatched /\ NothingEvicted
  BY DEF All, RoomyInv
<1>3. 1 \in 1 .. Len(jobs) /\ Head(jobs) = jobs[1]
  BY RoomySorts DEF Take
<1>4. PICK x \in Socks : x = jobs[1] /\ Tabled(x) /\ x \in pool.inUse
  BY <1>2, <1>3, RoomySorts DEF WorkIsInUse
<1>5. /\ wpc[u] = "idle"
      /\ wpc' = [wpc EXCEPT ![u] = "reading"]
      /\ cs' = [cs EXCEPT ![u] = x]
      /\ jobs' = Tail(jobs)
  BY <1>3, <1>4 DEF Take, Goto
<1>6. /\ \A w \in Workers : w # u => /\ Working(w)' <=> Working(w)
                                     /\ cs'[w] = cs[w]
      /\ \A w \in Workers : Rearming(w)' <=> Rearming(w)
      /\ \A w \in Workers : Rearming(w) => cs'[w] = cs[w]
      /\ Working(u)' /\ ~Working(u) /\ cs'[u] = x
  BY <1>5, RoomySorts DEF Working, Rearming
<1>7. /\ \A i \in 1 .. Len(jobs') :
           i + 1 \in 1 .. Len(jobs) /\ i + 1 # 1 /\ jobs'[i] = jobs[i + 1]
      /\ \A i \in 1 .. Len(jobs) :
           i # 1 => i - 1 \in 1 .. Len(jobs') /\ jobs'[i - 1] = jobs[i]
  BY <1>3, <1>5, RoomySorts
<1>8. WorkIsInUse'
  <2>1. (\A w \in Workers : Working(w) => Tabled(cs[w]) /\ cs[w] \in pool.inUse)'
    <3> SUFFICES ASSUME NEW w \in Workers, Working(w)'
                 PROVE  Tabled(cs[w])' /\ cs'[w] \in pool.inUse
      BY <1>1
    <3>1. CASE w = u
      BY <1>1, <1>4, <1>6, <3>1 DEF Tabled
    <3>2. CASE w # u
      BY <1>1, <1>2, <1>6, <3>2 DEF WorkIsInUse, Tabled
    <3>3. QED
      BY <3>1, <3>2
  <2>2. (\A i \in 1 .. Len(jobs) : Tabled(jobs[i]) /\ jobs[i] \in pool.inUse)'
    BY <1>1, <1>2, <1>7 DEF WorkIsInUse, Tabled
  <2>3. (\A f \in FDs :
           Known(pool, f) /\ ~Idle(f) =>
             \/ \E i \in 1 .. Len(jobs) : jobs[i] = pool.table[f]
             \/ \E w \in Workers : Working(w) /\ cs[w] = pool.table[f])'
    <3> SUFFICES ASSUME NEW f \in FDs, Known(pool, f), ~Idle(f)
                 PROVE  \/ \E i \in 1 .. Len(jobs') : jobs'[i] = pool.table[f]
                        \/ \E w \in Workers : Working(w)' /\ cs'[w] = pool.table[f]
      BY <1>1 DEF Idle, Known
    <3>1. CASE \E i \in 1 .. Len(jobs) : jobs[i] = pool.table[f]
      BY <1>4, <1>6, <1>7, <3>1
    <3>2. CASE \E w \in Workers : Working(w) /\ cs[w] = pool.table[f]
      BY <1>6, <3>2
    <3>3. QED
      BY <1>2, <3>1, <3>2 DEF WorkIsInUse
  <2>4. (\A y \in pool.inUse : Accepted(y))'
    BY <1>1, <1>2 DEF WorkIsInUse, Accepted
  <2>5. QED
    BY <2>1, <2>2, <2>3, <2>4 DEF WorkIsInUse
<1>9. WorkIsApart'
  <2>1. (\A v, w \in Workers : Working(v) /\ Working(w) /\ cs[v] = cs[w] => v = w)'
    BY <1>2, <1>3, <1>4, <1>6 DEF WorkIsApart
  <2>2. (\A i, j \in 1 .. Len(jobs) : jobs[i] = jobs[j] => i = j)'
    <3> SUFFICES ASSUME NEW i \in 1 .. Len(jobs'), NEW j \in 1 .. Len(jobs'),
                        jobs'[i] = jobs'[j]
                 PROVE  i = j
      OBVIOUS
    <3>1. i + 1 = j + 1
      BY <1>2, <1>7 DEF WorkIsApart
    <3>2. QED
      BY <3>1
  <2>3. (\A w \in Workers, i \in 1 .. Len(jobs) : Working(w) => cs[w] # jobs[i])'
    <3> SUFFICES ASSUME NEW w \in Workers, NEW i \in 1 .. Len(jobs'), Working(w)'
                 PROVE  cs'[w] # jobs'[i]
      OBVIOUS
    <3>1. i + 1 \in 1 .. Len(jobs) /\ i + 1 # 1 /\ jobs'[i] = jobs[i + 1]
      BY <1>7
    <3>2. QED
      BY <1>2, <1>3, <1>4, <1>6, <3>1 DEF WorkIsApart
  <2>4. QED
    BY <2>1, <2>2, <2>3 DEF WorkIsApart
<1>10. CurIsIdle'
  BY <1>1, <1>2 DEF CurIsIdle, Idle, Known
<1>11. RearmIsAlone'
  BY <1>1, <1>2, <1>6 DEF RearmIsAlone, Tabled, Idle, Known
<1>12. ReportIsAlone'
  BY <1>1, <1>2 DEF ReportIsAlone, Idle, Known
<1>13. IdleIsWatched'
  BY <1>1, <1>2, <1>6 DEF IdleIsWatched, Idle, Known
<1>14. NothingEvicted'
  BY <1>1, <1>2 DEF NothingEvicted, Pending
<1>15. QED
  BY <1>8, <1>9, <1>10, <1>11, <1>12, <1>13, <1>14 DEF RoomyInv

\* Reading and answering leave the books alone.
LEMMA RoomyTurn ==
  ASSUME All, Next, NEW u \in Workers, Read(u) \/ Drop(u)
  PROVE  RoomyInv'
<1>1. UNCHANGED <<pool, fd, sock, watch, poller, evicted, closing, surplus, cur,
                  batch, loop, jobs, cs>>
  BY DEF Read, Drop, mainVars, closerVars
<1>2. WorkIsInUse /\ WorkIsApart /\ CurIsIdle /\ RearmIsAlone /\ ReportIsAlone
      /\ IdleIsWatched /\ NothingEvicted
  BY DEF All, RoomyInv
<1>3. /\ \A w \in Workers : Working(w)' <=> Working(w)
      /\ \A w \in Workers : Rearming(w)' <=> Rearming(w)
  BY RoomySorts DEF Read, Drop, Goto, Outcomes, Working, Rearming
<1>4. WorkIsInUse'
  BY <1>1, <1>2, <1>3 DEF WorkIsInUse, Tabled, Idle, Known, Accepted
<1>5. WorkIsApart'
  BY <1>1, <1>2, <1>3 DEF WorkIsApart
<1>6. CurIsIdle'
  BY <1>1, <1>2 DEF CurIsIdle, Idle, Known
<1>7. RearmIsAlone' /\ ReportIsAlone' /\ IdleIsWatched'
  BY <1>1, <1>2, <1>3
  DEF RearmIsAlone, ReportIsAlone, IdleIsWatched, Tabled, Idle, Known
<1>8. NothingEvicted'
  BY <1>1, <1>2 DEF NothingEvicted, Pending
<1>9. QED
  BY <1>4, <1>5, <1>6, <1>7, <1>8 DEF RoomyInv

\* Steps of a worker that may still delete its entry touch no other entry.
LEMMA WorkingOwns ==
  ASSUME All, NEW u \in Workers, Working(u)
  PROVE  \E x \in Socks, f0 \in FDs :
           /\ x = cs[u] /\ f0 = fd[x]
           /\ pool.table[f0] = x /\ x \in pool.inUse /\ x # None
           /\ Known(pool, f0) /\ ~Idle(f0)
           /\ \A w \in Workers : Working(w) /\ w # u => cs[w] # x
           /\ \A i \in 1 .. Len(jobs) : jobs[i] # x
           /\ \A f \in FDs : f # f0 => pool.table[f] # x
           /\ poller = "epoll" => watch[f0] = "disarmed" /\ f0 \notin batch
           /\ poller # "epoll" => watch[f0] = "armed"
<1>1. WorkIsInUse /\ WorkIsApart /\ ReportIsAlone /\ HeldAreRegistered
  BY DEF All, RoomyInv, HolderInv
<1>2. PICK x \in Socks, f0 \in FDs : x = cs[u] /\ f0 = fd[x]
  BY RoomySorts
<1>3. pool.table[f0] = x /\ x \in pool.inUse /\ x # None
  BY <1>1, <1>2, ClientSocketPoolAssumption DEF WorkIsInUse, Tabled
<1>4. Known(pool, f0) /\ ~Idle(f0)
  BY <1>3 DEF Known, Idle
<1>5. watch[f0] # "off"
  BY <1>1, <1>4 DEF HeldAreRegistered
<1>6. poller \in {"epoll", "poll"}
  BY ClientConnectionsAssumption DEF All, Inv, TypeOK
<1>7. /\ poller = "epoll" => watch[f0] = "disarmed" /\ f0 \notin batch
      /\ poller # "epoll" => watch[f0] = "armed"
  BY <1>1, <1>4, <1>5, <1>6, RoomySorts DEF ReportIsAlone
<1>8. \A f \in FDs : f # f0 => pool.table[f] # x
  BY <1>3, RoomySorts
<1>9. /\ \A w \in Workers : Working(w) /\ w # u => cs[w] # x
      /\ \A i \in 1 .. Len(jobs) : jobs[i] # x
  BY <1>1, <1>2 DEF WorkIsApart
<1>10. QED
  BY <1>2, <1>3, <1>4, <1>7, <1>8, <1>9

\* The entry of a worker that answered becomes idle, and with epoll its turn is
\* the worker's until it has armed the socket again.
LEMMA RoomyKeep ==
  ASSUME All, Next, NEW u \in Workers, Keep(u)
  PROVE  RoomyInv'
<1>1. UNCHANGED <<fd, sock, watch, poller, evicted, closing, surplus, cur, batch,
                  loop, jobs>>
  BY DEF Keep, mainVars, closerVars
<1>2. WorkIsInUse /\ WorkIsApart /\ CurIsIdle /\ RearmIsAlone /\ ReportIsAlone
      /\ IdleIsWatched /\ NothingEvicted
  BY DEF All, RoomyInv
<1>3. wpc[u] = "serving" /\ Working(u)
  BY DEF Keep, Working
<1>4. PICK x \in Socks, f0 \in FDs :
        /\ x = cs[u] /\ f0 = fd[x]
        /\ pool.table[f0] = x /\ x \in pool.inUse /\ x # None
        /\ Known(pool, f0) /\ ~Idle(f0)
        /\ \A w \in Workers : Working(w) /\ w # u => cs[w] # x
        /\ \A i \in 1 .. Len(jobs) : jobs[i] # x
        /\ \A f \in FDs : f # f0 => pool.table[f] # x
        /\ poller = "epoll" => watch[f0] = "disarmed" /\ f0 \notin batch
        /\ poller # "epoll" => watch[f0] = "armed"
  BY <1>3, WorkingOwns
<1>5. /\ pool' = SetPending(pool, f0)
      /\ \/ /\ poller = "epoll"
            /\ wpc' = [wpc EXCEPT ![u] = "rearming"]
            /\ cs' = cs
         \/ /\ poller # "epoll"
            /\ wpc' = [wpc EXCEPT ![u] = "idle"]
            /\ cs' = [cs EXCEPT ![u] = None]
  BY <1>4 DEF Keep, Goto, Leave
<1>6. /\ pool' \in Pools
      /\ pool'.table = pool.table
      /\ pool'.inUse = pool.inUse \ {x}
      /\ pool'.size = pool.size + 1
  BY <1>4, <1>5, SetPendingFacts, SetPendingUse, RoomySorts
<1>7. \A f \in FDs : Idle(f)' <=> Idle(f) \/ f = f0
  BY <1>4, <1>6 DEF Idle, Known
<1>8. /\ \A w \in Workers : w # u => cs'[w] = cs[w] /\ wpc'[w] = wpc[w]
      /\ \A w \in Workers : Working(w)' => Working(w) /\ w # u
      /\ \A w \in Workers : Rearming(w)' => \/ Rearming(w) /\ w # u
                                            \/ w = u /\ poller = "epoll" /\ cs' = cs
      /\ poller = "epoll" => Rearming(u)' /\ cs'[u] = x
      /\ ~Rearming(u)
  BY <1>3, <1>4, <1>5, RoomySorts DEF Working, Rearming
<1>9. WorkIsInUse'
  <2>1. (\A w \in Workers : Working(w) => Tabled(cs[w]) /\ cs[w] \in pool.inUse)'
    BY <1>1, <1>2, <1>4, <1>6, <1>8 DEF WorkIsInUse, Tabled
  <2>2. (\A i \in 1 .. Len(jobs) : Tabled(jobs[i]) /\ jobs[i] \in pool.inUse)'
    BY <1>1, <1>2, <1>4, <1>6 DEF WorkIsInUse, Tabled
  <2>3. (\A f \in FDs :
           Known(pool, f) /\ ~Idle(f) =>
             \/ \E i \in 1 .. Len(jobs) : jobs[i] = pool.table[f]
             \/ \E w \in Workers : Working(w) /\ cs[w] = pool.table[f])'
    <3> SUFFICES ASSUME NEW f \in FDs, Known(pool, f)', ~Idle(f)'
                 PROVE  \/ \E i \in 1 .. Len(jobs) : jobs[i] = pool.table[f]
                        \/ \E w \in Workers : Working(w)' /\ cs'[w] = pool.table[f]
      BY <1>1, <1>6
    <3>1. Known(pool, f) /\ ~Idle(f) /\ f # f0 /\ pool.table[f] # x
      BY <1>4, <1>6, <1>7 DEF Known
    <3>2. ASSUME NEW w \in Workers, Working(w), w # u
          PROVE  Working(w)' /\ cs'[w] = cs[w]
      BY <1>8, <3>2 DEF Working
    <3>3. QED
      BY <1>2, <1>4, <3>1, <3>2 DEF WorkIsInUse
  <2>4. (\A y \in pool.inUse : Accepted(y))'
    BY <1>1, <1>2, <1>6 DEF WorkIsInUse, Accepted
  <2>5. QED
    BY <2>1, <2>2, <2>3, <2>4 DEF WorkIsInUse
<1>10. WorkIsApart'
  BY <1>1, <1>2, <1>8 DEF WorkIsApart
<1>11. CurIsIdle'
  <2>1. cur \in FDs \cup {None}
    BY DEF All, Inv, TypeOK
  <2>2. QED
    BY <1>1, <1>2, <1>7, <2>1 DEF CurIsIdle, Idle, Known
<1>12. RearmIsAlone'
  <2>1. ASSUME NEW w \in Workers, Rearming(w)'
        PROVE  /\ poller = "epoll"
               /\ Tabled(cs[w])'
               /\ Idle(fd[cs[w]])'
               /\ watch[fd[cs'[w]]] = "disarmed"
               /\ fd[cs'[w]] \notin batch
    <3>1. CASE Rearming(w) /\ w # u
      <4>1. PICK f \in FDs : f = fd[cs[w]] /\ cs'[w] = cs[w]
        BY <1>8, <3>1, RoomySorts
      <4>2. QED
        BY <1>1, <1>2, <1>6, <1>7, <3>1, <4>1 DEF RearmIsAlone, Tabled, Idle, Known
    <3>2. CASE w = u /\ poller = "epoll"
      <4>1. cs'[w] = x /\ Idle(f0)'
        BY <1>7, <1>8, <3>2
      <4>2. QED
        BY <1>1, <1>4, <1>6, <3>2, <4>1 DEF Tabled, Idle, Known
    <3>3. QED
      BY <1>8, <2>1, <3>1, <3>2
  <2>2. ASSUME NEW w \in Workers, Rearming(w), w # u
        PROVE  cs[w] # x
    BY <1>2, <1>4, <2>2 DEF RearmIsAlone
  <2>3. (\A v, w \in Workers :
           Rearming(v) /\ Rearming(w) /\ cs[v] = cs[w] => v = w)'
    BY <1>2, <1>4, <1>8, <2>2 DEF RearmIsAlone
  <2>4. QED
    BY <1>1, <2>1, <2>3 DEF RearmIsAlone
<1>13. ReportIsAlone'
  BY <1>1, <1>2, <1>7 DEF ReportIsAlone
<1>14. IdleIsWatched'
  <2> SUFFICES ASSUME NEW f \in FDs, Idle(f)'
               PROVE  \/ watch[f] = "armed"
                      \/ f \in batch
                      \/ \E w \in Workers : Rearming(w)' /\ cs'[w] = pool.table[f]
    BY <1>1, <1>6 DEF IdleIsWatched
  <2>1. CASE f = f0
    BY <1>4, <1>8, <2>1
  <2>2. CASE f # f0
    <3>1. Idle(f)
      BY <1>7, <2>2
    <3>2. ASSUME NEW w \in Workers, Rearming(w)
          PROVE  Rearming(w)' /\ cs'[w] = cs[w]
      BY <1>8, <3>2 DEF Rearming
    <3>3. QED
      BY <1>2, <3>1, <3>2 DEF IdleIsWatched
  <2>3. QED
    BY <2>1, <2>2
<1>15. NothingEvicted'
  <2>1. x \notin Pending(pool)
    BY <1>4 DEF Pending
  <2>2. Pending(pool') = Pending(pool) \cup {x}
    BY <1>4, <1>6 DEF Pending
  <2>3. Cardinality(Pending(pool')) = Cardinality(Pending(pool)) + 1
    BY <1>6, <2>1, <2>2, PendingCounted, RoomySorts
  <2>4. QED
    BY <1>1, <1>2, <1>6, <2>3 DEF NothingEvicted
<1>16. QED
  BY <1>9, <1>10, <1>11, <1>12, <1>13, <1>14, <1>15 DEF RoomyInv

\* The socket of a worker that arms it is open and registered.
LEMMA RoomyRearm ==
  ASSUME All, Next, NEW u \in Workers, Rearm(u)
  PROVE  RoomyInv'
<1>1. UNCHANGED <<pool, fd, sock, poller, evicted, closing, surplus, cur, batch,
                  loop, jobs>>
  BY DEF Rearm, mainVars, closerVars
<1>2. WorkIsInUse /\ WorkIsApart /\ CurIsIdle /\ RearmIsAlone /\ ReportIsAlone
      /\ IdleIsWatched /\ NothingEvicted
  BY DEF All, RoomyInv
<1>3. wpc[u] = "rearming" /\ Rearming(u)
  BY DEF Rearm, Rearming
<1>4. PICK x \in Socks, f0 \in FDs :
        /\ x = cs[u] /\ f0 = fd[x] /\ pool.table[f0] = x /\ sock[x] = "open"
        /\ poller = "epoll" /\ Idle(f0) /\ watch[f0] = "disarmed" /\ f0 \notin batch
  BY <1>2, <1>3, RoomySorts, ClientSocketPoolAssumption DEF RearmIsAlone, Tabled
<1>5. /\ watch' = [watch EXCEPT ![f0] = "armed"]
      /\ wpc' = [wpc EXCEPT ![u] = "idle"]
      /\ cs' = [cs EXCEPT ![u] = None]
  BY <1>4 DEF Rearm, Rearmed, Leave, Goto
<1>6. /\ \A w \in Workers : w # u => cs'[w] = cs[w] /\ wpc'[w] = wpc[w]
      /\ \A w \in Workers : Working(w)' <=> Working(w)
      /\ \A w \in Workers : Working(w) => w # u
      /\ \A w \in Workers : Rearming(w)' <=> Rearming(w) /\ w # u
      /\ \A f \in FDs : f # f0 => watch'[f] = watch[f]
      /\ watch'[f0] = "armed"
  BY <1>3, <1>5, RoomySorts DEF Working, Rearming
<1>7. WorkIsInUse'
  BY <1>1, <1>2, <1>6 DEF WorkIsInUse, Tabled, Idle, Known, Accepted
<1>8. WorkIsApart'
  BY <1>1, <1>2, <1>6 DEF WorkIsApart
<1>9. CurIsIdle'
  BY <1>1, <1>2 DEF CurIsIdle, Idle, Known
<1>10. RearmIsAlone'
  <2>1. ASSUME NEW w \in Workers, Rearming(w), w # u
        PROVE  fd[cs[w]] # f0 /\ fd[cs[w]] \in FDs
    BY <1>2, <1>3, <1>4, <2>1, RoomySorts DEF RearmIsAlone, Tabled
  <2>2. QED
    BY <1>1, <1>2, <1>6, <2>1 DEF RearmIsAlone, Tabled, Idle, Known
<1>11. ReportIsAlone'
  <2>1. ASSUME NEW f \in FDs
        PROVE  /\ f \in batch => Idle(f) /\ watch'[f] = "disarmed"
               /\ watch'[f] = "armed" => Idle(f)
    BY <1>2, <1>4, <1>6, <2>1 DEF ReportIsAlone
  <2>2. QED
    BY <1>1, <1>4, <2>1 DEF ReportIsAlone, Idle, Known
<1>12. IdleIsWatched'
  <2> SUFFICES ASSUME NEW f \in FDs, Idle(f)
               PROVE  \/ watch'[f] = "armed"
                      \/ f \in batch
                      \/ \E w \in Workers : Rearming(w)' /\ cs'[w] = pool.table[f]
    BY <1>1 DEF IdleIsWatched, Idle, Known
  <2>1. CASE f = f0
    BY <1>6, <2>1
  <2>2. CASE f # f0
    <3>1. pool.table[f] # x
      BY <1>4, <2>2, RoomySorts, ClientSocketPoolAssumption
    <3>2. QED
      BY <1>2, <1>4, <1>6, <2>2, <3>1 DEF IdleIsWatched
  <2>3. QED
    BY <2>1, <2>2
<1>13. NothingEvicted'
  BY <1>1, <1>2 DEF NothingEvicted, Pending
<1>14. QED
  BY <1>7, <1>8, <1>9, <1>10, <1>11, <1>12, <1>13 DEF RoomyInv

\* The entry a worker deletes is its own and in use.
LEMMA RoomyDelete ==
  ASSUME All, Next, NEW u \in Workers, DeleteSocket(u)
  PROVE  RoomyInv'
<1>1. UNCHANGED <<fd, sock, watch, poller, evicted, closing, surplus, cur, batch,
                  loop, jobs>>
  BY DEF DeleteSocket, mainVars, closerVars
<1>2. WorkIsInUse /\ WorkIsApart /\ CurIsIdle /\ RearmIsAlone /\ ReportIsAlone
      /\ IdleIsWatched /\ NothingEvicted
  BY DEF All, RoomyInv
<1>3. wpc[u] = "deleting" /\ Working(u)
  BY DEF DeleteSocket, Working
<1>4. PICK x \in Socks, f0 \in FDs :
        /\ x = cs[u] /\ f0 = fd[x]
        /\ pool.table[f0] = x /\ x \in pool.inUse /\ x # None
        /\ Known(pool, f0) /\ ~Idle(f0)
        /\ \A w \in Workers : Working(w) /\ w # u => cs[w] # x
        /\ \A i \in 1 .. Len(jobs) : jobs[i] # x
        /\ \A f \in FDs : f # f0 => pool.table[f] # x
        /\ poller = "epoll" => watch[f0] = "disarmed" /\ f0 \notin batch
        /\ poller # "epoll" => watch[f0] = "armed"
  BY <1>3, WorkingOwns
<1>5. /\ pool' = Delete(pool, f0)
      /\ wpc' = [wpc EXCEPT ![u] = "unregistering"]
      /\ cs' = cs
  BY <1>4 DEF DeleteSocket, Goto
<1>6. /\ pool' \in Pools
      /\ pool'.table = [pool.table EXCEPT ![f0] = None]
      /\ pool'.inUse = pool.inUse
      /\ pool'.size = pool.size
  BY <1>4, <1>5, DeleteFacts, DeleteUse, RoomySorts
<1>7. /\ \A f \in FDs : f # f0 => pool'.table[f] = pool.table[f]
      /\ pool'.table[f0] = None
  BY <1>6, RoomySorts
<1>8. \A f \in FDs : /\ Idle(f)' <=> Idle(f)
                     /\ Known(pool, f)' <=> Known(pool, f) /\ f # f0
  BY <1>4, <1>6, <1>7 DEF Idle, Known
<1>9. /\ \A w \in Workers : Working(w)' <=> Working(w) /\ w # u
      /\ \A w \in Workers : Rearming(w)' <=> Rearming(w)
  BY <1>3, <1>5, RoomySorts DEF Working, Rearming
<1>10. \A y \in Socks : Tabled(y) /\ y # x => Tabled(y)'
  BY <1>1, <1>4, <1>7 DEF Tabled
<1>11. WorkIsInUse'
  <2>1. (\A w \in Workers : Working(w) => Tabled(cs[w]) /\ cs[w] \in pool.inUse)'
    BY <1>1, <1>2, <1>4, <1>5, <1>6, <1>7, <1>9, RoomySorts DEF WorkIsInUse, Tabled
  <2>2. (\A i \in 1 .. Len(jobs) : Tabled(jobs[i]) /\ jobs[i] \in pool.inUse)'
    BY <1>1, <1>2, <1>4, <1>6, <1>7, RoomySorts DEF WorkIsInUse, Tabled
  <2>3. (\A f \in FDs :
           Known(pool, f) /\ ~Idle(f) =>
             \/ \E i \in 1 .. Len(jobs) : jobs[i] = pool.table[f]
             \/ \E w \in Workers : Working(w) /\ cs[w] = pool.table[f])'
    <3> SUFFICES ASSUME NEW f \in FDs, Known(pool, f), f # f0, ~Idle(f)
                 PROVE  \/ \E i \in 1 .. Len(jobs) : jobs[i] = pool.table[f]
                        \/ \E w \in Workers : /\ Working(w) /\ w # u
                                              /\ cs[w] = pool.table[f]
      BY <1>1, <1>5, <1>7, <1>8, <1>9
    <3>1. pool.table[f] # x
      BY <1>4
    <3>2. QED
      BY <1>2, <1>4, <3>1 DEF WorkIsInUse
  <2>4. (\A y \in pool.inUse : Accepted(y))'
    BY <1>1, <1>2, <1>6 DEF WorkIsInUse, Accepted
  <2>5. QED
    BY <2>1, <2>2, <2>3, <2>4 DEF WorkIsInUse
<1>12. WorkIsApart'
  BY <1>1, <1>2, <1>5, <1>9 DEF WorkIsApart
<1>13. CurIsIdle'
  <2>1. cur \in FDs \cup {None}
    BY DEF All, Inv, TypeOK
  <2>2. QED
    BY <1>1, <1>2, <1>8, <2>1 DEF CurIsIdle, Idle, Known
<1>14. RearmIsAlone'
  <2> SUFFICES ASSUME NEW w \in Workers, Rearming(w)
               PROVE  Tabled(cs[w])' /\ Idle(fd[cs[w]])'
    BY <1>1, <1>2, <1>5, <1>9 DEF RearmIsAlone
  <2>1. PICK y \in Socks, f \in FDs : y = cs[w] /\ y = cs'[w] /\ f = fd[y]
    BY <1>5, RoomySorts
  <2>2. Tabled(y) /\ Idle(f)
    BY <1>2, <2>1 DEF RearmIsAlone
  <2>3. y # x /\ Tabled(y)' /\ Idle(f)'
    BY <1>4, <1>8, <1>10, <2>1, <2>2
  <2>4. QED
    BY <1>1, <2>1, <2>3 DEF Tabled, Idle, Known
<1>15. ReportIsAlone'
  BY <1>1, <1>2, <1>8 DEF ReportIsAlone
<1>16. IdleIsWatched'
  <2> SUFFICES ASSUME NEW f \in FDs, Idle(f), f # f0
               PROVE  \/ watch[f] = "armed"
                      \/ f \in batch
                      \/ \E w \in Workers : Rearming(w) /\ cs[w] = pool.table[f]
    BY <1>1, <1>4, <1>5, <1>7, <1>8, <1>9 DEF IdleIsWatched
  <2>1. QED
    BY <1>2 DEF IdleIsWatched
<1>17. NothingEvicted'
  <2>1. Pending(pool') = Pending(pool)
    BY <1>4, <1>6, <1>7, ClientSocketPoolAssumption DEF Pending
  <2>2. QED
    BY <1>1, <1>2, <1>6, <2>1 DEF NothingEvicted
<1>18. QED
  BY <1>11, <1>12, <1>13, <1>14, <1>15, <1>16, <1>17 DEF RoomyInv

\* What a worker unregisters and closes is not in the table any more.
LEMMA RoomyLeave ==
  ASSUME All, Next, NEW u \in Workers, Unregister(u) \/ CloseSocket(u)
  PROVE  RoomyInv'
<1>1. UNCHANGED <<pool, fd, poller, evicted, closing, surplus, cur, batch, loop, jobs>>
  BY DEF Unregister, CloseSocket, mainVars, closerVars
<1>2. WorkIsInUse /\ WorkIsApart /\ CurIsIdle /\ RearmIsAlone /\ ReportIsAlone
      /\ IdleIsWatched /\ NothingEvicted
  BY DEF All, RoomyInv
<1>3. wpc[u] \in {"unregistering", "closing"} /\ Leaving(u)
  BY DEF Unregister, CloseSocket, Leaving
<1>4. PICK f0 \in FDs : f0 = fd[cs[u]] /\ cs[u] \in Socks /\ ~Known(pool, f0)
  BY <1>3, RoomySorts, HoldersKeep
  DEF All, Inv, HolderInv, OneHolder
<1>5. /\ \A f \in FDs : f # f0 => watch'[f] = watch[f]
      /\ watch'[f0] \in {watch[f0], "off"}
      /\ \A w \in Workers : w # u => wpc'[w] = wpc[w] /\ cs'[w] = cs[w]
      /\ wpc'[u] \in {"closing", "idle"}
  <2>1. CASE Unregister(u)
    <3>1. watch[f0] # "off"
      BY <1>3, <1>4, <2>1 DEF Unregister, All, HolderInv, HeldAreRegistered
    <3>2. QED
      BY <1>4, <2>1, <3>1, RoomySorts DEF Unregister, Goto
  <2>2. CASE CloseSocket(u)
    BY <1>4, <2>2, RoomySorts DEF CloseSocket, WatchWithout, Leave, Goto
  <2>3. QED
    BY <2>1, <2>2
<1>6. /\ \A w \in Workers : Working(w)' <=> Working(w)
      /\ \A w \in Workers : Working(w) => w # u
      /\ \A w \in Workers : Rearming(w)' <=> Rearming(w)
      /\ \A w \in Workers : Rearming(w) => w # u
  BY <1>3, <1>5 DEF Working, Rearming
<1>7. \A f \in FDs : Idle(f) => f # f0
  BY <1>4 DEF Idle
<1>8. WorkIsInUse'
  <2>1. (\A y \in pool.inUse : Accepted(y))'
    BY <1>1, UseAccepted DEF Accepted
  <2>2. QED
    BY <1>1, <1>2, <1>5, <1>6, <2>1 DEF WorkIsInUse, Tabled, Idle, Known
<1>9. WorkIsApart'
  BY <1>1, <1>2, <1>5, <1>6 DEF WorkIsApart
<1>10. CurIsIdle'
  BY <1>1, <1>2 DEF CurIsIdle, Idle, Known
<1>11. RearmIsAlone'
  <2>1. ASSUME NEW w \in Workers, Rearming(w)
        PROVE  fd[cs[w]] \in FDs /\ fd[cs[w]] # f0
    BY <1>2, <1>7, <2>1, RoomySorts DEF RearmIsAlone
  <2>2. QED
    BY <1>1, <1>2, <1>5, <1>6, <2>1 DEF RearmIsAlone, Tabled, Idle, Known
<1>12. ReportIsAlone'
  <2>1. ASSUME poller = "epoll", NEW f \in FDs
        PROVE  /\ f \in batch => Idle(f) /\ watch'[f] = "disarmed"
               /\ watch'[f] = "armed" => Idle(f)
    BY <1>2, <1>5, <1>7, <2>1 DEF ReportIsAlone
  <2>2. ASSUME poller = "poll", NEW f \in FDs
        PROVE  watch'[f] # "disarmed"
    BY <1>2, <1>5, <2>2 DEF ReportIsAlone
  <2>3. QED
    BY <1>1, <2>1, <2>2 DEF ReportIsAlone, Idle, Known
<1>13. IdleIsWatched'
  <2> SUFFICES ASSUME NEW f \in FDs, Idle(f)
               PROVE  \/ watch'[f] = "armed"
                      \/ f \in batch
                      \/ \E w \in Workers : Rearming(w)' /\ cs'[w] = pool.table[f]
    BY <1>1 DEF IdleIsWatched, Idle, Known
  <2>1. QED
    BY <1>2, <1>5, <1>6, <1>7 DEF IdleIsWatched
<1>14. NothingEvicted'
  BY <1>1, <1>2 DEF NothingEvicted, Pending
<1>15. QED
  BY <1>8, <1>9, <1>10, <1>11, <1>12, <1>13, <1>14 DEF RoomyInv

\* Every step keeps RoomyInv: with room for every descriptor none evicts.
LEMMA RoomyStep ==
  ASSUME All, Roomy, Next
  PROVE  RoomyInv'
<1>1. ~Evict /\ ~CloserUnregister /\ ~CloserClose
  BY DEF All, Inv, TypeOK, RoomyInv, NothingEvicted, Evict, CloserUnregister,
         CloserClose
<1>2. QED
  BY <1>1, RoomyOthers, RoomyPoll, RoomyCheck, RoomyAccept, RoomyDispatch,
     RoomyTake, RoomyTurn, RoomyKeep, RoomyRearm, RoomyDelete, RoomyLeave
  DEF Next, MainStep, WorkerStep, CloserStep

\* With room for every descriptor the whole invariant holds in every reachable state.
LEMMA RoomyAlways ==
  ASSUME Roomy
  PROVE  Spec => []All
<1>1. Init => All
  <2> SUFFICES ASSUME Init
               PROVE  All
    OBVIOUS
  <2>1. EmptyPool.inUse = {} /\ EmptyPool.size = 0
        /\ \A f \in FDs : EmptyPool.table[f] = None
    BY DEF EmptyPool
  <2>2. WorkIsInUse /\ WorkIsApart /\ CurIsIdle /\ RearmIsAlone /\ IdleIsWatched
        /\ ReportIsAlone
    BY <2>1 DEF Init, WorkIsInUse, WorkIsApart, CurIsIdle, RearmIsAlone,
       ReportIsAlone, IdleIsWatched, Working, Rearming, Known, Idle
  <2>3. NothingEvicted
    <3>1. Pending(pool) = {}
      BY <2>1, ClientSocketPoolAssumption DEF Init, Pending
    <3>2. QED
      BY <2>1, <3>1, FS_EmptySet DEF Init, NothingEvicted
  <2>4. QED
    BY <2>2, <2>3, InitInv, InitHolders DEF All, RoomyInv
<1>2. All /\ [Next]_vars => All'
  <2> SUFFICES ASSUME All, [Next]_vars
               PROVE  All'
    OBVIOUS
  <2>1. CASE Next
    <3>1. Inv'
      BY <2>1, TypeStep, TableStep, TracedStep, RemovedStep DEF All, Inv
    <3>2. HolderInv'
      BY <2>1, HolderStep DEF All, Inv
    <3>3. QED
      BY <2>1, <3>1, <3>2, RoomyStep DEF All
  <2>2. CASE UNCHANGED vars
    BY <2>2 DEF All, Inv, TypeOK, TableIsOpen, Traced, Removed, Accepted,
       Untabled, Owns, Known, vars, mainVars, workerVars, closerVars, HolderInv,
       OneHolder, HeldAreRegistered, HeldAreTaken, Leaving, Free, RoomyInv,
       WorkIsInUse, WorkIsApart, CurIsIdle, RearmIsAlone, ReportIsAlone,
       IdleIsWatched, NothingEvicted, Working, Rearming, Tabled, Idle, Pending
  <2>3. QED
    BY <2>1, <2>2
<1>3. QED
  BY <1>1, <1>2, PTL DEF Spec

\* With room for every descriptor nothing is evicted, so no two workers ever have one
\* client socket, queued or in hand, whichever poller wakes them: a socket is
\* taken into use only while it is idle, and only its worker makes it idle again.
THEOREM OneServerPerClient ==
  ASSUME Roomy
  PROVE  Spec => []OneServer
<1>1. All => OneServer
  <2> SUFFICES ASSUME All
               PROVE  OneServer
    OBVIOUS
  <2>1. /\ WorkIsInUse /\ WorkIsApart /\ OneHolder
        /\ cs \in [Workers -> Socks \cup {None}] /\ wpc \in [Workers -> WorkerStates]
        /\ jobs \in Seq(Socks)
    BY DEF All, Inv, TypeOK, RoomyInv, HolderInv
  <2>2. \A w \in Workers : Serving(w) => Working(w) \/ Leaving(w)
    BY <2>1 DEF Serving, Working, Leaving, WorkerStates
  <2>3. \A w \in Workers : Leaving(w) => \A f \in FDs : pool.table[f] # cs[w]
    BY DEF All, Inv, Removed, Untabled, Leaving
  <2>4. \A v, w \in Workers : Working(v) /\ Leaving(w) => cs[v] # cs[w]
    BY <2>1, <2>3 DEF WorkIsInUse, Tabled
  <2>5. \A w \in Workers, i \in 1 .. Len(jobs) : Leaving(w) => jobs[i] # cs[w]
    BY <2>1, <2>3 DEF WorkIsInUse, Tabled
  <2>6. \A s : s \in Range(jobs) <=> \E i \in 1 .. Len(jobs) : jobs[i] = s
    BY <2>1 DEF Range
  <2>7. \A v, w \in Workers : cs[v] = cs[w] /\ Serving(v) /\ Serving(w) => v = w
    BY <2>1, <2>2, <2>4 DEF WorkIsApart, OneHolder
  <2>8. \A i, j \in 1 .. Len(jobs) : jobs[i] = jobs[j] => i = j
    BY <2>1 DEF WorkIsApart
  <2>9. \A w \in Workers : Serving(w) => cs[w] \notin Range(jobs)
    BY <2>1, <2>2, <2>5, <2>6 DEF WorkIsApart
  <2>10. QED
    BY <2>7, <2>8, <2>9 DEF OneServer
<1>2. QED
  BY <1>1, RoomyAlways, PTL

\* With room for every descriptor a socket is in use exactly while a worker has it or
\* is about to get it, and the size read without the lock counts the others.
THEOREM UseIsExact ==
  ASSUME Roomy
  PROVE  Spec => []UseIsServed
<1>1. All => UseIsServed
  <2> SUFFICES ASSUME All
               PROVE  UseIsServed
    OBVIOUS
  <2> DEFINE Used == {s \in pool.inUse : \E f \in FDs : pool.table[f] = s}
             Had == Range(jobs)
                    \cup {cs[w] : w \in {v \in Workers :
                            wpc[v] \in {"reading", "serving", "deleting"}}}
  <2>1. WorkIsInUse /\ NothingEvicted /\ jobs \in Seq(Socks)
    BY DEF All, Inv, TypeOK, RoomyInv
  <2>2. \A s : s \in Had <=> \/ \E i \in 1 .. Len(jobs) : jobs[i] = s
                             \/ \E w \in Workers : Working(w) /\ cs[w] = s
    BY <2>1 DEF Range, Working
  <2>3. \A s : Tabled(s) /\ s \in pool.inUse => s \in Used
    BY DEF Tabled
  <2>4. Had \subseteq Used
    BY <2>1, <2>2, <2>3 DEF WorkIsInUse
  <2>5. ASSUME NEW s \in Used
        PROVE  s \in Had
    <3>1. PICK f \in FDs : pool.table[f] = s /\ s \in pool.inUse
      OBVIOUS
    <3>2. Known(pool, f) /\ ~Idle(f)
      BY <3>1, RoomySorts, ClientSocketPoolAssumption DEF Known, Idle
    <3>3. QED
      BY <2>1, <2>2, <3>1, <3>2 DEF WorkIsInUse
  <2>6. pool.size = Cardinality(Pending(pool))
    BY <2>1 DEF NothingEvicted
  <2>7. QED
    BY <2>4, <2>5, <2>6 DEF UseIsServed
<1>2. QED
  BY <1>1, RoomyAlways, PTL

\* With room for every descriptor no pending socket is deaf.
THEOREM NoPendingIsDeaf ==
  ASSUME Roomy
  PROVE  Spec => []PendingIsWatched
<1>1. All => PendingIsWatched
  <2> SUFFICES ASSUME All, NEW s \in Pending(pool)
               PROVE  \/ watch[fd[s]] = "armed"
                      \/ fd[s] \in batch
                      \/ \E w \in Workers : wpc[w] = "rearming" /\ cs[w] = s
    BY DEF PendingIsWatched
  <2>1. PICK f \in FDs : s \in Socks /\ s \notin pool.inUse /\ pool.table[f] = s
    BY DEF Pending
  <2>2. Idle(f) /\ fd[s] = f
    BY <2>1, RoomySorts, ClientSocketPoolAssumption DEF Idle, Known
  <2>3. QED
    BY <2>1, <2>2 DEF All, RoomyInv, IdleIsWatched, Rearming
<1>2. QED
  BY <1>1, RoomyAlways, PTL

-----------------------------------------------------------------------------
(* With room for every descriptor the proxy implements ClientSessions.     *)

\* A descriptor is that of one open socket.
OneOwner ==
  \A s, t \in Socks :
    sock[s] = "open" /\ sock[t] = "open" /\ fd[s] = fd[t] => s = t

\* With epoll what is reported, queued or about to be read is still unread.
ReportIsDue ==
  poller = "epoll" =>
    /\ \A f \in FDs : f \in batch => unread[pool.table[f]] # "none"
    /\ \A i \in 1 .. Len(jobs) : unread[jobs[i]] # "none"
    /\ \A w \in Workers : wpc[w] = "reading" => unread[cs[w]] # "none"

SessionInv == All /\ OneServer /\ OneOwner /\ ReportIsDue

\* accept() gives a socket a descriptor that no open socket has.
LEMMA OwnerStep ==
  ASSUME All, OneOwner, Next
  PROVE  OneOwner'
<1>1. TypeOK /\ Traced /\ Removed
  BY DEF All, Inv
<1>2. CASE Accept
  <2>1. PICK x \in Socks, f \in FDs :
          /\ Free(f)
          /\ sock' = [sock EXCEPT ![x] = "open"]
          /\ fd' = [fd EXCEPT ![x] = f]
    BY <1>2 DEF Accept
  <2>2. \A s \in Socks : sock[s] = "open" => fd[s] # f
    BY <2>1 DEF Free, Owns
  <2>3. QED
    BY <1>1, <2>1, <2>2 DEF OneOwner, TypeOK
<1>3. CASE ~Accept
  <2>1. ASSUME NEW s \in Socks, sock'[s] = "open"
        PROVE  sock[s] = "open" /\ fd'[s] = fd[s]
    BY <1>1, <1>3, <2>1, SockEffect DEF TypeOK
  <2>2. QED
    BY <2>1 DEF OneOwner
<1>4. QED
  BY <1>2, <1>3

\* Only the worker that reads a socket empties it, and it alone has it then.
LEMMA ReportStep ==
  ASSUME All, All', OneOwner, ReportIsDue, Roomy, Next
  PROVE  ReportIsDue'
<1> SUFFICES ASSUME poller = "epoll", poller' = "epoll"
             PROVE  /\ \A f \in FDs : f \in batch' => unread'[pool'.table[f]] # "none"
                    /\ \A i \in 1 .. Len(jobs') : unread'[jobs'[i]] # "none"
                    /\ \A w \in Workers : wpc'[w] = "reading" => unread'[cs'[w]] # "none"
  <2>1. UNCHANGED poller
    BY DEF Next, MainStep, WorkerStep, CloserStep, Dial, Say, Measure, Evict,
       Poll, Accept, AcceptFail, Check, Dispatch, Take, Read, Keep, Drop, Rearm,
       DeleteSocket, Unregister, CloseSocket, CloserUnregister, CloserClose,
       mainVars
  <2>2. QED
    BY <2>1 DEF ReportIsDue
<1>1. /\ \A f \in FDs : f \in batch => unread[pool.table[f]] # "none"
      /\ \A i \in 1 .. Len(jobs) : unread[jobs[i]] # "none"
      /\ \A w \in Workers : wpc[w] = "reading" => unread[cs[w]] # "none"
  BY DEF ReportIsDue
<1>2. /\ TypeOK /\ WorkIsInUse /\ WorkIsApart /\ CurIsIdle /\ ReportIsAlone
      /\ \A f \in FDs : f \in batch => Idle(f)
  BY DEF All, Inv, RoomyInv, ReportIsAlone
<1>3. CASE Poll
  <2>1. UNCHANGED <<pool, unread, jobs, wpc, cs>> /\ batch' = Ready
    BY <1>3 DEF Poll, workerVars
  <2>2. ASSUME NEW f \in FDs, f \in Ready
        PROVE  unread[pool.table[f]] # "none"
    <3>1. PICK s \in Socks : watch[f] = "armed" /\ Owns(s, f) /\ unread[s] # "none"
      BY <2>2, ClientConnectionsAssumption DEF Ready
    <3>2. Idle(f)
      BY <1>2, <3>1 DEF ReportIsAlone
    <3>3. pool.table[f] = s
      BY <3>1, <3>2, RoomySorts, ClientSocketPoolAssumption
      DEF OneOwner, Owns, Idle, Known
    <3>4. QED
      BY <3>1, <3>3
  <2>3. QED
    BY <1>1, <2>1, <2>2
<1>4. CASE Accept
  <2>1. UNCHANGED <<unread, jobs, wpc, cs>> /\ batch' \subseteq batch
    BY <1>4 DEF Accept, Handled, workerVars
  <2>2. PICK f0 \in FDs, s \in Socks : Free(f0) /\ pool' = AddPending(pool, f0, s)
    BY <1>4 DEF Accept
  <2>3. pool'.table = [pool.table EXCEPT ![f0] = s]
    BY <2>2, AddPendingFacts, RoomySorts
  <2>4. f0 \notin batch
    BY <1>2, <2>2, RoomySorts DEF Idle, Known, Free, Owns
  <2>5. QED
    BY <1>1, <2>1, <2>3, <2>4, RoomySorts
<1>5. CASE Dispatch
  <2>1. UNCHANGED <<unread, wpc, cs>>
    BY <1>5 DEF Dispatch, workerVars
  <2>2. PICK f \in FDs : f = cur /\ f \in batch /\ Idle(f) /\ Known(pool, f)
    BY <1>2, <1>5 DEF Dispatch, CurIsIdle, TypeOK, Idle
  <2>3. /\ jobs' = Append(jobs, pool.table[f])
        /\ pool' = SetInUse(pool, f)
        /\ batch' \subseteq batch
    BY <1>5, <2>2 DEF Dispatch, Handled
  <2>4. pool'.table = pool.table
    BY <2>2, <2>3, SetInUseFacts, RoomySorts
  <2>5. unread[pool.table[f]] # "none" /\ pool.table[f] \in Socks
    BY <1>1, <2>2, RoomySorts DEF Known
  <2>6. \A i \in 1 .. Len(jobs') :
          \/ i \in 1 .. Len(jobs) /\ jobs'[i] = jobs[i]
          \/ jobs'[i] = pool.table[f]
    BY <2>3, <2>5, RoomySorts
  <2>7. QED
    BY <1>1, <2>1, <2>3, <2>4, <2>5, <2>6
<1>6. ASSUME NEW u \in Workers, Take(u)
      PROVE  /\ \A f \in FDs : f \in batch' => unread'[pool'.table[f]] # "none"
             /\ \A i \in 1 .. Len(jobs') : unread'[jobs'[i]] # "none"
             /\ \A w \in Workers : wpc'[w] = "reading" => unread'[cs'[w]] # "none"
  <2>1. UNCHANGED <<pool, unread, batch>>
    BY <1>6 DEF Take, mainVars
  <2>2. /\ jobs # <<>> /\ jobs' = Tail(jobs) /\ Len(jobs) > 0
        /\ cs'[u] = jobs[1]
        /\ \A w \in Workers : w # u => wpc'[w] = wpc[w] /\ cs'[w] = cs[w]
    BY <1>6, RoomySorts DEF Take, Goto
  <2>3. \A i \in 1 .. Len(jobs') : i + 1 \in 1 .. Len(jobs) /\ jobs'[i] = jobs[i + 1]
    BY <2>2, RoomySorts
  <2>4. QED
    BY <1>1, <2>1, <2>2, <2>3, RoomySorts
<1>7. ASSUME NEW u \in Workers, Read(u)
      PROVE  /\ \A f \in FDs : f \in batch' => unread'[pool'.table[f]] # "none"
             /\ \A i \in 1 .. Len(jobs') : unread'[jobs'[i]] # "none"
             /\ \A w \in Workers : wpc'[w] = "reading" => unread'[cs'[w]] # "none"
  <2>1. UNCHANGED <<pool, batch, jobs, cs>>
    BY <1>7 DEF Read, mainVars
  <2>2. Working(u)
    BY <1>7 DEF Read, Working
  <2>3. PICK x \in Socks : /\ x = cs[u] /\ x \in pool.inUse
                           /\ \A w \in Workers : Working(w) /\ w # u => cs[w] # x
                           /\ \A i \in 1 .. Len(jobs) : jobs[i] # x
    BY <2>2, WorkingOwns
  <2>4. \A s \in Socks : s # x => unread'[s] = unread[s]
    BY <1>7, <2>3 DEF Read, TypeOK
  <2>5. wpc'[u] # "reading" /\ \A w \in Workers : w # u => wpc'[w] = wpc[w]
    BY <1>7, RoomySorts DEF Read, Goto, Outcomes
  <2>6. \A f \in FDs : Idle(f) => pool.table[f] \in Socks /\ pool.table[f] # x
    BY <2>3, RoomySorts DEF Idle, Known
  <2>7. \A w \in Workers : wpc[w] = "reading" /\ w # u => cs[w] \in Socks /\ cs[w] # x
    BY <2>3, RoomySorts DEF Working
  <2>8. QED
    BY <1>1, <1>2, <2>1, <2>3, <2>4, <2>5, <2>6, <2>7, RoomySorts
<1>8. ASSUME NEW s \in Socks, Dial(s) \/ Say(s)
      PROVE  /\ \A f \in FDs : f \in batch' => unread'[pool'.table[f]] # "none"
             /\ \A i \in 1 .. Len(jobs') : unread'[jobs'[i]] # "none"
             /\ \A w \in Workers : wpc'[w] = "reading" => unread'[cs'[w]] # "none"
  <2>1. UNCHANGED <<pool, batch, jobs, cs, wpc>>
    BY <1>8 DEF Dial, Say, mainVars, workerVars
  <2>2. \A x \in Socks : unread[x] # "none" => unread'[x] # "none"
    BY <1>2, <1>8 DEF Dial, Say, TypeOK
  <2>3. \A f \in FDs : Idle(f) => pool.table[f] \in Socks
    BY RoomySorts DEF Idle, Known
  <2>4. \A w \in Workers : wpc[w] = "reading" => cs[w] \in Socks
    BY RoomySorts DEF Working
  <2>5. QED
    BY <1>1, <1>2, <2>1, <2>2, <2>3, <2>4, RoomySorts
<1>9. CASE \/ Measure \/ AcceptFail \/ \E f \in FDs : Check(f)
           \/ \E w \in Workers : Drop(w) \/ Rearm(w) \/ Unregister(w) \/ CloseSocket(w)
  <2>1. UNCHANGED <<pool, unread, jobs>> /\ batch' \subseteq batch
    BY <1>9 DEF Measure, AcceptFail, Check, Drop, Rearm, Unregister, CloseSocket,
       mainVars
  <2>2. ASSUME NEW w \in Workers, wpc'[w] = "reading"
        PROVE  wpc[w] = "reading" /\ cs'[w] = cs[w]
    BY <1>9, <2>2, RoomySorts
    DEF Measure, AcceptFail, Check, Drop, Rearm, Unregister, CloseSocket,
        workerVars, Goto, Leave, Fail
  <2>3. QED
    BY <1>1, <2>1, <2>2
<1>10. ASSUME NEW u \in Workers, Keep(u) \/ DeleteSocket(u)
       PROVE  /\ \A f \in FDs : f \in batch' => unread'[pool'.table[f]] # "none"
              /\ \A i \in 1 .. Len(jobs') : unread'[jobs'[i]] # "none"
              /\ \A w \in Workers : wpc'[w] = "reading" => unread'[cs'[w]] # "none"
  <2>1. UNCHANGED <<unread, jobs, batch>>
    BY <1>10 DEF Keep, DeleteSocket, mainVars
  <2>2. ASSUME NEW w \in Workers, wpc'[w] = "reading"
        PROVE  wpc[w] = "reading" /\ cs'[w] = cs[w]
    BY <1>10, <2>2, RoomySorts DEF Keep, DeleteSocket, Goto, Leave, Fail
  <2>3. \A f \in FDs : pool'.table[f] \in {pool.table[f], None}
    <3>1. ~Accept
      BY <1>10 DEF Keep, DeleteSocket, Accept, Handled, mainVars
    <3>2. QED
      BY <3>1, TableEffect DEF All, Inv
  <2>4. \A f \in FDs : f \in batch' => pool'.table[f] # None
    BY DEF All, RoomyInv, ReportIsAlone, Idle, Known
  <2>5. QED
    BY <1>1, <2>1, <2>2, <2>3, <2>4
<1>11. ~Evict /\ ~CloserUnregister /\ ~CloserClose
  BY DEF All, Inv, TypeOK, RoomyInv, NothingEvicted, Evict, CloserUnregister,
         CloserClose
<1>12. QED
  BY <1>3, <1>4, <1>5, <1>6, <1>7, <1>8, <1>9, <1>10, <1>11
  DEF Next, MainStep, WorkerStep, CloserStep

-----------------------------------------------------------------------------
(* Whose turn it is, from the place of the socket and of the workers.      *)

Absent(s) == sock[s] \in {"new", "queued"}
Gone(s) == sock[s] = "closed"
Answers(s) == \E w \in Workers : cs[w] = s /\ wpc[w] = "serving"
Ends(s) == \E w \in Workers : cs[w] = s /\ Ending(w)
Gets(s) ==
  \/ \E i \in 1 .. Len(jobs) : jobs[i] = s
  \/ \E w \in Workers : cs[w] = s /\ wpc[w] = "reading"

\* Turn, by where the socket and its worker are.
LEMMA TurnIs ==
  ASSUME TypeOK, NEW s \in Socks
  PROVE  /\ Absent(s) => Turn[s] = "absent"
         /\ Gone(s) => Turn[s] = "gone"
         /\ ~Absent(s) /\ ~Gone(s) =>
              /\ Answers(s) => Turn[s] = "answering"
              /\ ~Answers(s) /\ Ends(s) => Turn[s] = "ending"
              /\ ~Answers(s) /\ ~Ends(s) /\ Gets(s) => Turn[s] = "served"
              /\ ~Answers(s) /\ ~Ends(s) /\ ~Gets(s) => Turn[s] = "waiting"
<1>1. \A x : x \in Range(jobs) <=> \E i \in 1 .. Len(jobs) : jobs[i] = x
  BY DEF TypeOK, Range
<1>2. \A w \in Workers :
        Serving(w) <=> wpc[w] \in {"reading", "serving"} \/ Ending(w)
  BY DEF TypeOK, Serving, Ending, WorkerStates
<1>3. ~Answers(s) /\ ~Ends(s) => (s \in Served <=> Gets(s))
  BY <1>1, <1>2 DEF Served, Gets, Answers, Ends
<1>4. Turn[s] =
        IF Absent(s) THEN "absent"
        ELSE IF Gone(s) THEN "gone"
        ELSE IF Answers(s) THEN "answering"
        ELSE IF Ends(s) THEN "ending"
        ELSE IF s \in Served THEN "served"
        ELSE "waiting"
  BY DEF Turn, Absent, Gone, Answers, Ends
<1>5. ~(Absent(s) /\ Gone(s))
  BY DEF Absent, Gone
<1>6. QED
  BY <1>3, <1>4, <1>5

\* The same of the next state.
LEMMA TurnIsNext ==
  ASSUME TypeOK', NEW s \in Socks
  PROVE  /\ Absent(s)' => Turn'[s] = "absent"
         /\ Gone(s)' => Turn'[s] = "gone"
         /\ ~Absent(s)' /\ ~Gone(s)' =>
              /\ Answers(s)' => Turn'[s] = "answering"
              /\ ~Answers(s)' /\ Ends(s)' => Turn'[s] = "ending"
              /\ ~Answers(s)' /\ ~Ends(s)' /\ Gets(s)' => Turn'[s] = "served"
              /\ ~Answers(s)' /\ ~Ends(s)' /\ ~Gets(s)' => Turn'[s] = "waiting"
<1>1. \A x : x \in Range(jobs') <=> \E i \in 1 .. Len(jobs') : jobs'[i] = x
  BY DEF TypeOK, Range
<1>2. \A w \in Workers :
        Serving(w)' <=> wpc'[w] \in {"reading", "serving"} \/ Ending(w)'
  BY DEF TypeOK, Serving, Ending, WorkerStates
<1>3. ~Answers(s)' /\ ~Ends(s)' => (s \in Served' <=> Gets(s)')
  BY <1>1, <1>2 DEF Served, Gets, Answers, Ends
<1>4. Turn'[s] =
        IF Absent(s)' THEN "absent"
        ELSE IF Gone(s)' THEN "gone"
        ELSE IF Answers(s)' THEN "answering"
        ELSE IF Ends(s)' THEN "ending"
        ELSE IF s \in Served' THEN "served"
        ELSE "waiting"
  BY DEF Turn, Absent, Gone, Answers, Ends
<1>5. ~(Absent(s)' /\ Gone(s)')
  BY DEF Absent, Gone
<1>6. QED
  BY <1>3, <1>4, <1>5

\* A step after which s stands where it stood.
Same(s) ==
  /\ Absent(s)' <=> Absent(s)
  /\ Gone(s)' <=> Gone(s)
  /\ Answers(s)' <=> Answers(s)
  /\ Ends(s)' <=> Ends(s)
  /\ Gets(s)' <=> Gets(s)

\* Where a socket stands where it stood, its turn is what it was.
LEMMA TurnKept ==
  ASSUME TypeOK, TypeOK', NEW s \in Socks, Same(s)
  PROVE  Turn'[s] = Turn[s]
BY TurnIs, TurnIsNext DEF Same

\* One socket's turn changes.
LEMMA TurnMoves ==
  ASSUME TypeOK, TypeOK', NEW x \in Socks, NEW t,
         \A s \in Socks : s # x => Same(s),
         Turn'[x] = t
  PROVE  Turn' = [Turn EXCEPT ![x] = t]
<1>1. \A s \in Socks : s # x => Turn'[s] = Turn[s]
  BY TurnKept
<1>2. /\ Turn = [s \in Socks |-> Turn[s]]
      /\ Turn' = [s \in Socks |-> Turn'[s]]
  BY DEF Turn
<1> HIDE DEF Turn
<1>3. QED
  BY <1>1, <1>2

\* No socket's turn changes.
LEMMA TurnStays ==
  ASSUME TypeOK, TypeOK', \A s \in Socks : Same(s)
  PROVE  Turn' = Turn
<1>1. \A s \in Socks : Turn'[s] = Turn[s]
  BY TurnKept
<1>2. /\ Turn = [s \in Socks |-> Turn[s]]
      /\ Turn' = [s \in Socks |-> Turn'[s]]
  BY DEF Turn
<1>3. QED
  BY <1>1, <1>2

\* One worker alone has what it serves, so its place tells whose turn it is.
LEMMA ServerAlone ==
  ASSUME SessionInv, NEW u \in Workers, Serving(u)
  PROVE  /\ cs[u] \in Socks
         /\ Answers(cs[u]) <=> wpc[u] = "serving"
         /\ Ends(cs[u]) <=> Ending(u)
         /\ Gets(cs[u]) <=> wpc[u] = "reading"
<1>1. TypeOK /\ OneServer
  BY DEF SessionInv, All, Inv
<1>2. cs[u] \in Socks
  BY <1>1 DEF TypeOK, Serving
<1>3. \A i \in 1 .. Len(jobs) : jobs[i] # cs[u]
  BY <1>1 DEF OneServer, Range, TypeOK
<1>4. \A w \in Workers : wpc[w] \in {"reading", "serving"} \/ Ending(w) => Serving(w)
  BY DEF Serving, Ending
<1>5. \A w \in Workers : cs[w] = cs[u] /\ Serving(w) => w = u
  BY <1>1 DEF OneServer
<1>6. QED
  BY <1>2, <1>3, <1>4, <1>5 DEF Answers, Ends, Gets

\* A step of one worker that leaves the queue alone.
LEMMA OneMoves ==
  ASSUME NEW u \in Workers, UNCHANGED jobs,
         \A w \in Workers : w # u => wpc'[w] = wpc[w] /\ cs'[w] = cs[w],
         NEW s \in Socks, s # cs[u], s # cs'[u]
  PROVE  /\ Answers(s)' <=> Answers(s)
         /\ Ends(s)' <=> Ends(s)
         /\ Gets(s)' <=> Gets(s)
BY DEF Answers, Ends, Gets, Ending

-----------------------------------------------------------------------------
(* Every step is one of ClientSessions or leaves its variables alone.      *)

Stutters == UNCHANGED <<poller, Turn, unread>>

\* Where a socket is in the table it is open, and nobody serves it while it is
\* idle.
LEMMA IdleWaits ==
  ASSUME SessionInv, NEW f \in FDs, Idle(f)
  PROVE  /\ pool.table[f] \in Socks
         /\ ~Absent(pool.table[f]) /\ ~Gone(pool.table[f])
         /\ ~Answers(pool.table[f]) /\ ~Ends(pool.table[f]) /\ ~Gets(pool.table[f])
<1>1. PICK x \in Socks : x = pool.table[f] /\ x \notin pool.inUse /\ sock[x] = "open"
  BY RoomySorts DEF SessionInv, Idle, Known
<1>2. /\ WorkIsInUse
      /\ \A w \in Workers : Leaving(w) => cs[w] # x
  BY <1>1 DEF SessionInv, All, Inv, RoomyInv, Removed, Untabled, Leaving
<1>3. \A w \in Workers : Working(w) => cs[w] # x
  BY <1>1, <1>2 DEF WorkIsInUse
<1>4. \A i \in 1 .. Len(jobs) : jobs[i] # x
  BY <1>1, <1>2 DEF WorkIsInUse
<1>5. QED
  BY <1>1, <1>2, <1>3, <1>4
  DEF Absent, Gone, Answers, Ends, Gets, Ending, Working, Leaving

\* What a worker may still delete is open.
LEMMA WorkingOpen ==
  ASSUME SessionInv, NEW u \in Workers, Working(u)
  PROVE  cs[u] \in Socks /\ ~Absent(cs[u]) /\ ~Gone(cs[u])
<1>1. \E x \in Socks, f \in FDs : x = cs[u] /\ pool.table[f] = x /\ x # None
  BY WorkingOwns DEF SessionInv
<1>2. QED
  BY <1>1, RoomySorts DEF SessionInv, Absent, Gone

\* Nobody has a socket that was not accepted yet.
LEMMA AbsentAlone ==
  ASSUME SessionInv, NEW s \in Socks, Absent(s)
  PROVE  ~Answers(s) /\ ~Ends(s) /\ ~Gets(s)
<1>1. /\ TypeOK /\ Traced /\ ~Accepted(s)
      /\ \A w \in Workers : cs[w] # None => Accepted(cs[w])
  BY DEF SessionInv, All, Inv, Traced, Accepted, Absent
<1>2. s # None
  BY ClientSocketPoolAssumption
<1>3. \A i \in 1 .. Len(jobs) : jobs[i] # s
  BY <1>1 DEF Traced
<1>4. QED
  BY <1>1, <1>2, <1>3 DEF Answers, Ends, Gets

\* Steps that move no socket and no worker that serves one.
LEMMA QuietSteps ==
  ASSUME SessionInv, SessionInv', Next,
         \/ Measure \/ Poll
         \/ \E f \in FDs : Check(f)
         \/ \E s \in Socks : Dial(s)
  PROVE  Stutters
<1>1. UNCHANGED <<poller, unread, fd, jobs, wpc, cs>>
  BY DEF Measure, Poll, Check, Dial, mainVars, workerVars
<1>2. TypeOK /\ TypeOK'
  BY DEF SessionInv, All, Inv
<1>3. \A s \in Socks : (Absent(s)' <=> Absent(s)) /\ (Gone(s)' <=> Gone(s))
  <2>1. \/ UNCHANGED sock
        \/ \E x \in Socks : sock[x] = "new" /\ sock' = [sock EXCEPT ![x] = "queued"]
    BY DEF Measure, Poll, Check, Dial
  <2>2. QED
    BY <1>2, <2>1 DEF Absent, Gone, TypeOK
<1>4. \A s \in Socks : Same(s)
  BY <1>1, <1>3 DEF Same, Answers, Ends, Gets, Ending
<1>5. Turn' = Turn
  BY <1>2, <1>4, TurnStays
<1>6. QED
  BY <1>1, <1>5 DEF Stutters

\* A client says something, whoever has the turn.
LEMMA SaySays ==
  ASSUME SessionInv, SessionInv', NEW s \in Socks, Say(s)
  PROVE  Sessions!Say(s)
<1>1. UNCHANGED <<poller, sock, jobs, wpc, cs>>
  BY DEF Say, mainVars, workerVars
<1>2. TypeOK /\ TypeOK'
  BY DEF SessionInv, All, Inv
<1>3. \A x \in Socks : Same(x)
  BY <1>1 DEF Same, Absent, Gone, Answers, Ends, Gets, Ending
<1>4. Turn' = Turn
  BY <1>2, <1>3, TurnStays
<1>5. QED
  BY <1>1, <1>4 DEF Say, Sessions!Say

\* An accepted client comes: nobody served it before.
LEMMA AcceptComes ==
  ASSUME SessionInv, SessionInv', Next, Accept
  PROVE  \E s \in Socks : Sessions!Come(s)
<1>1. UNCHANGED <<poller, unread, jobs, wpc, cs>>
  BY DEF Accept, workerVars
<1>2. TypeOK /\ TypeOK'
  BY DEF SessionInv, All, Inv
<1>3. PICK s \in Socks : sock[s] = "queued" /\ sock' = [sock EXCEPT ![s] = "open"]
  BY DEF Accept
<1>4. Absent(s) /\ ~Absent(s)' /\ ~Gone(s)'
  BY <1>2, <1>3 DEF Absent, Gone, TypeOK
<1>5. /\ ~Answers(s) /\ ~Ends(s) /\ ~Gets(s)
      /\ ~Answers(s)' /\ ~Ends(s)' /\ ~Gets(s)'
  BY <1>1, <1>4, AbsentAlone DEF Answers, Ends, Gets, Ending
<1>6. \A x \in Socks : x # s => Same(x)
  BY <1>1, <1>2, <1>3 DEF Same, Absent, Gone, Answers, Ends, Gets, Ending, TypeOK
<1>7. Turn[s] = "absent" /\ Turn'[s] = "waiting"
  BY <1>2, <1>4, <1>5, TurnIs, TurnIsNext
<1>8. Turn' = [Turn EXCEPT ![s] = "waiting"]
  BY <1>2, <1>6, <1>7, TurnMoves
<1>9. Sessions!Come(s)
  BY <1>1, <1>7, <1>8 DEF Sessions!Come
<1>10. QED
  BY <1>9

\* A client that fails the handshake is refused.
LEMMA AcceptFailRefuses ==
  ASSUME SessionInv, SessionInv', AcceptFail
  PROVE  \E s \in Socks : Sessions!Refuse(s)
<1>1. UNCHANGED <<poller, unread, jobs, wpc, cs>>
  BY DEF AcceptFail, workerVars
<1>2. TypeOK /\ TypeOK'
  BY DEF SessionInv, All, Inv
<1>3. PICK s \in Socks : sock[s] = "queued" /\ sock' = [sock EXCEPT ![s] = "closed"]
  BY DEF AcceptFail, Shut
<1>4. Absent(s) /\ ~Absent(s)' /\ Gone(s)'
  BY <1>2, <1>3 DEF Absent, Gone, TypeOK
<1>5. \A x \in Socks : x # s => Same(x)
  BY <1>1, <1>2, <1>3 DEF Same, Absent, Gone, Answers, Ends, Gets, Ending, TypeOK
<1>6. Turn[s] = "absent" /\ Turn'[s] = "gone"
  BY <1>2, <1>4, TurnIs, TurnIsNext
<1>7. Turn' = [Turn EXCEPT ![s] = "gone"]
  BY <1>2, <1>5, <1>6, TurnMoves
<1>8. Sessions!Refuse(s)
  BY <1>1, <1>6, <1>7 DEF Sessions!Refuse
<1>9. QED
  BY <1>8

\* Taking an idle socket into use is serving it: with epoll only when its client
\* has something unread.
LEMMA DispatchServes ==
  ASSUME SessionInv, SessionInv', Dispatch
  PROVE  \E s \in Socks : Sessions!Serve(s)
<1>1. UNCHANGED <<poller, unread, sock, wpc, cs>>
  BY DEF Dispatch, workerVars
<1>2. TypeOK /\ TypeOK' /\ jobs \in Seq(Socks)
  BY DEF SessionInv, All, Inv, TypeOK
<1>3. PICK f \in FDs : f = cur /\ f \in batch /\ Idle(f)
  BY DEF Dispatch, SessionInv, All, Inv, RoomyInv, CurIsIdle, TypeOK
<1>4. PICK s \in Socks : s = pool.table[f]
  BY <1>3, IdleWaits
<1>5. jobs' = Append(jobs, s)
  BY <1>3, <1>4 DEF Dispatch, Idle
<1>6. /\ ~Absent(s) /\ ~Gone(s) /\ ~Answers(s) /\ ~Ends(s) /\ ~Gets(s)
  BY <1>3, <1>4, IdleWaits
<1>7. \A x : (\E i \in 1 .. Len(jobs') : jobs'[i] = x)
               <=> x = s \/ \E i \in 1 .. Len(jobs) : jobs[i] = x
  <2>1. Len(jobs') = Len(jobs) + 1 /\ jobs'[Len(jobs) + 1] = s
        /\ \A i \in 1 .. Len(jobs) : jobs'[i] = jobs[i]
    BY <1>2, <1>5
  <2>2. QED
    BY <1>2, <2>1
<1>8. ~Absent(s)' /\ ~Gone(s)' /\ ~Answers(s)' /\ ~Ends(s)' /\ Gets(s)'
  BY <1>1, <1>6, <1>7 DEF Absent, Gone, Answers, Ends, Gets, Ending
<1>9. \A x \in Socks : x # s => Same(x)
  BY <1>1, <1>7 DEF Same, Absent, Gone, Answers, Ends, Gets, Ending
<1>10. Turn[s] = "waiting" /\ Turn'[s] = "served"
  BY <1>2, <1>6, <1>8, TurnIs, TurnIsNext
<1>11. Turn' = [Turn EXCEPT ![s] = "served"]
  BY <1>2, <1>9, <1>10, TurnMoves
<1>12. unread[s] # "none" \/ poller = "poll"
  BY <1>2, <1>3, <1>4, ClientConnectionsAssumption
  DEF SessionInv, ReportIsDue, TypeOK
<1>13. Sessions!Serve(s)
  BY <1>1, <1>10, <1>11, <1>12 DEF Sessions!Serve
<1>14. QED
  BY <1>13

-----------------------------------------------------------------------------
\* A worker takes a socket that waits in the queue: its turn is what it was.
LEMMA TakeStutters ==
  ASSUME SessionInv, SessionInv', NEW u \in Workers, Take(u)
  PROVE  Stutters
<1>1. UNCHANGED <<poller, unread, sock>>
  BY DEF Take, mainVars
<1>2. TypeOK /\ TypeOK' /\ jobs \in Seq(Socks)
  BY DEF SessionInv, All, Inv, TypeOK
<1>3. /\ jobs # <<>> /\ jobs' = Tail(jobs)
      /\ wpc[u] = "idle" /\ wpc'[u] = "reading" /\ cs'[u] = jobs[1]
      /\ \A w \in Workers : w # u => wpc'[w] = wpc[w] /\ cs'[w] = cs[w]
  BY <1>2 DEF Take, Goto, TypeOK
<1>4. \A x : (\E i \in 1 .. Len(jobs) : jobs[i] = x)
               <=> x = jobs[1] \/ \E i \in 1 .. Len(jobs') : jobs'[i] = x
  <2>1. /\ Len(jobs) \in Nat /\ Len(jobs) > 0 /\ Len(jobs') = Len(jobs) - 1
        /\ \A i \in 1 .. Len(jobs') : jobs'[i] = jobs[i + 1]
    BY <1>2, <1>3
  <2>2. ASSUME NEW i \in 1 .. Len(jobs), i # 1
        PROVE  i - 1 \in 1 .. Len(jobs') /\ jobs'[i - 1] = jobs[i]
    BY <2>1, <2>2
  <2>3. ASSUME NEW i \in 1 .. Len(jobs')
        PROVE  i + 1 \in 1 .. Len(jobs) /\ jobs[i + 1] = jobs'[i]
    BY <2>1, <2>3
  <2>4. 1 \in 1 .. Len(jobs)
    BY <2>1
  <2>5. QED
    BY <2>2, <2>3, <2>4
<1>5. \A s \in Socks : Gets(s)' <=> Gets(s)
  BY <1>3, <1>4 DEF Gets
<1>6. \A s \in Socks : Same(s)
  BY <1>1, <1>3, <1>5 DEF Same, Absent, Gone, Answers, Ends, Ending
<1>7. Turn' = Turn
  BY <1>2, <1>6, TurnStays
<1>8. QED
  BY <1>1, <1>7 DEF Stutters

\* What a worker reads is the turn of its socket's client; the end of the stream,
\* or nothing after a late report, ends the session.
LEMMA ReadReads ==
  ASSUME SessionInv, SessionInv', NEW u \in Workers, Read(u)
  PROVE  Sessions!Read(cs[u]) \/ Sessions!End(cs[u])
<1>1. UNCHANGED <<poller, sock, jobs, cs>>
  BY DEF Read, mainVars
<1>2. TypeOK /\ TypeOK'
  BY DEF SessionInv, All, Inv
<1>3. wpc[u] = "reading" /\ Serving(u) /\ Working(u) /\ ~Ending(u)
  BY DEF Read, Serving, Working, Ending
<1>4. PICK s \in Socks : s = cs[u] /\ ~Absent(s) /\ ~Gone(s)
  BY <1>3, WorkingOpen
<1>5. ~Answers(s) /\ ~Ends(s) /\ Gets(s)
  BY <1>3, <1>4, ServerAlone
<1>6. Turn[s] = "served"
  BY <1>2, <1>4, <1>5, TurnIs
<1>7. /\ \A w \in Workers : w # u => wpc'[w] = wpc[w] /\ cs'[w] = cs[w]
      /\ wpc'[u] \in {"serving", "deleting"}
      /\ unread[s] # "request" => wpc'[u] = "deleting"
      /\ unread' = IF unread[s] = "request"
                   THEN [unread EXCEPT ![s] = "none"] ELSE unread
  BY <1>1, <1>2, <1>4 DEF Read, Goto, Outcomes, TypeOK
<1>8. \A x \in Socks : x # s => Same(x)
  BY <1>1, <1>4, <1>7, OneMoves DEF Same, Absent, Gone
<1>9. ~Absent(s)' /\ ~Gone(s)'
  BY <1>1, <1>4 DEF Absent, Gone
<1>10. \A w \in Workers : cs[w] = s /\ w # u => wpc[w] \notin {"serving", "reading"} /\ ~Ending(w)
  BY <1>4, <1>5, <1>3 DEF SessionInv, OneServer, Serving, Ending
<1>11. CASE wpc'[u] = "serving"
  <2>1. Answers(s)'
    BY <1>1, <1>4, <1>11 DEF Answers
  <2>2. Turn'[s] = "answering"
    BY <1>2, <1>9, <2>1, TurnIsNext
  <2>3. Turn' = [Turn EXCEPT ![s] = "answering"]
    BY <1>2, <1>8, <2>2, TurnMoves
  <2>4. unread[s] = "request"
    BY <1>7, <1>11
  <2>5. Sessions!Read(s)
    BY <1>1, <1>6, <1>7, <2>3, <2>4 DEF Sessions!Read
  <2>6. QED
    BY <1>4, <2>5
<1>12. CASE wpc'[u] = "deleting"
  <2>1. Ends(s)' /\ ~Answers(s)'
    BY <1>1, <1>4, <1>7, <1>10, <1>12 DEF Answers, Ends, Ending
  <2>2. Turn'[s] = "ending"
    BY <1>2, <1>9, <2>1, TurnIsNext
  <2>3. Turn' = [Turn EXCEPT ![s] = "ending"]
    BY <1>2, <1>8, <2>2, TurnMoves
  <2>4. CASE unread[s] = "request"
    <3>1. Sessions!Read(s)
      BY <1>1, <1>6, <1>7, <2>3, <2>4 DEF Sessions!Read
    <3>2. QED
      BY <1>4, <3>1
  <2>5. CASE unread[s] # "request"
    <3>1. unread[s] = "eof" \/ (unread[s] = "none" /\ poller = "poll")
      <4>1. unread[s] \in {"none", "request", "eof"} /\ poller \in {"epoll", "poll"}
        BY <1>2, ClientConnectionsAssumption DEF TypeOK
      <4>2. poller = "epoll" => unread[s] # "none"
        BY <1>3, <1>4 DEF SessionInv, ReportIsDue
      <4>3. QED
        BY <2>5, <4>1, <4>2
    <3>2. Sessions!End(s)
      BY <1>1, <1>6, <1>7, <2>3, <2>5, <3>1 DEF Sessions!End
    <3>3. QED
      BY <1>4, <3>2
  <2>6. QED
    BY <2>4, <2>5
<1>13. QED
  BY <1>7, <1>11, <1>12

\* Where a worker that has a socket to serve goes, and that its entry is there.
LEMMA ServingGoes ==
  ASSUME SessionInv, NEW u \in Workers
  PROVE  /\ Keep(u) => \/ /\ wpc' = [wpc EXCEPT ![u] = "rearming"]
                          /\ cs' = cs
                       \/ /\ wpc' = [wpc EXCEPT ![u] = "idle"]
                          /\ cs' = [cs EXCEPT ![u] = None]
         /\ DeleteSocket(u) => /\ wpc' = [wpc EXCEPT ![u] = "unregistering"]
                               /\ cs' = cs
<1>1. Working(u) => Known(pool, fd[cs[u]])
  BY WorkingOwns DEF SessionInv
<1>2. QED
  BY <1>1 DEF Keep, DeleteSocket, Goto, Leave, Working

\* An answered client waits.
LEMMA KeepAnswers ==
  ASSUME SessionInv, SessionInv', NEW u \in Workers, Keep(u)
  PROVE  Sessions!Answer(cs[u])
<1>1. UNCHANGED <<poller, sock, unread, jobs>>
  BY DEF Keep, mainVars
<1>2. TypeOK /\ TypeOK'
  BY DEF SessionInv, All, Inv
<1>3. wpc[u] = "serving" /\ Serving(u) /\ Working(u) /\ ~Ending(u)
  BY DEF Keep, Serving, Working, Ending
<1>4. PICK s \in Socks : s = cs[u] /\ ~Absent(s) /\ ~Gone(s)
  BY <1>3, WorkingOpen
<1>5. Answers(s) /\ ~Ends(s) /\ ~Gets(s)
  BY <1>3, <1>4, ServerAlone
<1>6. /\ \A w \in Workers : w # u => wpc'[w] = wpc[w] /\ cs'[w] = cs[w]
      /\ wpc'[u] \in {"rearming", "idle"}
      /\ cs'[u] \in {s, None}
  BY <1>2, <1>4, ServingGoes DEF TypeOK
<1>7. None \notin Socks
  BY ClientSocketPoolAssumption
<1>8. \A x \in Socks : x # s => Same(x)
  BY <1>1, <1>4, <1>6, <1>7, OneMoves DEF Same, Absent, Gone
<1>9. ~Absent(s)' /\ ~Gone(s)'
  BY <1>1, <1>4 DEF Absent, Gone
<1>10. \A w \in Workers :
         cs[w] = s /\ w # u => wpc[w] \notin {"serving", "reading"} /\ ~Ending(w)
  BY <1>3, <1>4 DEF SessionInv, OneServer, Serving, Ending
<1>11. ~Answers(s)' /\ ~Ends(s)' /\ ~Gets(s)'
  BY <1>1, <1>5, <1>6, <1>10 DEF Answers, Ends, Gets, Ending
<1>12. Turn[s] = "answering" /\ Turn'[s] = "waiting"
  BY <1>2, <1>4, <1>5, <1>9, <1>11, TurnIs, TurnIsNext
<1>13. Turn' = [Turn EXCEPT ![s] = "waiting"]
  BY <1>2, <1>8, <1>12, TurnMoves
<1>14. QED
  BY <1>1, <1>4, <1>12, <1>13 DEF Sessions!Answer

\* The session of a client that is dropped ends.
LEMMA DropEnds ==
  ASSUME SessionInv, SessionInv', NEW u \in Workers, Drop(u)
  PROVE  Sessions!End(cs[u])
<1>1. UNCHANGED <<poller, sock, unread, jobs, cs>>
  BY DEF Drop, mainVars
<1>2. TypeOK /\ TypeOK'
  BY DEF SessionInv, All, Inv
<1>3. wpc[u] = "serving" /\ Serving(u) /\ Working(u) /\ ~Ending(u)
  BY DEF Drop, Serving, Working, Ending
<1>4. PICK s \in Socks : s = cs[u] /\ ~Absent(s) /\ ~Gone(s)
  BY <1>3, WorkingOpen
<1>5. Answers(s) /\ ~Ends(s) /\ ~Gets(s)
  BY <1>3, <1>4, ServerAlone
<1>6. /\ \A w \in Workers : w # u => wpc'[w] = wpc[w] /\ cs'[w] = cs[w]
      /\ wpc'[u] = "deleting"
  BY <1>1, <1>2 DEF Drop, Goto, TypeOK
<1>7. \A x \in Socks : x # s => Same(x)
  BY <1>1, <1>4, <1>6, OneMoves DEF Same, Absent, Gone
<1>8. ~Absent(s)' /\ ~Gone(s)'
  BY <1>1, <1>4 DEF Absent, Gone
<1>9. \A w \in Workers : cs[w] = s /\ w # u => wpc[w] # "serving"
  BY <1>3, <1>4 DEF SessionInv, OneServer, Serving
<1>10. ~Answers(s)' /\ Ends(s)'
  BY <1>1, <1>4, <1>6, <1>9 DEF Answers, Ends, Ending
<1>11. Turn[s] = "answering" /\ Turn'[s] = "ending"
  BY <1>2, <1>4, <1>5, <1>8, <1>10, TurnIs, TurnIsNext
<1>12. Turn' = [Turn EXCEPT ![s] = "ending"]
  BY <1>2, <1>7, <1>11, TurnMoves
<1>13. QED
  BY <1>1, <1>4, <1>11, <1>12 DEF Sessions!End

\* What a worker does to the poller's registration and to the pool's entry of its
\* socket leaves the turn alone.
LEMMA CleanupStutters ==
  ASSUME SessionInv, SessionInv', NEW u \in Workers,
         Rearm(u) \/ DeleteSocket(u) \/ Unregister(u)
  PROVE  Stutters
<1>1. UNCHANGED <<poller, sock, unread, jobs>>
  BY DEF Rearm, DeleteSocket, Unregister, mainVars
<1>2. TypeOK /\ TypeOK' /\ RearmIsAlone /\ HeldAreRegistered
  BY DEF SessionInv, All, Inv, RoomyInv, HolderInv
<1>3. CASE Rearm(u)
  <2>1. wpc[u] = "rearming" /\ Rearming(u)
    BY <1>3 DEF Rearm, Rearming
  <2>2. PICK f \in FDs, s \in Socks :
          s = cs[u] /\ f = fd[s] /\ Idle(f) /\ Tabled(s) /\ watch[f] = "disarmed"
    BY <1>2, <2>1, RoomySorts DEF RearmIsAlone, SessionInv
  <2>3. sock[s] = "open"
    BY <2>2, RoomySorts DEF SessionInv, Idle, Known, Tabled
  <2>4. /\ \A w \in Workers : w # u => wpc'[w] = wpc[w] /\ cs'[w] = cs[w]
        /\ wpc'[u] = "idle" /\ cs'[u] = None
    BY <1>2, <1>3, <2>2, <2>3 DEF Rearm, Goto, Leave, TypeOK
  <2>5. None \notin Socks
    BY ClientSocketPoolAssumption
  <2>6. \A x \in Socks : (Answers(x)' <=> Answers(x)) /\ (Ends(x)' <=> Ends(x))
                         /\ (Gets(x)' <=> Gets(x))
    BY <1>1, <2>1, <2>4, <2>5 DEF Answers, Ends, Gets, Ending
  <2>7. \A x \in Socks : Same(x)
    BY <1>1, <2>6 DEF Same, Absent, Gone
  <2>8. Turn' = Turn
    BY <1>2, <2>7, TurnStays
  <2>9. QED
    BY <1>1, <2>8 DEF Stutters
<1>4. CASE DeleteSocket(u) \/ Unregister(u)
  <2>1. /\ \A w \in Workers : wpc'[w] = wpc[w] \/ (w = u /\ Ending(w) /\ Ending(w)')
        /\ cs' = cs
    <3>1. CASE DeleteSocket(u)
      BY <1>2, <3>1, ServingGoes DEF DeleteSocket, Ending, TypeOK
    <3>2. CASE Unregister(u)
      <4>1. wpc[u] = "unregistering" /\ watch[fd[cs[u]]] # "off"
        BY <1>2, <3>2 DEF Unregister, HeldAreRegistered
      <4>2. QED
        BY <1>2, <3>2, <4>1 DEF Unregister, Goto, Ending, TypeOK
    <3>3. QED
      BY <1>4, <3>1, <3>2
  <2>2. \A x \in Socks : (Answers(x)' <=> Answers(x)) /\ (Ends(x)' <=> Ends(x))
                         /\ (Gets(x)' <=> Gets(x))
    BY <1>1, <2>1 DEF Answers, Ends, Gets, Ending
  <2>3. \A x \in Socks : Same(x)
    BY <1>1, <2>2 DEF Same, Absent, Gone
  <2>4. Turn' = Turn
    BY <1>2, <2>3, TurnStays
  <2>5. QED
    BY <1>1, <2>4 DEF Stutters
<1>5. QED
  BY <1>3, <1>4

\* The session of a socket that a worker closes is over.
LEMMA CloseCloses ==
  ASSUME SessionInv, SessionInv', NEW u \in Workers, CloseSocket(u)
  PROVE  Sessions!Close(cs[u]) \/ Stutters
<1>1. UNCHANGED <<poller, unread, jobs>>
  BY DEF CloseSocket, mainVars
<1>2. TypeOK /\ TypeOK'
  BY DEF SessionInv, All, Inv
<1>3. wpc[u] = "closing" /\ Serving(u) /\ Ending(u)
  BY DEF CloseSocket, Serving, Ending
<1>4. PICK s \in Socks : s = cs[u]
  BY <1>3, ServerAlone
<1>5. ~Answers(s) /\ Ends(s) /\ ~Gets(s) /\ ~Absent(s)
  BY <1>3, <1>4, ServerAlone, AbsentAlone
<1>6. /\ \A w \in Workers : w # u => wpc'[w] = wpc[w] /\ cs'[w] = cs[w]
      /\ cs'[u] = None
      /\ sock' = [sock EXCEPT ![s] = "closed"]
  BY <1>2, <1>4 DEF CloseSocket, Shut, Goto, Leave, TypeOK
<1>7. None \notin Socks
  BY ClientSocketPoolAssumption
<1>8. \A x \in Socks : x # s => Same(x)
  BY <1>1, <1>2, <1>4, <1>6, <1>7, OneMoves DEF Same, Absent, Gone, TypeOK
<1>9. Gone(s)' /\ ~Absent(s)'
  BY <1>2, <1>6 DEF Gone, Absent, TypeOK
<1>10. Turn'[s] = "gone"
  BY <1>2, <1>9, TurnIsNext
<1>11. Turn' = [Turn EXCEPT ![s] = "gone"]
  BY <1>2, <1>8, <1>10, TurnMoves
<1>12. CASE Gone(s)
  <2>1. Turn[s] = "gone"
    BY <1>2, <1>12, TurnIs
  <2>2. Turn' = Turn
    <3>1. Turn = [x \in Socks |-> Turn[x]]
      BY DEF Turn
    <3>2. QED
      BY <1>11, <2>1, <3>1
  <2>3. QED
    BY <1>1, <2>2 DEF Stutters
<1>13. CASE ~Gone(s)
  <2>1. Turn[s] = "ending"
    BY <1>2, <1>5, <1>13, TurnIs
  <2>2. QED
    BY <1>1, <1>4, <1>11, <2>1 DEF Sessions!Close
<1>14. QED
  BY <1>12, <1>13

\* Every step of the proxy is one of ClientSessions.
LEMMA SessionStep ==
  ASSUME SessionInv, SessionInv', Next
  PROVE  [Sessions!Next]_(Sessions!vars)
<1>1. Stutters => UNCHANGED Sessions!vars
  BY DEF Stutters, Sessions!vars
<1>2. ASSUME NEW s \in Socks,
             \/ Sessions!Come(s) \/ Sessions!Refuse(s) \/ Sessions!Say(s)
             \/ Sessions!Serve(s) \/ Sessions!Read(s) \/ Sessions!Answer(s)
             \/ Sessions!End(s) \/ Sessions!Close(s)
      PROVE  Sessions!Next
  BY <1>2 DEF Sessions!Next
<1>3. ASSUME NEW u \in Workers, Read(u) \/ Keep(u) \/ Drop(u) \/ CloseSocket(u)
      PROVE  cs[u] \in Socks
  BY <1>3, ServerAlone DEF Read, Keep, Drop, CloseSocket, Serving
<1>4. ~Evict /\ ~CloserUnregister /\ ~CloserClose
  BY DEF SessionInv, All, Inv, TypeOK, RoomyInv, NothingEvicted, Evict,
         CloserUnregister, CloserClose
<1>5. CASE \E s \in Socks : Dial(s) \/ Say(s)
  BY <1>1, <1>2, <1>5, QuietSteps, SaySays
<1>6. CASE MainStep
  BY <1>1, <1>2, <1>4, <1>6, QuietSteps, AcceptComes, AcceptFailRefuses,
     DispatchServes
  DEF MainStep
<1>7. CASE \E w \in Workers : WorkerStep(w)
  BY <1>1, <1>2, <1>3, <1>7, TakeStutters, ReadReads, KeepAnswers, DropEnds,
     CleanupStutters, CloseCloses
  DEF WorkerStep
<1>8. QED
  BY <1>4, <1>5, <1>6, <1>7 DEF Next, CloserStep

\* With room for every descriptor the proxy serves each as ClientSessions promises:
\* only after it spoke, unless a report of poll() is late, one request per turn,
\* and its connection ends only once it hung up or a request was read.
THEOREM ConnectionsImplementSessions ==
  ASSUME Roomy
  PROVE  Spec => ImplementsSessions
<1>1. Init => Sessions!Init
  <2> SUFFICES ASSUME Init
               PROVE  Sessions!Init
    OBVIOUS
  <2>1. \A s \in Socks : Absent(s)
    BY DEF Init, Absent
  <2>2. TypeOK
    BY InitInv DEF Inv
  <2>3. \A s \in Socks : Turn[s] = "absent"
    BY <2>1, <2>2, TurnIs
  <2>4. Turn = [s \in Socks |-> Turn[s]]
    BY DEF Turn
  <2>5. Turn = [s \in Socks |-> "absent"]
    BY <2>3, <2>4
  <2>6. QED
    BY <2>5 DEF Init, Sessions!Init
<1>2. Init => OneOwner /\ ReportIsDue
  BY DEF Init, OneOwner, ReportIsDue
<1>3. All /\ All' /\ OneOwner /\ ReportIsDue /\ [Next]_vars
        => OneOwner' /\ ReportIsDue'
  <2> SUFFICES ASSUME All, All', OneOwner, ReportIsDue, [Next]_vars
               PROVE  OneOwner' /\ ReportIsDue'
    OBVIOUS
  <2>1. CASE Next
    BY <2>1, OwnerStep, ReportStep
  <2>2. CASE UNCHANGED vars
    BY <2>2 DEF OneOwner, ReportIsDue, vars, mainVars, workerVars
  <2>3. QED
    BY <2>1, <2>2
<1>4. SessionInv /\ SessionInv' /\ [Next]_vars => [Sessions!Next]_(Sessions!vars)
  <2> SUFFICES ASSUME SessionInv, SessionInv', [Next]_vars
               PROVE  [Sessions!Next]_(Sessions!vars)
    OBVIOUS
  <2>1. CASE Next
    BY <2>1, SessionStep
  <2>2. CASE UNCHANGED vars
    BY <2>2
    DEF vars, mainVars, workerVars, Sessions!vars, Turn, Served, Serving, Ending
  <2>3. QED
    BY <2>1, <2>2
<1>5. Spec => []All
  BY RoomyAlways
<1>6. Spec => []OneServer
  BY OneServerPerClient
<1>7. SessionInv <=> All /\ OneServer /\ OneOwner /\ ReportIsDue
  BY DEF SessionInv
<1>8. QED
  BY <1>1, <1>2, <1>3, <1>4, <1>5, <1>6, <1>7, PTL
  DEF Spec, ImplementsSessions, Sessions!Spec
=============================================================================
