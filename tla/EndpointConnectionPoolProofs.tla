-------------------- MODULE EndpointConnectionPoolProofs --------------------
(***************************************************************************)
(* Proofs about EndpointConnectionPool, for any number of users and        *)
(* connections.                                                            *)
(***************************************************************************)
EXTENDS EndpointConnectionPool, FiniteSetTheorems, SequenceTheorems, TLAPS

\* SubSeq(idle, n + 1, Len(idle)) stays a sequence, and its elements are those
\* of idle at shifted positions: what the cleanup pass relies on.
LEMMA DropPrefix ==
  ASSUME NEW S, NEW s \in Seq(S), NEW n \in 0 .. Len(s)
  PROVE  /\ SubSeq(s, n + 1, Len(s)) \in Seq(S)
         /\ Len(SubSeq(s, n + 1, Len(s))) = Len(s) - n
         /\ \A i \in 1 .. Len(s) - n : SubSeq(s, n + 1, Len(s))[i] = s[i + n]
  BY SubSeqProperties, LenProperties

\* The elements of a prefix are those of the sequence.
LEMMA TakePrefix ==
  ASSUME NEW S, NEW s \in Seq(S), NEW n \in 0 .. Len(s)
  PROVE  /\ SubSeq(s, 1, n) \in Seq(S)
         /\ Len(SubSeq(s, 1, n)) = n
         /\ \A i \in 1 .. n : SubSeq(s, 1, n)[i] = s[i]
  BY SubSeqProperties, LenProperties

\* The close queue after the first n idle connections were moved to it.
Moved(n) == closeQueue \o SubSeq(idle, 1, n)

\* Moving the first n idle connections to the close queue, as disable(),
\* out_of_sync(), close() and the cleanup pass do, repeats none of them there.
LEMMA MoveToQueue ==
  ASSUME closeQueue \in Seq(Conns \cup {None}), idle \in Seq(Conns), OnePlace,
         NEW n \in 0 .. Len(idle)
  PROVE  /\ Moved(n) \in Seq(Conns \cup {None})
         /\ \A i, j \in 1 .. Len(Moved(n)) :
              Moved(n)[i] = Moved(n)[j] /\ Moved(n)[i] # None => i = j
         /\ \A j \in 1 .. Len(Moved(n)) :
              \/ \E i \in 1 .. Len(closeQueue) : Moved(n)[j] = closeQueue[i]
              \/ \E i \in 1 .. n : Moved(n)[j] = idle[i]
  <1> DEFINE d == closeQueue
  <1> DEFINE q == idle
  <1> DEFINE p == SubSeq(q, 1, n)
  <1> DEFINE e == Moved(n)
  <1>a. d \in Seq(Conns \cup {None}) /\ q \in Seq(Conns) /\ e = d \o p
    BY DEF Moved
  <1>b. /\ \A i, j \in 1 .. Len(d) : d[i] = d[j] /\ d[i] # None => i = j
        /\ \A i, j \in 1 .. Len(q) : q[i] = q[j] => i = j
        /\ \A i \in 1 .. Len(q), j \in 1 .. Len(d) : q[i] # d[j]
    BY DEF OnePlace
  <1> HIDE DEF d, q, e
  <1>1. /\ p \in Seq(Conns \cup {None})
        /\ Len(p) = n
        /\ \A i \in 1 .. n : p[i] = q[i]
    <2>1. n \in 0 .. Len(q)
      BY DEF q
    <2> QED
      BY <1>a, <2>1, TakePrefix, SeqMonotonic
  <1>2. Len(d) \in Nat /\ Len(q) \in Nat /\ n \in Nat /\ n <= Len(q)
    BY <1>a, LenProperties DEF q
  <1> HIDE DEF p
  <1>3. e \in Seq(Conns \cup {None}) /\ Len(e) = Len(d) + n
    BY <1>a, <1>1, ConcatProperties
  <1>4. \A j \in 1 .. Len(d) : e[j] = d[j]
    BY <1>a, <1>1, <1>2, ConcatProperties
  <1>5. \A j \in Len(d) + 1 .. Len(d) + n :
          j - Len(d) \in 1 .. n /\ e[j] = q[j - Len(d)]
    <2> TAKE j \in Len(d) + 1 .. Len(d) + n
    <2>1. j - Len(d) \in 1 .. n /\ j \in 1 .. Len(d) + n /\ ~(j <= Len(d))
      BY <1>2
    <2>2. e[j] = p[j - Len(d)]
      BY <2>1, <1>a, <1>1, <1>2, ConcatProperties
    <2> QED
      BY <2>1, <2>2, <1>1
  <1>6. \A j \in 1 .. Len(e) :
          j \in 1 .. Len(d) \/ j \in Len(d) + 1 .. Len(d) + n
    BY <1>2, <1>3
  <1>7. \A j \in 1 .. Len(e) : \/ \E i \in 1 .. Len(d) : e[j] = d[i]
                             \/ \E i \in 1 .. n : e[j] = q[i]
    BY <1>4, <1>5, <1>6
  <1>8. ASSUME NEW i \in 1 .. Len(e), NEW j \in 1 .. Len(e), e[i] = e[j], e[i] # None
        PROVE  i = j
    <2>1. CASE i \in 1 .. Len(d) /\ j \in 1 .. Len(d)
      BY <1>b, <1>4, <1>8, <2>1
    <2>2. CASE i \in Len(d) + 1 .. Len(d) + n /\ j \in Len(d) + 1 .. Len(d) + n
      <3>1. i - Len(d) \in 1 .. Len(q) /\ j - Len(d) \in 1 .. Len(q)
        BY <1>2, <1>5, <2>2
      <3>2. q[i - Len(d)] = q[j - Len(d)]
        BY <1>5, <1>8, <2>2
      <3>3. i - Len(d) = j - Len(d)
        BY <1>b, <3>1, <3>2
      <3> QED
        BY <1>2, <2>2, <3>3
    <2>3. ASSUME NEW k \in 1 .. Len(d), NEW m \in Len(d) + 1 .. Len(d) + n
          PROVE  e[k] # e[m]
      <3>1. m - Len(d) \in 1 .. Len(q)
        BY <1>2, <1>5
      <3>2. e[k] = d[k] /\ e[m] = q[m - Len(d)]
        BY <1>4, <1>5
      <3> QED
        BY <1>b, <3>1, <3>2
    <2>4. /\ i \in 1 .. Len(d) \/ i \in Len(d) + 1 .. Len(d) + n
          /\ j \in 1 .. Len(d) \/ j \in Len(d) + 1 .. Len(d) + n
      BY <1>6
    <2> QED
      BY ONLY <1>8, <2>1, <2>2, <2>3, <2>4
  <1>9. \A i, j \in 1 .. Len(e) : e[i] = e[j] /\ e[i] # None => i = j
    BY <1>8
  <1> QED
    BY ONLY <1>3, <1>7, <1>9 DEF d, q, e

\* What the cleanup pass removes is never more than there is.
LEMMA SurplusBounded == TypeOK => Surplus \in 0 .. Len(idle)
  <1> SUFFICES ASSUME TypeOK PROVE Surplus \in 0 .. Len(idle)
    OBVIOUS
  <1>1. idle \in Seq(Conns) /\ expired \in 0 .. Len(idle)
    BY DEF TypeOK
  <1>2. Len(idle) \in Nat
    BY <1>1, LenProperties
  <1> QED
    BY <1>1, <1>2, PoolAssumption DEF Surplus

\* MarkBusy and CloserClose need a connection to be there: TypeOK alone is not
\* inductive.
Typed == TypeOK /\ UserHasConn

\* Every variable of the pool and its threads keeps its type, and a user has a
\* connection exactly between getting it and giving it back.
THEOREM TypedAlways == Spec => []Typed
  <1>1. Init => Typed
    BY PoolAssumption DEF Init, Typed, TypeOK, UserHasConn, Statuses, UserStates, CleanerStates, NoStats
  <1>2. Typed /\ [Next]_vars => Typed'
    <2> SUFFICES ASSUME Typed, [Next]_vars PROVE Typed'
      OBVIOUS
    <2> USE PoolAssumption DEF Typed, TypeOK, UserHasConn, Statuses, UserStates, CleanerStates
    <2>0. Unmarked \subseteq Conns
      BY DEF Unmarked
    <2>1. ASSUME NEW u \in Users, GetIdle(u) PROVE Typed'
      BY <2>1, HeadTailProperties DEF GetIdle, Empty, Rest, ExpiredAfter, threadVars
    <2>2. ASSUME NEW u \in Users, GetMiss(u) PROVE Typed'
      BY <2>2 DEF GetMiss, poolVars, threadVars
    <2>3. ASSUME NEW u \in Users, Connect(u) PROVE Typed'
      BY <2>3 DEF Connect, poolVars, threadVars
    <2>4. ASSUME NEW u \in Users, ConnectFail(u) PROVE Typed'
      BY <2>4 DEF ConnectFail, RecordErr, Saturate, threadVars
    <2>5. ASSUME NEW u \in Users, MarkBusy(u) PROVE Typed'
      BY <2>5 DEF MarkBusy, threadVars
    <2>6. ASSUME NEW u \in Users, Send(u) PROVE Typed'
      BY <2>6 DEF Send, Reconnected, poolVars, threadVars
    <2>7. ASSUME NEW u \in Users, Receive(u) PROVE Typed'
      BY <2>7 DEF Receive, poolVars, threadVars
    <2>8. ASSUME NEW u \in Users, Put(u) PROVE Typed'
      <3>1. conn[u] \in Conns
        BY <2>8 DEF Put
      <3>2. /\ Append(idle, conn[u]) \in Seq(Conns)
            /\ Len(Append(idle, conn[u])) = Len(idle) + 1
        BY <3>1, AppendProperties
      <3>3. /\ Append(closeQueue, conn[u]) \in Seq(Conns \cup {None})
            /\ Append(Append(closeQueue, conn[u]), None) \in Seq(Conns \cup {None})
        BY <3>1, AppendProperties
      <3>4. idle' \in Seq(Conns) /\ expired' \in 0 .. Len(idle')
        <4>1. idle' = idle \/ idle' = Append(idle, conn[u])
          BY <2>8 DEF Put
        <4>2. /\ expired' = expired
              /\ expired \in 0 .. Len(idle)
              /\ idle \in Seq(Conns)
          BY <2>8 DEF Put
        <4>3. Len(idle) \in Nat
          BY <4>2, LenProperties
        <4> HIDE DEF TypeOK
        <4> QED
          BY <3>2, <4>1, <4>2, <4>3
      <3>5. closeQueue' \in Seq(Conns \cup {None}) /\ status' \in Statuses
        BY <2>8, <3>3 DEF Put
      <3>6. stats' \in [ok : 0 .. StatsBound, err : 0 .. StatsBound]
        <4>1. stats' = stats \/ stats' = RecordOk
          BY <2>8 DEF Put
        <4>2. RecordOk \in [ok : 0 .. StatsBound, err : 0 .. StatsBound]
          BY DEF RecordOk, Saturate
        <4> QED
          BY <4>1, <4>2
      <3> QED
        BY <2>0, <2>8, <3>4, <3>5, <3>6 DEF Put, Freed, threadVars
    <2>9. ASSUME NEW u \in Users, BrokenUnmark(u) PROVE Typed'
      BY <2>9 DEF BrokenUnmark, Freed, threadVars
    <2>10. ASSUME NEW u \in Users, BrokenQueue(u) PROVE Typed'
      <3>1. Append(closeQueue, conn[u]) \in Seq(Conns \cup {None})
        BY AppendProperties
      <3>2. RecordErr \in [ok : 0 .. StatsBound, err : 0 .. StatsBound]
        BY DEF RecordErr, Saturate
      <3> QED
        BY <2>10, <3>1, <3>2 DEF BrokenQueue, threadVars
    <2>11. ASSUME ControlStep PROVE Typed'
      <3>1. idle \in Seq(Conns \cup {None})
        BY SeqMonotonic
      <3>2. Drained \in Seq(Conns \cup {None})
        BY <3>1, ConcatProperties DEF Drained
      <3>3. Append(Drained, None) \in Seq(Conns \cup {None})
        BY <3>2, AppendProperties
      <3>4. <<>> \in Seq(Conns) /\ Len(<<>>) = 0
        BY EmptySeq
      <3>5. CASE \E to \in {"DISABLED", "OUT_OF_SYNC"} : Suspend(to)
        BY <3>2, <3>4, <3>5 DEF Suspend, NoStats, userVars, threadVars
      <3>6. CASE Activate
        BY <3>6 DEF Activate, userVars, threadVars
      <3>7. CASE Close
        <4>1. closeQueue' \in Seq(Conns \cup {None}) /\ status' \in Statuses
          BY <3>2, <3>3, <3>7 DEF Close
        <4>2. closes' \in 0 .. MaxCloses
          BY <3>7 DEF Close
        <4> QED
          BY <2>0, <3>4, <3>7, <4>1, <4>2 DEF Close, userVars, threadVars
      <3> QED
        BY <2>11, <3>5, <3>6, <3>7 DEF ControlStep, Disable, OutOfSync
    <2>12. ASSUME CloserStep PROVE Typed'
      <3>1. CASE CloserTake
        BY <3>1, HeadTailProperties DEF CloserTake, userVars
      <3>2. CASE CloserClose
        BY <3>2 DEF CloserClose, poolVars, userVars
      <3> QED
        BY <2>12, <3>1, <3>2 DEF CloserStep
    <2>13. ASSUME Cleanup PROVE Typed'
      <3>1. Surplus \in 0 .. Len(idle)
        BY SurplusBounded
      <3>2. /\ Rotated \in Seq(Conns)
            /\ Len(Rotated) = Len(idle) - Surplus
        BY <3>1, DropPrefix DEF Rotated
      <3>3. SubSeq(idle, 1, Surplus) \in Seq(Conns \cup {None})
        BY <3>1, TakePrefix, SeqMonotonic
      <3>4. closeQueue \o SubSeq(idle, 1, Surplus) \in Seq(Conns \cup {None})
        BY <3>3, ConcatProperties
      <3>5. ExpiredAfter(Surplus) \in 0 .. Len(idle) - Surplus
        BY <3>1 DEF ExpiredAfter
      <3> QED
        BY <2>13, <3>2, <3>4, <3>5 DEF Cleanup, userVars
    <2>14. ASSUME Expire PROVE Typed'
      BY <2>14 DEF Expire, userVars, threadVars
    <2>15. CASE UNCHANGED vars
      BY <2>15 DEF vars, poolVars, userVars, threadVars
    <2> QED
      BY <2>1, <2>2, <2>3, <2>4, <2>5, <2>6, <2>7, <2>8, <2>9, <2>10, <2>11,
         <2>12, <2>13, <2>14, <2>15 DEF Next, UserStep
  <1> QED
    BY <1>1, <1>2, PTL DEF Spec

\* The type invariant TypeOK of the pool, the connections, the users and the two
\* daemon threads.
THEOREM TypeCorrect == Spec => []TypeOK
  BY TypedAlways, PTL DEF Typed

-----------------------------------------------------------------------------
\* OnePlace needs Born: the connection that Connect gives to a user is new only
\* because every connection that is anywhere was opened before.
Placed == OnePlace /\ Born

LEMMA PlacedAlways == Spec => []Placed
  <1>1. Init => Placed
    BY EmptySeq DEF Init, Placed, OnePlace, Born
  <1>2. Typed /\ Typed' /\ Placed /\ [Next]_vars => Placed'
    <2> SUFFICES ASSUME Typed, Typed', Placed, [Next]_vars PROVE Placed'
      OBVIOUS
    <2> USE PoolAssumption DEF Placed, OnePlace, Born
    <2>a. /\ idle \in Seq(Conns) /\ closeQueue \in Seq(Conns \cup {None})
          /\ conn \in [Users -> Conns \cup {None}]
          /\ sock \in [Conns -> {"none", "open", "closed"}]
          /\ closing \in Conns \cup {None}
          /\ pc \in [Users -> UserStates]
          /\ UserHasConn
          /\ None \notin Conns
      BY DEF Typed, TypeOK
    <2>b. Len(idle) \in Nat /\ Len(closeQueue) \in Nat
      BY <2>a, LenProperties
    <2>c. /\ \A i \in 1 .. Len(idle) : idle[i] \in Conns
          /\ \A j \in 1 .. Len(closeQueue) : closeQueue[j] \in Conns \cup {None}
      BY <2>a, ElementOfSeq
    <2>d. ASSUME NEW n \in 0 .. Len(idle)
          PROVE  /\ Moved(n) \in Seq(Conns \cup {None})
                 /\ \A i, j \in 1 .. Len(Moved(n)) :
                      Moved(n)[i] = Moved(n)[j] /\ Moved(n)[i] # None => i = j
                 /\ \A j \in 1 .. Len(Moved(n)) :
                      \/ \E i \in 1 .. Len(closeQueue) : Moved(n)[j] = closeQueue[i]
                      \/ \E i \in 1 .. n : Moved(n)[j] = idle[i]
      <3> HIDE DEF Placed, OnePlace, Born
      <3>1. OnePlace
        BY DEF Placed
      <3>2. closeQueue \in Seq(Conns \cup {None}) /\ idle \in Seq(Conns)
        BY <2>a
      <3> QED
        BY ONLY <3>1, <3>2, n \in 0 .. Len(idle), MoveToQueue, Zenon
    <2>1. ASSUME NEW u \in Users, GetIdle(u) PROVE Placed'
      <3>1. /\ idle # <<>> /\ idle' = Tail(idle)
            /\ conn' = [conn EXCEPT ![u] = idle[1]]
            /\ conn[u] = None
            /\ UNCHANGED <<closeQueue, closing, sock>>
        BY <2>1, <2>a, HeadTailProperties
        DEF GetIdle, Empty, Rest, UserHasConn, threadVars
      <3>2. /\ Len(idle') = Len(idle) - 1
            /\ \A i \in 1 .. Len(idle') : idle'[i] = idle[i+1]
            /\ Len(idle) >= 1
        BY <3>1, <2>a, HeadTailProperties
      <3> QED
        BY <3>1, <3>2, <2>a, <2>b, <2>c
    <2>2. ASSUME NEW u \in Users, GetMiss(u) PROVE Placed'
      BY <2>2 DEF GetMiss, poolVars, threadVars
    <2>3. ASSUME NEW u \in Users, Connect(u) PROVE Placed'
      <3>1. PICK c \in Conns :
              /\ sock[c] = "none"
              /\ sock' = [sock EXCEPT ![c] = "open"]
              /\ conn' = [conn EXCEPT ![u] = c]
        BY <2>3 DEF Connect
      <3>2. UNCHANGED <<idle, closeQueue, closing>>
        BY <2>3 DEF Connect, poolVars, threadVars
      <3> QED
        BY <3>1, <3>2, <2>a, <2>c
    <2>4. ASSUME NEW u \in Users, ConnectFail(u) PROVE Placed'
      BY <2>4 DEF ConnectFail, threadVars
    <2>5. ASSUME NEW u \in Users, MarkBusy(u) PROVE Placed'
      BY <2>5 DEF MarkBusy, threadVars
    <2>6. ASSUME NEW u \in Users, Send(u) \/ Receive(u) PROVE Placed'
      <3>1. UNCHANGED <<conn, idle, closeQueue, closing>>
        BY <2>6 DEF Send, Receive, poolVars, threadVars
      <3>2. \A c \in Conns : sock[c] # "none" => sock'[c] # "none"
        BY <2>6, <2>a DEF Send, Receive, Reconnected
      <3> QED
        BY <3>1, <3>2, <2>a, <2>c
    <2>7. ASSUME NEW u \in Users, Put(u) PROVE Placed'
      <3>1. /\ conn[u] \in Conns
            /\ conn' = [conn EXCEPT ![u] = None]
            /\ UNCHANGED <<closing, sock>>
        BY <2>7, <2>a DEF Put, UserHasConn, threadVars
      <3>a. /\ \A v \in Users : conn[v] = conn[u] => v = u
            /\ \A i \in 1 .. Len(idle) : idle[i] # conn[u]
            /\ \A j \in 1 .. Len(closeQueue) : closeQueue[j] # conn[u]
            /\ closing # conn[u] /\ conn[u] # None /\ sock[conn[u]] # "none"
        BY <3>1, <2>a
      <3>b. /\ \A v \in Users :
                 conn'[v] = None \/ (v # u /\ conn'[v] = conn[v])
            /\ \A v, w \in Users :
                 conn'[v] = conn'[w] /\ conn'[v] # None => v = w
            /\ \A v \in Users : conn'[v] = closing' => closing' = None
            /\ \A v \in Users : conn'[v] # None => sock'[conn'[v]] # "none"
            /\ closing' # None => sock'[closing'] # "none"
        <4>1. \A v \in Users : conn'[v] = None \/ (v # u /\ conn'[v] = conn[v])
          <5>1. conn \in [Users -> Conns \cup {None}]
            BY <2>a
          <5>2. conn' = [conn EXCEPT ![u] = None]
            BY <3>1
          <5> QED
            BY ONLY <5>1, <5>2
        <4>2. \A v, w \in Users : conn'[v] = conn'[w] /\ conn'[v] # None => v = w
          BY <4>1
        <4>3. \A v \in Users : conn'[v] = closing' => closing' = None
          BY <3>1, <4>1
        <4>4. \A v \in Users : conn'[v] # None => sock'[conn'[v]] # "none"
          BY <3>1, <4>1
        <4>5. closing' # None => sock'[closing'] # "none"
          BY <3>1
        <4> QED
          BY ONLY <4>1, <4>2, <4>3, <4>4, <4>5
      <3>2. CASE idle' = Append(idle, conn[u]) /\ closeQueue' = closeQueue
        <4>1. /\ Len(idle') = Len(idle) + 1
              /\ \A i \in 1 .. Len(idle) + 1 :
                   idle'[i] = IF i = Len(idle) + 1 THEN conn[u] ELSE idle[i]
          BY <3>1, <3>2, <2>a, AppendProperties
        <4>2. \A i \in 1 .. Len(idle') :
                \/ i = Len(idle') /\ idle'[i] = conn[u]
                \/ i \in 1 .. Len(idle) /\ i # Len(idle') /\ idle'[i] = idle[i]
          BY <4>1, <2>b
        <4>3. \A i, j \in 1 .. Len(idle') : idle'[i] = idle'[j] => i = j
          BY <3>a, <4>2
        <4>4. /\ \A v \in Users, i \in 1 .. Len(idle') : conn'[v] # idle'[i]
              /\ \A i \in 1 .. Len(idle') : idle'[i] # closing'
          BY <3>1, <3>a, <3>b, <4>2, <2>c, <2>a
        <4>5. /\ \A v \in Users, j \in 1 .. Len(closeQueue') :
                   conn'[v] = closeQueue'[j] => conn'[v] = None
              /\ \A i \in 1 .. Len(idle'), j \in 1 .. Len(closeQueue') :
                   idle'[i] # closeQueue'[j]
          BY <3>2, <3>a, <3>b, <4>2
        <4>6. /\ \A i \in 1 .. Len(idle') : sock'[idle'[i]] # "none"
              /\ \A j \in 1 .. Len(closeQueue') :
                   closeQueue'[j] # None => sock'[closeQueue'[j]] # "none"
          BY <3>1, <3>2, <3>a, <4>2
        <4>7. /\ \A i, j \in 1 .. Len(closeQueue') :
                   closeQueue'[i] = closeQueue'[j] /\ closeQueue'[i] # None
                     => i = j
              /\ \A j \in 1 .. Len(closeQueue') :
                   closeQueue'[j] = closing' => closing' = None
          BY <3>1, <3>2
        <4> QED
          BY ONLY <3>b, <4>3, <4>4, <4>5, <4>6, <4>7 DEF Placed, OnePlace, Born
      <3>3. ASSUME idle' = idle,
                   \A j \in 1 .. Len(closeQueue') :
                     \/ closeQueue'[j] = None
                     \/ j = Len(closeQueue) + 1 /\ closeQueue'[j] = conn[u]
                     \/ /\ j \in 1 .. Len(closeQueue) /\ j # Len(closeQueue) + 1
                        /\ closeQueue'[j] = closeQueue[j]
            PROVE  Placed'
        <4>1. \A i, j \in 1 .. Len(closeQueue') :
                closeQueue'[i] = closeQueue'[j] /\ closeQueue'[i] # None => i = j
          BY <3>3, <3>a
        <4>2. /\ \A v \in Users, j \in 1 .. Len(closeQueue') :
                   conn'[v] = closeQueue'[j] => conn'[v] = None
              /\ \A j \in 1 .. Len(closeQueue') :
                   closeQueue'[j] = closing' => closing' = None
          BY <3>1, <3>3, <3>a, <3>b
        <4>3. \A i \in 1 .. Len(idle'), j \in 1 .. Len(closeQueue') :
                idle'[i] # closeQueue'[j]
          <5>1. \A i \in 1 .. Len(idle) : idle[i] # None
            BY <2>a, <2>c
          <5> QED
            BY <3>3, <3>a, <5>1
        <4>4. /\ \A i \in 1 .. Len(idle') : sock'[idle'[i]] # "none"
              /\ \A j \in 1 .. Len(closeQueue') :
                   closeQueue'[j] # None => sock'[closeQueue'[j]] # "none"
          BY <3>1, <3>3, <3>a
        <4>5. /\ \A i, j \in 1 .. Len(idle') : idle'[i] = idle'[j] => i = j
              /\ \A v \in Users, i \in 1 .. Len(idle') : conn'[v] # idle'[i]
              /\ \A i \in 1 .. Len(idle') : idle'[i] # closing'
          BY <3>1, <3>3, <3>b, <2>a, <2>c
        <4> QED
          BY ONLY <3>b, <4>1, <4>2, <4>3, <4>4, <4>5 DEF Placed, OnePlace, Born
      <3>4. CASE idle' = idle /\ closeQueue' = Append(closeQueue, conn[u])
        <4>1. /\ Len(closeQueue') = Len(closeQueue) + 1
              /\ \A j \in 1 .. Len(closeQueue) + 1 :
                   closeQueue'[j] = IF j = Len(closeQueue) + 1
                                    THEN conn[u] ELSE closeQueue[j]
          BY <3>1, <3>4, <2>a, AppendProperties
        <4> QED
          BY <3>3, <3>4, <4>1, <2>b
      <3>5. CASE /\ idle' = idle
                 /\ closeQueue' = Append(Append(closeQueue, conn[u]), None)
        <4> DEFINE e == Append(closeQueue, conn[u])
        <4>1. /\ e \in Seq(Conns \cup {None})
              /\ Len(e) = Len(closeQueue) + 1
              /\ \A j \in 1 .. Len(closeQueue) + 1 :
                   e[j] = IF j = Len(closeQueue) + 1
                          THEN conn[u] ELSE closeQueue[j]
          BY <3>1, <2>a, AppendProperties
        <4>2. /\ closeQueue' = Append(e, None)
              /\ Len(closeQueue') = Len(e) + 1
              /\ \A j \in 1 .. Len(e) + 1 :
                   closeQueue'[j] = IF j = Len(e) + 1 THEN None ELSE e[j]
          BY <3>5, <4>1, AppendProperties
        <4> HIDE DEF e
        <4> QED
          BY <3>3, <3>5, <4>1, <4>2, <2>b
      <3> QED
        BY <2>7, <3>2, <3>4, <3>5 DEF Put
    <2>8. ASSUME NEW u \in Users, BrokenUnmark(u) PROVE Placed'
      BY <2>8 DEF BrokenUnmark, threadVars
    <2>9. ASSUME NEW u \in Users, BrokenQueue(u) PROVE Placed'
      <3>1. /\ conn[u] \in Conns
            /\ conn' = [conn EXCEPT ![u] = None]
            /\ closeQueue' = Append(closeQueue, conn[u])
            /\ UNCHANGED <<idle, closing, sock>>
        BY <2>9, <2>a DEF BrokenQueue, UserHasConn, threadVars
      <3>2. /\ Len(closeQueue') = Len(closeQueue) + 1
            /\ \A j \in 1 .. Len(closeQueue) + 1 :
                 closeQueue'[j] = IF j = Len(closeQueue) + 1
                                  THEN conn[u] ELSE closeQueue[j]
        BY <3>1, <2>a, AppendProperties
      <3> QED
        BY <3>1, <3>2, <2>a, <2>b, <2>c
    <2>10. ASSUME ControlStep PROVE Placed'
      <3>1. UNCHANGED <<conn, closing, sock>>
        BY <2>10 DEF ControlStep, Disable, OutOfSync, Suspend, Activate, Close,
                     userVars, threadVars
      <3>2. /\ Drained \in Seq(Conns \cup {None})
            /\ \A i, j \in 1 .. Len(Drained) :
                 Drained[i] = Drained[j] /\ Drained[i] # None => i = j
            /\ \A j \in 1 .. Len(Drained) :
                 \/ \E i \in 1 .. Len(closeQueue) : Drained[j] = closeQueue[i]
                 \/ \E i \in 1 .. Len(idle) : Drained[j] = idle[i]
        <4>1. Drained = Moved(Len(idle)) /\ Len(idle) \in 0 .. Len(idle)
          BY <2>a, <2>b, SubSeqFull DEF Drained, Moved
        <4> QED
          BY ONLY <4>1, <2>d, Zenon
      <3>3. CASE idle' = <<>> /\ closeQueue' = Drained
        <4>1. Len(idle') = 0
          BY <3>3, EmptySeq
        <4>2. \A i \in 1 .. Len(idle') : FALSE
          BY <4>1
        <4>3. OnePlace'
          <5>1. /\ \A i, j \in 1 .. Len(closeQueue') :
                     closeQueue'[i] = closeQueue'[j] /\ closeQueue'[i] # None
                       => i = j
                /\ \A u \in Users, j \in 1 .. Len(closeQueue') :
                     conn[u] = closeQueue'[j] => conn[u] = None
                /\ \A j \in 1 .. Len(closeQueue') :
                     closeQueue'[j] = closing => closing = None
            <6>1. \A j \in 1 .. Len(closeQueue') :
                    \/ \E i \in 1 .. Len(closeQueue) : closeQueue'[j] = closeQueue[i]
                    \/ \E i \in 1 .. Len(idle) : closeQueue'[j] = idle[i]
              BY ONLY <3>2, <3>3
            <6>2. \A i, j \in 1 .. Len(closeQueue') :
                    closeQueue'[i] = closeQueue'[j] /\ closeQueue'[i] # None
                      => i = j
              BY ONLY <3>2, <3>3
            <6>3. \A u \in Users, j \in 1 .. Len(closeQueue') :
                    conn[u] = closeQueue'[j] => conn[u] = None
              BY <6>1
            <6>4. \A j \in 1 .. Len(closeQueue') :
                    closeQueue'[j] = closing => closing = None
              BY <6>1
            <6> QED
              BY ONLY <6>2, <6>3, <6>4
          <5> QED
            BY <3>1, <4>2, <5>1
        <4>4. Born'
          BY <3>1, <3>2, <3>3, <4>2, <2>b, <2>c
        <4> QED
          BY <4>3, <4>4
      <3>4. CASE idle' = <<>> /\ closeQueue' = Append(Drained, None)
        <4>1. /\ Len(closeQueue') = Len(Drained) + 1
              /\ \A j \in 1 .. Len(Drained) + 1 :
                   closeQueue'[j] = IF j = Len(Drained) + 1
                                    THEN None ELSE Drained[j]
          BY <3>2, <3>4, AppendProperties
        <4>2. \A j \in 1 .. Len(closeQueue') :
                \/ closeQueue'[j] = None
                \/ j \in 1 .. Len(Drained) /\ closeQueue'[j] = Drained[j]
          BY <3>2, <4>1, LenProperties
        <4>3. Len(idle') = 0
          BY <3>4, EmptySeq
        <4>4. \A i \in 1 .. Len(idle') : FALSE
          BY <4>3
        <4>5. \A j \in 1 .. Len(closeQueue') :
                \/ closeQueue'[j] = None
                \/ \E i \in 1 .. Len(closeQueue) : closeQueue'[j] = closeQueue[i]
                \/ \E i \in 1 .. Len(idle) : closeQueue'[j] = idle[i]
          BY <3>2, <4>2
        <4>8. \A i, j \in 1 .. Len(closeQueue') :
                closeQueue'[i] = closeQueue'[j] /\ closeQueue'[i] # None => i = j
          BY ONLY <3>2, <4>2
        <4>6. OnePlace'
          <5>1. /\ \A u \in Users, j \in 1 .. Len(closeQueue') :
                     conn[u] = closeQueue'[j] => conn[u] = None
                /\ \A j \in 1 .. Len(closeQueue') :
                     closeQueue'[j] = closing => closing = None
            BY <4>5, <2>c
          <5> QED
            BY <3>1, <4>4, <4>8, <5>1
        <4>7. Born'
          BY <3>1, <4>4, <4>5, <2>b, <2>c
        <4> QED
          BY <4>6, <4>7
      <3>5. CASE UNCHANGED <<idle, closeQueue>>
        BY <3>1, <3>5
      <3> QED
        BY <2>10, <3>3, <3>4, <3>5
        DEF ControlStep, Disable, OutOfSync, Suspend, Activate, Close
    <2>11. ASSUME CloserTake PROVE Placed'
      <3>1. /\ closeQueue' = Tail(closeQueue)
            /\ closing' = closeQueue[1]
            /\ UNCHANGED <<idle, conn, sock>>
            /\ Len(closeQueue) >= 1
            /\ Len(closeQueue') = Len(closeQueue) - 1
            /\ \A i \in 1 .. Len(closeQueue') : closeQueue'[i] = closeQueue[i+1]
        BY <2>11, <2>a, HeadTailProperties DEF CloserTake, userVars
      <3> QED
        BY <3>1, <2>a, <2>b, <2>c
    <2>12. ASSUME CloserClose PROVE Placed'
      BY <2>12, <2>a, <2>c DEF CloserClose, poolVars, userVars
    <2>13. ASSUME Cleanup PROVE Placed'
      <3>1. UNCHANGED <<conn, closing, sock>>
        BY <2>13 DEF Cleanup, userVars
      <3>2. CASE UNCHANGED <<idle, closeQueue>>
        BY <3>1, <3>2
      <3>3. CASE /\ idle' = Rotated
                 /\ closeQueue' = closeQueue \o SubSeq(idle, 1, Surplus)
        <4>1. Surplus \in 0 .. Len(idle)
          BY SurplusBounded DEF Typed
        <4>2. /\ Len(idle') = Len(idle) - Surplus
              /\ \A i \in 1 .. Len(idle') : idle'[i] = idle[i + Surplus]
          BY <3>3, <4>1, <2>a, <2>b, DropPrefix DEF Rotated
        <4>3. /\ \A i, j \in 1 .. Len(closeQueue') :
                   closeQueue'[i] = closeQueue'[j] /\ closeQueue'[i] # None
                     => i = j
              /\ \A j \in 1 .. Len(closeQueue') :
                   \/ \E i \in 1 .. Len(closeQueue) :
                        closeQueue'[j] = closeQueue[i]
                   \/ \E i \in 1 .. Surplus : closeQueue'[j] = idle[i]
          <5>1. closeQueue' = Moved(Surplus)
            BY <3>3 DEF Moved
          <5> QED
            BY ONLY <4>1, <5>1, <2>d, Zenon
        <4>4. \A i \in 1 .. Len(idle') : i + Surplus \in 1 .. Len(idle)
          BY <4>1, <4>2, <2>b
        <4>5. \A i \in 1 .. Surplus : i \in 1 .. Len(idle)
          BY <4>1, <2>b
        <4>6. \A i \in 1 .. Len(idle'), k \in 1 .. Surplus : idle'[i] # idle[k]
          BY <4>1, <4>2, <4>4, <4>5, <2>b
        <4>7. \A i, j \in 1 .. Len(idle') : idle'[i] = idle'[j] => i = j
          BY <4>1, <4>2, <4>4, <2>b
        <4>8. \A i \in 1 .. Len(idle') :
                \E k \in 1 .. Len(idle) : idle'[i] = idle[k]
          BY <4>2, <4>4
        <4>9. \A i \in 1 .. Len(idle'), j \in 1 .. Len(closeQueue') :
                idle'[i] # closeQueue'[j]
          BY <4>3, <4>6, <4>8
        <4>10. \A j \in 1 .. Len(closeQueue') :
                 \/ \E i \in 1 .. Len(closeQueue) : closeQueue'[j] = closeQueue[i]
                 \/ \E i \in 1 .. Len(idle) : closeQueue'[j] = idle[i]
          BY ONLY <4>3, <4>5
        <4>11. \A i, j \in 1 .. Len(closeQueue') :
                 closeQueue'[i] = closeQueue'[j] /\ closeQueue'[i] # None => i = j
          BY ONLY <4>3
        <4> QED
          <5>1. OnePlace'
            BY <3>1, <4>7, <4>8, <4>9, <4>10, <4>11
          <5>2. Born'
            BY <3>1, <4>3, <4>5, <4>8
          <5> QED
            BY <5>1, <5>2
      <3> QED
        BY <2>13, <3>2, <3>3 DEF Cleanup
    <2>14. ASSUME Expire PROVE Placed'
      BY <2>14 DEF Expire, userVars, threadVars
    <2>15. CASE UNCHANGED vars
      BY <2>15 DEF vars, poolVars, userVars, threadVars
    <2> QED
      BY <2>1, <2>2, <2>3, <2>4, <2>5, <2>6, <2>7, <2>8, <2>9, <2>10, <2>11,
         <2>12, <2>13, <2>14, <2>15 DEF Next, UserStep, CloserStep
  <1> QED
    BY <1>1, <1>2, TypedAlways, PTL DEF Spec

\* No step puts a connection in a second place.
THEOREM NoConnectionInTwoPlaces == Spec => []OnePlace
  BY PlacedAlways, PTL DEF Placed

-----------------------------------------------------------------------------
\* Whatever is put back late, no connection is idle in a pool that was disabled,
\* set out of sync or closed: put() and the status changes exclude each other.
THEOREM IdleConnectionsOnlyInActivePool == Spec => []IdleOnlyWhenActive
  <1>1. Init => IdleOnlyWhenActive
    BY DEF Init, IdleOnlyWhenActive
  <1>2. Typed /\ IdleOnlyWhenActive /\ [Next]_vars => IdleOnlyWhenActive'
    <2> SUFFICES ASSUME Typed, IdleOnlyWhenActive, [Next]_vars
                 PROVE  IdleOnlyWhenActive'
      OBVIOUS
    <2> USE DEF IdleOnlyWhenActive
    <2>1. ASSUME NEW u \in Users, UserStep(u) PROVE IdleOnlyWhenActive'
      <3>1. CASE GetIdle(u)
        BY <3>1, EmptySeq DEF GetIdle, Empty, Rest
      <3>2. CASE Put(u)
        BY <3>2 DEF Put, IsActive
      <3>3. CASE ~GetIdle(u) /\ ~Put(u)
        BY <2>1, <3>3 DEF UserStep, GetMiss, Connect, ConnectFail, MarkBusy, Send,
           Receive, BrokenUnmark, BrokenQueue, poolVars
      <3> QED
        BY <3>1, <3>2, <3>3
    <2>2. ASSUME ControlStep PROVE IdleOnlyWhenActive'
      BY <2>2 DEF ControlStep, Disable, OutOfSync, Suspend, Activate, Close
    <2>3. ASSUME CloserStep PROVE IdleOnlyWhenActive'
      BY <2>3 DEF CloserStep, CloserTake, CloserClose, poolVars
    <2>4. ASSUME Cleanup PROVE IdleOnlyWhenActive'
      BY <2>4 DEF Cleanup, IsActive
    <2>5. ASSUME Expire PROVE IdleOnlyWhenActive'
      BY <2>5 DEF Expire
    <2>6. CASE UNCHANGED vars
      BY <2>6 DEF vars, poolVars
    <2> QED
      BY <2>1, <2>2, <2>3, <2>4, <2>5, <2>6 DEF Next
  <1> QED
    BY <1>1, <1>2, TypedAlways, PTL DEF Spec

-----------------------------------------------------------------------------
\* The socket a user waits on is closed by nobody else: that needs OnePlace,
\* since other users and the closing thread close the sockets they have.
THEOREM NobodyClosesAnAwaitedSocket == Spec => []WaitsOnOpenSocket
  <1>1. Init => WaitsOnOpenSocket
    BY DEF Init, WaitsOnOpenSocket
  <1>2. Typed /\ OnePlace /\ WaitsOnOpenSocket /\ [Next]_vars
          => WaitsOnOpenSocket'
    <2> SUFFICES ASSUME Typed, OnePlace, WaitsOnOpenSocket, [Next]_vars,
                        NEW v \in Users, pc'[v] = "sent"
                 PROVE  sock'[conn'[v]] = "open"
      BY DEF WaitsOnOpenSocket
    <2>a. /\ conn \in [Users -> Conns \cup {None}]
          /\ sock \in [Conns -> {"none", "open", "closed"}]
          /\ pc \in [Users -> UserStates]
          /\ \A u \in Users : pc[u] = "sent" => sock[conn[u]] = "open"
          /\ \A u \in Users : conn[u] = None <=> pc[u] \in {"out", "dialing"}
          /\ closing \in Conns \cup {None}
      BY DEF Typed, TypeOK, UserHasConn, WaitsOnOpenSocket
    <2>b. /\ \A u, w \in Users : conn[u] = conn[w] /\ conn[u] # None => u = w
          /\ \A u \in Users : conn[u] = closing => closing = None
      BY DEF OnePlace
    <2>1. ASSUME NEW u \in Users, Connect(u) PROVE sock'[conn'[v]] = "open"
      BY <2>1, <2>a DEF Connect
    <2>2. ASSUME NEW u \in Users, Send(u) PROVE sock'[conn'[v]] = "open"
      <3>1. CASE u = v
        BY <2>2, <2>a, <3>1 DEF Send, Reconnected
      <3>2. CASE u # v
        <4>1. pc'[v] = pc[v] /\ conn' = conn
          BY <2>2, <2>a, <3>2 DEF Send
        <4>2. conn[u] # conn[v] /\ conn[v] \in Conns
          BY <2>a, <2>b, <3>2, <4>1
        <4>3. sock'[conn[v]] = sock[conn[v]]
          BY <2>2, <2>a, <4>2 DEF Send, Reconnected
        <4> QED
          BY <2>a, <4>1, <4>3
      <3> QED
        BY <3>1, <3>2
    <2>3. ASSUME NEW u \in Users, Receive(u) PROVE sock'[conn'[v]] = "open"
      <3>1. u # v /\ pc'[v] = pc[v] /\ conn' = conn
        BY <2>3, <2>a DEF Receive
      <3>2. conn[u] # conn[v] /\ conn[v] \in Conns
        BY <2>a, <2>b, <3>1
      <3>3. sock'[conn[v]] = sock[conn[v]]
        BY <2>3, <2>a, <3>2 DEF Receive
      <3> QED
        BY <2>a, <3>1, <3>3
    <2>4. ASSUME CloserClose PROVE sock'[conn'[v]] = "open"
      BY <2>4, <2>a, <2>b DEF CloserClose, userVars
    <2>5. ASSUME NEW u \in Users,
                 \/ GetIdle(u) \/ GetMiss(u) \/ ConnectFail(u) \/ MarkBusy(u)
                 \/ Put(u) \/ BrokenUnmark(u) \/ BrokenQueue(u)
          PROVE  sock'[conn'[v]] = "open"
      BY <2>5, <2>a DEF GetIdle, GetMiss, ConnectFail, MarkBusy, Put,
         BrokenUnmark, BrokenQueue
    <2>6. ASSUME ControlStep \/ CloserTake \/ Cleanup \/ Expire
          PROVE  sock'[conn'[v]] = "open"
      <3>1. UNCHANGED <<sock, userVars>>
        BY <2>6 DEF ControlStep, Disable, OutOfSync, Suspend, Activate, Close,
           CloserTake, Cleanup, Expire
      <3> QED
        BY <3>1, <2>a DEF userVars
    <2>7. CASE UNCHANGED vars
      BY <2>7, <2>a DEF vars, userVars
    <2> QED
      BY <2>1, <2>2, <2>3, <2>4, <2>5, <2>6, <2>7 DEF Next, UserStep, CloserStep
  <1> QED
    BY <1>1, <1>2, TypedAlways, NoConnectionInTwoPlaces, PTL DEF Spec

-----------------------------------------------------------------------------
\* The pool keeps at most as many connections as there are threads: a get()
\* that misses opens one more only when none is idle, and until it is put back
\* its thread cannot take another.
THEOREM PoolNeverOutgrowsItsUsers == Spec => []PoolBounded
  <1>a. /\ IsFiniteSet(Inside)
        /\ Cardinality(Inside) \in Nat
        /\ Cardinality(Users) \in Nat
        /\ Cardinality(Inside) <= Cardinality(Users)
    <2>1. Inside \subseteq Users /\ IsFiniteSet(Users)
      BY PoolAssumption DEF Inside
    <2> QED
      BY <2>1, FS_Subset, FS_CardinalityType
  <1>1. Init => PoolBounded
    <2> SUFFICES ASSUME Init PROVE PoolBounded
      OBVIOUS
    <2>1. Len(idle) = 0
      BY EmptySeq DEF Init
    <2> QED
      BY <1>a, <2>1 DEF PoolBounded
  <1>2. Typed /\ PoolBounded /\ [Next]_vars => PoolBounded'
    <2> SUFFICES ASSUME Typed, PoolBounded, [Next]_vars PROVE PoolBounded'
      OBVIOUS
    <2>a. /\ idle \in Seq(Conns) /\ Len(idle) \in Nat
          /\ pc \in [Users -> UserStates]
          /\ conn \in [Users -> Conns \cup {None}]
          /\ UserHasConn
          /\ Len(idle) + Cardinality(Inside) <= Cardinality(Users)
      BY LenProperties DEF Typed, TypeOK, PoolBounded
    <2>1. ASSUME NEW u \in Users, GetIdle(u) PROVE PoolBounded'
      <3>1. Inside' = Inside \cup {u} /\ u \notin Inside
        BY <2>1, <2>a DEF GetIdle, Inside
      <3>2. Cardinality(Inside') = Cardinality(Inside) + 1
        BY <3>1, <1>a, FS_AddElement
      <3>3. Len(idle') = Len(idle) - 1
        BY <2>1, <2>a, HeadTailProperties DEF GetIdle, Empty, Rest
      <3> QED
        BY <1>a, <2>a, <3>2, <3>3 DEF PoolBounded
    <2>2. ASSUME NEW u \in Users, GetMiss(u) PROVE PoolBounded'
      <3>1. Len(idle') = 0
        BY <2>2, EmptySeq DEF GetMiss, Empty, poolVars
      <3>2. Inside' \subseteq Users /\ IsFiniteSet(Users)
        BY PoolAssumption DEF Inside
      <3>3. /\ Cardinality(Inside') \in Nat
            /\ Cardinality(Inside') <= Cardinality(Users)
        BY <3>2, FS_Subset, FS_CardinalityType
      <3> QED
        BY <1>a, <3>1, <3>3 DEF PoolBounded
    <2>3. ASSUME NEW u \in Users, Put(u) PROVE PoolBounded'
      <3>1. Inside' = Inside \ {u} /\ u \in Inside
        BY <2>3, <2>a DEF Put, Inside
      <3>2. Cardinality(Inside') = Cardinality(Inside) - 1
        BY <3>1, <1>a, FS_RemoveElement
      <3>3. conn[u] \in Conns
        BY <2>3, <2>a DEF Put, UserHasConn
      <3>4. Len(idle') = Len(idle) \/ Len(idle') = Len(idle) + 1
        BY <2>3, <2>a, <3>3, AppendProperties DEF Put
      <3> QED
        BY <1>a, <2>a, <3>2, <3>4 DEF PoolBounded
    <2>4. ASSUME NEW u \in Users, ConnectFail(u) \/ BrokenQueue(u)
          PROVE  PoolBounded'
      <3>1. Inside' = Inside \ {u} /\ u \in Inside
        BY <2>4, <2>a DEF ConnectFail, BrokenQueue, Inside
      <3>2. Cardinality(Inside') = Cardinality(Inside) - 1
        BY <3>1, <1>a, FS_RemoveElement
      <3>3. idle' = idle
        BY <2>4 DEF ConnectFail, BrokenQueue
      <3> QED
        BY <1>a, <2>a, <3>2, <3>3 DEF PoolBounded
    <2>5. ASSUME NEW u \in Users,
                 Connect(u) \/ MarkBusy(u) \/ Send(u) \/ Receive(u) \/ BrokenUnmark(u)
          PROVE  PoolBounded'
      <3>1. Inside' = Inside
        BY <2>5, <2>a DEF Connect, MarkBusy, Send, Receive, BrokenUnmark, Inside
      <3>2. idle' = idle
        BY <2>5 DEF Connect, MarkBusy, Send, Receive, BrokenUnmark, poolVars
      <3> QED
        BY <2>a, <3>1, <3>2 DEF PoolBounded
    <2>6. ASSUME ControlStep \/ CloserStep \/ Cleanup \/ Expire \/ UNCHANGED vars
          PROVE  PoolBounded'
      <3>1. Inside' = Inside
        BY <2>6 DEF ControlStep, Disable, OutOfSync, Suspend, Activate, Close,
           CloserStep, CloserTake, CloserClose, Cleanup, Expire, Inside, vars,
           userVars
      <3>2. \/ idle' = idle
            \/ idle' = <<>>
            \/ idle' = SubSeq(idle, Surplus + 1, Len(idle))
        BY <2>6 DEF ControlStep, Disable, OutOfSync, Suspend, Activate, Close,
           CloserStep, CloserTake, CloserClose, Cleanup, Rotated, Expire, vars,
           poolVars
      <3>3. Surplus \in 0 .. Len(idle)
        BY SurplusBounded DEF Typed
      <3>4. Len(idle') \in Nat /\ Len(idle') <= Len(idle)
        BY <2>a, <3>2, <3>3, DropPrefix, EmptySeq
      <3> QED
        BY <1>a, <2>a, <3>1, <3>4 DEF PoolBounded
    <2> QED
      BY <2>1, <2>2, <2>3, <2>4, <2>5, <2>6 DEF Next, UserStep
  <1> QED
    BY <1>1, <1>2, TypedAlways, PTL DEF Spec

-----------------------------------------------------------------------------
\* What a sequence contains after the operations on queues.
LEMMA RangeIs ==
  ASSUME NEW S, NEW s \in Seq(S)
  PROVE  /\ Range(s) \subseteq S
         /\ \A x : x \in Range(s) <=> \E i \in 1 .. Len(s) : s[i] = x
  BY DEF Range

LEMMA RangeEmpty == Range(<<>>) = {}
  BY DEF Range

LEMMA RangeAppend ==
  ASSUME NEW S, NEW s \in Seq(S), NEW x \in S
  PROVE  Range(Append(s, x)) = Range(s) \cup {x}
  <1> DEFINE t == Append(s, x)
  <1>1. /\ t \in Seq(S) /\ Len(t) = Len(s) + 1 /\ Len(s) \in Nat
        /\ \A i \in 1 .. Len(s) : t[i] = s[i]
        /\ t[Len(s) + 1] = x
    BY AppendProperties
  <1> HIDE DEF t
  <1>2. \A y : y \in Range(t) <=> \E i \in 1 .. Len(t) : t[i] = y
    BY <1>1, RangeIs
  <1>3. \A y : y \in Range(s) <=> \E i \in 1 .. Len(s) : s[i] = y
    BY RangeIs
  <1>4. ASSUME NEW y \in Range(t) PROVE y \in Range(s) \cup {x}
    BY <1>1, <1>2, <1>3, <1>4
  <1>5. ASSUME NEW y \in Range(s) PROVE y \in Range(t)
    BY <1>1, <1>2, <1>3, <1>5
  <1>6. x \in Range(t)
    BY <1>1, <1>2
  <1> QED
    BY <1>4, <1>5, <1>6 DEF t

LEMMA RangeConcat ==
  ASSUME NEW S, NEW s \in Seq(S), NEW t \in Seq(S)
  PROVE  Range(s \o t) = Range(s) \cup Range(t)
  <1> DEFINE e == s \o t
  <1>1. /\ e \in Seq(S) /\ Len(e) = Len(s) + Len(t) /\ Len(s) \in Nat /\ Len(t) \in Nat
        /\ \A i \in 1 .. Len(s) : e[i] = s[i]
        /\ \A i \in 1 .. Len(t) : e[Len(s) + i] = t[i]
    BY ConcatProperties
  <1> HIDE DEF e
  <1>2. /\ \A y : y \in Range(e) <=> \E i \in 1 .. Len(e) : e[i] = y
        /\ \A y : y \in Range(s) <=> \E i \in 1 .. Len(s) : s[i] = y
        /\ \A y : y \in Range(t) <=> \E i \in 1 .. Len(t) : t[i] = y
    BY <1>1, RangeIs
  <1>3. ASSUME NEW y \in Range(e) PROVE y \in Range(s) \cup Range(t)
    <2>1. PICK i \in 1 .. Len(e) : e[i] = y
      BY <1>2, <1>3
    <2>2. CASE i <= Len(s)
      BY <1>1, <1>2, <2>1, <2>2
    <2>3. CASE ~(i <= Len(s))
      <3>1. i - Len(s) \in 1 .. Len(t) /\ Len(s) + (i - Len(s)) = i
        BY <1>1, <2>3
      <3> QED
        BY <1>1, <1>2, <2>1, <3>1
    <2> QED
      BY <2>2, <2>3
  <1>4. ASSUME NEW y \in Range(s) PROVE y \in Range(e)
    <2>1. PICK i \in 1 .. Len(s) : s[i] = y
      BY <1>2, <1>4
    <2> QED
      BY <1>1, <1>2, <2>1
  <1>5. ASSUME NEW y \in Range(t) PROVE y \in Range(e)
    <2>1. PICK i \in 1 .. Len(t) : t[i] = y
      BY <1>2, <1>5
    <2>2. Len(s) + i \in 1 .. Len(e)
      BY <1>1
    <2> QED
      BY <1>1, <1>2, <2>1, <2>2
  <1> QED
    BY <1>3, <1>4, <1>5 DEF e

LEMMA RangeTail ==
  ASSUME NEW S, NEW s \in Seq(S), s # <<>>
  PROVE  /\ Range(s) = Range(Tail(s)) \cup {Head(s)}
         /\ (\A i, j \in 1 .. Len(s) : s[i] = s[j] => i = j) => Head(s) \notin Range(Tail(s))
  <1>1. /\ Tail(s) \in Seq(S) /\ Len(Tail(s)) = Len(s) - 1 /\ Len(s) \in Nat \ {0}
        /\ \A i \in 1 .. Len(Tail(s)) : Tail(s)[i] = s[i + 1]
        /\ Head(s) = s[1]
    BY HeadTailProperties, LenProperties
  <1>2. /\ \A y : y \in Range(Tail(s)) <=> \E i \in 1 .. Len(Tail(s)) : Tail(s)[i] = y
        /\ \A y : y \in Range(s) <=> \E i \in 1 .. Len(s) : s[i] = y
    <2> DEFINE t == Tail(s)
    <2>3. t \in Seq(S)
      BY <1>1
    <2> HIDE DEF t
    <2>4. \A y : y \in Range(t) <=> \E i \in 1 .. Len(t) : t[i] = y
      BY <2>3, RangeIs
    <2>1. \A y : y \in Range(Tail(s)) <=> \E i \in 1 .. Len(Tail(s)) : Tail(s)[i] = y
      BY <2>4 DEF t
    <2>2. \A y : y \in Range(s) <=> \E i \in 1 .. Len(s) : s[i] = y
      BY RangeIs
    <2> QED
      BY <2>1, <2>2
  <1>3. ASSUME NEW y \in Range(s) PROVE y \in Range(Tail(s)) \cup {Head(s)}
    <2>1. PICK i \in 1 .. Len(s) : s[i] = y
      BY <1>2, <1>3
    <2>2. CASE i = 1
      BY <1>1, <2>1, <2>2
    <2>3. CASE i # 1
      <3>1. i - 1 \in 1 .. Len(Tail(s)) /\ i - 1 + 1 = i
        BY <1>1, <2>3
      <3> QED
        BY <1>1, <1>2, <2>1, <3>1
    <2> QED
      BY <2>2, <2>3
  <1>4. ASSUME NEW y \in Range(Tail(s)) PROVE \E i \in 2 .. Len(s) : s[i] = y
    <2>1. PICK i \in 1 .. Len(Tail(s)) : Tail(s)[i] = y
      BY <1>2, <1>4
    <2> QED
      BY <1>1, <2>1
  <1>5. 1 \in 1 .. Len(s) /\ \A i \in 2 .. Len(s) : i \in 1 .. Len(s) /\ i # 1
    BY <1>1
  <1>6. Head(s) \in Range(s)
    BY <1>1, <1>2, <1>5
  <1>7. \A y \in Range(Tail(s)) : y \in Range(s)
    BY <1>2, <1>4, <1>5
  <1>8. ASSUME \A i, j \in 1 .. Len(s) : s[i] = s[j] => i = j
        PROVE  Head(s) \notin Range(Tail(s))
    BY <1>1, <1>4, <1>5, <1>8
  <1> QED
    BY <1>3, <1>6, <1>7, <1>8

LEMMA RangeCut ==
  ASSUME NEW S, NEW s \in Seq(S), NEW n \in 0 .. Len(s)
  PROVE  /\ Range(s) = Range(SubSeq(s, 1, n)) \cup Range(SubSeq(s, n + 1, Len(s)))
         /\ (\A i, j \in 1 .. Len(s) : s[i] = s[j] => i = j) =>
              Range(SubSeq(s, 1, n)) \cap Range(SubSeq(s, n + 1, Len(s))) = {}
  <1> DEFINE p == SubSeq(s, 1, n)
             q == SubSeq(s, n + 1, Len(s))
  <1>1. /\ Len(s) \in Nat /\ n \in Nat /\ n <= Len(s)
        /\ p \in Seq(S) /\ Len(p) = n /\ \A i \in 1 .. n : p[i] = s[i]
        /\ q \in Seq(S) /\ Len(q) = Len(s) - n /\ \A i \in 1 .. Len(s) - n : q[i] = s[i + n]
    BY DropPrefix, TakePrefix, LenProperties
  <1> HIDE DEF p, q
  <1>2. /\ \A y : y \in Range(s) <=> \E i \in 1 .. Len(s) : s[i] = y
        /\ \A y : y \in Range(p) <=> \E i \in 1 .. n : p[i] = y
        /\ \A y : y \in Range(q) <=> \E i \in 1 .. Len(s) - n : q[i] = y
    <2>1. \A y : y \in Range(p) <=> \E i \in 1 .. Len(p) : p[i] = y
      BY ONLY <1>1, RangeIs, Zenon
    <2>2. \A y : y \in Range(q) <=> \E i \in 1 .. Len(q) : q[i] = y
      BY ONLY <1>1, RangeIs, Zenon
    <2>3. \A y : y \in Range(s) <=> \E i \in 1 .. Len(s) : s[i] = y
      BY RangeIs
    <2> QED
      BY <1>1, <2>1, <2>2, <2>3
  <1>3. ASSUME NEW y \in Range(s) PROVE y \in Range(p) \cup Range(q)
    <2>1. PICK i \in 1 .. Len(s) : s[i] = y
      BY <1>2, <1>3
    <2>2. CASE i <= n
      BY <1>1, <1>2, <2>1, <2>2
    <2>3. CASE ~(i <= n)
      <3>1. i - n \in 1 .. Len(s) - n /\ i - n + n = i
        BY <1>1, <2>3
      <3> QED
        BY <1>1, <1>2, <2>1, <3>1
    <2> QED
      BY <2>2, <2>3
  <1>4. \A y \in Range(p) : \E i \in 1 .. n : s[i] = y
    BY <1>1, <1>2
  <1>5. ASSUME NEW y \in Range(q) PROVE \E i \in n + 1 .. Len(s) : s[i] = y
    <2>1. PICK i \in 1 .. Len(s) - n : q[i] = y
      BY <1>2, <1>5
    <2>2. i + n \in n + 1 .. Len(s)
      BY <1>1
    <2> QED
      BY <1>1, <2>1, <2>2
  <1>6. /\ \A i \in 1 .. n : i \in 1 .. Len(s) /\ i <= n
        /\ \A i \in n + 1 .. Len(s) : i \in 1 .. Len(s) /\ ~(i <= n)
    BY <1>1
  <1>7. ASSUME \A i, j \in 1 .. Len(s) : s[i] = s[j] => i = j
        PROVE  Range(p) \cap Range(q) = {}
    BY <1>4, <1>5, <1>6, <1>7
  <1>8. Range(p) \subseteq Range(s) /\ Range(q) \subseteq Range(s)
    BY <1>2, <1>4, <1>5, <1>6
  <1> QED
    BY <1>3, <1>7, <1>8 DEF p, q

-----------------------------------------------------------------------------
(* What a step does to the places a connection can be in.                  *)

LEMMA Disjoint ==
  ASSUME Typed, OnePlace
  PROVE  /\ Held \subseteq Conns /\ Range(idle) \subseteq Conns
         /\ Range(closeQueue) \subseteq Conns \cup {None}
         /\ Held \cap Range(idle) = {}
  <1>1. /\ idle \in Seq(Conns) /\ closeQueue \in Seq(Conns \cup {None})
        /\ conn \in [Users -> Conns \cup {None}]
    BY DEF Typed, TypeOK
  <1>2. Range(idle) \subseteq Conns /\ Range(closeQueue) \subseteq Conns \cup {None}
    BY <1>1, RangeIs
  <1>3. Held \subseteq Conns
    BY <1>1 DEF Held
  <1>4. ASSUME NEW c \in Held, c \in Range(idle) PROVE FALSE
    <2>1. PICK u \in Users : c = conn[u]
      BY <1>4 DEF Held
    <2>2. PICK i \in 1 .. Len(idle) : idle[i] = c
      BY <1>1, <1>4, RangeIs
    <2> QED
      BY <2>1, <2>2 DEF OnePlace
  <1> QED
    BY <1>2, <1>3, <1>4

\* What the closing thread has before it, also behind the sentinel.
Queued == (Range(closeQueue) \cup {closing}) \ {None}

\* A user gets an idle connection or one that is new.
Leased ==
  /\ \E u \in Users, c \in Conns :
       /\ conn[u] = None
       /\ conn' = [conn EXCEPT ![u] = c]
       /\ \/ /\ c \in Range(idle) /\ Range(idle') = Range(idle) \ {c}
             /\ sock' = sock
          \/ /\ sock[c] = "none" /\ Range(idle') = Range(idle)
             /\ sock' = [sock EXCEPT ![c] = "open"]
  /\ Queued' = Queued

\* A user's connection is idle again or on its way to the closing thread.
Returned ==
  \E u \in Users :
    /\ conn[u] # None
    /\ conn' = [conn EXCEPT ![u] = None]
    /\ sock' = sock
    /\ \/ Range(idle') = Range(idle) \cup {conn[u]} /\ Queued' = Queued
       \/ Range(idle') = Range(idle) /\ Queued' = Queued \cup {conn[u]}

\* Idle connections are on their way to the closing thread.
Retired ==
  \E C \in SUBSET Range(idle) :
    /\ UNCHANGED <<conn, sock>>
    /\ Range(idle') = Range(idle) \ C
    /\ Queued' = Queued \cup C

\* Nothing moves, but sockets are closed, or opened by who has them.
Stayed ==
  /\ conn' = conn
  /\ Range(idle') = Range(idle)
  /\ \A c \in Conns : /\ sock'[c] = "none" <=> sock[c] = "none"
                      /\ sock'[c] = "open" => sock[c] = "open" \/ c \in Held
                      /\ c \in Queued \ Queued' => sock'[c] # "open"

LEMMA Moves ==
  ASSUME Typed, OnePlace, Born, [Next]_vars
  PROVE  Leased \/ Returned \/ Retired \/ Stayed
  <1>a. /\ idle \in Seq(Conns) /\ closeQueue \in Seq(Conns \cup {None})
        /\ conn \in [Users -> Conns \cup {None}]
        /\ sock \in [Conns -> {"none", "open", "closed"}]
        /\ closing \in Conns \cup {None}
        /\ pc \in [Users -> UserStates]
        /\ \A u \in Users : conn[u] = None <=> pc[u] \in {"out", "dialing"}
        /\ None \notin Conns
    BY PoolAssumption DEF Typed, TypeOK, UserHasConn
  <1>b. \A i, j \in 1 .. Len(idle) : idle[i] = idle[j] => i = j
    BY DEF OnePlace
  <1>c. ASSUME UNCHANGED <<idle, conn, sock>>, Queued \subseteq Queued' PROVE Stayed
    BY <1>c DEF Stayed
  <1>d. ASSUME UNCHANGED <<closeQueue, closing>> PROVE Queued' = Queued
    BY <1>d DEF Queued
  <1>1. ASSUME NEW u \in Users, GetIdle(u) PROVE Leased
    <2>1. /\ idle # <<>> /\ idle' = Tail(idle) /\ conn[u] = None
          /\ conn' = [conn EXCEPT ![u] = Head(idle)] /\ sock' = sock
          /\ UNCHANGED <<closeQueue, closing>>
      BY <1>1, <1>a DEF GetIdle, Empty, Rest, threadVars
    <2>2. /\ Head(idle) \in Range(idle) /\ Range(idle') = Range(idle) \ {Head(idle)}
          /\ Head(idle) \in Conns
      <3>1. /\ Range(idle) = Range(Tail(idle)) \cup {Head(idle)}
            /\ Head(idle) \notin Range(Tail(idle))
        BY <1>a, <1>b, <2>1, RangeTail
      <3>2. Head(idle) \in Conns
        BY <1>a, <2>1, HeadTailProperties
      <3> QED
        BY <2>1, <3>1, <3>2
    <2> QED
      BY <1>d, <2>1, <2>2 DEF Leased
  <1>2. ASSUME NEW u \in Users, Connect(u) PROVE Leased
    <2>1. conn[u] = None /\ UNCHANGED <<idle, closeQueue, closing>>
      BY <1>2, <1>a DEF Connect, poolVars, threadVars
    <2>2. PICK c \in Conns : /\ sock[c] = "none" /\ sock' = [sock EXCEPT ![c] = "open"]
                             /\ conn' = [conn EXCEPT ![u] = c]
      BY <1>2 DEF Connect
    <2> QED
      BY <1>d, <2>1, <2>2 DEF Leased
  <1>3. ASSUME NEW u \in Users, GetMiss(u) \/ ConnectFail(u) \/ MarkBusy(u) \/ BrokenUnmark(u)
        PROVE  Stayed
    <2>1. UNCHANGED <<idle, conn, sock, closeQueue, closing>>
      BY <1>3 DEF GetMiss, ConnectFail, MarkBusy, BrokenUnmark, poolVars, threadVars
    <2> QED
      BY <1>c, <1>d, <2>1
  <1>4. ASSUME NEW u \in Users, Send(u) \/ Receive(u) PROVE Stayed
    <2>1. UNCHANGED <<idle, conn, closeQueue, closing>>
      BY <1>4 DEF Send, Receive, poolVars, threadVars
    <2>2. conn[u] \in Conns /\ conn[u] \in Held /\ sock[conn[u]] # "none"
      <3>1. pc[u] \in {"held", "sent"}
        BY <1>4 DEF Send, Receive
      <3>2. conn[u] # None
        BY <1>a, <3>1
      <3> QED
        BY <1>a, <3>2 DEF Held, Born
    <2>3. \/ sock' = sock
          \/ \E s \in {"open", "closed"} : sock' = [sock EXCEPT ![conn[u]] = s]
      BY <1>4 DEF Send, Receive, Reconnected
    <2>4. Queued' = Queued
      BY <1>d, <2>1
    <2> QED
      BY <1>a, <2>1, <2>2, <2>3, <2>4 DEF Stayed
  <1>5. ASSUME NEW u \in Users, Put(u) PROVE Returned
    <2>1. /\ conn[u] \in Conns /\ conn[u] # None /\ conn' = [conn EXCEPT ![u] = None]
          /\ UNCHANGED <<closing, sock>>
          /\ \/ idle' = Append(idle, conn[u]) /\ closeQueue' = closeQueue
             \/ /\ idle' = idle
                /\ \/ closeQueue' = Append(closeQueue, conn[u])
                   \/ closeQueue' = Append(Append(closeQueue, conn[u]), None)
      BY <1>5, <1>a DEF Put, threadVars
    <2>2. /\ Range(Append(idle, conn[u])) = Range(idle) \cup {conn[u]}
          /\ Range(Append(closeQueue, conn[u])) = Range(closeQueue) \cup {conn[u]}
          /\ Append(closeQueue, conn[u]) \in Seq(Conns \cup {None})
      BY <1>a, <2>1, RangeAppend, AppendProperties
    <2>3. Range(Append(Append(closeQueue, conn[u]), None))
            = Range(closeQueue) \cup {conn[u], None}
      <3> DEFINE e == Append(closeQueue, conn[u])
                 S == Conns \cup {None}
      <3>1. e \in Seq(S) /\ None \in S
        BY <2>2
      <3> HIDE DEF e, S
      <3>2. Range(Append(e, None)) = Range(e) \cup {None}
        BY <3>1, RangeAppend
      <3> QED
        BY <2>2, <3>2 DEF e
    <2>4. CASE idle' = Append(idle, conn[u]) /\ closeQueue' = closeQueue
      BY <1>d, <2>1, <2>2, <2>4 DEF Returned
    <2>5. CASE /\ idle' = idle
               /\ \/ closeQueue' = Append(closeQueue, conn[u])
                  \/ closeQueue' = Append(Append(closeQueue, conn[u]), None)
      <3>1. Queued' = Queued \cup {conn[u]}
        BY <2>1, <2>2, <2>3, <2>5 DEF Queued
      <3> QED
        BY <2>1, <2>5, <3>1 DEF Returned
    <2> QED
      BY <2>1, <2>4, <2>5
  <1>6. ASSUME NEW u \in Users, BrokenQueue(u) PROVE Returned
    <2>1. /\ conn[u] \in Conns /\ conn[u] # None /\ conn' = [conn EXCEPT ![u] = None]
          /\ UNCHANGED <<idle, closing, sock>>
          /\ closeQueue' = Append(closeQueue, conn[u])
      BY <1>6, <1>a DEF BrokenQueue, threadVars
    <2>2. Range(closeQueue') = Range(closeQueue) \cup {conn[u]}
      BY <1>a, <2>1, RangeAppend
    <2>3. Queued' = Queued \cup {conn[u]}
      BY <2>1, <2>2 DEF Queued
    <2> QED
      BY <2>1, <2>3 DEF Returned
  <1>e. Range(idle) \subseteq Conns
    BY <1>a, RangeIs
  <1>7. ASSUME NEW p, p \in Seq(Conns), idle' \in Seq(Conns),
               Range(p) \subseteq Range(idle), Range(idle') = Range(idle) \ Range(p),
               UNCHANGED <<conn, sock, closing>>,
               \/ closeQueue' = closeQueue \o p
               \/ closeQueue' = Append(closeQueue \o p, None)
        PROVE  Retired
    <2>1. p \in Seq(Conns \cup {None})
      BY <1>7, SeqMonotonic
    <2>2. /\ closeQueue \o p \in Seq(Conns \cup {None})
          /\ Range(closeQueue \o p) = Range(closeQueue) \cup Range(p)
      BY <1>a, <2>1, RangeConcat, ConcatProperties
    <2>3. Range(Append(closeQueue \o p, None)) = Range(closeQueue) \cup Range(p) \cup {None}
      <3> DEFINE e == closeQueue \o p
                 S == Conns \cup {None}
      <3>1. e \in Seq(S) /\ None \in S
        BY <2>2
      <3> HIDE DEF e, S
      <3>2. Range(Append(e, None)) = Range(e) \cup {None}
        BY <3>1, RangeAppend
      <3> QED
        BY <2>2, <3>2 DEF e
    <2>4. None \notin Range(p)
      BY <1>a, <1>e, <1>7
    <2>5. Queued' = Queued \cup Range(p)
      BY <1>7, <2>2, <2>3, <2>4 DEF Queued
    <2> QED
      BY <1>7, <2>5 DEF Retired
  <1>8. ASSUME ControlStep PROVE Retired \/ Stayed
    <2>1. UNCHANGED <<conn, sock, closing>>
      BY <1>8 DEF ControlStep, Disable, OutOfSync, Suspend, Activate, Close, userVars, threadVars
    <2>2. CASE /\ idle' = <<>>
               /\ closeQueue' = Drained \/ closeQueue' = Append(Drained, None)
      <3>1. Range(idle') = Range(idle) \ Range(idle) /\ idle' \in Seq(Conns)
        BY <2>2, RangeEmpty
      <3> QED
        BY <1>a, <1>7, <2>1, <2>2, <3>1 DEF Drained
    <2>3. CASE UNCHANGED <<idle, closeQueue>>
      BY <1>c, <1>d, <2>1, <2>3
    <2> QED
      BY <1>8, <2>2, <2>3 DEF ControlStep, Disable, OutOfSync, Suspend, Activate, Close
  <1>9. ASSUME Cleanup PROVE Retired \/ Stayed
    <2>1. UNCHANGED <<conn, sock, closing>>
      BY <1>9 DEF Cleanup, userVars
    <2>2. CASE /\ idle' = Rotated
               /\ closeQueue' = closeQueue \o SubSeq(idle, 1, Surplus)
      <3>1. Surplus \in 0 .. Len(idle)
        BY SurplusBounded DEF Typed
      <3>2. /\ Range(idle) = Range(SubSeq(idle, 1, Surplus)) \cup Range(Rotated)
            /\ Range(SubSeq(idle, 1, Surplus)) \cap Range(Rotated) = {}
        BY <1>a, <1>b, <3>1, RangeCut DEF Rotated
      <3>3. Rotated \in Seq(Conns) /\ SubSeq(idle, 1, Surplus) \in Seq(Conns)
        BY <1>a, <3>1, DropPrefix, TakePrefix DEF Rotated
      <3> QED
        BY <1>7, <2>1, <2>2, <3>2, <3>3
    <2>3. CASE UNCHANGED <<idle, closeQueue>>
      BY <1>c, <1>d, <2>1, <2>3
    <2> QED
      BY <1>9, <2>2, <2>3 DEF Cleanup
  <1>10. ASSUME CloserTake PROVE Stayed
    <2>1. /\ UNCHANGED <<idle, conn, sock>> /\ closeQueue # <<>> /\ closing = None
          /\ closing' = Head(closeQueue) /\ closeQueue' = Tail(closeQueue)
      BY <1>10 DEF CloserTake, userVars
    <2>2. Range(closeQueue) = Range(closeQueue') \cup {closing'}
      BY <1>a, <2>1, RangeTail
    <2> QED
      BY <1>c, <2>1, <2>2 DEF Queued
  <1>11. ASSUME CloserClose PROVE Stayed
    <2>1. /\ UNCHANGED <<idle, conn, closeQueue>> /\ closing \in Conns /\ closing' = None
          /\ sock' = [sock EXCEPT ![closing] = "closed"] /\ sock[closing] # "none"
      BY <1>11, <1>a DEF CloserClose, poolVars, userVars, Born
    <2>2. \A c \in Queued \ Queued' : c = closing
      BY <2>1 DEF Queued
    <2> QED
      BY <1>a, <2>1, <2>2 DEF Stayed
  <1>12. ASSUME Expire \/ UNCHANGED vars PROVE Stayed
    <2>1. UNCHANGED <<idle, conn, sock, closeQueue, closing>>
      BY <1>12 DEF Expire, vars, poolVars, userVars, threadVars
    <2> QED
      BY <1>c, <1>d, <2>1
  <1> QED
    BY <1>1, <1>2, <1>3, <1>4, <1>5, <1>6, <1>8, <1>9, <1>10, <1>11, <1>12
       DEF Next, UserStep, CloserStep

-----------------------------------------------------------------------------
\* An open connection is somewhere, and busy_connections has those that are held.
Known ==
  /\ \A c \in Conns :
       sock[c] = "open" => c \in Held \cup Range(idle) \cup Queued
  /\ BusyIsHeld

LEMMA KnownAlways == Spec => []Known
  <1>1. Init => Known
    BY DEF Init, Known, BusyIsHeld
  <1>2. Typed /\ OnePlace /\ Born /\ Known /\ [Next]_vars => Known'
    <2> SUFFICES ASSUME Typed, OnePlace, Born, Known, [Next]_vars
                 PROVE  Known'
      OBVIOUS
    <2>a. /\ conn \in [Users -> Conns \cup {None}]
          /\ pc \in [Users -> UserStates]
          /\ \A u \in Users : conn[u] = None <=> pc[u] \in {"out", "dialing"}
          /\ \A u, v \in Users : conn[u] = conn[v] /\ conn[u] # None => u = v
          /\ BusyIsHeld
      BY DEF Typed, TypeOK, UserHasConn, OnePlace, Known
    <2>1. ASSUME NEW c \in Conns, sock'[c] = "open"
          PROVE  c \in Held' \cup Range(idle') \cup Queued'
      <3>a. sock[c] = "open" => c \in Held \cup Range(idle) \cup Queued
        BY DEF Known
      <3>b. \A d : d \in Held' <=> d # None /\ \E u \in Users : conn'[u] = d
        BY DEF Held
      <3>c. \A d : d \in Held <=> d # None /\ \E u \in Users : conn[u] = d
        BY DEF Held
      <3>d. c # None /\ sock \in [Conns -> {"none", "open", "closed"}]
        BY PoolAssumption DEF Typed, TypeOK
      <3>1. CASE Leased
        <4>1. PICK u \in Users, e \in Conns :
                /\ conn[u] = None
                /\ conn' = [conn EXCEPT ![u] = e]
                /\ \/ /\ e \in Range(idle) /\ Range(idle') = Range(idle) \ {e}
                      /\ sock' = sock
                   \/ /\ sock[e] = "none" /\ Range(idle') = Range(idle)
                      /\ sock' = [sock EXCEPT ![e] = "open"]
          BY <3>1 DEF Leased
        <4>2. Queued' = Queued
          BY <3>1 DEF Leased
        <4>3. conn'[u] = e /\ \A v \in Users \ {u} : conn'[v] = conn[v]
          BY <2>a, <4>1
        <4> QED
          BY <2>1, <3>a, <3>b, <3>c, <3>d, <4>1, <4>2, <4>3
      <3>2. CASE Returned
        <4>1. PICK u \in Users :
                /\ conn[u] # None
                /\ conn' = [conn EXCEPT ![u] = None]
                /\ sock' = sock
                /\ \/ Range(idle') = Range(idle) \cup {conn[u]} /\ Queued' = Queued
                   \/ Range(idle') = Range(idle) /\ Queued' = Queued \cup {conn[u]}
          BY <3>2 DEF Returned
        <4>2. \A v \in Users \ {u} : conn'[v] = conn[v]
          BY <2>a, <4>1
        <4> QED
          BY <2>1, <3>a, <3>b, <3>c, <4>1, <4>2
      <3>3. CASE Retired
        BY <2>1, <3>3, <3>a, <3>b, <3>c DEF Retired
      <3>4. CASE Stayed
        BY <2>1, <3>4, <3>a, <3>b, <3>c DEF Stayed
      <3> QED
        BY <3>1, <3>2, <3>3, <3>4, Moves
    <2>2. BusyIsHeld'
      <3> DEFINE H == {"held", "sent", "leaving", "broken"}
      <3>a. \A c : c \in busy <=> \E u \in Users : conn[u] = c /\ pc[u] \in H
        BY <2>a DEF BusyIsHeld
      <3> SUFFICES \A c : c \in busy' <=> \E u \in Users : conn'[u] = c /\ pc'[u] \in H
        BY DEF BusyIsHeld
      <3>b. ASSUME busy' = busy, NEW u \in Users,
                   \A v \in Users \ {u} : pc'[v] = pc[v] /\ conn'[v] = conn[v],
                   \/ pc[u] \notin H /\ pc'[u] \notin H
                   \/ pc[u] \in H /\ pc'[u] \in H /\ conn'[u] = conn[u]
            PROVE  \A c : c \in busy' <=> \E v \in Users : conn'[v] = c /\ pc'[v] \in H
        BY <3>a, <3>b
      <3>1. ASSUME NEW u \in Users, MarkBusy(u)
            PROVE  \A c : c \in busy' <=> \E v \in Users : conn'[v] = c /\ pc'[v] \in H
        <4>1. /\ busy' = busy \cup {conn[u]} /\ conn' = conn
              /\ pc'[u] = "held" /\ pc[u] = "got" /\ \A v \in Users \ {u} : pc'[v] = pc[v]
          BY <2>a, <3>1 DEF MarkBusy
        <4> QED
          BY <3>a, <4>1
      <3>2. ASSUME NEW u \in Users, Put(u) \/ BrokenUnmark(u)
            PROVE  \A c : c \in busy' <=> \E v \in Users : conn'[v] = c /\ pc'[v] \in H
        <4>1. /\ busy' = busy \ {conn[u]} /\ pc[u] \in H /\ pc'[u] \notin H
              /\ \A v \in Users \ {u} : pc'[v] = pc[v] /\ conn'[v] = conn[v]
          BY <2>a, <3>2 DEF Put, BrokenUnmark, Freed
        <4>2. conn[u] # None
          BY <2>a, <4>1
        <4>3. \A v \in Users \ {u} : conn[v] # conn[u]
          BY <2>a, <4>2
        <4> QED
          BY <3>a, <4>1, <4>3
      <3>3. ASSUME NEW u \in Users, GetIdle(u) \/ Connect(u) \/ BrokenQueue(u)
                     \/ GetMiss(u) \/ ConnectFail(u)
            PROVE  \A c : c \in busy' <=> \E v \in Users : conn'[v] = c /\ pc'[v] \in H
        <4>1. /\ busy' = busy /\ pc[u] \notin H /\ pc'[u] \notin H
              /\ \A v \in Users \ {u} : pc'[v] = pc[v] /\ conn'[v] = conn[v]
          BY <2>a, <3>3 DEF GetIdle, Connect, BrokenQueue, GetMiss, ConnectFail, poolVars
        <4> QED
          BY <3>b, <4>1
      <3>4. ASSUME NEW u \in Users, Send(u) \/ Receive(u)
            PROVE  \A c : c \in busy' <=> \E v \in Users : conn'[v] = c /\ pc'[v] \in H
        <4>1. /\ busy' = busy /\ pc[u] \in H /\ pc'[u] \in H /\ conn' = conn
              /\ \A v \in Users \ {u} : pc'[v] = pc[v]
          BY <2>a, <3>4 DEF Send, Receive, poolVars
        <4> QED
          BY <3>b, <4>1
      <3>5. ASSUME ControlStep \/ CloserStep \/ Cleanup \/ Expire \/ UNCHANGED vars
            PROVE  \A c : c \in busy' <=> \E v \in Users : conn'[v] = c /\ pc'[v] \in H
        <4>1. busy' = busy /\ pc' = pc /\ conn' = conn
          BY <3>5 DEF ControlStep, Disable, OutOfSync, Suspend, Activate, Close, CloserStep,
             CloserTake, CloserClose, Cleanup, Expire, vars, poolVars, userVars
        <4> QED
          BY <3>a, <4>1
      <3> QED
        BY <3>1, <3>2, <3>3, <3>4, <3>5 DEF Next, UserStep
    <2> QED
      BY <2>1, <2>2 DEF Known
  <1> QED
    BY <1>1, <1>2, TypedAlways, PlacedAlways, PTL DEF Spec, Placed

\* A thread that was told to stop, or will be, was told so by close(): what
\* disable(), out_of_sync() and the cleanup pass queue are connections.
THEOREM SentinelComesFromClose == Spec => []SentinelMeansClosed
  <1>1. Init => SentinelMeansClosed
    BY RangeEmpty DEF Init, SentinelMeansClosed, Told
  <1>2. Typed /\ SentinelMeansClosed /\ [Next]_vars => SentinelMeansClosed'
    <2> SUFFICES ASSUME Typed, SentinelMeansClosed, [Next]_vars PROVE SentinelMeansClosed'
      OBVIOUS
    <2>a. /\ idle \in Seq(Conns) /\ closeQueue \in Seq(Conns \cup {None})
          /\ conn \in [Users -> Conns \cup {None}]
          /\ \A u \in Users : conn[u] = None <=> pc[u] \in {"out", "dialing"}
          /\ None \notin Conns /\ Range(idle) \subseteq Conns
      BY PoolAssumption, RangeIs DEF Typed, TypeOK, UserHasConn
    <2>b. ASSUME closer' = closer, None \in Range(closeQueue') => None \in Range(closeQueue),
                 Closed => status' \in {"CLOSING", "CLOSED"}
          PROVE  SentinelMeansClosed'
      BY <2>b DEF SentinelMeansClosed, Told, Closed
    <2>c. ASSUME NEW p \in Seq(Conns)
          PROVE  None \in Range(closeQueue \o p) => None \in Range(closeQueue)
      <3>1. p \in Seq(Conns \cup {None}) /\ Range(p) \subseteq Conns
        BY SeqMonotonic, RangeIs
      <3>2. Range(closeQueue \o p) = Range(closeQueue) \cup Range(p)
        BY <2>a, <3>1, RangeConcat
      <3> QED
        BY <2>a, <3>1, <3>2
    <2>1. ASSUME NEW u \in Users, Put(u) \/ BrokenQueue(u) PROVE SentinelMeansClosed'
      <3>1. conn[u] \in Conns /\ closer' = closer
        BY <2>1, <2>a DEF Put, BrokenQueue, threadVars
      <3>2. Range(Append(closeQueue, conn[u])) = Range(closeQueue) \cup {conn[u]}
        BY <2>a, <3>1, RangeAppend
      <3>3. CASE status' = "CLOSED"
        BY <3>3 DEF SentinelMeansClosed, Told
      <3>4. CASE status' # "CLOSED"
        <4>1. status' = status /\ (closeQueue' = closeQueue \/ closeQueue' = Append(closeQueue, conn[u]))
          BY <2>1, <3>4 DEF Put, BrokenQueue
        <4> QED
          BY <2>a, <2>b, <3>1, <3>2, <4>1 DEF Closed
      <3> QED
        BY <3>3, <3>4
    <2>2. ASSUME NEW u \in Users, UserStep(u), ~Put(u), ~BrokenQueue(u)
          PROVE  SentinelMeansClosed'
      <3>1. UNCHANGED <<closer, closeQueue, status>>
        BY <2>2 DEF UserStep, GetIdle, GetMiss, Connect, ConnectFail, MarkBusy, Send, Receive,
           BrokenUnmark, poolVars, threadVars
      <3> QED
        BY <2>b, <3>1 DEF Closed
    <2>3. ASSUME Disable \/ OutOfSync PROVE SentinelMeansClosed'
      <3>1. ~Closed /\ closer' = closer /\ closeQueue' = closeQueue \o idle
        BY <2>3 DEF Disable, OutOfSync, Suspend, threadVars, Drained
      <3> QED
        BY <2>a, <2>b, <2>c, <3>1
    <2>4. ASSUME Close PROVE SentinelMeansClosed'
      BY <2>4 DEF Close, SentinelMeansClosed, Told
    <2>5. ASSUME Activate \/ CloserClose \/ Expire \/ UNCHANGED vars PROVE SentinelMeansClosed'
      <3>1. /\ closer' = closer /\ closeQueue' = closeQueue
            /\ Closed => status' = status
        BY <2>5 DEF Activate, CloserClose, Expire, vars, poolVars, threadVars
      <3> QED
        BY <2>b, <3>1 DEF Closed
    <2>6. ASSUME Cleanup PROVE SentinelMeansClosed'
      <3>1. Surplus \in 0 .. Len(idle)
        BY SurplusBounded DEF Typed
      <3>2. SubSeq(idle, 1, Surplus) \in Seq(Conns)
        BY <2>a, <3>1, TakePrefix
      <3>3. /\ closer' = closer /\ status' = status
            /\ \/ closeQueue' = closeQueue
               \/ closeQueue' = closeQueue \o SubSeq(idle, 1, Surplus)
        BY <2>6 DEF Cleanup
      <3> QED
        BY <2>b, <2>c, <3>2, <3>3 DEF Closed
    <2>7. ASSUME CloserTake PROVE SentinelMeansClosed'
      <3>1. /\ closeQueue # <<>> /\ closeQueue' = Tail(closeQueue) /\ status' = status
            /\ closer /\ closer' = (Head(closeQueue) # None)
        BY <2>7 DEF CloserTake
      <3>2. Range(closeQueue) = Range(closeQueue') \cup {Head(closeQueue)}
        BY <2>a, <3>1, RangeTail
      <3>3. None \in Range(closeQueue') \/ ~closer' => None \in Range(closeQueue)
        BY <3>1, <3>2
      <3> QED
        BY <3>1, <3>3 DEF SentinelMeansClosed, Told
    <2> QED
      BY <2>1, <2>2, <2>3, <2>4, <2>5, <2>6, <2>7 DEF Next, ControlStep, CloserStep
  <1> QED
    BY <1>1, <1>2, TypedAlways, PTL DEF Spec

-----------------------------------------------------------------------------
(* What is queued behind the sentinel.                                     *)

\* What the closing thread does not get to was not seen when it was told to
\* stop.
Behind ==
  \A j \in 1 .. Len(closeQueue) :
    closeQueue[j] # None /\ ~Reached(j) => closeQueue[j] \in unseen

\* From then on the same is true of whatever is still held.
Missed ==
  /\ Told => \A u \in Users : conn[u] # None => conn[u] \in unseen
  /\ Behind

\* Queueing connections, and a sentinel after them.
LEMMA QueueMore ==
  ASSUME Behind, closeQueue \in Seq(Conns \cup {None}), NEW p \in Seq(Conns),
         \/ closeQueue' = closeQueue \o p
         \/ closeQueue' = Append(closeQueue \o p, None),
         closer' = closer, unseen \subseteq unseen',
         Told => Range(p) \subseteq unseen'
  PROVE  Behind'
  <1> DEFINE q == closeQueue
  <1>1. /\ p \in Seq(Conns \cup {None}) /\ Len(p) \in Nat /\ Len(q) \in Nat
        /\ q \o p \in Seq(Conns \cup {None})
        /\ Len(q \o p) = Len(q) + Len(p)
        /\ \A i \in 1 .. Len(q) : (q \o p)[i] = q[i]
        /\ \A i \in 1 .. Len(p) : (q \o p)[Len(q) + i] = p[i]
    <2>1. p \in Seq(Conns \cup {None}) /\ q \in Seq(Conns \cup {None})
      BY SeqMonotonic
    <2>2. Len(p) \in Nat /\ Len(q) \in Nat
      BY <2>1, LenProperties
    <2> HIDE DEF q
    <2>3. \A i \in 1 .. Len(p) : /\ Len(q) + i \in 1 .. Len(q) + Len(p)
                                 /\ ~(Len(q) + i <= Len(q))
                                 /\ Len(q) + i - Len(q) = i
      BY <2>2
    <2> QED
      BY <2>1, <2>2, <2>3, ConcatProperties
  <1>2. \A i \in 1 .. Len(p) : p[i] \in Conns /\ p[i] \in Range(p)
    BY RangeIs, ElementOfSeq
  <1>3. \A i \in 1 .. Len(q) : q[i] = None => None \in Range(q)
    BY RangeIs
  <1>4. /\ Len(closeQueue') \in {Len(q) + Len(p), Len(q) + Len(p) + 1}
        /\ \A i \in 1 .. Len(q) + Len(p) : closeQueue'[i] = (q \o p)[i]
        /\ \A i \in 1 .. Len(closeQueue') : i > Len(q) + Len(p) => closeQueue'[i] = None
    <2>1. CASE closeQueue' = closeQueue \o p
      BY <1>1, <2>1
    <2>2. CASE closeQueue' = Append(closeQueue \o p, None)
      <3> DEFINE r == q \o p
                 S == Conns \cup {None}
      <3>1. /\ r \in Seq(S) /\ None \in S /\ Len(r) = Len(q) + Len(p)
            /\ closeQueue' = Append(r, None)
            /\ \A i \in 1 .. Len(q) + Len(p) : r[i] = (q \o p)[i]
            /\ Len(q) + Len(p) \in Nat
        BY <1>1, <2>2
      <3> HIDE DEF r, S
      <3>2. /\ Len(closeQueue') = Len(r) + 1
            /\ \A i \in 1 .. Len(r) : closeQueue'[i] = r[i]
            /\ closeQueue'[Len(r) + 1] = None
        BY <3>1, AppendProperties
      <3> DEFINE n == Len(q) + Len(p)
      <3>3. /\ n \in Nat /\ Len(closeQueue') = n + 1 /\ closeQueue'[n + 1] = None
            /\ \A i \in 1 .. n : closeQueue'[i] = (q \o p)[i]
        BY <3>1, <3>2
      <3> HIDE DEF n, q
      <3>4. \A i \in 1 .. n + 1 : i > n => i = n + 1
        BY <3>3
      <3> QED
        BY <3>3, <3>4 DEF n
    <2> QED
      BY <2>1, <2>2
  <1> SUFFICES ASSUME NEW j \in 1 .. Len(closeQueue'), closeQueue'[j] # None,
                      ~(Reached(j)')
               PROVE  closeQueue'[j] \in unseen'
    BY DEF Behind
  <1>5. j \in 1 .. Len(q) + Len(p)
    BY <1>1, <1>4
  <1>6. CASE j \in 1 .. Len(q)
    <2>1. \A i \in 1 .. j : closeQueue'[i] = closeQueue[i]
      BY <1>1, <1>4, <1>6
    <2>2. ~Reached(j)
      BY <2>1, <1>6 DEF Reached
    <2> QED
      BY <1>1, <1>6, <2>1, <2>2 DEF Behind
  <1>7. CASE j \notin 1 .. Len(q)
    <2> DEFINE k == j - Len(q)
    <2>1. k \in 1 .. Len(p) /\ j = Len(q) + k
      BY <1>1, <1>5, <1>7
    <2>2. closeQueue'[j] = p[k]
      BY <1>1, <1>4, <1>5, <2>1
    <2>3. CASE Told
      BY <1>2, <2>1, <2>2, <2>3
    <2>4. CASE ~Told
      <3>1. closer' /\ None \notin Range(q)
        BY <2>4 DEF Told
      <3>2. PICK i \in 1 .. j : closeQueue'[i] = None
        BY <3>1 DEF Reached
      <3>3. i \in 1 .. Len(q) \/ (i - Len(q) \in 1 .. Len(p) /\ i = Len(q) + (i - Len(q)))
        BY <1>1, <1>5
      <3>4. (q \o p)[i] = None /\ None \notin Conns
        BY <1>1, <1>4, <1>5, <3>2, PoolAssumption
      <3> QED
        BY <1>1, <1>2, <1>3, <3>1, <3>3, <3>4
    <2> QED
      BY <2>3, <2>4
  <1> QED
    BY <1>6, <1>7

\* What the closing thread will not get to was missed when it was told to stop:
\* its user was in get() or in the broken path, or opened it later.
LEMMA MissedAlways == Spec => []Missed
  <1>1. Init => Missed
    BY PoolAssumption, RangeEmpty DEF Init, Missed, Behind
  <1>2. /\ Typed /\ OnePlace /\ BusyIsHeld /\ IdleOnlyWhenActive /\ SentinelMeansClosed
        /\ Missed /\ [Next]_vars
        => Missed'
    <2> SUFFICES ASSUME Typed, OnePlace, BusyIsHeld, IdleOnlyWhenActive, SentinelMeansClosed,
                        Missed, [Next]_vars
                 PROVE  Missed'
      OBVIOUS
    <2>a. /\ idle \in Seq(Conns) /\ closeQueue \in Seq(Conns \cup {None})
          /\ conn \in [Users -> Conns \cup {None}]
          /\ pc \in [Users -> UserStates]
          /\ \A u \in Users : conn[u] = None <=> pc[u] \in {"out", "dialing"}
          /\ \A u, v \in Users : conn[u] = conn[v] /\ conn[u] # None => u = v
          /\ None \notin Conns
      BY PoolAssumption DEF Typed, TypeOK, UserHasConn, OnePlace
    <2>b. /\ Told => Closed
          /\ Closed => ~IsActive /\ idle = <<>>
          /\ Told => \A u \in Users : conn[u] # None => conn[u] \in unseen
          /\ Behind
      BY DEF SentinelMeansClosed, Closed, IdleOnlyWhenActive, IsActive, Missed
    <2>c. ASSUME closeQueue' = closeQueue, closer' = closer, unseen \subseteq unseen'
          PROVE  Behind' /\ (Told' => Told)
      BY <2>b, <2>c DEF Behind, Reached, Told
    <2>d. ASSUME NEW q \in Seq(Conns), NEW n \in Seq(Conns \cup {None}),
                 n = closeQueue \o q, closer' = closer,
                 unseen \subseteq unseen', Told => Range(q) \subseteq unseen',
                 closeQueue' = n \/ closeQueue' = Append(n, None)
          PROVE  Behind' /\ (closeQueue' = n /\ Told' => Told)
      <3>1. q \in Seq(Conns \cup {None}) /\ None \notin Range(q)
        BY <2>a, SeqMonotonic, RangeIs
      <3>2. Range(n) = Range(closeQueue) \cup Range(q)
        BY <2>a, <2>d, <3>1, RangeConcat
      <3> QED
        BY <2>a, <2>b, <2>d, <3>1, <3>2, QueueMore DEF Told
    <2>e. ASSUME NEW u \in Users, conn[u] \in Conns
          PROVE  /\ Append(closeQueue, conn[u]) = closeQueue \o <<conn[u]>>
                 /\ Append(closeQueue, conn[u]) \in Seq(Conns \cup {None})
                 /\ <<conn[u]>> \in Seq(Conns)
                 /\ Range(<<conn[u]>>) = {conn[u]}
      <3>1. Range(<<conn[u]>>) = {conn[u]}
        BY DEF Range
      <3> QED
        BY <2>a, <2>e, <3>1, AppendIsConcat, AppendProperties
    <2>f. ASSUME NEW B, \A v \in Users : conn[v] # None /\ pc[v] \notin {"got", "unmarked"}
                                           => conn[v] \in B
          PROVE  \A v \in Users : conn[v] # None => conn[v] \in B \cup Unmarked
      BY <2>f DEF Unmarked
    <2>g. \A v \in Users : conn[v] # None /\ pc[v] \notin {"got", "unmarked"} => conn[v] \in busy
      BY <2>a DEF BusyIsHeld, UserStates
    <2>1. ASSUME NEW u \in Users, GetIdle(u) PROVE Missed'
      <3>1. ~Told
        BY <2>1, <2>b DEF GetIdle, MayGet, IsActive, Closed
      <3>2. UNCHANGED <<closeQueue, closer, unseen>>
        BY <2>1 DEF GetIdle, threadVars
      <3> QED
        BY <2>c, <3>1, <3>2 DEF Missed
    <2>2. ASSUME NEW u \in Users, Connect(u) PROVE Missed'
      <3>1. PICK c \in Conns : /\ conn' = [conn EXCEPT ![u] = c]
                               /\ unseen' = IF Told THEN unseen \cup {c} ELSE unseen
        BY <2>2 DEF Connect
      <3>2. UNCHANGED <<closeQueue, closer>>
        BY <2>2 DEF Connect, poolVars
      <3>3. Behind' /\ (Told' => Told)
        BY <2>c, <3>1, <3>2
      <3> QED
        BY <2>a, <2>b, <3>1, <3>3 DEF Missed
    <2>3. ASSUME NEW u \in Users, UserStep(u), ~GetIdle(u), ~Connect(u), ~Put(u), ~BrokenQueue(u)
          PROVE  Missed'
      <3>1. UNCHANGED <<closeQueue, closer, unseen, conn>>
        BY <2>3 DEF UserStep, GetMiss, ConnectFail, MarkBusy, Send, Receive, BrokenUnmark,
           poolVars, threadVars
      <3> QED
        BY <2>b, <2>c, <3>1 DEF Missed
    <2>4. ASSUME NEW u \in Users, Put(u) PROVE Missed'
      <3>1. /\ conn[u] \in Conns /\ conn' = [conn EXCEPT ![u] = None] /\ closer' = closer
        BY <2>4, <2>a DEF Put
      <3>2. CASE IsActive
        <4>1. ~Told /\ UNCHANGED <<closeQueue, unseen>>
          BY <2>4, <2>b, <3>2 DEF Put
        <4> QED
          BY <2>c, <3>1, <4>1 DEF Missed
      <3>3. CASE ~IsActive /\ ~LastOut(u)
        <4>1. closeQueue' = Append(closeQueue, conn[u]) /\ unseen' = unseen
          BY <2>4, <3>3 DEF Put
        <4>2. Told => Range(<<conn[u]>>) \subseteq unseen'
          BY <2>a, <2>b, <2>e, <3>1, <4>1
        <4>3. Behind' /\ (Told' => Told)
          BY <2>d, <2>e, <3>1, <4>1, <4>2
        <4> QED
          BY <2>a, <2>b, <3>1, <4>1, <4>3 DEF Missed
      <3>4. CASE ~IsActive /\ LastOut(u)
        <4>1. /\ closeQueue' = Append(Append(closeQueue, conn[u]), None)
              /\ unseen' = unseen \cup Unmarked /\ busy \subseteq {conn[u]}
          BY <2>4, <3>4 DEF Put, LastOut, Freed
        <4>2. Told => Range(<<conn[u]>>) \subseteq unseen'
          BY <2>a, <2>b, <2>e, <3>1, <4>1
        <4>3. Behind'
          BY <2>d, <2>e, <3>1, <4>1, <4>2
        <4>4. \A v \in Users : conn[v] # None => conn[v] \in busy \cup Unmarked
          BY <2>f, <2>g
        <4>5. \A v \in Users : conn'[v] # None => conn'[v] \in unseen'
          BY <2>a, <3>1, <4>1, <4>4
        <4> QED
          BY <4>3, <4>5 DEF Missed
      <3> QED
        BY <3>2, <3>3, <3>4
    <2>5. ASSUME NEW u \in Users, BrokenQueue(u) PROVE Missed'
      <3>1. /\ conn[u] \in Conns /\ conn' = [conn EXCEPT ![u] = None]
            /\ closeQueue' = Append(closeQueue, conn[u]) /\ UNCHANGED <<closer, unseen>>
        BY <2>5, <2>a DEF BrokenQueue, threadVars
      <3>2. Told => Range(<<conn[u]>>) \subseteq unseen'
        BY <2>a, <2>b, <2>e, <3>1
      <3>3. Behind' /\ (Told' => Told)
        BY <2>d, <2>e, <3>1, <3>2
      <3> QED
        BY <2>a, <2>b, <3>1, <3>3 DEF Missed
    <2>h. /\ Drained = closeQueue \o idle /\ Drained \in Seq(Conns \cup {None})
          /\ Told => Range(idle) \subseteq unseen'
      <3>1. idle \in Seq(Conns \cup {None})
        BY <2>a, SeqMonotonic
      <3> QED
        BY <2>a, <2>b, <3>1, RangeEmpty, ConcatProperties DEF Drained
    <2>6. ASSUME Disable \/ OutOfSync PROVE Missed'
      <3>1. ~Told /\ closeQueue' = Drained /\ UNCHANGED <<closer, unseen>>
        BY <2>6, <2>b DEF Disable, OutOfSync, Suspend, threadVars
      <3>2. Behind' /\ (Told' => Told)
        BY <2>a, <2>d, <2>h, <3>1
      <3> QED
        BY <3>1, <3>2 DEF Missed
    <2>7. ASSUME Close PROVE Missed'
      <3>1. UNCHANGED <<conn, closer>>
        BY <2>7 DEF Close, userVars
      <3>2. CASE busy = {}
        <4>1. closeQueue' = Append(Drained, None) /\ unseen' = unseen \cup Unmarked
          BY <2>7, <3>2 DEF Close
        <4>2. Behind'
          BY <2>a, <2>d, <2>h, <3>1, <4>1
        <4>3. \A v \in Users : conn[v] # None => conn[v] \in busy \cup Unmarked
          BY <2>f, <2>g
        <4> QED
          BY <3>1, <3>2, <4>1, <4>2, <4>3 DEF Missed
      <3>3. CASE busy # {}
        <4>1. closeQueue' = Drained /\ unseen' = unseen
          BY <2>7, <3>3 DEF Close
        <4>2. Behind' /\ (Told' => Told)
          BY <2>a, <2>d, <2>h, <3>1, <4>1
        <4> QED
          BY <2>b, <3>1, <4>1, <4>2 DEF Missed
      <3> QED
        BY <3>2, <3>3
    <2>8. ASSUME Activate \/ CloserClose \/ Expire \/ UNCHANGED vars PROVE Missed'
      <3>1. UNCHANGED <<closeQueue, closer, unseen, conn>>
        BY <2>8 DEF Activate, CloserClose, Expire, vars, poolVars, userVars, threadVars
      <3> QED
        BY <2>b, <2>c, <3>1 DEF Missed
    <2>9. ASSUME Cleanup PROVE Missed'
      <3>1. UNCHANGED <<closer, unseen, conn>>
        BY <2>9 DEF Cleanup, userVars
      <3>2. CASE closeQueue' = closeQueue
        BY <2>b, <2>c, <3>1, <3>2 DEF Missed
      <3>3. CASE closeQueue' # closeQueue
        <4> DEFINE q == SubSeq(idle, 1, Surplus)
        <4>1. ~Told /\ closeQueue' = closeQueue \o q
          BY <2>9, <2>b, <3>3 DEF Cleanup
        <4>2. Surplus \in 0 .. Len(idle)
          BY SurplusBounded DEF Typed
        <4>3. q \in Seq(Conns) /\ q \in Seq(Conns \cup {None})
          BY <2>a, <4>2, TakePrefix, SeqMonotonic
        <4> HIDE DEF q
        <4>4. closeQueue' \in Seq(Conns \cup {None})
          BY <2>a, <4>1, <4>3, ConcatProperties
        <4>5. Behind' /\ (Told' => Told)
          BY <2>d, <3>1, <4>1, <4>3, <4>4
        <4> QED
          BY <4>1, <4>5 DEF Missed
      <3> QED
        BY <3>2, <3>3
    <2>10. ASSUME CloserTake PROVE Missed'
      <3>1. /\ closeQueue # <<>> /\ closeQueue' = Tail(closeQueue)
            /\ UNCHANGED <<conn, unseen>>
            /\ closer /\ closer' = (Head(closeQueue) # None)
        BY <2>10 DEF CloserTake, userVars
      <3>2. Range(closeQueue) = Range(closeQueue') \cup {Head(closeQueue)}
        BY <2>a, <3>1, RangeTail
      <3>3. Told' => Told
        BY <3>1, <3>2 DEF Told
      <3>4. /\ Len(closeQueue') = Len(closeQueue) - 1 /\ Len(closeQueue) \in Nat
            /\ \A i \in 1 .. Len(closeQueue') : closeQueue'[i] = closeQueue[i + 1]
            /\ Head(closeQueue) = closeQueue[1]
        BY <2>a, <3>1, HeadTailProperties, LenProperties
      <3>5. ASSUME NEW j \in 1 .. Len(closeQueue'), closeQueue'[j] # None, ~(Reached(j)')
            PROVE  closeQueue'[j] \in unseen'
        <4>1. j + 1 \in 1 .. Len(closeQueue) /\ closeQueue[j + 1] = closeQueue'[j]
          BY <3>4
        <4>2. \E i \in 1 .. j + 1 : closeQueue[i] = None
          <5>1. CASE ~closer'
            <6>1. Head(closeQueue) = None
              BY <3>1, <5>1
            <6>2. closeQueue[1] = None /\ 1 \in 1 .. j + 1
              BY <3>4, <6>1
            <6> QED
              BY <6>2
          <5>2. ASSUME NEW i \in 1 .. j, closeQueue'[i] = None
                PROVE  \E k \in 1 .. j + 1 : closeQueue[k] = None
            BY <3>4, <5>2
          <5> QED
            BY <3>5, <5>1, <5>2 DEF Reached
        <4>3. ~Reached(j + 1)
          BY <4>2 DEF Reached
        <4> QED
          BY <2>b, <3>1, <3>5, <4>1, <4>3 DEF Behind
      <3> QED
        BY <2>b, <3>1, <3>3, <3>5 DEF Missed, Behind
    <2> QED
      BY <2>1, <2>2, <2>3, <2>4, <2>5, <2>6, <2>7, <2>8, <2>9, <2>10
         DEF Next, ControlStep, CloserStep
  <1> QED
    BY <1>1, <1>2, TypedAlways, PlacedAlways, KnownAlways, IdleConnectionsOnlyInActivePool,
       SentinelComesFromClose, PTL DEF Spec, Placed, Known

\* An open connection is held, kept for reuse or on the way to a closing thread
\* that runs; else it was out of busy_connections, or not opened yet, when that
\* thread was told to stop.  And busy_connections has exactly those in use.
THEOREM NoConnectionIsLost == Spec => []NothingLost
  <1>1. Typed /\ Known /\ Missed => NothingLost
    <2> SUFFICES ASSUME Typed, Known, Missed,
                        NEW c \in Conns, sock[c] = "open", c \notin Held \cup Range(idle)
                 PROVE  c \in Doomed \cup unseen
      BY DEF NothingLost, Known
    <2>1. c \in Range(closeQueue) \/ c = closing
      BY DEF Known, Queued
    <2>2. c # None /\ closeQueue \in Seq(Conns \cup {None})
      BY PoolAssumption DEF Typed, TypeOK
    <2>3. CASE c = closing
      BY <2>2, <2>3 DEF Doomed
    <2>4. ASSUME NEW j \in 1 .. Len(closeQueue), closeQueue[j] = c
          PROVE  c \in Doomed \cup unseen
      BY <2>2, <2>4 DEF Missed, Behind, Doomed
    <2> QED
      BY <2>1, <2>2, <2>3, <2>4, RangeIs
  <1> QED
    BY <1>1, TypedAlways, KnownAlways, MissedAlways, PTL

-----------------------------------------------------------------------------
(* The refinement of ConnectionLeases.                                     *)

LEMMA PhaseValues ==
  ASSUME Held \cap Range(idle) = {}, NEW c \in Conns
  PROVE  /\ c \in Held => Phase[c] = "leased"
         /\ c \in Range(idle) => Phase[c] = "idle"
         /\ c \notin Held \cup Range(idle) /\ sock[c] = "none" => Phase[c] = "unborn"
         /\ c \notin Held \cup Range(idle) /\ sock[c] # "none" => Phase[c] = "retired"
  BY DEF Phase

LEMMA PhaseValuesNext ==
  ASSUME Held' \cap Range(idle') = {}, NEW c \in Conns
  PROVE  /\ c \in Held' => Phase'[c] = "leased"
         /\ c \in Range(idle') => Phase'[c] = "idle"
         /\ c \notin Held' \cup Range(idle') /\ sock'[c] = "none" => Phase'[c] = "unborn"
         /\ c \notin Held' \cup Range(idle') /\ sock'[c] # "none" => Phase'[c] = "retired"
  BY DEF Phase

LEMMA PhaseIsFunction ==
  /\ Phase = [c \in Conns |-> Phase[c]]
  /\ Phase' = [c \in Conns |-> Phase'[c]]
  BY DEF Phase

\* Each move is a step of the abstract specification or none at all.
LEMMA MovesAreLeases ==
  ASSUME Typed, OnePlace, Born, [Next]_vars
  PROVE  [Leases!Next]_(Leases!vars)
  <1>a. /\ Held \subseteq Conns /\ Range(idle) \subseteq Conns
        /\ Held \cap Range(idle) = {}
        /\ conn \in [Users -> Conns \cup {None}] /\ None \notin Conns
        /\ sock \in [Conns -> {"none", "open", "closed"}]
        /\ \A u, v \in Users : conn[u] = conn[v] /\ conn[u] # None => u = v
    BY Disjoint, PoolAssumption DEF Typed, TypeOK, OnePlace
  <1>b. /\ \A d : d \in Held' <=> d # None /\ \E u \in Users : conn'[u] = d
        /\ \A d : d \in Held <=> d # None /\ \E u \in Users : conn[u] = d
    BY DEF Held
  <1>c. \A c \in Held \cup Range(idle) : sock[c] # "none"
    <2>1. idle \in Seq(Conns)
      BY DEF Typed, TypeOK
    <2>2. \A c \in Range(idle) : \E i \in 1 .. Len(idle) : idle[i] = c
      BY <2>1, RangeIs
    <2> QED
      BY <1>b, <2>2 DEF Born
  <1>d. ASSUME conn' = conn, Phase' = Phase PROVE [Leases!Next]_(Leases!vars)
    BY <1>d DEF Leases!vars
  <1>1. CASE Leased
    <2>1. PICK u \in Users, c \in Conns :
            /\ conn[u] = None
            /\ conn' = [conn EXCEPT ![u] = c]
            /\ \/ /\ c \in Range(idle) /\ Range(idle') = Range(idle) \ {c}
                  /\ sock' = sock
               \/ /\ sock[c] = "none" /\ Range(idle') = Range(idle)
                  /\ sock' = [sock EXCEPT ![c] = "open"]
      BY <1>1 DEF Leased
    <2>2. conn'[u] = c /\ \A v \in Users \ {u} : conn'[v] = conn[v]
      BY <1>a, <2>1
    <2>3. c \notin Held /\ c # None
      BY <1>a, <1>c, <2>1
    <2>4. Held' = Held \cup {c}
      BY <1>b, <2>1, <2>2, <2>3
    <2>5. /\ Range(idle') = Range(idle) \ {c}
          /\ \A d \in Conns \ {c} : sock'[d] = sock[d]
      BY <1>a, <1>c, <2>1
    <2>6. Held' \cap Range(idle') = {}
      BY <1>a, <2>4, <2>5
    <2>7. Phase[c] \in {"idle", "unborn"} /\ Phase'[c] = "leased"
      BY <1>a, <2>1, <2>3, <2>4, <2>6, PhaseValues, PhaseValuesNext
    <2>8. ASSUME NEW d \in Conns \ {c} PROVE Phase'[d] = Phase[d]
      <3>1. /\ d \in Held' <=> d \in Held
            /\ d \in Range(idle') <=> d \in Range(idle)
            /\ sock'[d] = sock[d]
        BY <2>4, <2>5
      <3> QED
        BY <1>a, <2>6, <3>1, PhaseValues, PhaseValuesNext
    <2>9. Phase' = [Phase EXCEPT ![c] = "leased"]
      BY <2>7, <2>8, PhaseIsFunction
    <2> QED
      BY <2>1, <2>7, <2>9 DEF Leases!Next, Leases!Lease
  <1>2. CASE Returned
    <2>1. PICK u \in Users :
            /\ conn[u] # None
            /\ conn' = [conn EXCEPT ![u] = None]
            /\ sock' = sock
            /\ Range(idle') = Range(idle) \cup {conn[u]} \/ Range(idle') = Range(idle)
      BY <1>2 DEF Returned
    <2>c. PICK c \in Conns : c = conn[u]
      BY <1>a, <2>1
    <2>2. conn'[u] = None /\ \A v \in Users \ {u} : conn'[v] = conn[v]
      BY <1>a, <2>1
    <2>3. c \in Held /\ sock[c] # "none" /\ c \notin Range(idle)
      BY <1>a, <1>b, <1>c, <2>1, <2>c
    <2>4. Held' = Held \ {c}
      BY <1>a, <1>b, <2>1, <2>2, <2>c
    <2>6. Held' \cap Range(idle') = {}
      BY <1>a, <2>1, <2>4, <2>c
    <2>7. Phase'[c] \in {"idle", "retired"}
      BY <2>1, <2>3, <2>4, <2>6, PhaseValuesNext
    <2>8. ASSUME NEW d \in Conns \ {c} PROVE Phase'[d] = Phase[d]
      <3>1. /\ d \in Held' <=> d \in Held
            /\ d \in Range(idle') <=> d \in Range(idle)
            /\ sock'[d] = sock[d]
        BY <2>1, <2>4, <2>c
      <3> QED
        BY <1>a, <2>6, <3>1, PhaseValues, PhaseValuesNext
    <2>9. Phase' = [Phase EXCEPT ![c] = Phase'[c]]
      BY <2>8, PhaseIsFunction
    <2>10. Leases!Return(u)
      BY <2>1, <2>c, <2>7, <2>9 DEF Leases!Return
    <2> QED
      BY <2>10 DEF Leases!Next
  <1>3. CASE Retired
    <2>1. PICK C \in SUBSET Range(idle) :
            UNCHANGED <<conn, sock>> /\ Range(idle') = Range(idle) \ C
      BY <1>3 DEF Retired
    <2>2. Held' = Held
      BY <2>1 DEF Held
    <2>3. Held' \cap Range(idle') = {}
      BY <1>a, <2>1, <2>2
    <2>4. C \subseteq {c \in Conns : Phase[c] = "idle"}
      BY <1>a, <2>1, PhaseValues
    <2>5. ASSUME NEW c \in Conns
          PROVE  Phase'[c] = IF c \in C THEN "retired" ELSE Phase[c]
      <3>1. CASE c \in C
        BY <1>a, <1>c, <2>1, <2>2, <2>3, <3>1, PhaseValuesNext
      <3>2. CASE c \notin C
        <4>1. /\ c \in Held' <=> c \in Held
              /\ c \in Range(idle') <=> c \in Range(idle)
              /\ sock'[c] = sock[c]
          BY <2>1, <2>2, <3>2
        <4> QED
          BY <1>a, <2>3, <3>2, <4>1, PhaseValues, PhaseValuesNext
      <3> QED
        BY <3>1, <3>2
    <2>6. Phase' = [c \in Conns |-> IF c \in C THEN "retired" ELSE Phase[c]]
      BY <2>5, PhaseIsFunction
    <2> QED
      BY <2>1, <2>4, <2>6 DEF Leases!Next, Leases!Retire
  <1>4. CASE Stayed
    <2>1. /\ conn' = conn /\ Range(idle') = Range(idle)
          /\ \A c \in Conns : sock'[c] = "none" <=> sock[c] = "none"
      BY <1>4 DEF Stayed
    <2>2. Held' = Held
      BY <2>1 DEF Held
    <2>3. ASSUME NEW c \in Conns PROVE Phase'[c] = Phase[c]
      BY <1>a, <2>1, <2>2, PhaseValues, PhaseValuesNext
    <2>4. Phase' = Phase
      BY <2>3, PhaseIsFunction
    <2> QED
      BY <1>d, <2>1, <2>4
  <1> QED
    BY <1>1, <1>2, <1>3, <1>4, Moves

\* The pool implements the abstract one: each connection is leased to one user at a
\* time, comes back or is retired, and a retired one is never leased again.
THEOREM PoolImplementsLeases == Spec => ImplementsLeases
  <1>1. Init => Leases!Init
    <2> SUFFICES ASSUME Init PROVE Leases!Init
      OBVIOUS
    <2>1. Held = {} /\ Range(idle) = {}
      BY RangeEmpty DEF Init, Held
    <2>2. ASSUME NEW c \in Conns PROVE Phase[c] = "unborn"
      BY <2>1, PhaseValues DEF Init
    <2>3. Phase = [c \in Conns |-> "unborn"]
      BY <2>2, PhaseIsFunction
    <2> QED
      BY <2>3 DEF Init, Leases!Init
  <1>2. Typed /\ OnePlace /\ Born /\ [Next]_vars => [Leases!Next]_(Leases!vars)
    BY MovesAreLeases
  <1> QED
    BY <1>1, <1>2, TypedAlways, PlacedAlways, PTL
       DEF Spec, Placed, ImplementsLeases, Leases!Spec
=============================================================================
