----------------------- MODULE RequestForwardingProofs -----------------------
(***************************************************************************)
(* Proofs about RequestForwarding, for any users, connections, requests.   *)
(***************************************************************************)
EXTENDS RequestForwarding, SequenceTheorems, TLAPS

(* Sequences of one or two pieces.                                         *)

LEMMA IsOne ==
  ASSUME NEW S, NEW s \in Seq(S), NEW x, Len(s) = 1, s[1] = x
  PROVE  s = <<x>>
  OBVIOUS

LEMMA IsTwo ==
  ASSUME NEW S, NEW s \in Seq(S), NEW x, NEW y, Len(s) = 2, s[1] = x, s[2] = y
  PROVE  s = <<x, y>>
  OBVIOUS

LEMMA AppendTwo == ASSUME NEW x, NEW y PROVE Append(<<x>>, y) = <<x, y>>
  <1> DEFINE S == {x, y}
  <1>1. <<x>> \in Seq(S)
    OBVIOUS
  <1>2. PICK s : s = Append(<<x>>, y)
    OBVIOUS
  <1>3. s \in Seq(S) /\ Len(s) = 2 /\ s[1] = x /\ s[2] = y
    BY <1>1, <1>2, AppendProperties
  <1>4. s = <<x, y>>
    BY <1>3, IsTwo
  <1> QED
    BY <1>2, <1>4

LEMMA CutOne ==
  ASSUME NEW x, NEW n \in 1 .. Len(<<x>>)
  PROVE SubSeq(<<x>>, 1, n) = <<x>> /\ SubSeq(<<x>>, n + 1, Len(<<x>>)) = <<>>
  <1> DEFINE S == {x}
  <1>1. <<x>> \in Seq(S) /\ n = 1 /\ Len(<<x>>) = 1
    OBVIOUS
  <1>2. PICK s : s = SubSeq(<<x>>, 1, 1)
    OBVIOUS
  <1>3. s \in Seq(S) /\ Len(s) = 1 /\ s[1] = x
    BY <1>1, <1>2
  <1>4. s = <<x>>
    BY <1>3, IsOne
  <1>5. SubSeq(<<x>>, 2, 1) = <<>>
    BY SubSeqEmpty
  <1>6. n + 1 = 2
    BY <1>1
  <1> QED
    BY ONLY <1>1, <1>2, <1>4, <1>5, <1>6, Zenon

LEMMA CutTwo ==
  ASSUME NEW x, NEW y, NEW n \in 1 .. Len(<<x, y>>)
  PROVE \/ /\ SubSeq(<<x, y>>, 1, n) = <<x>>
           /\ SubSeq(<<x, y>>, n + 1, Len(<<x, y>>)) = <<y>>
        \/ /\ SubSeq(<<x, y>>, 1, n) = <<x, y>>
           /\ SubSeq(<<x, y>>, n + 1, Len(<<x, y>>)) = <<>>
  <1> DEFINE S == {x, y}
  <1>1. <<x, y>> \in Seq(S) /\ n \in {1, 2} /\ Len(<<x, y>>) = 2
    OBVIOUS
  <1>2. PICK s1, s2, s3 : /\ s1 = SubSeq(<<x, y>>, 1, 1)
                          /\ s2 = SubSeq(<<x, y>>, 2, 2)
                          /\ s3 = SubSeq(<<x, y>>, 1, 2)
    OBVIOUS
  <1>3. /\ s1 \in Seq(S) /\ Len(s1) = 1 /\ s1[1] = x
        /\ s2 \in Seq(S) /\ Len(s2) = 1 /\ s2[1] = y
        /\ s3 \in Seq(S) /\ Len(s3) = 2 /\ s3[1] = x /\ s3[2] = y
    BY <1>1, <1>2
  <1>4. s1 = <<x>> /\ s2 = <<y>> /\ s3 = <<x, y>>
    BY <1>3, IsOne, IsTwo
  <1>5. SubSeq(<<x, y>>, 3, 2) = <<>>
    BY SubSeqEmpty
  <1>6. CASE n = 1
    <2>1. n + 1 = 2
      BY <1>6
    <2> QED
      BY ONLY <1>1, <1>2, <1>4, <1>6, <2>1, Zenon
  <1>7. CASE n = 2
    <2>1. n + 1 = 3
      BY <1>7
    <2> QED
      BY ONLY <1>1, <1>2, <1>4, <1>5, <1>7, <2>1, Zenon
  <1> QED
    BY <1>1, <1>6, <1>7

-----------------------------------------------------------------------------
(* The queue of idle connections.                                          *)

Distinct(s) == \A i, j \in 1 .. Len(s) : s[i] = s[j] => i = j

LEMMA Members ==
  ASSUME NEW S, NEW s \in Seq(S)
  PROVE  \A x : x \in ToSet(s) <=> \E i \in 1 .. Len(s) : x = s[i]
  BY DEF ToSet

LEMMA TakeFirst ==
  ASSUME NEW s \in Seq(Conns), s # <<>>, Distinct(s)
  PROVE  /\ Tail(s) \in Seq(Conns) /\ Distinct(Tail(s))
         /\ Head(s) \in Conns /\ Head(s) \in ToSet(s)
         /\ ToSet(Tail(s)) = ToSet(s) \ {Head(s)}
  <1>1. /\ Tail(s) \in Seq(Conns) /\ Len(Tail(s)) = Len(s) - 1 /\ Len(s) \in Nat \ {0}
        /\ \A i \in 1 .. Len(Tail(s)) : Tail(s)[i] = s[i + 1]
        /\ Head(s) = s[1] /\ s[1] \in Conns
    OBVIOUS
  <1>2. Distinct(Tail(s))
    BY <1>1 DEF Distinct
  <1>3. Head(s) \in ToSet(s)
    BY <1>1 DEF ToSet
  <1>4. ASSUME NEW x \in ToSet(Tail(s)) PROVE x \in ToSet(s) \ {Head(s)}
    <2>1. PICK i \in 1 .. Len(Tail(s)) : x = Tail(s)[i]
      BY <1>1 DEF ToSet
    <2>2. i + 1 \in 1 .. Len(s) /\ x = s[i + 1] /\ i + 1 # 1
      BY <1>1, <2>1
    <2> QED
      BY <1>1, <2>2 DEF ToSet, Distinct
  <1>a. \A x : x \in ToSet(Tail(s)) <=> \E i \in 1 .. Len(Tail(s)) : x = Tail(s)[i]
    BY <1>1, Members
  <1>5. ASSUME NEW x \in ToSet(s) \ {Head(s)} PROVE x \in ToSet(Tail(s))
    <2>1. PICK i \in 1 .. Len(s) : x = s[i] /\ i # 1
      BY <1>1 DEF ToSet
    <2>2. i - 1 \in 1 .. Len(Tail(s)) /\ x = Tail(s)[i - 1]
      BY <1>1, <2>1
    <2> QED
      BY <1>a, <2>2
  <1> QED
    BY <1>1, <1>2, <1>3, <1>4, <1>5

LEMMA AddLast ==
  ASSUME NEW s \in Seq(Conns), NEW c \in Conns \ ToSet(s), Distinct(s)
  PROVE  /\ Append(s, c) \in Seq(Conns) /\ Distinct(Append(s, c))
         /\ ToSet(Append(s, c)) = ToSet(s) \cup {c}
  <1> DEFINE t == Append(s, c)
  <1>1. /\ t \in Seq(Conns) /\ Len(t) = Len(s) + 1 /\ Len(s) \in Nat
        /\ \A i \in 1 .. Len(s) : t[i] = s[i]
        /\ t[Len(s) + 1] = c
    BY AppendProperties
  <1> HIDE DEF t
  <1>2. \A i \in 1 .. Len(s) : s[i] # c
    BY DEF ToSet
  <1>3. Distinct(t)
    BY <1>1, <1>2 DEF Distinct
  <1>4. \A x : x \in ToSet(t) <=> \E i \in 1 .. Len(t) : x = t[i]
    BY <1>1 DEF ToSet
  <1>5. \A x : x \in ToSet(s) <=> \E i \in 1 .. Len(s) : x = s[i]
    BY DEF ToSet
  <1>6. ToSet(t) = ToSet(s) \cup {c}
    <2>1. ASSUME NEW x \in ToSet(t) PROVE x \in ToSet(s) \cup {c}
      BY <1>1, <1>4, <1>5, <2>1
    <2>2. ASSUME NEW x \in ToSet(s) PROVE x \in ToSet(t)
      BY <1>1, <1>4, <1>5, <2>2
    <2>3. c \in ToSet(t)
      BY <1>1, <1>4
    <2> QED
      BY <2>1, <2>2, <2>3
  <1> QED
    BY <1>1, <1>3, <1>6 DEF t

-----------------------------------------------------------------------------
(* The invariant.                                                          *)

\* Who uses a connection uses it alone, and no other is open.
Apart ==
  /\ Distinct(idle)
  /\ \A u \in Users : conn[u] # None =>
       conn[u] \notin ToSet(idle) /\ link[conn[u]] # "none"
  /\ \A u, v \in Users : conn[u] = conn[v] /\ conn[u] # None => u = v
  /\ \A c \in ToSet(idle) : link[c] # "none"
  /\ \A c \in Conns : link[c] = "none" => pipe[c] = <<>> /\ owed[c] = <<>>

Empty(c) == pipe[c] = <<>> /\ owed[c] = <<>>

\* A response to r is coming: p arrived, o is owed.  After a head (more) the
\* rest is coming.  What is not owed any more was lost with the connection.
Reading(p, o, r, more) ==
  LET h == [of |-> r, part |-> "head"]
      t == [of |-> r, part |-> "rest"]
  IN IF more
     THEN \/ p = <<>> /\ o = <<t>>
          \/ p = <<t>> /\ o = <<>>
          \/ p = <<>> /\ o = <<>>
     ELSE \/ p = <<>> /\ o = <<h, t>>
          \/ p = <<h>> /\ o = <<t>>
          \/ p = <<h, t>> /\ o = <<>>
          \/ p = <<h>> /\ o = <<>>
          \/ p = <<>> /\ o = <<>>

Starting(u) ==
  /\ pc[u] = "out" => conn[u] = None
  /\ pc[u] \in {"out", "held"} => got[u] = {} /\ ~parsing[u]
  /\ pc[u] = "held" => req[u] \in Requests

Doing(u) ==
  conn[u] # None /\ conn[u] \notin abandoned =>
    /\ got[u] \subseteq {req[u]}
    /\ pc[u] = "held" => link[conn[u]] = "closed" \/ Empty(conn[u])
    /\ pc[u] = "sent" =>
         /\ link[conn[u]] # "closed"
         /\ Reading(pipe[conn[u]], owed[conn[u]], req[u], parsing[u])
    /\ pc[u] = "done" => Empty(conn[u])

Clean(c) == c \in abandoned \/ link[c] = "closed" \/ Empty(c)

InStep ==
  /\ \A u \in Users : Starting(u) /\ Doing(u)
  /\ \A c \in ToSet(idle) : Clean(c)

IInv == TypeOK /\ Apart /\ InStep

-----------------------------------------------------------------------------
(* A response on its way.                                                  *)

LEMMA ReadingArrives ==
  ASSUME NEW p, NEW o, NEW r, NEW more, Reading(p, o, r, more), o # <<>>
  PROVE  Reading(Append(p, Head(o)), Tail(o), r, more)
  <1> DEFINE h == [of |-> r, part |-> "head"]
             t == [of |-> r, part |-> "rest"]
  <1>1. CASE more
    <2>1. p = <<>> /\ o = <<t>>
      BY <1>1 DEF Reading
    <2>2. Append(<<>>, t) = <<t>> /\ Head(<<t>>) = t /\ Tail(<<t>>) = <<>>
      OBVIOUS
    <2> QED
      BY <1>1, <2>1, <2>2 DEF Reading
  <1>2. CASE ~more /\ p = <<>> /\ o = <<h, t>>
    <2>1. Append(<<>>, h) = <<h>> /\ Head(<<h, t>>) = h /\ Tail(<<h, t>>) = <<t>>
      OBVIOUS
    <2> QED
      BY <1>2, <2>1 DEF Reading
  <1>3. CASE ~more /\ p = <<h>> /\ o = <<t>>
    <2>1. Append(<<h>>, t) = <<h, t>> /\ Head(<<t>>) = t /\ Tail(<<t>>) = <<>>
      BY AppendTwo
    <2> QED
      BY <1>3, <2>1 DEF Reading
  <1> QED
    BY <1>1, <1>2, <1>3 DEF Reading

LEMMA ReadingLost ==
  ASSUME NEW p, NEW o, NEW r, NEW more, Reading(p, o, r, more)
  PROVE  Reading(p, <<>>, r, more)
  BY DEF Reading

LEMMA ReadingGoesOn ==
  ASSUME NEW p, NEW o, NEW r, NEW more \in BOOLEAN, Reading(p, o, r, more),
         NEW n \in 1 .. Len(p),
         more <=> SubSeq(p, 1, n)[1].part = "rest"
  PROVE  LET data == SubSeq(p, 1, n)
             left == SubSeq(p, n + 1, Len(p))
         IN  /\ \A x \in ToSet(data) : x.of = r
             /\ Complete(data) => left = <<>> /\ o = <<>>
             /\ ~Complete(data) => Reading(left, o, r, Last(data).part = "head")
  <1> DEFINE h == [of |-> r, part |-> "head"]
             t == [of |-> r, part |-> "rest"]
             data == SubSeq(p, 1, n)
             left == SubSeq(p, n + 1, Len(p))
  <1>1. p # <<>>
    OBVIOUS
  <1>2. /\ h.of = r /\ t.of = r /\ h.part = "head" /\ t.part = "rest"
    OBVIOUS
  <1>3. \/ data = <<t>> /\ left = <<>> /\ o = <<>>
        \/ data = <<h>> /\ left = <<>> /\ (o = <<>> \/ o = <<t>>)
        \/ data = <<h>> /\ left = <<t>> /\ o = <<>>
        \/ data = <<h, t>> /\ left = <<>> /\ o = <<>>
    <2>1. CASE p = <<t>> /\ o = <<>>
      BY <2>1, CutOne
    <2>2. CASE p = <<h>> /\ (o = <<>> \/ o = <<t>>)
      BY <2>2, CutOne
    <2>3. CASE p = <<h, t>> /\ o = <<>>
      BY <2>3, CutTwo
    <2> QED
      BY <1>1, <2>1, <2>2, <2>3 DEF Reading
  <1> HIDE DEF h, t, data, left
  <1> DEFINE goal == /\ \A x \in ToSet(data) : x.of = r
                     /\ Complete(data) => left = <<>> /\ o = <<>>
                     /\ ~Complete(data) =>
                          Reading(left, o, r, Last(data).part = "head")
  <1>4. ASSUME data = <<t>> /\ left = <<>> /\ o = <<>> PROVE goal
    <2>1. ToSet(<<t>>) = {t} /\ Complete(<<t>>)
      BY <1>2 DEF ToSet, Complete
    <2> QED
      BY <1>2, <1>4, <2>1
  <1>5. ASSUME data = <<h>>, left = <<>> \/ left = <<t>>,
               o = <<>> \/ o = <<t>>, left = <<>> \/ o = <<>>
        PROVE  goal
    <2>1. ToSet(<<h>>) = {h} /\ ~Complete(<<h>>) /\ Last(<<h>>) = h
      BY <1>2 DEF ToSet, Complete, Last
    <2>2. Reading(left, o, r, TRUE)
      BY <1>5 DEF Reading, t
    <2>3. (Last(data).part = "head") = TRUE
      BY <1>2, <1>5, <2>1
    <2>4. Reading(left, o, r, Last(data).part = "head")
      BY ONLY <2>2, <2>3, Zenon
    <2> QED
      BY <1>2, <1>5, <2>1, <2>4
  <1>6. ASSUME data = <<h, t>> /\ left = <<>> /\ o = <<>> PROVE goal
    <2>1. ToSet(<<h, t>>) = {h, t} /\ Complete(<<h, t>>)
      BY <1>2 DEF ToSet, Complete
    <2> QED
      BY <1>2, <1>6, <2>1
  <1> HIDE DEF goal
  <1>7. goal
    BY <1>3, <1>4, <1>5, <1>6
  <1> QED
    BY <1>7 DEF goal, data, left

-----------------------------------------------------------------------------
(* Steps.                                                                  *)

\* Only this connection, and only this user, are concerned.
Only(c) ==
  \A d \in Conns \ {c} : /\ link'[d] = link[d]
                         /\ pipe'[d] = pipe[d] /\ owed'[d] = owed[d]
                         /\ d \in abandoned' <=> d \in abandoned

Alone(u) ==
  \A v \in Users \ {u} : /\ pc'[v] = pc[v] /\ conn'[v] = conn[v] /\ req'[v] = req[v]
                         /\ parsing'[v] = parsing[v] /\ got'[v] = got[v]

LEMMA IdleConns == ASSUME TypeOK PROVE ToSet(idle) \subseteq Conns
  <1>1. idle \in Seq(Conns)
    BY DEF TypeOK
  <1> QED
    BY <1>1, Members

LEMMA OthersInStep ==
  ASSUME IInv, NEW u \in Users, NEW c, Alone(u), Only(c),
         c = conn[u] \/ c \in ToSet(idle) \/ (c \in Conns /\ link[c] = "none")
  PROVE  /\ \A v \in Users \ {u} : (Starting(v) /\ Doing(v))'
         /\ \A d \in ToSet(idle) \ {c} : Clean(d)'
  <1> USE DEF IInv
  <1>1. ASSUME NEW v \in Users \ {u} PROVE (Starting(v) /\ Doing(v))'
    <2>1. /\ pc'[v] = pc[v] /\ conn'[v] = conn[v] /\ req'[v] = req[v]
          /\ parsing'[v] = parsing[v] /\ got'[v] = got[v]
      BY DEF Alone
    <2>2. Starting(v) /\ Doing(v)
      BY DEF InStep
    <2>3. Starting(v)'
      BY <2>1, <2>2 DEF Starting
    <2>4. conn[v] \in Conns \cup {None} /\ (conn[v] # None => conn[v] # c)
      BY DEF TypeOK, Apart
    <2>5. Doing(v)'
      BY <2>1, <2>2, <2>4 DEF Doing, Only, Empty
    <2> QED
      BY <2>3, <2>5
  <1>2. ASSUME NEW d \in ToSet(idle) \ {c} PROVE Clean(d)'
    <2>1. d \in Conns /\ Clean(d)
      BY IdleConns DEF InStep
    <2> QED
      BY <2>1 DEF Clean, Only, Empty
  <1> QED
    BY <1>1, <1>2

\* The connection comes back, or is given up.
LEMMA ReturnMoves ==
  ASSUME IInv, NEW u \in Users, conn[u] # None,
         NEW state \in {"open", "reset", "closed"}, Return(u, state)
  PROVE  LET c == conn[u] IN
         /\ idle' \in Seq(Conns) /\ Distinct(idle')
         /\ link' \in [Conns -> {"none", "open", "reset", "closed"}]
         /\ owed' \in [Conns -> Seq(Pieces)] /\ pipe' \in [Conns -> Seq(Pieces)]
         /\ \A d \in Conns \ {c} : /\ link'[d] = link[d]
                                   /\ pipe'[d] = pipe[d] /\ owed'[d] = owed[d]
         /\ \/ /\ ToSet(idle') = ToSet(idle) \cup {c}
               /\ link'[c] = state /\ pipe'[c] = pipe[c] /\ owed'[c] = owed[c]
            \/ /\ ToSet(idle') = ToSet(idle)
               /\ link'[c] = "none" /\ pipe'[c] = <<>> /\ owed'[c] = <<>>
  <1> DEFINE c == conn[u]
  <1> USE DEF IInv
  <1>0. /\ c \in Conns \ ToSet(idle) /\ <<>> \in Seq(Pieces)
        /\ link \in [Conns -> {"none", "open", "reset", "closed"}]
        /\ owed \in [Conns -> Seq(Pieces)] /\ pipe \in [Conns -> Seq(Pieces)]
        /\ idle \in Seq(Conns) /\ Distinct(idle)
    BY DEF TypeOK, Apart
  <1> HIDE DEF c, IInv
  <1>1. CASE /\ idle' = Append(idle, c)
             /\ link' = [link EXCEPT ![c] = state]
             /\ UNCHANGED <<owed, pipe>>
    <2>1. /\ idle' \in Seq(Conns) /\ Distinct(idle')
          /\ ToSet(idle') = ToSet(idle) \cup {c}
      BY <1>0, <1>1, AddLast
    <2> QED
      BY <1>0, <1>1, <2>1 DEF c
  <1>2. CASE /\ link' = [link EXCEPT ![c] = "none"]
             /\ owed' = [owed EXCEPT ![c] = <<>>]
             /\ pipe' = [pipe EXCEPT ![c] = <<>>]
             /\ UNCHANGED idle
    BY <1>0, <1>2 DEF c
  <1> QED
    BY <1>1, <1>2 DEF Return, c

\* A user that leaves takes nothing along.
LEMMA LeaveMoves ==
  ASSUME IInv, NEW u \in Users, Leave(u)
  PROVE  /\ Alone(u)
         /\ pc' \in [Users -> UserStates] /\ conn' \in [Users -> Conns \cup {None}]
         /\ fresh' \in [Users -> BOOLEAN] /\ req' \in [Users -> Requests \cup {None}]
         /\ parsing' \in [Users -> BOOLEAN] /\ got' \in [Users -> SUBSET Requests]
         /\ pc'[u] = "out" /\ conn'[u] = None /\ got'[u] = {} /\ ~parsing'[u]
  <1>1. /\ pc' = [pc EXCEPT ![u] = "out"]
        /\ conn' = [conn EXCEPT ![u] = None]
        /\ req' = [req EXCEPT ![u] = None]
        /\ got' = [got EXCEPT ![u] = {}]
        /\ parsing' = [parsing EXCEPT ![u] = FALSE]
        /\ fresh' = fresh
    BY DEF Leave, Goto
  <1> USE DEF IInv, TypeOK
  <1>2. parsing' \in [Users -> BOOLEAN] /\ ~parsing'[u]
    BY <1>1
  <1>3. /\ pc' \in [Users -> UserStates] /\ conn' \in [Users -> Conns \cup {None}]
        /\ fresh' \in [Users -> BOOLEAN] /\ req' \in [Users -> Requests \cup {None}]
        /\ got' \in [Users -> SUBSET Requests]
    BY <1>1 DEF UserStates
  <1>4. pc'[u] = "out" /\ conn'[u] = None /\ got'[u] = {}
    BY <1>1
  <1>5. Alone(u)
    BY <1>1 DEF Alone
  <1> QED
    BY <1>2, <1>3, <1>4, <1>5

LEMMA LeaveEmptyHanded ==
  ASSUME IInv, NEW u \in Users, conn[u] = None, Leave(u), UNCHANGED streamVars,
         reply' \in [Users -> Replies]
  PROVE  IInv'
  <1>1. TypeOK'
    BY LeaveMoves DEF IInv, TypeOK, Alone, streamVars
  <1>2. Apart'
    BY LeaveMoves DEF IInv, Apart, Alone, streamVars, TypeOK
  <1>3. \A v \in Users \ {u} : (Starting(v) /\ Doing(v))'
    BY LeaveMoves DEF IInv, InStep, Alone, streamVars, Starting, Doing, Empty
  <1>4. (Starting(u) /\ Doing(u))'
    BY LeaveMoves DEF Starting, Doing
  <1>5. \A c \in ToSet(idle') : Clean(c)'
    BY DEF IInv, InStep, Clean, Empty, streamVars
  <1> QED
    BY <1>1, <1>2, <1>3, <1>4, <1>5 DEF IInv, InStep

\* A connection may come back that is closed, or on which nothing is left to be
\* read, or that is abandoned from then on.
LEMMA GiveBack ==
  ASSUME IInv, NEW u \in Users, conn[u] # None, Leave(u),
         NEW state \in {"open", "reset", "closed"}, Return(u, state),
         abandoned' \subseteq Conns, abandoned \subseteq abandoned',
         abandoned' \subseteq abandoned \cup {conn[u]},
         state = "closed" \/ conn[u] \in abandoned' \/ Empty(conn[u]),
         reply' \in [Users -> Replies]
  PROVE  IInv'
  <1>c. PICK c : c = conn[u]
    OBVIOUS
  <1>0. c \in Conns \ ToSet(idle)
    BY <1>c DEF IInv, TypeOK, Apart
  <1>1. /\ idle' \in Seq(Conns) /\ Distinct(idle')
        /\ link' \in [Conns -> {"none", "open", "reset", "closed"}]
        /\ owed' \in [Conns -> Seq(Pieces)] /\ pipe' \in [Conns -> Seq(Pieces)]
        /\ \A d \in Conns \ {c} : /\ link'[d] = link[d]
                                  /\ pipe'[d] = pipe[d] /\ owed'[d] = owed[d]
        /\ \/ /\ ToSet(idle') = ToSet(idle) \cup {c}
              /\ link'[c] = state /\ pipe'[c] = pipe[c] /\ owed'[c] = owed[c]
           \/ /\ ToSet(idle') = ToSet(idle)
              /\ link'[c] = "none" /\ pipe'[c] = <<>> /\ owed'[c] = <<>>
    BY <1>c, ReturnMoves
  <1>2. TypeOK'
    BY <1>1, LeaveMoves DEF IInv, TypeOK, Alone
  <1>3. Only(c)
    BY <1>c, <1>1 DEF Only
  <1>4. Apart'
    <2>1. \A d \in ToSet(idle') : link'[d] # "none"
      BY <1>0, <1>1, IdleConns DEF IInv, Apart
    <2>2. \A d \in Conns : link'[d] = "none" => pipe'[d] = <<>> /\ owed'[d] = <<>>
      BY <1>1 DEF IInv, Apart
    <2>3. \A v \in Users \ {u} :
            conn'[v] # None => conn'[v] \notin ToSet(idle') /\ link'[conn'[v]] # "none"
      <3>1. ASSUME NEW v \in Users \ {u}, conn'[v] # None
            PROVE  conn'[v] \notin ToSet(idle') /\ link'[conn'[v]] # "none"
        <4>1. conn'[v] = conn[v]
          BY LeaveMoves DEF Alone
        <4>2. conn[v] \in Conns \ {c} /\ conn[v] \notin ToSet(idle)
              /\ link[conn[v]] # "none"
          BY <1>c, <3>1, <4>1 DEF IInv, Apart, TypeOK
        <4> QED
          BY <1>1, <4>1, <4>2
      <3> QED
        BY <3>1
    <2>4. \A v, w \in Users : conn'[v] = conn'[w] /\ conn'[v] # None => v = w
      BY LeaveMoves DEF Alone, IInv, Apart
    <2> QED
      BY <1>1, <2>1, <2>2, <2>3, <2>4, LeaveMoves DEF Apart
  <1>5. /\ \A v \in Users \ {u} : (Starting(v) /\ Doing(v))'
        /\ \A d \in ToSet(idle) \ {c} : Clean(d)'
    BY <1>c, <1>3, LeaveMoves, OthersInStep
  <1>6. (Starting(u) /\ Doing(u))'
    BY LeaveMoves DEF Starting, Doing
  <1>7. c \in ToSet(idle') => Clean(c)'
    BY <1>c, <1>0, <1>1 DEF Clean, Empty
  <1>8. \A d \in ToSet(idle') : Clean(d)'
    BY <1>1, <1>5, <1>7
  <1> QED
    BY <1>2, <1>4, <1>5, <1>6, <1>8 DEF IInv, InStep

-----------------------------------------------------------------------------
LEMMA Starts == Init => IInv
  <1> SUFFICES ASSUME Init PROVE IInv
    OBVIOUS
  <1>1. TypeOK
    BY DEF Init, TypeOK, UserStates, Replies
  <1>2. Apart
    BY DEF Init, Apart, Distinct, ToSet
  <1>3. \A u \in Users : Starting(u) /\ Doing(u)
    BY DEF Init, Starting, Doing
  <1>4. \A c \in ToSet(idle) : Clean(c)
    BY DEF Init, ToSet
  <1> QED
    BY <1>1, <1>2, <1>3, <1>4 DEF IInv, InStep

LEMMA Responses ==
  ASSUME NEW r \in Requests PROVE Response(r) \in Seq(Pieces)
  <1>1. /\ [of |-> r, part |-> "head"] \in Pieces
        /\ [of |-> r, part |-> "rest"] \in Pieces
    BY DEF Pieces
  <1> QED
    BY <1>1 DEF Response

LEMMA AcquireKeeps ==
  ASSUME IInv, NEW u \in Users, Acquire(u) PROVE IInv'
  <1> USE DEF IInv
  <1>0. /\ conn[u] = None /\ got[u] = {} /\ ~parsing[u] /\ pc[u] = "out"
        /\ None \notin Conns
    BY ForwardingAssumption DEF Acquire, InStep, Starting
  <1>1. PICK r \in Requests : req' = [req EXCEPT ![u] = r]
    BY DEF Acquire
  <1>2. /\ pc' = [pc EXCEPT ![u] = "held"]
        /\ reply' = [reply EXCEPT ![u] = "none"]
        /\ UNCHANGED <<owed, pipe, parsing, got>>
    BY DEF Acquire, Goto
  <1>3. /\ pc' \in [Users -> UserStates] /\ req' \in [Users -> Requests \cup {None}]
        /\ reply' \in [Users -> Replies]
        /\ pc'[u] = "held" /\ req'[u] = r
    BY <1>1, <1>2 DEF TypeOK, UserStates, Replies
  <1>4. PICK c \in Conns, f \in BOOLEAN :
          /\ conn' = [conn EXCEPT ![u] = c]
          /\ fresh' = [fresh EXCEPT ![u] = f]
          /\ \/ /\ c \in ToSet(idle) /\ ToSet(idle') = ToSet(idle) \ {c}
                /\ idle' \in Seq(Conns) /\ Distinct(idle')
                /\ link' = link /\ abandoned' = abandoned
             \/ /\ idle = <<>> /\ idle' = idle /\ link[c] = "none"
                /\ link' = [link EXCEPT ![c] = "open"]
                /\ abandoned' = abandoned \ {c}
    <2>1. CASE /\ idle # <<>>
               /\ conn' = [conn EXCEPT ![u] = Head(idle)]
               /\ fresh' = [fresh EXCEPT ![u] = FALSE]
               /\ idle' = Tail(idle)
               /\ UNCHANGED <<link, abandoned>>
      <3>1. idle \in Seq(Conns) /\ Distinct(idle)
        BY DEF TypeOK, Apart
      <3> QED
        BY <2>1, <3>1, TakeFirst
    <2>2. CASE /\ idle = <<>>
               /\ \E c \in Conns :
                    /\ link[c] = "none"
                    /\ link' = [link EXCEPT ![c] = "open"]
                    /\ conn' = [conn EXCEPT ![u] = c]
                    /\ abandoned' = abandoned \ {c}
               /\ fresh' = [fresh EXCEPT ![u] = TRUE]
               /\ UNCHANGED idle
      BY <2>2
    <2> QED
      BY <2>1, <2>2 DEF Acquire
  <1>5. /\ conn' \in [Users -> Conns \cup {None}] /\ fresh' \in [Users -> BOOLEAN]
        /\ conn'[u] = c /\ \A v \in Users \ {u} : conn'[v] = conn[v]
    BY <1>4 DEF TypeOK
  <1>6. /\ link' \in [Conns -> {"none", "open", "reset", "closed"}]
        /\ link'[c] # "none" /\ idle' \in Seq(Conns) /\ Distinct(idle')
        /\ abandoned' \subseteq Conns /\ ToSet(idle') \subseteq ToSet(idle) \ {c}
        /\ Only(c)
    <2>1. CASE /\ c \in ToSet(idle) /\ ToSet(idle') = ToSet(idle) \ {c}
               /\ idle' \in Seq(Conns) /\ Distinct(idle')
               /\ link' = link /\ abandoned' = abandoned
      BY <1>2, <2>1 DEF TypeOK, Apart, Only
    <2>2. CASE /\ idle = <<>> /\ idle' = idle /\ link[c] = "none"
               /\ link' = [link EXCEPT ![c] = "open"]
               /\ abandoned' = abandoned \ {c}
      <3>1. ToSet(idle) = {}
        BY <2>2 DEF ToSet
      <3> QED
        BY <1>2, <2>2, <3>1 DEF TypeOK, Apart, Only
    <2> QED
      BY <1>4, <2>1, <2>2
  <1>7. TypeOK'
    BY <1>0, <1>2, <1>3, <1>5, <1>6 DEF TypeOK
  <1>8. \A v \in Users : conn[v] # c
    BY <1>4, <1>0 DEF Apart, TypeOK
  <1>9. Apart'
    <2>1. \A v \in Users : conn'[v] # None =>
            conn'[v] \notin ToSet(idle') /\ link'[conn'[v]] # "none"
      <3>1. ASSUME NEW v \in Users \ {u}, conn[v] # None
            PROVE  /\ conn[v] \in Conns \ {c} /\ conn[v] \notin ToSet(idle)
                   /\ link[conn[v]] # "none"
        BY <1>8, <3>1 DEF Apart, TypeOK
      <3> QED
        BY <1>5, <1>6, <3>1 DEF Only
    <2>2. \A v, w \in Users : conn'[v] = conn'[w] /\ conn'[v] # None => v = w
      BY <1>5, <1>8 DEF Apart
    <2>3. \A d \in ToSet(idle') : link'[d] # "none"
      BY <1>6, IdleConns DEF Apart, Only
    <2>4. \A d \in Conns : link'[d] = "none" => pipe'[d] = <<>> /\ owed'[d] = <<>>
      BY <1>2, <1>6 DEF Apart, Only
    <2> QED
      BY <1>6, <2>1, <2>2, <2>3, <2>4 DEF Apart
  <1>10. Alone(u)
    BY <1>1, <1>2, <1>5 DEF Alone, TypeOK
  <1>11. /\ \A v \in Users \ {u} : (Starting(v) /\ Doing(v))'
         /\ \A d \in ToSet(idle) \ {c} : Clean(d)'
    BY <1>4, <1>6, <1>10, OthersInStep
  <1>12. Starting(u)'
    BY <1>0, <1>2, <1>3 DEF Starting
  <1>13. c \notin abandoned' => link'[c] = "closed" \/ (pipe'[c] = <<>> /\ owed'[c] = <<>>)
    BY <1>2, <1>4 DEF InStep, Clean, Empty, Apart
  <1>14. Doing(u)'
    BY <1>0, <1>2, <1>3, <1>5, <1>13 DEF Doing, Empty
  <1>15. \A d \in ToSet(idle') : Clean(d)'
    BY <1>6, <1>11
  <1> QED
    BY <1>7, <1>9, <1>11, <1>12, <1>14, <1>15 DEF InStep

\* A user goes on with its connection.
LEMMA Stays ==
  ASSUME IInv, NEW u \in Users, NEW c \in Conns, c = conn[u], Alone(u), Only(c),
         idle' = idle, conn' = conn, link'[c] # "none", TypeOK',
         Starting(u)', Doing(u)'
  PROVE  IInv'
  <1> USE DEF IInv
  <1>1. Apart'
    <2>1. \A v \in Users : conn[v] # None =>
            conn[v] \notin ToSet(idle) /\ link'[conn[v]] # "none"
      BY DEF Apart, Only, TypeOK
    <2>2. \A d \in ToSet(idle) : link'[d] # "none"
      BY IdleConns DEF Apart, Only
    <2>3. \A d \in Conns : link'[d] = "none" => pipe'[d] = <<>> /\ owed'[d] = <<>>
      BY DEF Apart, Only
    <2> QED
      BY <2>1, <2>2, <2>3 DEF Apart
  <1>2. /\ \A v \in Users \ {u} : (Starting(v) /\ Doing(v))'
        /\ \A d \in ToSet(idle) \ {c} : Clean(d)'
    BY OthersInStep
  <1>3. c \notin ToSet(idle)
    BY ForwardingAssumption DEF Apart
  <1>4. Starting(u)' /\ Doing(u)'
    OBVIOUS
  <1> QED
    BY <1>1, <1>2, <1>3, <1>4 DEF InStep

\* A user goes on without one.
LEMMA StaysWithout ==
  ASSUME IInv, NEW u \in Users, conn[u] = None, Alone(u), UNCHANGED streamVars,
         conn' = conn, TypeOK', Starting(u)'
  PROVE  IInv'
  <1>1. Apart'
    BY DEF IInv, Apart, streamVars
  <1>2. \A v \in Users \ {u} : (Starting(v) /\ Doing(v))'
    BY DEF IInv, InStep, Alone, streamVars, Starting, Doing, Empty
  <1>3. Doing(u)'
    BY DEF Doing
  <1>4. \A c \in ToSet(idle') : Clean(c)'
    BY DEF IInv, InStep, Clean, Empty, streamVars
  <1> QED
    BY <1>1, <1>2, <1>3, <1>4 DEF IInv, InStep

\* What a user is doing after a step that leaves it waiting for a response.
LEMMA StartsReading ==
  ASSUME NEW u, NEW c, NEW r, NEW more, conn'[u] = c, pc'[u] = "sent", req'[u] = r,
         parsing'[u] = more, got'[u] \subseteq {r}, link'[c] # "closed",
         c \notin abandoned' => Reading(pipe'[c], owed'[c], r, more)
  PROVE  Doing(u)'
  <1>1. pc'[u] # "held" /\ pc'[u] # "done"
    OBVIOUS
  <1> QED
    BY <1>1 DEF Doing

LEMMA SendKeeps ==
  ASSUME IInv, NEW u \in Users, Send(u) PROVE IInv'
  <1> USE DEF IInv
  <1>c. PICK c : c = conn[u]
    OBVIOUS
  <1>1. /\ pc[u] = "held" /\ pc' = [pc EXCEPT ![u] = "sent"]
        /\ fresh' = [fresh EXCEPT ![u] = TRUE]
        /\ UNCHANGED <<idle, link, pipe, abandoned, conn, req, parsing, got, reply>>
        /\ \/ link[c] = "open" /\ owed' = [owed EXCEPT ![c] = owed[c] \o Response(req[u])]
           \/ link[c] = "reset" /\ owed' = owed
    BY <1>c DEF Send, Goto
  <1>2. c \in Conns /\ req[u] \in Requests /\ got[u] = {} /\ ~parsing[u]
    BY <1>1, <1>c DEF TypeOK, InStep, Starting
  <1>3. Response(req[u]) \in Seq(Pieces) /\ owed[c] \in Seq(Pieces)
    BY <1>2, Responses DEF TypeOK
  <1>4. owed[c] \o Response(req[u]) \in Seq(Pieces)
    BY <1>3
  <1>5. TypeOK'
    <2>1. owed' \in [Conns -> Seq(Pieces)]
      BY <1>1, <1>4 DEF TypeOK
    <2>2. pc' \in [Users -> UserStates] /\ fresh' \in [Users -> BOOLEAN]
      BY <1>1 DEF TypeOK, UserStates
    <2>3. \A v \in Users : conn'[v] = None => pc'[v] \in {"out", "failing", "excepted"}
      BY <1>1, <1>2, <1>c, ForwardingAssumption DEF TypeOK
    <2> QED
      BY <1>1, <2>1, <2>2, <2>3 DEF TypeOK
  <1>6. Alone(u) /\ Only(c)
    BY <1>1 DEF Alone, Only, TypeOK
  <1>7. pc'[u] = "sent"
    BY <1>1 DEF TypeOK
  <1>8. Starting(u)'
    BY <1>7 DEF Starting
  <1>9. c \notin abandoned => Reading(pipe'[c], owed'[c], req[u], FALSE)
    <2> SUFFICES ASSUME c \notin abandoned
                 PROVE  Reading(pipe'[c], owed'[c], req[u], FALSE)
      OBVIOUS
    <2>1. pipe[c] = <<>> /\ owed[c] = <<>>
      BY <1>1, <1>2, <1>c, ForwardingAssumption DEF InStep, Doing, Empty
    <2>2. <<>> \o Response(req[u]) = Response(req[u])
      BY <1>3
    <2>3. owed'[c] = Response(req[u]) \/ owed'[c] = <<>>
      BY <1>1, <1>2, <2>1, <2>2 DEF TypeOK
    <2> QED
      BY <1>1, <2>1, <2>3 DEF Reading, Response
  <1>11. link'[c] # "none" /\ link'[c] # "closed"
    BY <1>1
  <1>12. /\ conn'[u] = c /\ abandoned' = abandoned /\ req'[u] = req[u]
         /\ got'[u] = {} /\ parsing'[u] = FALSE
    BY <1>1, <1>2, <1>c DEF TypeOK
  <1>10. Doing(u)'
    BY <1>7, <1>9, <1>11, <1>12, StartsReading
  <1> QED
    BY <1>1, <1>2, <1>c, <1>5, <1>6, <1>8, <1>10, <1>11, Stays

LEMMA ResendKeeps ==
  ASSUME IInv, NEW u \in Users, Resend(u) PROVE IInv'
  <1> USE DEF IInv
  <1>c. PICK c : c = conn[u]
    OBVIOUS
  <1>1. /\ pc[u] = "held" /\ pc' = [pc EXCEPT ![u] = "sent"]
        /\ link' = [link EXCEPT ![c] = "open"]
        /\ pipe' = [pipe EXCEPT ![c] = <<>>]
        /\ owed' = [owed EXCEPT ![c] = Response(req[u])]
        /\ abandoned' = abandoned \ {c}
        /\ UNCHANGED <<idle, conn, fresh, req, parsing, got, reply>>
    BY <1>c DEF Resend, Goto, NewStream
  <1>2. c \in Conns /\ req[u] \in Requests /\ got[u] = {} /\ ~parsing[u]
    BY <1>1, <1>c DEF TypeOK, InStep, Starting
  <1>3. Response(req[u]) \in Seq(Pieces) /\ <<>> \in Seq(Pieces)
    BY <1>2, Responses
  <1>5. TypeOK'
    <2>1. /\ owed' \in [Conns -> Seq(Pieces)] /\ pipe' \in [Conns -> Seq(Pieces)]
          /\ link' \in [Conns -> {"none", "open", "reset", "closed"}]
          /\ abandoned' \subseteq Conns
      BY <1>1, <1>3 DEF TypeOK
    <2>2. pc' \in [Users -> UserStates]
      BY <1>1 DEF TypeOK, UserStates
    <2>3. \A v \in Users : conn'[v] = None => pc'[v] \in {"out", "failing", "excepted"}
      BY <1>1, <1>2, <1>c, ForwardingAssumption DEF TypeOK
    <2> QED
      BY <1>1, <2>1, <2>2, <2>3 DEF TypeOK
  <1>6. Alone(u) /\ Only(c)
    BY <1>1 DEF Alone, Only, TypeOK
  <1>7. /\ pc'[u] = "sent" /\ link'[c] = "open"
        /\ pipe'[c] = <<>> /\ owed'[c] = Response(req[u])
    BY <1>1, <1>2 DEF TypeOK
  <1>8. Starting(u)'
    BY <1>7 DEF Starting
  <1>9. Reading(pipe'[c], owed'[c], req[u], FALSE)
    BY <1>7 DEF Reading, Response
  <1>11. link'[c] # "none" /\ link'[c] # "closed"
    BY <1>7
  <1>12. /\ conn'[u] = c /\ req'[u] = req[u]
         /\ got'[u] = {} /\ parsing'[u] = FALSE
    BY <1>1, <1>2, <1>c DEF TypeOK
  <1>10. Doing(u)'
    BY <1>7, <1>9, <1>11, <1>12, StartsReading
  <1> QED
    BY <1>1, <1>2, <1>c, <1>5, <1>6, <1>7, <1>8, <1>10, Stays
LEMMA SendFailKeeps ==
  ASSUME IInv, NEW u \in Users, SendFail(u) PROVE IInv'
  <1> USE DEF IInv
  <1>c. PICK c : c = conn[u]
    OBVIOUS
  <1>1. PICK s \in {"failing", "excepted"} : pc' = [pc EXCEPT ![u] = s]
    BY DEF SendFail, Goto, AfterBroken
  <1>2. /\ pc[u] = "held"
        /\ link' = [link EXCEPT ![c] = "none"]
        /\ owed' = [owed EXCEPT ![c] = <<>>]
        /\ pipe' = [pipe EXCEPT ![c] = <<>>]
        /\ conn' = [conn EXCEPT ![u] = None]
        /\ UNCHANGED <<idle, abandoned, fresh, req, parsing, got, reply>>
    BY <1>c DEF SendFail
  <1>3. c \in Conns \ ToSet(idle) /\ c # None
    BY <1>2, <1>c, ForwardingAssumption DEF TypeOK, Apart
  <1>4. TypeOK'
    <2>1. /\ owed' \in [Conns -> Seq(Pieces)] /\ pipe' \in [Conns -> Seq(Pieces)]
          /\ link' \in [Conns -> {"none", "open", "reset", "closed"}]
      <3>1. <<>> \in Seq(Pieces)
        OBVIOUS
      <3> QED
        BY <1>2, <3>1 DEF TypeOK
    <2>2. pc' \in [Users -> UserStates]
      BY <1>1 DEF TypeOK, UserStates
    <2>3. conn' \in [Users -> Conns \cup {None}]
      BY <1>2 DEF TypeOK
    <2>4. \A v \in Users : conn'[v] = None => pc'[v] \in {"out", "failing", "excepted"}
      BY <1>1, <1>2 DEF TypeOK
    <2> QED
      BY <1>2, <2>1, <2>2, <2>3, <2>4 DEF TypeOK
  <1>5. Alone(u) /\ Only(c)
    BY <1>1, <1>2 DEF Alone, Only, TypeOK
  <1>6. /\ \A v \in Users \ {u} : (Starting(v) /\ Doing(v))'
        /\ \A d \in ToSet(idle) \ {c} : Clean(d)'
    BY <1>5, <1>c, OthersInStep
  <1>7. conn'[u] = None /\ pc'[u] \notin {"out", "held"}
    BY <1>1, <1>2 DEF TypeOK
  <1>8. Starting(u)' /\ Doing(u)'
    BY <1>7 DEF Starting, Doing
  <1>9. Apart'
    <2>1. ASSUME NEW v \in Users, conn'[v] # None
          PROVE  conn'[v] \notin ToSet(idle) /\ link'[conn'[v]] # "none"
      <3>1. v # u /\ conn'[v] = conn[v]
        BY <1>5, <1>7, <2>1 DEF Alone
      <3>2. conn[v] \in Conns \ {c}
        BY <1>c, <2>1, <3>1 DEF Apart, TypeOK
      <3> QED
        BY <1>5, <2>1, <3>1, <3>2 DEF Apart, Only
    <2>2. \A v, w \in Users : conn'[v] = conn'[w] /\ conn'[v] # None => v = w
      BY <1>5, <1>7 DEF Alone, Apart
    <2>3. \A d \in ToSet(idle) : link'[d] # "none"
      BY <1>3, <1>5, IdleConns DEF Apart, Only
    <2>4. \A d \in Conns : link'[d] = "none" => pipe'[d] = <<>> /\ owed'[d] = <<>>
      BY <1>2, <1>5 DEF Apart, Only, TypeOK
    <2> QED
      BY <1>2, <2>1, <2>2, <2>3, <2>4 DEF Apart
  <1> QED
    BY <1>2, <1>3, <1>4, <1>6, <1>8, <1>9 DEF InStep

\* What a user is doing once it gave up or failed, or was done.
LEMMA Waits ==
  ASSUME NEW u, pc'[u] \in {"failing", "excepted", "done"},
         conn'[u] # None /\ conn'[u] \notin abandoned' => got'[u] \subseteq {req'[u]},
         conn'[u] # None /\ conn'[u] \notin abandoned' /\ pc'[u] = "done" =>
           pipe'[conn'[u]] = <<>> /\ owed'[conn'[u]] = <<>>
  PROVE  Starting(u)' /\ Doing(u)'
  <1>1. Starting(u)'
    BY DEF Starting
  <1>2. Doing(u)'
    BY DEF Doing, Empty
  <1> QED
    BY <1>1, <1>2

LEMMA ReceiveKeeps ==
  ASSUME IInv, NEW u \in Users, Receive(u) PROVE IInv'
  <1> USE DEF IInv
  <1>c. PICK c, p, o, r, more :
          /\ c = conn[u] /\ p = pipe[c] /\ o = owed[c] /\ r = req[u]
          /\ more = parsing[u]
    OBVIOUS
  <1>1. PICK n \in 1 .. Len(p) :
          /\ pipe' = [pipe EXCEPT ![c] = SubSeq(p, n + 1, Len(p))]
          /\ \/ Deliver(u, SubSeq(p, 1, n))
             \/ DeliverFail(u, SubSeq(p, 1, n))
    BY <1>c DEF Receive
  <1> DEFINE data == SubSeq(p, 1, n)
             left == SubSeq(p, n + 1, Len(p))
  <1>2. /\ pc[u] = "sent" /\ c \in Conns
        /\ UNCHANGED <<idle, link, owed, abandoned, conn, fresh, req>>
    BY <1>c, ForwardingAssumption DEF Receive, TypeOK
  <1>3. /\ p \in Seq(Pieces) /\ more \in BOOLEAN /\ data \in Seq(Pieces)
        /\ left \in Seq(Pieces) /\ Len(data) = n /\ n \in Nat \ {0}
    BY <1>1, <1>2, <1>c DEF TypeOK
  <1> HIDE DEF data, left
  <1>4. c \notin abandoned =>
          got[u] \subseteq {r} /\ link[c] # "closed" /\ Reading(p, o, r, more)
    BY <1>2, <1>c, ForwardingAssumption DEF InStep, Doing
  <1>5. pipe' \in [Conns -> Seq(Pieces)] /\ pipe'[c] = left
    BY <1>1, <1>2, <1>3 DEF TypeOK, left
  <1>6. Only(c)
    BY <1>1, <1>2 DEF Only, TypeOK
  <1>7. c = conn[u] /\ c # None /\ idle' = idle /\ conn' = conn /\ link'[c] # "none"
    BY <1>2, <1>c, ForwardingAssumption DEF Apart
  <1>8. CASE DeliverFail(u, data)
    <2>1. PICK s \in {"failing", "excepted"} : pc' = [pc EXCEPT ![u] = s]
      BY <1>8 DEF DeliverFail, Goto, AfterBroken
    <2>2. UNCHANGED <<got, parsing, reply>>
      BY <1>8 DEF DeliverFail
    <2>3. TypeOK'
      <3>1. pc' \in [Users -> UserStates]
        BY <2>1 DEF TypeOK, UserStates
      <3>2. \A v \in Users : conn'[v] = None => pc'[v] \in {"out", "failing", "excepted"}
        BY <1>2, <2>1 DEF TypeOK
      <3> QED
        BY <1>2, <1>5, <2>2, <3>1, <3>2 DEF TypeOK
    <2>4. Alone(u)
      BY <1>2, <2>1, <2>2 DEF Alone, TypeOK
    <2>5. /\ pc'[u] \in {"failing", "excepted", "done"} /\ pc'[u] # "done"
          /\ conn'[u] = c /\ abandoned' = abandoned /\ got'[u] = got[u] /\ req'[u] = r
      BY <1>2, <1>c, <2>1, <2>2 DEF TypeOK
    <2>6. Starting(u)' /\ Doing(u)'
      BY <1>4, <2>5, Waits
    <2> QED
      BY <1>2, <1>6, <1>7, <2>3, <2>4, <2>6, Stays
  <1>9. CASE Deliver(u, data)
    <2>1. PICK s \in {"sent", "done"}, y \in {"full", "part"} :
            /\ pc' = [pc EXCEPT ![u] = s]
            /\ reply' = [reply EXCEPT ![u] = y]
            /\ s = "done" <=> Complete(data)
      <3>1. CASE Complete(data)
        BY <1>9, <3>1 DEF Deliver, Goto
      <3>2. CASE ~Complete(data)
        <4>1. pc' = [pc EXCEPT ![u] = "sent"]
          BY <1>2, <1>9, <3>2 DEF Deliver, TypeOK
        <4> QED
          BY <1>9, <3>2, <4>1 DEF Deliver
      <3> QED
        BY <3>1, <3>2
    <2>2. /\ got' = [got EXCEPT ![u] = got[u] \cup {x.of : x \in ToSet(data)}]
          /\ parsing' = [parsing EXCEPT ![u] = Last(data).part = "head"]
          /\ more <=> data[1].part = "rest"
      BY <1>9, <1>c DEF Deliver, Parses
    <2>3. PICK a, b : a = {x.of : x \in ToSet(data)} /\ b = (Last(data).part = "head")
      OBVIOUS
    <2>4. a \subseteq Requests
      <3>1. \A x \in ToSet(data) : x \in Pieces
        BY <1>3, Members
      <3> QED
        BY <2>3, <3>1 DEF Pieces
    <2>5. b \in BOOLEAN
      BY ONLY <2>3, SMT
    <2>6. /\ got' = [got EXCEPT ![u] = got[u] \cup a]
          /\ parsing' = [parsing EXCEPT ![u] = b]
      BY <2>2, <2>3
    <2>7. TypeOK'
      <3>1. pc' \in [Users -> UserStates] /\ reply' \in [Users -> Replies]
        BY <2>1 DEF TypeOK, UserStates, Replies
      <3>2. \A v \in Users : conn'[v] = None => pc'[v] \in {"out", "failing", "excepted"}
        BY <1>2, <1>7, <2>1 DEF TypeOK
      <3>3. got' \in [Users -> SUBSET Requests]
        BY <2>4, <2>6 DEF TypeOK
      <3>4. parsing' \in [Users -> BOOLEAN]
        BY <2>5, <2>6 DEF TypeOK
      <3> QED
        BY <1>2, <1>5, <3>1, <3>2, <3>3, <3>4 DEF TypeOK
    <2>8. Alone(u)
      BY <1>2, <2>1, <2>6 DEF Alone, TypeOK
    <2>9. /\ pc'[u] = s /\ conn'[u] = c /\ abandoned' = abandoned /\ req'[u] = r
          /\ got'[u] = got[u] \cup a /\ link'[c] = link[c] /\ owed'[c] = o
      BY <1>2, <1>c, <2>1, <2>6 DEF TypeOK
    <2>10. parsing'[u] = b
      BY <2>6 DEF TypeOK
    <2>11. c \notin abandoned =>
             /\ \A x \in ToSet(data) : x.of = r
             /\ Complete(data) => left = <<>> /\ o = <<>>
             /\ ~Complete(data) => Reading(left, o, r, Last(data).part = "head")
      BY <1>3, <1>4, <2>2, ReadingGoesOn DEF data, left
    <2>12. c \notin abandoned => a \subseteq {r} /\ got[u] \cup a \subseteq {r}
      BY <1>4, <2>3, <2>11
    <2>13. CASE s = "done"
      <3>0. c \notin abandoned => left = <<>> /\ o = <<>>
        BY ONLY <2>1, <2>11, <2>13, Zenon
      <3>2. /\ pc'[u] = "done" /\ conn'[u] = c
            /\ c \notin abandoned' => pipe'[c] = <<>> /\ owed'[c] = <<>>
            /\ c \notin abandoned' => got'[u] \subseteq {req'[u]}
        BY <1>5, <2>9, <2>12, <2>13, <3>0
      <3>1. Starting(u)' /\ Doing(u)'
        BY <3>2, Waits
      <3> QED
        BY <1>2, <1>6, <1>7, <2>7, <2>8, <3>1, Stays
    <2>14. CASE s = "sent"
      <3>0. c \notin abandoned => Reading(left, o, r, b)
        BY ONLY <2>1, <2>3, <2>11, <2>14, Zenon
      <3>1. Starting(u)'
        BY <2>9, <2>14 DEF Starting
      <3>2. CASE c \in abandoned
        <4>1. Doing(u)'
          BY <2>9, <3>2 DEF Doing
        <4> QED
          BY <1>2, <1>6, <1>7, <2>7, <2>8, <3>1, <4>1, Stays
      <3>3. CASE c \notin abandoned
        <4>1. Reading(pipe'[c], owed'[c], r, b)
          BY <1>5, <2>9, <3>0, <3>3
        <4>2. Doing(u)'
          BY <1>4, <2>9, <2>10, <2>12, <2>14, <3>3, <4>1, StartsReading
        <4> QED
          BY <1>2, <1>6, <1>7, <2>7, <2>8, <3>1, <4>2, Stays
      <3> QED
        BY <3>2, <3>3
    <2> QED
      BY <2>1, <2>13, <2>14
  <1> QED
    BY <1>1, <1>8, <1>9 DEF data

LEMMA ReceiveFailKeeps ==
  ASSUME IInv, NEW u \in Users, ReceiveFail(u) PROVE IInv'
  <1> USE DEF IInv
  <1>c. PICK c : c = conn[u]
    OBVIOUS
  <1>1. PICK s \in {"failing", "excepted"} : pc' = [pc EXCEPT ![u] = s]
    BY DEF ReceiveFail, Goto, AfterBroken
  <1>2. pc[u] = "sent" /\ UNCHANGED <<streamVars, conn, fresh, req, parsing, got, reply>>
    BY DEF ReceiveFail
  <1>3. c \in Conns /\ c # None /\ link'[c] # "none"
    BY <1>2, <1>c, ForwardingAssumption DEF TypeOK, Apart, streamVars
  <1>4. TypeOK'
    <2>1. pc' \in [Users -> UserStates]
      BY <1>1 DEF TypeOK, UserStates
    <2>2. \A v \in Users : conn'[v] = None => pc'[v] \in {"out", "failing", "excepted"}
      BY <1>1, <1>2 DEF TypeOK
    <2> QED
      BY <1>2, <2>1, <2>2 DEF TypeOK, streamVars
  <1>5. Alone(u) /\ Only(c)
    BY <1>1, <1>2 DEF Alone, Only, TypeOK, streamVars
  <1>6. c \notin abandoned => got[u] \subseteq {req[u]}
    BY <1>3, <1>c DEF InStep, Doing
  <1>7. /\ pc'[u] \in {"failing", "excepted"} /\ conn'[u] = c
        /\ abandoned' = abandoned /\ got'[u] = got[u] /\ req'[u] = req[u]
    BY <1>1, <1>2, <1>c DEF TypeOK, streamVars
  <1>8. Starting(u)' /\ Doing(u)'
    BY <1>6, <1>7, Waits
  <1> QED
    BY <1>2, <1>3, <1>c, <1>4, <1>5, <1>8, Stays DEF streamVars

LEMMA RefusedKeeps ==
  ASSUME IInv, NEW u \in Users, Refused(u) PROVE IInv'
  <1>1. /\ UNCHANGED <<streamVars, pc, conn, fresh, req, parsing, got>>
        /\ reply' = [reply EXCEPT ![u] = "failed"]
    BY DEF Refused, AfterError
  <1>2. TypeOK'
    BY <1>1 DEF IInv, TypeOK, Replies, streamVars
  <1>3. Apart'
    BY <1>1 DEF IInv, Apart, streamVars
  <1>4. InStep'
    <2>1. \A v \in Users : Starting(v)' /\ Doing(v)'
      BY <1>1 DEF IInv, InStep, Starting, Doing, Empty, streamVars
    <2>2. \A c \in ToSet(idle') : Clean(c)'
      BY <1>1 DEF IInv, InStep, Clean, Empty, streamVars
    <2> QED
      BY <2>1, <2>2 DEF InStep
  <1> QED
    BY <1>2, <1>3, <1>4 DEF IInv

\* The socket of a connection somebody has is open, reset or closed.
LEMMA HasLink ==
  ASSUME IInv, NEW u \in Users, conn[u] # None
  PROVE  conn[u] \in Conns /\ link[conn[u]] \in {"open", "reset", "closed"}
  <1>1. conn[u] \in Conns /\ link[conn[u]] # "none"
    BY DEF IInv, TypeOK, Apart
  <1> QED
    BY <1>1 DEF IInv, TypeOK

LEMMA FinishKeeps ==
  ASSUME IInv, NEW u \in Users, Finish(u) PROVE IInv'
  <1>1. /\ pc[u] = "done" /\ Return(u, link[conn[u]]) /\ Leave(u)
        /\ abandoned' = abandoned /\ reply' = reply
    BY DEF Finish
  <1>2. conn[u] # None
    BY <1>1 DEF IInv, TypeOK
  <1>3. conn[u] \in abandoned \/ Empty(conn[u])
    BY <1>1, <1>2 DEF IInv, InStep, Doing
  <1>4. abandoned \subseteq Conns /\ reply \in [Users -> Replies]
    BY DEF IInv, TypeOK
  <1> QED
    BY <1>1, <1>2, <1>3, <1>4, HasLink, GiveBack

LEMMA ExceptKeeps ==
  ASSUME IInv, NEW u \in Users, Except(u) PROVE IInv'
  <1>1. Leave(u) /\ reply' \in [Users -> Replies]
    BY DEF Except, IInv, TypeOK, Replies
  <1>2. CASE conn[u] = None
    BY <1>1, <1>2, LeaveEmptyHanded DEF Except
  <1>3. CASE conn[u] # None
    <2>1. /\ Return(u, link[conn[u]])
          /\ abandoned' = IF Outstanding(conn[u]) = <<>>
                          THEN abandoned ELSE abandoned \cup {conn[u]}
      BY <1>3 DEF Except
    <2>2. /\ conn[u] \in Conns /\ link[conn[u]] \in {"open", "reset", "closed"}
          /\ abandoned \subseteq Conns
      BY <1>3, HasLink DEF IInv, TypeOK
    <2>3. /\ abandoned' \subseteq Conns /\ abandoned \subseteq abandoned'
          /\ abandoned' \subseteq abandoned \cup {conn[u]}
      BY <2>1, <2>2
    <2>4. conn[u] \in abandoned' \/ Empty(conn[u])
      <3>1. pipe[conn[u]] \in Seq(Pieces) /\ owed[conn[u]] \in Seq(Pieces)
        BY <2>2 DEF IInv, TypeOK
      <3>2. Outstanding(conn[u]) = <<>> => Empty(conn[u])
        BY <3>1 DEF Outstanding, Empty
      <3> QED
        BY <2>1, <3>2
    <2> QED
      BY <1>1, <1>3, <2>1, <2>2, <2>3, <2>4, GiveBack
  <1> QED
    BY <1>2, <1>3

LEMMA FailKeeps ==
  ASSUME IInv, NEW u \in Users, Fail(u) PROVE IInv'
  <1>0. /\ pc[u] = "failing" /\ abandoned' = abandoned
        /\ abandoned \subseteq Conns /\ reply \in [Users -> Replies]
    BY DEF Fail, IInv, TypeOK
  <1>1. CASE /\ reply' = [reply EXCEPT ![u] = "failed"]
             /\ IF conn[u] = None
                THEN UNCHANGED <<idle, link, owed, pipe>>
                ELSE Return(u, "closed")
             /\ Leave(u)
    <2>1. reply' \in [Users -> Replies]
      BY <1>0, <1>1 DEF Replies
    <2>2. CASE conn[u] = None
      <3>1. UNCHANGED streamVars
        BY <1>0, <1>1, <2>2 DEF streamVars
      <3> QED
        BY <1>1, <2>1, <2>2, <3>1, LeaveEmptyHanded
    <2>3. CASE conn[u] # None
      BY <1>0, <1>1, <2>1, <2>3, GiveBack
    <2> QED
      BY <2>2, <2>3
  <1>2. CASE /\ Goto(u, "excepted")
             /\ UNCHANGED <<idle, link, owed, pipe, conn, fresh, req, parsing, got,
                            reply>>
    <2>c. PICK c : c = conn[u]
      OBVIOUS
    <2>1. /\ pc' = [pc EXCEPT ![u] = "excepted"]
          /\ UNCHANGED <<streamVars, conn, fresh, req, parsing, got, reply>>
      BY <1>0, <1>2 DEF Goto, streamVars
    <2>2. TypeOK'
      <3>1. pc' \in [Users -> UserStates]
        BY <2>1 DEF IInv, TypeOK, UserStates
      <3>2. \A v \in Users : conn'[v] = None => pc'[v] \in {"out", "failing", "excepted"}
        BY <2>1 DEF IInv, TypeOK
      <3> QED
        BY <2>1, <3>1, <3>2 DEF IInv, TypeOK, streamVars
    <2>3. Alone(u) /\ Only(c) /\ pc'[u] = "excepted"
      BY <2>1 DEF Alone, Only, IInv, TypeOK, streamVars
    <2>4. conn[u] # None /\ c \notin abandoned => got[u] \subseteq {req[u]}
      BY <2>c DEF IInv, InStep, Doing
    <2>5. Starting(u)' /\ Doing(u)'
      <3>1. /\ conn'[u] = conn[u] /\ conn[u] = c /\ abandoned' = abandoned
            /\ got'[u] = got[u] /\ req'[u] = req[u]
        BY <2>1, <2>c DEF streamVars
      <3> QED
        BY <2>3, <2>4, <3>1, Waits
    <2>6. CASE conn[u] = None
      BY <2>1, <2>2, <2>3, <2>5, <2>6, StaysWithout
    <2>7. CASE conn[u] # None
      <3>1. c \in Conns /\ link'[c] # "none" /\ idle' = idle /\ conn' = conn
        BY <2>1, <2>7, <2>c, HasLink DEF streamVars
      <3> QED
        BY <2>2, <2>3, <2>5, <2>c, <3>1, Stays
    <2> QED
      BY <2>6, <2>7
  <1> QED
    BY <1>1, <1>2 DEF Fail, AfterError, AfterClose

-----------------------------------------------------------------------------
(* The endpoint, and the pool.                                             *)

\* A connection of the pool that the endpoint changed.
LEMMA EndpointMoves ==
  ASSUME IInv, NEW c \in Conns, UNCHANGED <<idle, abandoned, userVars>>, Only(c),
         link[c] = "open", link'[c] \in {"open", "reset"}, TypeOK',
         Empty(c) => pipe'[c] = <<>> /\ owed'[c] = <<>>,
         \A r, more : Reading(pipe[c], owed[c], r, more) =>
                      Reading(pipe'[c], owed'[c], r, more)
  PROVE  IInv'
  <1> USE DEF IInv
  <1>1. Apart'
    <2>1. \A v \in Users : conn[v] # None =>
            conn[v] \notin ToSet(idle) /\ link'[conn[v]] # "none"
      BY HasLink DEF Apart, Only
    <2>2. \A d \in ToSet(idle) : link'[d] # "none"
      BY IdleConns DEF Apart, Only
    <2>3. \A d \in Conns : link'[d] = "none" => pipe'[d] = <<>> /\ owed'[d] = <<>>
      BY DEF Apart, Only
    <2>4. \A u, v \in Users : conn[u] = conn[v] /\ conn[u] # None => u = v
      BY DEF Apart
    <2> QED
      BY <2>1, <2>2, <2>3, <2>4 DEF Apart, userVars
  <1>2. ASSUME NEW v \in Users PROVE Starting(v)' /\ Doing(v)'
    <2>1. Starting(v) /\ Doing(v)
      BY DEF InStep
    <2>2. Starting(v)'
      BY <2>1 DEF Starting, userVars
    <2>d. PICK d, r, more : d = conn[v] /\ r = req[v] /\ more = parsing[v]
      OBVIOUS
    <2>3. /\ pc'[v] = pc[v] /\ conn'[v] = d /\ req'[v] = r /\ got'[v] = got[v]
          /\ parsing'[v] = more /\ abandoned' = abandoned
      BY <2>d DEF userVars
    <2>4. CASE d = c
      <3>1. /\ c # None /\ c \notin abandoned =>
                 /\ got[v] \subseteq {r}
                 /\ pc[v] = "held" => Empty(c)
                 /\ pc[v] = "sent" => Reading(pipe[c], owed[c], r, more)
                 /\ pc[v] = "done" => Empty(c)
        BY <2>1, <2>d, <2>4 DEF Doing
      <3>2. /\ c # None /\ c \notin abandoned =>
                 /\ got[v] \subseteq {r}
                 /\ pc[v] = "held" => pipe'[c] = <<>> /\ owed'[c] = <<>>
                 /\ pc[v] = "sent" => Reading(pipe'[c], owed'[c], r, more)
                 /\ pc[v] = "done" => pipe'[c] = <<>> /\ owed'[c] = <<>>
        BY <3>1
      <3>3. link'[c] # "closed"
        OBVIOUS
      <3> QED
        BY <2>2, <2>3, <2>4, <3>2, <3>3 DEF Doing, Empty
    <2>5. CASE d # c
      <3>1. CASE d = None
        BY <2>2, <2>3, <3>1 DEF Doing
      <3>2. CASE d # None
        <4>1. d \in Conns
          BY <2>d, <3>2 DEF TypeOK
        <4>2. link'[d] = link[d] /\ pipe'[d] = pipe[d] /\ owed'[d] = owed[d]
          BY <2>5, <4>1 DEF Only
        <4>3. Doing(v)'
          BY <2>1, <2>d, <2>3, <4>2 DEF Doing, Empty
        <4> QED
          BY <2>2, <4>3
      <3> QED
        BY <3>1, <3>2
    <2> QED
      BY <2>4, <2>5
  <1>3. ASSUME NEW d \in ToSet(idle) PROVE Clean(d)'
    <2>1. Clean(d) /\ d \in Conns
      BY IdleConns DEF InStep
    <2>2. CASE d = c
      BY <2>1, <2>2 DEF Clean, Empty
    <2>3. CASE d # c
      BY <2>1, <2>3 DEF Clean, Empty, Only
    <2> QED
      BY <2>2, <2>3
  <1> QED
    BY <1>1, <1>2, <1>3 DEF InStep

LEMMA AnswerKeeps ==
  ASSUME IInv, NEW c \in Conns, Answer(c) PROVE IInv'
  <1>p. PICK p, o : p = pipe[c] /\ o = owed[c]
    OBVIOUS
  <1>1. /\ link[c] = "open" /\ o # <<>>
        /\ pipe' = [pipe EXCEPT ![c] = Append(p, Head(o))]
        /\ owed' = [owed EXCEPT ![c] = Tail(o)]
        /\ UNCHANGED <<idle, link, abandoned, userVars>>
    BY <1>p DEF Answer
  <1>2. p \in Seq(Pieces) /\ o \in Seq(Pieces)
    BY <1>p DEF IInv, TypeOK
  <1>3. Append(p, Head(o)) \in Seq(Pieces) /\ Tail(o) \in Seq(Pieces)
    BY <1>1, <1>2
  <1>4. /\ pipe' \in [Conns -> Seq(Pieces)] /\ owed' \in [Conns -> Seq(Pieces)]
        /\ pipe'[c] = Append(p, Head(o)) /\ owed'[c] = Tail(o)
    BY <1>1, <1>3 DEF IInv, TypeOK
  <1>5. TypeOK'
    BY <1>1, <1>4 DEF IInv, TypeOK, userVars
  <1>6. Only(c)
    BY <1>1 DEF Only, IInv, TypeOK
  <1>7. ~Empty(c)
    BY <1>1, <1>p DEF Empty
  <1>8. \A r, more : Reading(pipe[c], owed[c], r, more) =>
                     Reading(pipe'[c], owed'[c], r, more)
    BY <1>1, <1>p, <1>4, ReadingArrives
  <1> QED
    BY <1>1, <1>5, <1>6, <1>7, <1>8, EndpointMoves

LEMMA HangUpKeeps ==
  ASSUME IInv, NEW c \in Conns, HangUp(c) PROVE IInv'
  <1>1. /\ link[c] = "open"
        /\ link' = [link EXCEPT ![c] = "reset"]
        /\ owed' = [owed EXCEPT ![c] = <<>>]
        /\ UNCHANGED <<idle, pipe, abandoned, userVars>>
    BY DEF HangUp
  <1>2. <<>> \in Seq(Pieces)
    OBVIOUS
  <1>3. /\ link' \in [Conns -> {"none", "open", "reset", "closed"}]
        /\ owed' \in [Conns -> Seq(Pieces)]
        /\ link'[c] = "reset" /\ owed'[c] = <<>> /\ pipe'[c] = pipe[c]
    BY <1>1, <1>2 DEF IInv, TypeOK
  <1>4. TypeOK'
    BY <1>1, <1>3 DEF IInv, TypeOK, userVars
  <1>5. Only(c)
    BY <1>1 DEF Only, IInv, TypeOK
  <1>6. Empty(c) => pipe'[c] = <<>> /\ owed'[c] = <<>>
    BY <1>3 DEF Empty
  <1>7. \A r, more : Reading(pipe[c], owed[c], r, more) =>
                     Reading(pipe'[c], owed'[c], r, more)
    BY <1>3, ReadingLost
  <1> QED
    BY <1>1, <1>3, <1>4, <1>5, <1>6, <1>7, EndpointMoves

LEMMA RetireKeeps ==
  ASSUME IInv, Retire PROVE IInv'
  <1> USE DEF IInv
  <1>c. PICK c : c = Head(idle)
    OBVIOUS
  <1>1. /\ idle # <<>> /\ idle' = Tail(idle)
        /\ link' = [link EXCEPT ![c] = "none"]
        /\ owed' = [owed EXCEPT ![c] = <<>>]
        /\ pipe' = [pipe EXCEPT ![c] = <<>>]
        /\ UNCHANGED <<abandoned, userVars>>
    BY <1>c DEF Retire
  <1>2. /\ idle' \in Seq(Conns) /\ Distinct(idle') /\ c \in Conns
        /\ c \in ToSet(idle) /\ ToSet(idle') = ToSet(idle) \ {c}
    <2>1. idle \in Seq(Conns) /\ Distinct(idle)
      BY DEF TypeOK, Apart
    <2> QED
      BY <1>1, <1>c, <2>1, TakeFirst
  <1>3. /\ owed' \in [Conns -> Seq(Pieces)] /\ pipe' \in [Conns -> Seq(Pieces)]
        /\ link' \in [Conns -> {"none", "open", "reset", "closed"}]
    <2>1. <<>> \in Seq(Pieces)
      OBVIOUS
    <2> QED
      BY <1>1, <2>1 DEF TypeOK
  <1>4. TypeOK'
    BY <1>1, <1>2, <1>3 DEF TypeOK, userVars
  <1>5. \A d \in Conns \ {c} : link'[d] = link[d] /\ pipe'[d] = pipe[d] /\ owed'[d] = owed[d]
    BY <1>1 DEF TypeOK
  <1>6. \A v \in Users : conn[v] # None =>
          conn[v] \in Conns \ {c} /\ conn[v] \notin ToSet(idle) /\ link[conn[v]] # "none"
    BY <1>2 DEF Apart, TypeOK
  <1>7. Apart'
    <2>1. \A v \in Users : conn[v] # None =>
            conn[v] \notin ToSet(idle') /\ link'[conn[v]] # "none"
      BY <1>2, <1>5, <1>6
    <2>2. \A d \in ToSet(idle') : link'[d] # "none"
      BY <1>2, <1>5, IdleConns DEF Apart
    <2>3. \A d \in Conns : link'[d] = "none" => pipe'[d] = <<>> /\ owed'[d] = <<>>
      BY <1>1, <1>5 DEF Apart, TypeOK
    <2>4. \A u, v \in Users : conn[u] = conn[v] /\ conn[u] # None => u = v
      BY DEF Apart
    <2> QED
      BY <1>1, <1>2, <2>1, <2>2, <2>3, <2>4 DEF Apart, userVars
  <1>8. ASSUME NEW v \in Users PROVE Starting(v)' /\ Doing(v)'
    <2>1. Starting(v) /\ Doing(v)
      BY DEF InStep
    <2>2. Starting(v)'
      BY <1>1, <2>1 DEF Starting, userVars
    <2>d. PICK d : d = conn[v]
      OBVIOUS
    <2>3. CASE d = None
      BY <1>1, <2>2, <2>d, <2>3 DEF Doing, userVars
    <2>4. CASE d # None
      <3>1. link'[d] = link[d] /\ pipe'[d] = pipe[d] /\ owed'[d] = owed[d]
        BY <1>5, <1>6, <2>d, <2>4
      <3>2. Doing(v)'
        BY <1>1, <2>1, <2>d, <3>1 DEF Doing, Empty, userVars
      <3> QED
        BY <2>2, <3>2
    <2> QED
      BY <2>3, <2>4
  <1>9. ASSUME NEW d \in ToSet(idle') PROVE Clean(d)'
    <2>1. d \in Conns \ {c} /\ Clean(d)
      BY <1>2, IdleConns DEF InStep
    <2> QED
      BY <1>1, <1>5, <2>1 DEF Clean, Empty
  <1> QED
    BY <1>4, <1>7, <1>8, <1>9 DEF InStep

LEMMA StutterKeeps == ASSUME IInv, UNCHANGED vars PROVE IInv'
  <1> USE DEF vars, streamVars, userVars
  <1>1. TypeOK'
    BY DEF IInv, TypeOK
  <1>2. Apart'
    BY DEF IInv, Apart
  <1>3. InStep'
    <2>1. \A u \in Users : Starting(u)' /\ Doing(u)'
      BY DEF IInv, InStep, Starting, Doing, Empty
    <2>2. \A c \in ToSet(idle') : Clean(c)'
      BY DEF IInv, InStep, Clean, Empty
    <2> QED
      BY <2>1, <2>2 DEF InStep
  <1> QED
    BY <1>1, <1>2, <1>3 DEF IInv

LEMMA IInvHolds == Spec => []IInv
  <1>1. Init => IInv
    BY Starts
  <1>2. IInv /\ [Next]_vars => IInv'
    <2> SUFFICES ASSUME IInv, [Next]_vars PROVE IInv'
      OBVIOUS
    <2>1. ASSUME NEW u \in Users, UserStep(u) PROVE IInv'
      <3> USE DEF UserStep
      <3>1. CASE Acquire(u)
        BY <3>1, AcquireKeeps
      <3>2. CASE Refused(u)
        BY <3>2, RefusedKeeps
      <3>3. CASE Send(u)
        BY <3>3, SendKeeps
      <3>4. CASE Resend(u)
        BY <3>4, ResendKeeps
      <3>5. CASE SendFail(u)
        BY <3>5, SendFailKeeps
      <3>6. CASE Receive(u)
        BY <3>6, ReceiveKeeps
      <3>7. CASE ReceiveFail(u)
        BY <3>7, ReceiveFailKeeps
      <3>8. CASE Finish(u)
        BY <3>8, FinishKeeps
      <3>9. CASE Fail(u)
        BY <3>9, FailKeeps
      <3>10. CASE Except(u)
        BY <3>10, ExceptKeeps
      <3> QED
        BY <2>1, <3>1, <3>2, <3>3, <3>4, <3>5, <3>6, <3>7, <3>8, <3>9, <3>10
    <2>2. ASSUME NEW c \in Conns, Answer(c) PROVE IInv'
      BY <2>2, AnswerKeeps
    <2>3. ASSUME NEW c \in Conns, HangUp(c) PROVE IInv'
      BY <2>3, HangUpKeeps
    <2>4. CASE Retire
      BY <2>4, RetireKeeps
    <2>5. CASE UNCHANGED vars
      BY <2>5, StutterKeeps
    <2> QED
      BY <2>1, <2>2, <2>3, <2>4, <2>5 DEF Next
  <1> QED
    BY <1>1, <1>2, PTL DEF Spec

-----------------------------------------------------------------------------
\* The variables always have the values the code gives them, for any users,
\* connections and requests.
THEOREM TypeCorrect == Spec => []TypeOK
  <1>1. IInv => TypeOK
    BY DEF IInv
  <1> QED
    BY <1>1, IInvHolds, PTL

\* What a user takes for the answer of its request is the answer of its request,
\* unless it goes on with a connection that an exception left in the middle of an
\* exchange: handle_client and the sync test give such a connection back.
THEOREM AnswersAreMatched == Spec => []Matched
  <1>1. IInv => Matched
    BY DEF IInv, InStep, Doing, Matched
  <1> QED
    BY <1>1, IInvHolds, PTL

\* A connection is kept for reuse with nothing to come on it, or closed, unless
\* it was left in the middle of an exchange.
THEOREM IdleConnectionsAreClean == Spec => []IdleIsClean
  <1>1. ASSUME IInv PROVE IdleIsClean
    <2>1. ASSUME NEW c \in ToSet(idle) \ abandoned, link[c] # "closed"
          PROVE  Outstanding(c) = <<>>
      <3>1. pipe[c] = <<>> /\ owed[c] = <<>>
        BY <1>1, <2>1 DEF IInv, InStep, Clean, Empty
      <3>2. <<>> \o <<>> = <<>>
        OBVIOUS
      <3> QED
        BY <3>1, <3>2 DEF Outstanding
    <2> QED
      BY <2>1 DEF IdleIsClean
  <1> QED
    BY <1>1, IInvHolds, PTL

\* A thread that is free again has answered its client or failed it.
Answered ==
  \A u \in Users : /\ pc[u] = "done" => reply[u] = "full"
                   /\ pc[u] = "out" => reply[u] \notin {"none", "part"}

\* No worker of handle_client is free again before its client was answered in
\* full, told of an error or disconnected.
THEOREM WorkersAnswer == Spec => []ClientsAreAnswered
  <1>1. Init => Answered
    BY DEF Init, Answered
  <1>2. IInv /\ Answered /\ [Next]_vars => Answered'
    <2> SUFFICES ASSUME IInv, Answered, [Next]_vars PROVE Answered'
      OBVIOUS
    <2>t. pc \in [Users -> UserStates] /\ reply \in [Users -> Replies]
      BY DEF IInv, TypeOK
    <2>1. ASSUME NEW u \in Users, UserStep(u) PROVE Answered'
      <3> USE <2>t DEF Answered, Goto
      <3>1. CASE Acquire(u)
        BY <3>1 DEF Acquire
      <3>2. CASE Refused(u)
        BY <3>2 DEF Refused, AfterError
      <3>3. CASE Send(u)
        BY <3>3 DEF Send
      <3>4. CASE Resend(u)
        BY <3>4 DEF Resend
      <3>5. CASE SendFail(u)
        BY <3>5 DEF SendFail, AfterBroken
      <3>6. CASE Receive(u)
        <4>1. pc[u] = "sent"
          BY <3>6 DEF Receive
        <4>2. PICK n : LET data == SubSeq(pipe[conn[u]], 1, n)
                       IN  Deliver(u, data) \/ DeliverFail(u, data)
          BY <3>6 DEF Receive
        <4>3. \/ pc' = [pc EXCEPT ![u] = "done"] /\ reply' = [reply EXCEPT ![u] = "full"]
              \/ pc' = pc /\ reply' = [reply EXCEPT ![u] = "part"]
              \/ /\ \E s \in {"failing", "excepted"} : pc' = [pc EXCEPT ![u] = s]
                 /\ reply' = reply
          BY <4>2 DEF Deliver, DeliverFail, AfterBroken
        <4> QED
          BY <4>1, <4>3
      <3>7. CASE ReceiveFail(u)
        BY <3>7 DEF ReceiveFail, AfterBroken
      <3>8. CASE Finish(u)
        <4>1. /\ pc[u] = "done" /\ pc' = [pc EXCEPT ![u] = "out"]
              /\ reply' = reply
          BY <3>8 DEF Finish, Leave
        <4> QED
          BY <4>1
      <3>9. CASE Fail(u)
        BY <3>9 DEF Fail, Leave, AfterError
      <3>10. CASE Except(u)
        BY <3>10 DEF Except, Leave
      <3> QED
        BY <2>1, <3>1, <3>2, <3>3, <3>4, <3>5, <3>6, <3>7, <3>8, <3>9, <3>10
           DEF UserStep
    <2>2. CASE UNCHANGED userVars
      BY <2>2 DEF Answered, userVars
    <2> QED
      BY <2>1, <2>2 DEF Next, Answer, HangUp, Retire, vars
  <1>3. Answered => ClientsAreAnswered
    BY DEF Answered, ClientsAreAnswered
  <1> QED
    BY <1>1, <1>2, <1>3, IInvHolds, PTL DEF Spec
=============================================================================
