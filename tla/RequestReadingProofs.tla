----------------------- MODULE RequestReadingProofs -----------------------
(***************************************************************************)
(* Proofs about RequestReading, for any messages that a client sends, any  *)
(* number of them, cut into chunks anywhere.                               *)
(***************************************************************************)
EXTENDS RequestReading, SequenceTheorems, WellFoundedInduction, TLAPS

Accepted == {"ok", "405", "401", "-32003", "none"}
Allowed(key) == key \in Authorized \/ (sim /\ key = None)

\* A content that is a valid document.
Welcome(c) == c # None /\ Whole(c) /\ Valid(Doc(c))

\* What a request is once so many parts of one message were fed to a parser.
Half(r, n, k) ==
  /\ k = 0 => r = NoRequest
  /\ k > 0 => r.stage # "start" /\ r.key = sent[n].key /\ r.verb = sent[n].verb
  /\ r.stage = "complete" <=> ~r.need
  /\ r.stage = "error" <=> sent[n].verb = "broken" /\ k >= 2
  /\ r.stage = "complete" => k = Len(Parts(n, sent[n]))
  /\ r.stage # "error" /\ k = Len(Parts(n, sent[n])) => r.stage = "complete"
  /\ k <= 2 => r.content = None
  /\ r.content # None => r.content.n = n
  /\ r.stage = "error" => r.content = None

-----------------------------------------------------------------------------
(* The invariant: what is in the state, what became of the requests that   *)
(* were read, and where in its message a client that waits is.             *)

Typed ==
  /\ sent \in Seq(Messages)
  /\ stream \in Seq(Pieces)
  /\ req \in Requests
  /\ at \in {"pending", "reading", "read", "closed"}
  /\ pipelined \in BOOLEAN
  /\ Len(log) \in Nat /\ log = [i \in 1 .. Len(log) |-> log[i]]
  /\ at = "read" => req.stage = "error" \/ ~req.need

\* What became of the request of a turn.
Answered(o, i) ==
  /\ o.content \in Contents
  /\ o.to = "endpoint" =>
       /\ o.content # None
       /\ Allowed(o.key)
       /\ parsed => Welcome(o.content)
  /\ ~pipelined => i <= Len(sent)
  /\ ~pipelined /\ o.to = "endpoint" =>
       /\ o.key = sent[i].key /\ o.content.n = i /\ sent[i].verb = "POST"
  /\ ~pipelined /\ parsed /\ Welcome(o.content) => o.code \in Accepted

AllAnswered == \A i \in 1 .. Len(log) : Answered(log[i], i)

\* A client that waits has at most one message that is not answered yet, and
\* what is left to read of it follows what was read.
LeftOf(n, k) == SubSeq(Parts(n, sent[n]), k + 1, Len(Parts(n, sent[n])))

Waits ==
  ~pipelined =>
    /\ at = "pending" => 
         \/ Len(sent) = Len(log) /\ stream = << >>
         \/ Len(sent) = Len(log) + 1 /\ stream = Parts(Len(sent), sent[Len(sent)])
    /\ at \in {"reading", "read"} =>
         /\ Len(sent) = Len(log) + 1
         /\ \E k \in 0 .. Len(Parts(Len(sent), sent[Len(sent)])) :
              stream = LeftOf(Len(sent), k) /\ Half(req, Len(sent), k)
    /\ at = "closed" => Len(log) <= Len(sent)

ReadingInv == Typed /\ AllAnswered /\ Waits

-----------------------------------------------------------------------------
(* Induction over a chunk, by its least counterexample.                    *)

\* A set of numbers has a least one.
LEMMA LeastExists ==
  ASSUME NEW S, S \subseteq Nat, S # {}
  PROVE  \E x \in S : \A y \in S : x <= y
  <1>1. PICK x \in S : \A y \in S : <<y, x>> \notin OpToRel(<, Nat)
    BY NatLessThanWellFounded, WFMin
  <1>2. \A y \in S : ~(y < x)
    BY <1>1, Zenon DEF OpToRel
  <1> QED
    BY <1>2

\* What holds at 0 and of a number after each holds up to the last.
LEMMA UpTo ==
  ASSUME NEW n \in Nat, NEW S, 0 \in S,
         \A i \in 1 .. n : i - 1 \in S => i \in S
  PROVE  0 .. n \subseteq S
  <1> DEFINE wrong == (0 .. n) \ S
  <1>1. ASSUME wrong # {} PROVE FALSE
    <2>0. wrong \subseteq Nat
      OBVIOUS
    <2>1. PICK x \in wrong : \A y \in wrong : x <= y
      BY <1>1, <2>0, LeastExists
    <2>2. x \in 1 .. n /\ x - 1 \in 0 .. n
      BY <2>1
    <2>3. x - 1 \in S
      BY <2>1, <2>2
    <2> QED
      BY <2>1, <2>2, <2>3
  <1> QED
    BY <1>1

\* What the parser is fed.
Fed(f, r, chunk) ==
  f = [i \in 0 .. Len(chunk) |-> IF i = 0 THEN r ELSE Callback(f[i - 1], chunk[i])]

\* There is such a function: a shorter one is continued.
LEMMA FeedExists ==
  ASSUME NEW r, NEW chunk, Len(chunk) \in Nat
  PROVE  \E f : Fed(f, r, chunk)
  <1> DEFINE Some(n, f) ==
               f = [i \in 0 .. n |-> IF i = 0 THEN r ELSE Callback(f[i - 1], chunk[i])]
             S == {n \in 0 .. Len(chunk) : \E f : Some(n, f)}
  <1>1. 0 \in S
    <2> DEFINE f == [i \in 0 .. 0 |-> r]
    <2>1. Some(0, f)
      OBVIOUS
    <2>2. \E h : Some(0, h)
      BY <2>1
    <2> HIDE DEF Some
    <2> QED
      BY <2>2
  <1>2. ASSUME NEW n \in 1 .. Len(chunk), n - 1 \in S PROVE n \in S
    <2>1. PICK f : Some(n - 1, f)
      BY <1>2
    <2> DEFINE g == [i \in 0 .. n |-> IF i = n THEN Callback(f[n - 1], chunk[n]) ELSE f[i]]
    <2>2. \A i \in 0 .. n - 1 : g[i] = f[i]
      OBVIOUS
    <2>3. \A i \in 0 .. n - 1 : f[i] = IF i = 0 THEN r ELSE Callback(f[i - 1], chunk[i])
      BY <2>1
    <2>4. \A i \in 0 .. n : g[i] = IF i = 0 THEN r ELSE Callback(g[i - 1], chunk[i])
      <3>1. ASSUME NEW i \in 0 .. n - 1
            PROVE  g[i] = IF i = 0 THEN r ELSE Callback(g[i - 1], chunk[i])
        <4>1. i # 0 => g[i - 1] = f[i - 1]
          BY <2>2
        <4> QED
          BY <2>2, <2>3, <4>1
      <3>2. g[n] = Callback(g[n - 1], chunk[n])
        BY <2>2
      <3>3. n # 0 /\ \A i \in 0 .. n : i = n \/ i \in 0 .. n - 1
        OBVIOUS
      <3> HIDE DEF g
      <3> QED
        BY <3>1, <3>2, <3>3
    <2>5. Some(n, g)
      <3>1. DOMAIN g = 0 .. n /\ g = [i \in 0 .. n |-> g[i]]
        OBVIOUS
      <3> HIDE DEF g
      <3> QED
        BY <2>4, <3>1
    <2>6. \E h : Some(n, h)
      BY <2>5
    <2> HIDE DEF Some
    <2> QED
      BY <2>6
  <1> HIDE DEF S
  <1>3. 0 .. Len(chunk) \subseteq S
    BY <1>1, <1>2, UpTo
  <1>4. \E f : Some(Len(chunk), f)
    BY <1>3 DEF S
  <1> QED
    BY <1>4 DEF Fed

\* What holds before a chunk and is kept by each callback holds after it: good
\* has the requests that may be there after so many parts.
LEMMA FeedKeeps ==
  ASSUME NEW r, NEW chunk, Len(chunk) \in Nat, NEW good, r \in good[0],
         \A i \in 1 .. Len(chunk) : \A x \in good[i - 1] :
           Callback(x, chunk[i]) \in good[i]
  PROVE  FeedData(r, chunk) \in good[Len(chunk)]
  <1> DEFINE fed == CHOOSE f : Fed(f, r, chunk)
             S == {i \in 0 .. Len(chunk) : fed[i] \in good[i]}
  <1>1. Fed(fed, r, chunk)
    BY FeedExists
  <1>2. FeedData(r, chunk) = fed[Len(chunk)]
    BY DEF FeedData, Fed
  <1> HIDE DEF fed
  <1>3. \A i \in 0 .. Len(chunk) : fed[i] = IF i = 0 THEN r ELSE Callback(fed[i - 1], chunk[i])
    BY <1>1 DEF Fed
  <1>4. 0 \in S
    BY <1>3
  <1>5. \A i \in 1 .. Len(chunk) : i - 1 \in S => i \in S
    BY <1>3
  <1> HIDE DEF S
  <1>6. 0 .. Len(chunk) \subseteq S
    BY <1>4, <1>5, UpTo
  <1>7. fed[Len(chunk)] \in good[Len(chunk)]
    BY <1>6 DEF S
  <1> QED
    BY <1>2, <1>7

-----------------------------------------------------------------------------
(* The parser: what its callbacks, and a whole chunk of parts, make of a   *)
(* request.                                                                *)

\* The parts of a message, as a parser reports them.
LEMMA PartsShape ==
  ASSUME NEW n, NEW m \in Messages
  PROVE  /\ Len(Parts(n, m)) = m.pieces + 3 /\ m.pieces \in 0 .. 2
         /\ Parts(n, m) = [i \in 1 .. m.pieces + 3 |-> Parts(n, m)[i]]
         /\ Parts(n, m)[1] = Part(n, "url")
         /\ Parts(n, m)[2] = Part(n, IF m.verb = "broken" THEN "junk" ELSE "header")
         /\ \A i \in 3 .. m.pieces + 2 : \E ev \in Bodies : Parts(n, m)[i] = Part(n, ev)
         /\ Parts(n, m)[m.pieces + 3] = Part(n, "end")
  <1> DEFINE a == Part(n, "url")
             b == Part(n, IF m.verb = "broken" THEN "junk" ELSE "header")
             c == Part(n, "end")
             body == [i \in 1 .. m.pieces |-> Part(n, IF m.pieces = 1 THEN "body"
                                         ELSE IF i = m.pieces THEN "tail"
                                         ELSE "head")]
             X == {a, b, c} \cup {Part(n, ev) : ev \in Bodies}
  <1>1. m.pieces \in 0 .. 2
    BY MessagesAssumption
  <1>2. \A i \in 1 .. m.pieces : \E ev \in Bodies : body[i] = Part(n, ev)
    BY DEF Bodies
  <1>3. body \in Seq(X) /\ Len(body) = m.pieces
    <2>1. body \in [1 .. m.pieces -> X]
      BY <1>2 DEF Bodies
    <2> QED
      BY <1>1, <2>1
  <1>4. a \in X /\ b \in X /\ c \in X
    OBVIOUS
  <1>5. Parts(n, m) = <<a, b>> \o body \o <<c>>
    BY DEF Parts
  <1> HIDE DEF a, b, c, body, X
  <1> DEFINE front == <<a, b>> \o body
  <1>6. /\ front \in Seq(X) /\ Len(front) = m.pieces + 2
        /\ front[1] = a /\ front[2] = b
        /\ \A i \in 3 .. m.pieces + 2 : front[i] = body[i - 2]
    BY <1>1, <1>3, <1>4
  <1> HIDE DEF front
  <1> DEFINE all == front \o <<c>>
  <1>7. /\ all \in Seq(X) /\ Len(all) = m.pieces + 3
        /\ \A i \in 1 .. m.pieces + 2 : all[i] = front[i]
        /\ all[m.pieces + 3] = c
    BY <1>1, <1>4, <1>6
  <1>8. Parts(n, m) = all
    BY <1>5 DEF front
  <1>9. all = [i \in 1 .. m.pieces + 3 |-> all[i]]
    BY <1>7
  <1> HIDE DEF all
  <1>10. \A i \in 3 .. m.pieces + 2 : \E ev \in Bodies : all[i] = Part(n, ev)
    <2> SUFFICES ASSUME NEW i \in 3 .. m.pieces + 2
                 PROVE  \E ev \in Bodies : all[i] = Part(n, ev)
      OBVIOUS
    <2>1. all[i] = body[i - 2] /\ i - 2 \in 1 .. m.pieces
      BY <1>1, <1>6, <1>7
    <2> QED
      BY <1>2, <2>1
  <1>11. all[1] = a /\ all[2] = b
    BY <1>1, <1>6, <1>7
  <1> QED
    BY <1>1, <1>7, <1>8, <1>9, <1>10, <1>11 DEF a, b, c

\* What a worker begins with.
LEMMA NoRequestTyped == NoRequest \in Requests /\ NoRequest.content = None
  BY DEF NoRequest, Requests, Stages, Keys, Contents, Verbs

\* A callback on a request, by its fields.
LEMMA CallbackTyped ==
  ASSUME sent \in Seq(Messages), NEW r \in Requests, NEW p \in Pieces
  PROVE  Callback(r, p) \in Requests
  <1>1. sent[p.n] \in Messages /\ p.ev \in {"url", "junk", "header", "end"} \cup Bodies
    BY DEF Pieces
  <1> DEFINE m == sent[p.n]
  <1>2. m.key \in Keys /\ m.verb \in Verbs
    BY <1>1, MessagesAssumption DEF Keys, Verbs
  <1> HIDE DEF m
  <1>3. ASSUME NEW s \in Stages PROVE [r EXCEPT !.stage = s] \in Requests
    BY DEF Requests
  <1>4. OnUrl(r, p) \in Requests
    <2>1. [r EXCEPT !.stage = "url", !.key = m.key, !.verb = m.verb] \in Requests
      BY <1>2 DEF Requests, Stages
    <2> QED
      BY <1>3, <2>1 DEF OnUrl, Stages, m
  <1>5. OnHeader(r, p) \in Requests
    <2>1. ASSUME NEW k \in BOOLEAN
          PROVE [r EXCEPT !.keep_alive = k, !.last = TRUE] \in Requests
      BY DEF Requests
    <2>2. (m.connection # "close") \in BOOLEAN
      OBVIOUS
    <2> QED
      BY <2>1, <2>2 DEF OnHeader, m
  <1>6. OnMessageComplete(r) \in Requests
    BY DEF Requests, OnMessageComplete, Stages
  <1>7. p.ev \in Bodies => OnBody(r, p) \in Requests
    <2>1. p.ev \in Bodies => p \in Contents
      BY DEF Contents, Pieces
    <2> QED
      BY <2>1 DEF Requests, OnBody
  <1> QED
    BY <1>1, <1>3, <1>4, <1>5, <1>6, <1>7 DEF Callback, Stages, Bodies

\* The next part of a message takes its request one part further.
LEMMA CallbackHalf ==
  ASSUME sent \in Seq(Messages), NEW n \in 1 .. Len(sent), NEW r \in Requests,
         NEW k \in 1 .. Len(Parts(n, sent[n])), Half(r, n, k - 1)
  PROVE  Half(Callback(r, Parts(n, sent[n])[k]), n, k)
  <1> DEFINE m == sent[n]
             P == Parts(n, m)
             p == P[k]
             c == Callback(r, p)
  <1>1. m \in Messages
    OBVIOUS
  <1>2. Len(P) = m.pieces + 3 /\ m.pieces \in 0 .. 2
    BY <1>1, PartsShape
  <1>3. CASE k = 1
    <2>1. p = Part(n, "url")
      BY <1>1, <1>3, PartsShape
    <2>2. r = NoRequest
      BY <1>3 DEF Half
    <2>3. c = [NoRequest EXCEPT !.stage = "url", !.key = m.key, !.verb = m.verb]
      BY <2>1, <2>2 DEF Callback, OnUrl, Part, NoRequest
    <2>4. c.stage = "url" /\ c.key = m.key /\ c.verb = m.verb /\ c.need
          /\ c.content = None
      BY <2>3 DEF NoRequest
    <2> HIDE DEF c, p, P
    <2> QED
      BY <1>2, <1>3, <2>4 DEF Half, P, c, p
  <1>4. CASE k = 2
    <2>1. p = Part(n, IF m.verb = "broken" THEN "junk" ELSE "header")
      BY <1>1, <1>4, PartsShape
    <2>2. /\ r.stage = "url" /\ r.need /\ r.content = None
          /\ r.key = m.key /\ r.verb = m.verb
      BY <1>2, <1>4 DEF Half, Requests, Stages
    <2>3. CASE m.verb = "broken"
      <3>1. c = [r EXCEPT !.stage = "error"]
        BY <2>1, <2>2, <2>3 DEF Callback, Part
      <3>2. c.stage = "error" /\ c.need /\ c.content = None
            /\ c.key = m.key /\ c.verb = m.verb
        BY <2>2, <3>1 DEF Requests
      <3> HIDE DEF c, p, P
      <3> QED
        BY <1>2, <1>4, <2>3, <3>2 DEF Half, P, c, p
    <2>4. CASE m.verb # "broken"
      <3>1. c = OnHeader(r, p) /\ p.n = n
        BY <2>1, <2>2, <2>4 DEF Callback, Part
      <3>2. c.stage = "url" /\ c.need /\ c.content = None
            /\ c.key = m.key /\ c.verb = m.verb
        BY <2>2, <3>1 DEF OnHeader, Requests
      <3> HIDE DEF c, p, P
      <3> QED
        BY <1>2, <1>4, <2>4, <3>2 DEF Half, P, c, p
    <2> QED
      BY <2>3, <2>4
  <1>5. CASE k > 2 /\ m.verb = "broken"
    <2>1. r.stage = "error"
      BY <1>2, <1>5 DEF Half
    <2>2. c = r
      BY <2>1 DEF Callback
    <2> HIDE DEF c, p, P
    <2> QED
      BY <1>2, <1>5, <2>1, <2>2 DEF Half, P, c, p
  <1>6. CASE k > 2 /\ m.verb # "broken"
    <2>1. /\ r.stage = "url" /\ r.need
          /\ r.key = m.key /\ r.verb = m.verb
          /\ r.content # None => r.content.n = n
      BY <1>2, <1>6 DEF Half, Requests, Stages
    <2>2. CASE k = m.pieces + 3
      <3>1. p = Part(n, "end")
        BY <1>1, <2>2, PartsShape
      <3>2. c = [r EXCEPT !.stage = "complete", !.need = FALSE]
        BY <1>6, <2>1, <3>1 DEF Callback, Part, OnMessageComplete
      <3>3. c.stage = "complete" /\ ~c.need /\ c.content = r.content
            /\ c.key = m.key /\ c.verb = m.verb
        BY <2>1, <3>2 DEF Requests
      <3> HIDE DEF c, p, P
      <3> QED
        BY <1>2, <1>6, <2>1, <2>2, <3>3 DEF Half, P, c, p
    <2>3. CASE k # m.pieces + 3
      <3>1. PICK ev \in Bodies : p = Part(n, ev)
        BY <1>1, <1>2, <1>6, <2>3, PartsShape
      <3>2. c = [r EXCEPT !.content = p]
        BY <1>6, <2>1, <3>1 DEF Callback, Part, OnBody, Bodies
      <3>3. /\ c.stage = "url" /\ c.need /\ c.content.n = n
            /\ c.key = m.key /\ c.verb = m.verb
        BY <2>1, <3>1, <3>2 DEF Requests, Part
      <3> HIDE DEF c, p, P
      <3> QED
        BY <1>2, <1>6, <2>1, <2>3, <3>3 DEF Half, P, c, p
    <2> QED
      BY <2>2, <2>3
  <1> QED
    BY <1>3, <1>4, <1>5, <1>6

\* Each part of a message is one.
LEMMA PartsTyped ==
  ASSUME NEW N \in Nat, NEW n \in 1 .. N, NEW m \in Messages
  PROVE  Parts(n, m) \in
           Seq([n : 1 .. N, ev : {"url", "junk", "header", "end"} \cup Bodies])
  <1> DEFINE P == Parts(n, m)
             S == [n : 1 .. N, ev : {"url", "junk", "header", "end"} \cup Bodies]
  <1>1. /\ m.pieces \in 0 .. 2
        /\ P = [i \in 1 .. m.pieces + 3 |-> P[i]]
    BY PartsShape
  <1>2. ASSUME NEW i \in 1 .. m.pieces + 3 PROVE P[i] \in S
    <2>1. i = 1 \/ i = 2 \/ i = m.pieces + 3 \/ i \in 3 .. m.pieces + 2
      BY <1>1
    <2>2. \A ev \in {"url", "junk", "header", "end"} \cup Bodies : Part(n, ev) \in S
      BY DEF Part
    <2>3. P[1] \in S /\ P[2] \in S /\ P[m.pieces + 3] \in S
      BY <2>2, PartsShape
    <2>4. i \in 3 .. m.pieces + 2 => P[i] \in S
      BY <2>2, PartsShape
    <2> QED
      BY <2>1, <2>3, <2>4
  <1> HIDE DEF P, S
  <1>3. P \in [1 .. m.pieces + 3 -> S]
    BY <1>1, <1>2
  <1>4. P \in Seq(S)
    BY <1>1, <1>3
  <1> QED
    BY <1>4 DEF P, S

\* Parts that were fed one after another.
LEMMA FeedTyped ==
  ASSUME sent \in Seq(Messages), NEW r \in Requests, NEW chunk \in Seq(Pieces)
  PROVE  FeedData(r, chunk) \in Requests
  <1> DEFINE good == [i \in 0 .. Len(chunk) |-> Requests]
  <1>1. \A i \in 1 .. Len(chunk) : \A x \in good[i - 1] :
          Callback(x, chunk[i]) \in good[i]
    BY CallbackTyped
  <1>2. r \in good[0] /\ Len(chunk) \in Nat
    OBVIOUS
  <1>3. good[Len(chunk)] = Requests
    OBVIOUS
  <1> HIDE DEF good
  <1> QED
    BY <1>1, <1>2, <1>3, FeedKeeps

\* A chunk of what is left of a message takes its request further.
LEMMA FeedHalf ==
  ASSUME sent \in Seq(Messages), NEW n \in 1 .. Len(sent), NEW r \in Requests,
         NEW k \in 0 .. Len(Parts(n, sent[n])), Half(r, n, k),
         NEW size \in 1 .. Len(LeftOf(n, k))
  PROVE  /\ k + size \in 0 .. Len(Parts(n, sent[n]))
         /\ Half(FeedData(r, SubSeq(LeftOf(n, k), 1, size)), n, k + size)
         /\ SubSeq(LeftOf(n, k), size + 1, Len(LeftOf(n, k))) = LeftOf(n, k + size)
  <1> DEFINE P == Parts(n, sent[n])
             L == LeftOf(n, k)
             C == SubSeq(L, 1, size)
             R == SubSeq(L, size + 1, Len(L))
  <1>1. P \in Seq(Pieces)
    <2>1. Len(sent) \in Nat /\ sent[n] \in Messages
      OBVIOUS
    <2> QED
      BY <2>1, PartsTyped DEF Pieces
  <1>2. Len(P) \in Nat
    BY <1>1
  <1>3. /\ L \in Seq(Pieces) /\ Len(L) = Len(P) - k
        /\ \A i \in 1 .. Len(P) - k : L[i] = P[k + i]
    <2> HIDE DEF P
    <2>1. L = SubSeq(P, k + 1, Len(P))
      BY DEF LeftOf, P
    <2> HIDE DEF L
    <2> QED
      BY <1>1, <1>2, <2>1 DEF P
  <1>4. k + size \in 0 .. Len(P) /\ size \in 1 .. Len(P) - k /\ size \in Nat
    <2> HIDE DEF P, L
    <2> QED
      BY <1>2, <1>3 DEF P, L
  <1>5. /\ Len(C) = size
        /\ \A i \in 1 .. size : C[i] = P[k + i]
    <2> HIDE DEF P, L
    <2> QED
      BY <1>2, <1>3, <1>4
  <1>6. R = LeftOf(n, k + size)
    <2> DEFINE Q == LeftOf(n, k + size)
    <2> HIDE DEF P
    <2>1. /\ Q \in Seq(Pieces) /\ Len(Q) = Len(P) - k - size
          /\ \A i \in 1 .. Len(P) - k - size : Q[i] = P[k + size + i]
      <3>1. Q = SubSeq(P, k + size + 1, Len(P))
        BY DEF LeftOf, P
      <3> HIDE DEF Q
      <3> QED
        BY <1>1, <1>2, <1>4, <3>1
    <2> HIDE DEF Q, L
    <2>2. /\ R \in Seq(Pieces) /\ Len(R) = Len(P) - k - size
          /\ \A i \in 1 .. Len(P) - k - size : R[i] = P[k + size + i]
      <3> DEFINE N == Len(L)
      <3>1. N = Len(P) - k /\ N \in Nat /\ size + 1 \in 1 .. N + 1
        BY <1>2, <1>3, <1>4
      <3>2. R = SubSeq(L, size + 1, N)
        OBVIOUS
      <3> HIDE DEF R, N
      <3>3. /\ R \in Seq(Pieces) /\ Len(R) = N - size
            /\ \A i \in 1 .. N - size : R[i] = L[size + i]
        <4>1. L \in Seq(Pieces) /\ N \in Nat /\ size + 1 \in 1 .. N + 1 /\ N = Len(L)
          BY <1>3, <3>1 DEF N
        <4> QED
          BY <1>4, <3>2, <4>1
      <3>4. ASSUME NEW i \in 1 .. N - size PROVE L[size + i] = P[k + size + i]
        <4>1. size + i \in 1 .. Len(P) - k /\ k + (size + i) = k + size + i
          BY <1>2, <1>4, <3>1
        <4> QED
          BY <1>3, <4>1
      <3> QED
        BY <1>2, <1>4, <3>1, <3>3, <3>4
    <2> HIDE DEF R
    <2>3. Len(R) = Len(Q) /\ \A i \in 1 .. Len(R) : R[i] = Q[i]
      BY <2>1, <2>2
    <2>4. R = Q
      BY <2>1, <2>2, <2>3, SeqEqual
    <2> QED
      BY <2>4 DEF Q
  <1> DEFINE good == [i \in 0 .. size |-> {x \in Requests : Half(x, n, k + i)}]
  <1>7. r \in good[0]
    BY <1>4
  <1>8. ASSUME NEW i \in 1 .. size, NEW x \in good[i - 1]
        PROVE  Callback(x, C[i]) \in good[i]
    <2>1. x \in Requests /\ Half(x, n, (k + i) - 1) /\ k + i \in 1 .. Len(P)
      BY <1>2, <1>4, <1>8
    <2>2. C[i] = P[k + i]
      BY <1>5
    <2>3. Half(Callback(x, C[i]), n, k + i)
      BY <2>1, <2>2, CallbackHalf
    <2>4. Callback(x, C[i]) \in Requests
      <3>1. C[i] \in Pieces
        <4> HIDE DEF C, P
        <4> QED
          BY <1>1, <2>1, <2>2
      <3> QED
        BY <2>1, <3>1, CallbackTyped
    <2> QED
      BY <2>3, <2>4
  <1>9. good[size] = {x \in Requests : Half(x, n, k + size)}
    BY <1>4
  <1> HIDE DEF good, C, P, L
  <1>10. FeedData(r, C) \in good[size]
    BY <1>4, <1>5, <1>7, <1>8, FeedKeeps
  <1>11. Half(FeedData(r, C), n, k + size)
    BY <1>9, <1>10
  <1> QED
    BY <1>4, <1>6, <1>11 DEF C, P, L, R

-----------------------------------------------------------------------------
(* The middlewares.                                                        *)

\* The three validators let pass what the documentation calls valid.
LEMMA ValidatorsAgree ==
  ASSUME NEW d
  PROVE  Validated(d) = "ok" <=> Valid(d)
  <1> DEFINE items == d.params.items
             bad == {i \in DOMAIN items : Offences(items[i]) # {}}
  <1>1. JSONRPCContentValidator(d) = "ok" <=> bad = {}
    BY DEF JSONRPCContentValidator
  <1>2. bad = {} <=> WordsOnly(d)
    <2>1. ASSUME NEW i \in DOMAIN items
          PROVE  Offences(items[i]) = {}
                   <=> ToSet(items[i].keys \o items[i].values) \subseteq {"word"}
      BY DEF Offences, Visited, ToSet
    <2> QED
      BY <2>1 DEF WordsOnly
  <1> HIDE DEF bad
  <1> QED
    BY <1>1, <1>2
    DEF Validated, Valid, JSONRPCFormatValidator, JSONRPCMethodValidator,
        METHOD_PARAM_COUNT_CONDITIONS

\* The three ways a request is answered: it was no message, it is refused
\* here, or it is one for an endpoint.
LEMMA ReaderAnswers ==
  ASSUME NEW r, NEW allowed \in BOOLEAN
  PROVE  \/ /\ r.stage = "error"
            /\ RequestReader(r, allowed)
                 = Outcome("client", "400", [r EXCEPT !.keep_alive = FALSE])
         \/ /\ r.stage # "error"
            /\ \E code : /\ RequestReader(r, allowed) = Outcome("client", code, r)
                         /\ parsed /\ Welcome(r.content) => code \in Accepted
         \/ /\ r.stage # "error" /\ r.verb = "POST" /\ r.content # None
            /\ Allowed(r.key) /\ (parsed => Welcome(r.content))
            /\ RequestReader(r, allowed) = Outcome("endpoint", "ok", r)
  <1> DEFINE Refusal(code) == /\ RequestReader(r, allowed) = Outcome("client", code, r)
                              /\ parsed /\ Welcome(r.content) => code \in Accepted
             o == RequestReader(r, allowed)
  <1>1. \A code, q : Failure(code, q) = Outcome("client", code, q)
    BY DEF Failure
  <1>2. Success(r) = Outcome(IF r.verb = "POST" THEN "endpoint" ELSE "client", "ok", r)
    BY DEF Success
  <1>3. Blank(r.content) => ~Welcome(r.content)
    BY DEF Blank, Valid, Whole, Welcome
  <1>4. CASE r.stage = "error"
    BY <1>1, <1>4 DEF RequestReader, Unreadable
  <1>5. CASE r.stage # "error" /\ (r.verb # "POST" \/ Blank(r.content))
    <2>1. Refusal("ok") \/ Refusal("405") \/ (Refusal("400") /\ Blank(r.content))
      BY <1>1, <1>2, <1>3, <1>5 DEF RequestReader, Accepted
    <2> HIDE DEF Refusal
    <2>2. \E code : Refusal(code)
      BY <2>1
    <2> QED
      BY <1>5, <2>2 DEF Refusal
  <1>6. CASE r.stage # "error" /\ r.verb = "POST" /\ ~Blank(r.content)
    <2>1. r.content # None
      BY <1>6 DEF Blank
    <2>2. o = AuthRequestReader(r, allowed)
      BY <1>6 DEF RequestReader
    <2> HIDE DEF o
    <2>3. CASE ~Allowed(r.key)
      <3>1. o = Outcome("client", "401", r)
        BY <1>1, <2>2, <2>3 DEF AuthRequestReader, Allowed
      <3>2. Refusal("401")
        BY <3>1 DEF Accepted, o
      <3> HIDE DEF Refusal
      <3>3. \E code : Refusal(code)
        BY <3>2
      <3> QED
        BY <1>6, <3>3 DEF Refusal
    <2>4. CASE Allowed(r.key)
      <3> DEFINE verdict == IF ~parsed
                 THEN IF ScansMethod(r.content) THEN "ok" ELSE "-32600"
                 ELSE IF Whole(r.content) /\ Doc(r.content).form # "not JSON"
                 THEN Validated(Doc(r.content))
                 ELSE "-32700"
      <3>1. o = AcceptJSONRPCContentReader(r, allowed)
        BY <2>2, <2>4, MessagesAssumption DEF AuthRequestReader, Allowed
      <3>2. o = IF verdict = "ok" THEN AcceptMethodRequestReader(r, allowed)
                ELSE Failure(IF verdict = "raised" THEN "500" ELSE verdict, r)
        BY <3>1 DEF AcceptJSONRPCContentReader
      <3>3. parsed => (verdict = "ok" <=> Welcome(r.content))
        <4>1. Valid(Doc(r.content)) => Doc(r.content).form # "not JSON"
          BY DEF Valid
        <4> QED
          BY <2>1, <4>1, ValidatorsAgree DEF Welcome
      <3> HIDE DEF verdict
      <3>4. CASE verdict = "ok"
        <4>1. o = Outcome("client", "-32003", r) \/ o = Outcome("endpoint", "ok", r)
          BY <1>1, <1>2, <1>6, <3>2, <3>4 DEF AcceptMethodRequestReader
        <4>2. CASE o = Outcome("client", "-32003", r)
          <5>1. Refusal("-32003")
            BY <4>2 DEF Accepted, o
          <5> HIDE DEF Refusal
          <5>2. \E code : Refusal(code)
            BY <5>1
          <5> QED
            BY <1>6, <5>2 DEF Refusal
        <4>3. CASE o = Outcome("endpoint", "ok", r)
          BY <1>6, <2>1, <2>4, <3>3, <3>4, <4>3 DEF o
        <4> QED
          BY <4>1, <4>2, <4>3
      <3>5. CASE verdict # "ok"
        <4> DEFINE code == IF verdict = "raised" THEN "500" ELSE verdict
        <4>1. Refusal(code)
          <5>1. o = Failure(code, r)
            BY <3>2, <3>5
          <5> HIDE DEF code
          <5> QED
            BY <1>1, <3>3, <3>5, <5>1 DEF o
        <4> HIDE DEF code, Refusal
        <4>2. \E e : Refusal(e)
          BY <4>1
        <4> QED
          BY <1>6, <4>2 DEF Refusal
      <3> QED
        BY <3>4, <3>5
    <2> QED
      BY <2>3, <2>4
  <1> QED
    BY <1>4, <1>5, <1>6

-----------------------------------------------------------------------------
(* The steps.                                                              *)

\* A sequence with one more element.
LEMMA Appended ==
  ASSUME NEW s, Len(s) \in Nat, s = [i \in 1 .. Len(s) |-> s[i]], NEW e
  PROVE  /\ Len(Append(s, e)) = Len(s) + 1
         /\ Append(s, e) = [i \in 1 .. Len(s) + 1 |-> Append(s, e)[i]]
         /\ \A i \in 1 .. Len(s) : Append(s, e)[i] = s[i]
         /\ Append(s, e)[Len(s) + 1] = e
  <1> DEFINE S == {s[i] : i \in 1 .. Len(s)} \cup {e}
  <1>1. s \in Seq(S) /\ e \in S
    <2>1. s \in [1 .. Len(s) -> S]
      OBVIOUS
    <2> QED
      BY <2>1
  <1> HIDE DEF S
  <1> DEFINE a == Append(s, e)
  <1>2. /\ a \in Seq(S) /\ Len(a) = Len(s) + 1
        /\ \A i \in 1 .. Len(s) : a[i] = s[i]
        /\ a[Len(s) + 1] = e
    BY <1>1
  <1> HIDE DEF a
  <1>3. a = [i \in 1 .. Len(s) + 1 |-> a[i]]
    BY <1>2
  <1> QED
    BY <1>2, <1>3 DEF a

\* A client that sends while it waits begins to pipeline.
LEMMA SendKeeps ==
  ASSUME ReadingInv, NEW m \in Messages, Send(m)
  PROVE  ReadingInv'
  <1> DEFINE n == Len(sent) + 1
  <1>1. /\ sent' \in Seq(Messages) /\ Len(sent') = n /\ n \in 1 .. n
        /\ \A i \in 1 .. Len(sent) : sent'[i] = sent[i]
        /\ sent'[n] = m /\ Len(sent) \in Nat
    <2>1. sent \in Seq(Messages) /\ sent' = Append(sent, m)
      BY DEF ReadingInv, Typed, Send
    <2> QED
      BY <2>1
  <1>2. /\ stream' = stream \o Parts(n, m) /\ stream \in Seq(Pieces)
        /\ UNCHANGED <<sim, parsed, at, req, log>>
        /\ at # "closed" /\ pipelined' = (pipelined \/ Len(log) < Len(sent))
    BY <1>1 DEF ReadingInv, Typed, Send, configVars
  <1>3. Pieces \subseteq Pieces' /\ Contents \subseteq Contents' /\ Requests \subseteq Requests'
    <2>1. Pieces \subseteq Pieces' /\ Contents \subseteq Contents'
      BY <1>1 DEF Pieces, Contents
    <2> QED
      BY <2>1 DEF Requests
  <1>4. Typed'
    <2>1. stream' \in Seq(Pieces')
      <3>1. Parts(n, m) \in Seq(Pieces')
        <4>1. n \in Nat /\ n \in 1 .. n
          BY <1>1
        <4> HIDE DEF n
        <4> QED
          BY <1>1, <4>1, PartsTyped DEF Pieces
      <3>2. stream \in Seq(Pieces')
        BY <1>2, <1>3
      <3> HIDE DEF n
      <3> QED
        BY <1>2, <3>1, <3>2
    <2>2. req' \in Requests'
      BY <1>2, <1>3 DEF ReadingInv, Typed
    <2>3. pipelined' \in BOOLEAN
      BY <1>2 DEF ReadingInv, Typed
    <2> QED
      BY <1>1, <1>2, <2>1, <2>2, <2>3 DEF ReadingInv, Typed
  <1>5. AllAnswered'
    <2>1. ASSUME NEW o, NEW i \in 1 .. Len(log), Answered(o, i) PROVE Answered(o, i)'
      <3>1. Welcome(o.content)' = Welcome(o.content)
        <4>1. o.content = None \/ o.content.n \in 1 .. Len(sent)
          BY <2>1 DEF Answered, Contents
        <4>2. o.content # None => sent'[o.content.n] = sent[o.content.n]
          BY <1>1, <4>1
        <4> QED
          BY <4>2 DEF Welcome, Doc, Whole
      <3>2. Allowed(o.key)' = Allowed(o.key)
        BY <1>2 DEF Allowed
      <3>3. ~pipelined' => ~pipelined
        BY <1>2
      <3>4. i <= Len(sent) => i <= Len(sent') /\ sent'[i] = sent[i]
        BY <1>1, <1>2 DEF ReadingInv, Typed
      <3> QED
        BY <1>2, <1>3, <2>1, <3>1, <3>2, <3>3, <3>4 DEF Answered
    <2>2. log' = log
      BY <1>2
    <2> QED
      BY <2>1, <2>2 DEF ReadingInv, AllAnswered
  <1>6. Waits'
    <2> SUFFICES ASSUME ~pipelined' PROVE
          /\ at = "pending" /\ Len(sent') = Len(log) + 1
          /\ stream' = Parts(n, m)
      BY <1>1, <1>2 DEF Waits
    <2>1. ~pipelined /\ ~(Len(log) < Len(sent)) /\ Len(log) \in Nat
      BY <1>2 DEF ReadingInv, Typed
    <2>2. at = "pending" /\ Len(sent) = Len(log) /\ stream = << >>
      BY <1>1, <1>2, <2>1 DEF ReadingInv, Typed, Waits
    <2>3. stream' = Parts(n, m)
      <3>1. Parts(n, m) \in Seq(Pieces')
        <4>1. n \in Nat /\ n \in 1 .. n
          BY <1>1
        <4> HIDE DEF n
        <4> QED
          BY <1>1, <4>1, PartsTyped DEF Pieces
      <3> HIDE DEF n
      <3> QED
        BY <1>2, <2>2, <3>1
    <2> QED
      BY <1>1, <2>2, <2>3
  <1> QED
    BY <1>4, <1>5, <1>6 DEF ReadingInv

\* A worker begins with nothing of the request before.
LEMMA TakeKeeps ==
  ASSUME ReadingInv, Take
  PROVE  ReadingInv'
  <1>1. /\ at = "pending" /\ at' = "reading" /\ stream # << >> /\ req' = NoRequest
        /\ UNCHANGED <<sim, parsed, sent, pipelined, stream, log>>
    BY DEF Take, NewRequest, configVars, clientVars
  <1>2. Pieces' = Pieces /\ Contents' = Contents /\ Requests' = Requests
    BY <1>1 DEF Pieces, Contents, Requests
  <1>3. Typed'
    BY <1>1, <1>2, NoRequestTyped DEF ReadingInv, Typed
  <1>4. AllAnswered'
    BY <1>1, <1>2 DEF ReadingInv, AllAnswered, Answered, Welcome, Doc, Whole, Allowed
  <1>5. Waits'
    <2> SUFFICES ASSUME ~pipelined
                 PROVE  /\ Len(sent) = Len(log) + 1
                        /\ 0 \in 0 .. Len(Parts(Len(sent), sent[Len(sent)]))
                        /\ stream = LeftOf(Len(sent), 0)
                        /\ Half(NoRequest, Len(sent), 0)
      BY <1>1 DEF Waits, LeftOf, Half
    <2>1. /\ Len(sent) = Len(log) + 1 /\ Len(log) \in Nat
          /\ stream = Parts(Len(sent), sent[Len(sent)])
      BY <1>1 DEF ReadingInv, Typed, Waits
    <2>2. sent[Len(sent)] \in Messages
      BY <2>1 DEF ReadingInv, Typed
    <2>3. Len(stream) \in Nat /\ Len(stream) >= 3 /\ stream \in Seq(Pieces)
      BY <2>1, <2>2, PartsShape DEF ReadingInv, Typed
    <2>4. SubSeq(stream, 1, Len(stream)) = stream
      BY <2>3
    <2>5. stream = LeftOf(Len(sent), 0)
      BY <2>1, <2>4 DEF LeftOf
    <2>6. Half(NoRequest, Len(sent), 0)
      BY <2>1, <2>3 DEF Half, NoRequest
    <2> QED
      BY <2>1, <2>3, <2>5, <2>6
  <1> QED
    BY <1>3, <1>4, <1>5 DEF ReadingInv

\* A chunk is fed to the parser.
LEMMA ReceiveKeeps ==
  ASSUME ReadingInv, NEW size \in 1 .. Len(stream), Receive(size)
  PROVE  ReadingInv'
  <1> DEFINE chunk == SubSeq(stream, 1, size)
             rest == SubSeq(stream, size + 1, Len(stream))
  <1>1. /\ at = "reading" /\ req' = FeedData(req, chunk) /\ stream' = rest
        /\ at' = IF req'.stage = "error" \/ ~req'.need THEN "read" ELSE "reading"
        /\ UNCHANGED <<sim, parsed, sent, pipelined, log>>
    BY DEF Receive, configVars, clientVars
  <1>2. Pieces' = Pieces /\ Contents' = Contents /\ Requests' = Requests
    BY <1>1 DEF Pieces, Contents, Requests
  <1>3. stream \in Seq(Pieces) /\ sent \in Seq(Messages) /\ req \in Requests
    BY DEF ReadingInv, Typed
  <1>4. chunk \in Seq(Pieces) /\ rest \in Seq(Pieces)
    BY <1>3
  <1> HIDE DEF chunk, rest
  <1>5. req' \in Requests
    BY <1>1, <1>3, <1>4, FeedTyped
  <1>6. Typed'
    BY <1>1, <1>2, <1>4, <1>5 DEF ReadingInv, Typed
  <1>7. AllAnswered'
    BY <1>1, <1>2 DEF ReadingInv, AllAnswered, Answered, Welcome, Doc, Whole, Allowed
  <1>8. Waits'
    <2> DEFINE n == Len(sent)
               L == Len(Parts(n, sent[n]))
    <2> SUFFICES ASSUME ~pipelined
                 PROVE  /\ n = Len(log) + 1
                        /\ \E k \in 0 .. L : rest = LeftOf(n, k) /\ Half(req', n, k)
      <3>1. at' \in {"read", "reading"}
        BY <1>1
      <3>2. \A k : LeftOf(n, k)' = LeftOf(n, k)
        BY <1>1 DEF LeftOf
      <3>3. \A k : Half(req, n, k)' <=> Half(req', n, k)
        BY <1>1 DEF Half
      <3> QED
        BY <1>1, <3>1, <3>2, <3>3 DEF Waits
    <2>1. n = Len(log) + 1 /\ Len(log) \in Nat
      BY <1>1 DEF ReadingInv, Typed, Waits
    <2>2. PICK k \in 0 .. L : stream = LeftOf(n, k) /\ Half(req, n, k)
      BY <1>1 DEF ReadingInv, Waits
    <2>3. n \in 1 .. Len(sent)
      BY <2>1
    <2>4. /\ k + size \in 0 .. L
          /\ Half(FeedData(req, SubSeq(LeftOf(n, k), 1, size)), n, k + size)
          /\ SubSeq(LeftOf(n, k), size + 1, Len(LeftOf(n, k))) = LeftOf(n, k + size)
      <3>1. size \in 1 .. Len(LeftOf(n, k))
        BY <2>2
      <3> HIDE DEF n
      <3> QED
        BY <1>3, <2>2, <2>3, <3>1, FeedHalf
    <2> HIDE DEF n, L
    <2> QED
      BY <1>1, <2>1, <2>2, <2>4 DEF chunk, rest
  <1> QED
    BY <1>6, <1>7, <1>8 DEF ReadingInv

\* What is added to the log.
LEMMA LogKeeps ==
  ASSUME ReadingInv, NEW o, log' = Append(log, o),
         UNCHANGED <<sim, parsed, sent, pipelined>>,
         Answered(o, Len(log) + 1)
  PROVE  /\ AllAnswered'
         /\ Len(log') = Len(log) + 1
         /\ log' = [i \in 1 .. Len(log') |-> log'[i]]
  <1>1. Len(log) \in Nat /\ log = [i \in 1 .. Len(log) |-> log[i]]
    BY DEF ReadingInv, Typed
  <1>2. /\ Len(log') = Len(log) + 1
        /\ log' = [i \in 1 .. Len(log) + 1 |-> log'[i]]
        /\ \A i \in 1 .. Len(log) : log'[i] = log[i]
        /\ log'[Len(log) + 1] = o
    BY <1>1, Appended
  <1>3. \A q, i : Answered(q, i)' <=> Answered(q, i)
    BY DEF Answered, Contents, Welcome, Doc, Whole, Allowed
  <1>4. \A i \in 1 .. Len(log) + 1 : Answered(log'[i], i)
    BY <1>1, <1>2 DEF ReadingInv, AllAnswered
  <1>5. AllAnswered'
    BY <1>2, <1>3, <1>4 DEF AllAnswered
  <1> QED
    BY <1>2, <1>5

\* The fields of an outcome.
LEMMA OutcomeFields ==
  ASSUME NEW to, NEW code, NEW r, NEW o, o = Outcome(to, code, r)
  PROVE  /\ o.to = to /\ o.code = code /\ o.key = r.key
         /\ o.content = r.content /\ o.keep_alive = r.keep_alive
  BY DEF Outcome

\* A request that is given up closes the connection.
LEMMA GiveUpKeeps ==
  ASSUME ReadingInv, GiveUp
  PROVE  ReadingInv'
  <1> DEFINE q == [req EXCEPT !.keep_alive = FALSE]
             o == Outcome("nobody", "none", q)
  <1>1. /\ at = "reading" /\ at' = "closed" /\ log' = Append(log, o)
        /\ UNCHANGED <<sim, parsed, sent, pipelined, stream, req>>
    BY DEF GiveUp, configVars, clientVars
  <1>2. q.content = req.content /\ req.content \in Contents
    BY DEF ReadingInv, Typed, Requests
  <1>3. o.to = "nobody" /\ o.code = "none" /\ o.content = req.content
    <2> HIDE DEF q
    <2> QED
      BY <1>2 DEF Outcome
  <1> HIDE DEF o, q
  <1>4. ~pipelined => Len(sent) = Len(log) + 1
    BY <1>1 DEF ReadingInv, Waits
  <1>5. Len(log) \in Nat
    BY DEF ReadingInv, Typed
  <1>6. Answered(o, Len(log) + 1)
    BY <1>2, <1>3, <1>4, <1>5 DEF Answered, Accepted
  <1>7. /\ AllAnswered' /\ Len(log') = Len(log) + 1
        /\ log' = [i \in 1 .. Len(log') |-> log'[i]]
    BY <1>1, <1>6, LogKeeps
  <1>8. Pieces' = Pieces /\ Contents' = Contents /\ Requests' = Requests
    BY <1>1 DEF Pieces, Contents, Requests
  <1>9. Typed'
    BY <1>1, <1>5, <1>7, <1>8 DEF ReadingInv, Typed
  <1>10. Waits'
    BY <1>1, <1>4, <1>5, <1>7 DEF Waits
  <1> QED
    BY <1>7, <1>9, <1>10 DEF ReadingInv

\* An answer ends the turn of a message; a connection that is kept has
\* nothing of it left.
LEMMA AnswerKeeps ==
  ASSUME ReadingInv, Answer
  PROVE  ReadingInv'
  <1> DEFINE n == Len(sent)
             L == Len(Parts(n, sent[n]))
  <1>1. PICK allowed \in BOOLEAN :
          /\ log' = Append(log, RequestReader(req, allowed))
          /\ at' = IF RequestReader(req, allowed).keep_alive THEN "pending" ELSE "closed"
    BY DEF Answer
  <1>2. /\ at = "read"
        /\ UNCHANGED <<sim, parsed, sent, pipelined, stream, req>>
    BY DEF Answer, configVars, clientVars
  <1>3. /\ req \in Requests /\ req.content \in Contents /\ Len(log) \in Nat
        /\ req.stage = "error" \/ ~req.need
    BY <1>2 DEF ReadingInv, Typed, Requests
  <1>4. ASSUME ~pipelined
        PROVE  /\ n = Len(log) + 1
               /\ req.stage # "error" => stream = << >>
               /\ req.key = sent[n].key /\ req.verb = sent[n].verb
               /\ req.content # None => req.content.n = n
               /\ req.stage = "error" => req.content = None
    <2>1. n = Len(log) + 1
      BY <1>2, <1>4 DEF ReadingInv, Waits
    <2>2. PICK k \in 0 .. L : stream = LeftOf(n, k) /\ Half(req, n, k)
      BY <1>2, <1>4 DEF ReadingInv, Waits
    <2>3. sent[n] \in Messages /\ sent \in Seq(Messages)
      BY <1>3, <2>1 DEF ReadingInv, Typed
    <2>4. L \in Nat /\ L >= 3
      BY <2>3, PartsShape
    <2>5. k > 0
      BY <1>3, <2>2, <2>4 DEF Half, NoRequest
    <2>6. ASSUME req.stage # "error" PROVE stream = << >>
      <3>1. k = L
        BY <1>3, <2>2, <2>6 DEF Half
      <3>2. Parts(n, sent[n]) \in Seq(Pieces)
        BY <1>3, <2>1, <2>3, PartsTyped DEF Pieces
      <3>3. stream = SubSeq(Parts(n, sent[n]), L + 1, L)
        BY <2>2, <3>1 DEF LeftOf
      <3> QED
        BY <2>4, <3>2, <3>3
    <2> HIDE DEF n, L
    <2> QED
      BY <2>1, <2>2, <2>5, <2>6 DEF Half
  <1> DEFINE o == RequestReader(req, allowed)
  <1>5. /\ Answered(o, Len(log) + 1)
        /\ o.keep_alive => req.stage # "error"
    <2>1. CASE req.stage = "error"
      <3>1. o = Outcome("client", "400", [req EXCEPT !.keep_alive = FALSE])
        BY <2>1, ReaderAnswers
      <3>2. /\ [req EXCEPT !.keep_alive = FALSE].content = req.content
            /\ [req EXCEPT !.keep_alive = FALSE].keep_alive = FALSE
        BY <1>3 DEF Requests
      <3>3. o.to = "client" /\ o.content = req.content /\ o.keep_alive = FALSE
        <4> HIDE DEF o
        <4> QED
          BY <3>1, <3>2 DEF Outcome
      <3> HIDE DEF o, n
      <3> QED
        BY <1>3, <1>4, <2>1, <3>3 DEF Answered, Welcome, n
    <2>2. CASE req.stage # "error"
      <3>1. \/ \E code : /\ o = Outcome("client", code, req)
                         /\ parsed /\ Welcome(req.content) => code \in Accepted
            \/ /\ req.verb = "POST" /\ req.content # None
               /\ Allowed(req.key) /\ (parsed => Welcome(req.content))
               /\ o = Outcome("endpoint", "ok", req)
        BY <2>2, ReaderAnswers
      <3> HIDE DEF o
      <3>2. ASSUME NEW code, o = Outcome("client", code, req),
                   parsed /\ Welcome(req.content) => code \in Accepted
            PROVE  Answered(o, Len(log) + 1)
        <4>1. o.to = "client" /\ o.code = code /\ o.content = req.content
          BY <3>2, OutcomeFields
        <4> HIDE DEF n
        <4> QED
          BY <1>3, <1>4, <3>2, <4>1 DEF Answered, n
      <3>3. ASSUME o = Outcome("endpoint", "ok", req),
                   req.verb = "POST", req.content # None,
                   Allowed(req.key), parsed => Welcome(req.content)
            PROVE  Answered(o, Len(log) + 1)
        <4>1. o.to = "endpoint" /\ o.code = "ok" /\ o.content = req.content
              /\ o.key = req.key
          BY <3>3, OutcomeFields
        <4> QED
          BY <1>3, <1>4, <3>3, <4>1 DEF Answered, Accepted
      <3> QED
        BY <2>2, <3>1, <3>2, <3>3
    <2> QED
      BY <2>1, <2>2
  <1> HIDE DEF o
  <1>6. /\ AllAnswered' /\ Len(log') = Len(log) + 1
        /\ log' = [i \in 1 .. Len(log') |-> log'[i]]
    BY <1>1, <1>2, <1>5, LogKeeps DEF o
  <1>7. Pieces' = Pieces /\ Contents' = Contents /\ Requests' = Requests
    BY <1>2 DEF Pieces, Contents, Requests
  <1>8. Typed'
    BY <1>1, <1>2, <1>3, <1>6, <1>7 DEF ReadingInv, Typed
  <1>9. Waits'
    <2>1. at' = IF o.keep_alive THEN "pending" ELSE "closed"
      BY <1>1 DEF o
    <2>2. ~pipelined /\ o.keep_alive => stream = << >>
      BY <1>4, <1>5
    <2>3. ~pipelined => Len(sent) = Len(log')
      BY <1>4, <1>6
    <2> QED
      BY <1>2, <1>3, <1>6, <2>1, <2>2, <2>3 DEF Waits
  <1> QED
    BY <1>6, <1>8, <1>9 DEF ReadingInv

\* At the start nothing was sent.
LEMMA ReadingStarts == Init => ReadingInv
  <1> SUFFICES ASSUME Init PROVE ReadingInv
    OBVIOUS
  <1>1. Typed
    <2>1. /\ sent = << >> /\ stream = << >> /\ log = << >> /\ Len(log) = 0
          /\ at = "pending" /\ pipelined = FALSE /\ req = NoRequest
      BY DEF Init
    <2>2. sent \in Seq(Messages) /\ stream \in Seq(Pieces)
      BY <2>1
    <2>3. log = [i \in 1 .. 0 |-> log[i]]
      BY <2>1
    <2> QED
      BY <2>1, <2>2, <2>3, NoRequestTyped DEF Typed
  <1>2. AllAnswered
    BY DEF Init, AllAnswered
  <1>3. Waits
    BY DEF Init, Waits
  <1> QED
    BY <1>1, <1>2, <1>3 DEF ReadingInv

\* Every step keeps the invariant.
LEMMA ReadingStep == ReadingInv /\ [Next]_vars => ReadingInv'
  <1> SUFFICES ASSUME ReadingInv, [Next]_vars PROVE ReadingInv'
    OBVIOUS
  <1>1. ASSUME NEW m \in MaySend, Send(m) PROVE ReadingInv'
    <2>1. m \in Messages
      BY <1>1, MessagesAssumption DEF MaySend
    <2> QED
      BY <1>1, <2>1, SendKeeps
  <1>2. CASE Take
    BY <1>2, TakeKeeps
  <1>3. ASSUME NEW size \in 1 .. Len(stream), Receive(size) PROVE ReadingInv'
    BY <1>3, ReceiveKeeps
  <1>4. CASE GiveUp
    BY <1>4, GiveUpKeeps
  <1>5. CASE Answer
    BY <1>5, AnswerKeeps
  <1>6. CASE UNCHANGED vars
    <2>1. UNCHANGED <<sim, parsed, sent, pipelined, stream, at, req, log>>
      BY <1>6 DEF vars, configVars, clientVars
    <2>2. Typed'
      BY <2>1 DEF ReadingInv, Typed, Pieces, Contents, Requests
    <2>3. AllAnswered'
      BY <2>1 DEF ReadingInv, AllAnswered, Answered, Contents, Welcome, Doc, Whole, Allowed
    <2>4. Waits'
      BY <2>1 DEF ReadingInv, Waits, LeftOf, Half
    <2> QED
      BY <2>2, <2>3, <2>4 DEF ReadingInv
  <1> QED
    BY <1>1, <1>2, <1>3, <1>4, <1>5, <1>6 DEF Next

-----------------------------------------------------------------------------
\* The invariant, which the three theorems below follow from.
THEOREM ReadingInductive == Spec => []ReadingInv
  BY ReadingStarts, ReadingStep, PTL DEF Spec

\* The invariant, in the words of the properties.
LEMMA LogDomain ==
  ASSUME ReadingInv
  PROVE  /\ DOMAIN log = 1 .. Len(log)
         /\ \A i \in DOMAIN log : Answered(log[i], i)
  <1>1. DOMAIN log = 1 .. Len(log)
    BY DEF ReadingInv, Typed
  <1> QED
    BY <1>1 DEF ReadingInv, AllAnswered

\* What is forwarded carries an authorized key, and of a client that waits it
\* is the request of that turn, with its key and content, however recv() cut it.
THEOREM RequestsAreTheirOwn == Spec => []EachRequestIsItsOwn
  <1>1. ReadingInv => EachRequestIsItsOwn
    BY LogDomain DEF EachRequestIsItsOwn, Forwarded, Answered, Allowed
  <1> QED
    BY <1>1, ReadingInductive, PTL

\* With the JSON-RPC parser exactly the valid documents are forwarded, whole,
\* whatever the client sends, cuts or pipelines.
THEOREM ForwardedAreValid == Spec => []OnlyValidForwarded
  <1>1. ReadingInv => OnlyValidForwarded
    BY LogDomain DEF OnlyValidForwarded, Forwarded, Answered, Welcome, Accepted
  <1> QED
    BY <1>1, ReadingInductive, PTL

\* A connection is kept only at the beginning of a message: an error closes
\* it, and a complete request has read all of its message.
THEOREM ConnectionsAreKeptAtBoundary == Spec => []KeptAtBoundary
  <1>1. ASSUME ReadingInv, at = "pending", ~pipelined, stream # << >>
        PROVE  Head(stream) = Part(Len(log) + 1, "url")
    <2> DEFINE n == Len(sent)
    <2>1. n = Len(log) + 1 /\ stream = Parts(n, sent[n]) /\ Len(log) \in Nat
      BY <1>1 DEF ReadingInv, Typed, Waits
    <2>2. sent[n] \in Messages
      <3>1. sent \in Seq(Messages)
        BY <1>1 DEF ReadingInv, Typed
      <3>2. n \in 1 .. Len(sent)
        BY <2>1
      <3> QED
        BY <3>1, <3>2
    <2>3. stream[1] = Part(n, "url")
      BY <2>1, <2>2, PartsShape
    <2>4. Head(stream) = stream[1]
      BY <1>1 DEF ReadingInv, Typed
    <2> QED
      BY <2>1, <2>3, <2>4
  <1> QED
    BY <1>1, ReadingInductive, PTL DEF KeptAtBoundary

-----------------------------------------------------------------------------
(* The types of what becomes of requests.                                  *)

LogTyped ==
  /\ sim \in BOOLEAN /\ parsed \in BOOLEAN
  /\ log \in Seq(Outcomes)

\* The validators answer with one of these.
LEMMA ValidatorCodes ==
  ASSUME NEW d PROVE Validated(d) \in Codes \cup {"raised"}
  <1>1. JSONRPCContentValidator(d) \in {"ok", "-32602", "raised"}
    BY DEF JSONRPCContentValidator
  <1>2. JSONRPCMethodValidator(d) \in {"ok", "-32601", "-32602"}
    BY DEF JSONRPCMethodValidator
  <1> QED
    BY <1>1, <1>2 DEF Validated, Codes

\* Whatever is read becomes an outcome with one of the codes.
LEMMA OutcomeTyped ==
  ASSUME NEW to \in {"endpoint", "client", "nobody"}, NEW code \in Codes,
         NEW r \in Requests
  PROVE  /\ Outcome(to, code, r) \in Outcomes
         /\ Outcome(to, code, [r EXCEPT !.keep_alive = FALSE]) \in Outcomes
  <1>1. [r EXCEPT !.keep_alive = FALSE] \in Requests
    BY DEF Requests
  <1>2. \A q \in Requests : Outcome(to, code, q) \in Outcomes
    BY DEF Outcome, Requests, Outcomes
  <1> QED
    BY <1>1, <1>2

LEMMA ReaderTyped ==
  ASSUME NEW r \in Requests, NEW allowed \in BOOLEAN
  PROVE  RequestReader(r, allowed) \in Outcomes
  <1>1. \A code \in Codes : Failure(code, r) \in Outcomes
    BY OutcomeTyped DEF Failure
  <1>2. Success(r) \in Outcomes
    BY OutcomeTyped DEF Success, Codes
  <1>3. Unreadable(r) \in Outcomes
    BY OutcomeTyped DEF Unreadable, Failure, Codes
  <1>4. AcceptMethodRequestReader(r, allowed) \in Outcomes
    BY <1>1, <1>2 DEF AcceptMethodRequestReader, Codes
  <1>5. AcceptJSONRPCContentReader(r, allowed) \in Outcomes
    <2> DEFINE verdict == IF ~parsed
                 THEN IF ScansMethod(r.content) THEN "ok" ELSE "-32600"
                 ELSE IF Whole(r.content) /\ Doc(r.content).form # "not JSON"
                 THEN Validated(Doc(r.content))
                 ELSE "-32700"
    <2>1. verdict \in Codes \cup {"raised"}
      BY ValidatorCodes DEF Codes
    <2>2. AcceptJSONRPCContentReader(r, allowed)
            = IF verdict = "ok" THEN AcceptMethodRequestReader(r, allowed)
              ELSE Failure(IF verdict = "raised" THEN "500" ELSE verdict, r)
      BY DEF AcceptJSONRPCContentReader
    <2> HIDE DEF verdict
    <2>3. "500" \in Codes
      BY DEF Codes
    <2> QED
      BY <1>1, <1>4, <2>1, <2>2, <2>3
  <1>6. AuthRequestReader(r, allowed) \in Outcomes
    BY <1>1, <1>5 DEF AuthRequestReader, Codes
  <1> QED
    BY <1>1, <1>2, <1>3, <1>6 DEF RequestReader, Codes

LEMMA LogTypedStep == ReadingInv /\ LogTyped /\ [Next]_vars => LogTyped'
  <1> SUFFICES ASSUME ReadingInv, LogTyped, [Next]_vars PROVE LogTyped'
    OBVIOUS
  <1> USE DEF configVars, clientVars
  <1>1. ASSUME NEW m \in MaySend, Send(m) PROVE LogTyped'
    <2>1. sent \in Seq(Messages) /\ m \in Messages /\ sent' = Append(sent, m)
      BY <1>1, MessagesAssumption DEF ReadingInv, Typed, MaySend, Send
    <2>2. Len(sent) \in Nat /\ Len(sent') = Len(sent) + 1
      BY <2>1
    <2>3. Contents \subseteq Contents'
      BY <2>2 DEF Contents
    <2>4. Outcomes \subseteq Outcomes'
      BY <2>3 DEF Outcomes, Keys
    <2>5. UNCHANGED <<sim, parsed, log>>
      BY <1>1 DEF Send
    <2> QED
      BY <2>4, <2>5 DEF LogTyped
  <1>2. ASSUME UNCHANGED <<sim, parsed, sent>>,
               log' = log \/ \E o \in Outcomes : log' = Append(log, o)
        PROVE  LogTyped'
    <2>1. Outcomes' = Outcomes
      BY <1>2 DEF Outcomes, Contents, Keys
    <2> QED
      BY <1>2, <2>1 DEF LogTyped
  <1>3. req \in Requests
    BY DEF ReadingInv, Typed
  <1>4. CASE GiveUp
    <2>1. Outcome("nobody", "none", [req EXCEPT !.keep_alive = FALSE]) \in Outcomes
      BY <1>3, OutcomeTyped DEF Codes
    <2> QED
      BY <1>2, <1>4, <2>1 DEF GiveUp
  <1>5. CASE Answer
    <2>1. PICK allowed \in BOOLEAN : log' = Append(log, RequestReader(req, allowed))
      BY <1>5 DEF Answer
    <2> QED
      BY <1>2, <1>3, <1>5, <2>1, ReaderTyped DEF Answer
  <1>6. CASE Take
    BY <1>2, <1>6 DEF Take
  <1>7. ASSUME NEW size, Receive(size) PROVE LogTyped'
    BY <1>2, <1>7 DEF Receive
  <1>8. CASE UNCHANGED vars
    BY <1>2, <1>8 DEF vars
  <1> QED
    BY <1>1, <1>4, <1>5, <1>6, <1>7, <1>8 DEF Next

\* Every variable has its type: whatever was parsed and refused became an
\* outcome with a code.
THEOREM TypeCorrect == Spec => []TypeOK
  <1>1. Init => LogTyped
    BY DEF Init, LogTyped
  <1>2. ReadingInv /\ LogTyped => TypeOK
    BY DEF ReadingInv, Typed, LogTyped, TypeOK
  <1> QED
    BY <1>1, <1>2, ReadingStarts, ReadingStep, LogTypedStep, PTL DEF Spec
=============================================================================
