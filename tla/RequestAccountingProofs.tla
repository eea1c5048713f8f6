----------------------- MODULE RequestAccountingProofs -----------------------
(***************************************************************************)
(* Proofs about RequestAccounting, for any finite number of workers, any   *)
(* plans, and exchanges of any number of pieces.                           *)
(***************************************************************************)
EXTENDS RequestAccounting, FiniteSetTheorems, TLAPS

\* A worker that adds to the ledger.
Recording(j) == j.at \in {"entry", "method", "create", "load", "store"}
Fields == {"bytes", "calls"}

\* What the objects a worker holds, and where it is, say of the ledger.
LinkedJob(j, s) ==
  /\ j.live /\ j.at \in {"load", "store"} => s[j.book] # None
  /\ j.at \in {"method", "create"} => j.book = "daily"
  /\ j.at \in {"entry", "method", "create"} => j.field = "bytes"
  /\ ~Recording(j) => j.book = "daily" /\ j.field = "bytes"
Linked ==
  /\ admin.at = "updating" => admin.given # None /\ plan # None
  /\ stats["total"] # None <=> entry["total"]
  /\ \A w \in Workers : LinkedJob(job[w], stats)

\* Only a request with a key records, SIM checks no plan, and a request with a
\* key has a user but for one removed meanwhile.
FlowJob(j, p) ==
  /\ Recording(j) => j.keyed /\ j.delta # Zero
  /\ j.at # "idle" => j.keyed \/ sim
  /\ j.at \in {"usage", "registered", "plan", "bytes", "priority", "pool", "raised"}
       => ~sim
  /\ j.at # "idle" /\ j.keyed => p # None \/ j.removed
  /\ j.at = "raised" => j.removed
Flow == \A w \in Workers : FlowJob(job[w], plan)

\* The store of field f in book b is still to come, and adds to it.
Ahead(j, b, f) ==
  /\ Recording(j)
  /\ j.delta[f] = 1
  /\ j.book = "daily" \/ b = "total"
  /\ f = "calls" \/ j.field = "bytes" \/ (b = "total" /\ j.book = "daily")
PendingIn(J, b, f) == {w \in Workers : Ahead(J[w], b, f)}
Used(f) == IF f = "calls" THEN answered ELSE billed

\* During a removal that found nothing under way nothing is.
Removing ==
  admin.at \in Books /\ ~leaked =>
    /\ Quiet
    /\ plan = None /\ answered = 0 /\ billed = 0
    /\ admin.at = "daily" => stats["total"] = None

\* What is recorded, r, and what a worker is about to store over it, leaves room
\* up to u for all that is still to be recorded.
Fits(J, r, u, b, f) ==
  /\ r + Cardinality(PendingIn(J, b, f)) <= u
  /\ \A w \in Workers :
       J[w].at = "store" /\ J[w].book = b /\ J[w].field = f
         => J[w].load + Cardinality(PendingIn(J, b, f)) <= u
Bounded ==
  AfterRemoval =>
    \A b \in Books, f \in Fields : Fits(job, Recorded(b)[f], Used(f), b, f)

\* While exchanges do not overlap, what is recorded and what is still to be
\* recorded is what was used.
ExactJob(j, s, used) ==
  /\ Recording(j) /\ j.at # "entry" => j.live
  /\ j.at = "create" => s["daily"] = None
  /\ j.at = "store" => j.load = (IF s[j.book] = None THEN Zero
                                 ELSE s[j.book])[j.field]
  /\ j.at \in {"registered", "plan", "bytes"} => j.usage = used
AllUsed == [bytes |-> billed, calls |-> answered]
Balanced(b, f) ==
  /\ (\A w \in Workers : ~Ahead(job[w], b, f)) => Used(f) = Recorded(b)[f]
  /\ \A w \in Workers : Ahead(job[w], b, f) => Used(f) = Recorded(b)[f] + 1
Exact ==
  AfterRemoval /\ ~overlapped =>
    /\ \A v, w \in Workers : Charged(v) /\ Charged(w) => v = w
    /\ \A w \in Workers : ExactJob(job[w], stats, AllUsed)
    /\ \A b \in Books, f \in Fields : Balanced(b, f)

\* Who goes on to the bytes found calls left, and compares the plan as it is:
\* one that is gone it has only after a removal that found it under way.
ComparedJob(j) ==
  /\ j.held # None => j.at = "bytes" /\ leaked
  /\ j.at = "bytes" /\ ~leaked =>
       plan # None /\ (j.replanned \/ CallsLeft(plan, j.usage))
Compared == \A w \in Workers : ComparedJob(job[w])

-----------------------------------------------------------------------------
\* A worker's exchange changes nothing of the others'.
Own(w) == \A v \in Workers \ {w} : job'[v] = job[v]

\* One job has what another has but where it is, what it loaded and read, and
\* whether it holds what is in the ledger.
Alike(k, j) ==
  /\ k.keyed = j.keyed /\ k.delta = j.delta /\ k.removed = j.removed
  /\ k.book = j.book /\ k.field = j.field /\ k.held = j.held
Kept(k, j) == k.live = j.live /\ k.load = j.load /\ k.usage = j.usage
SameCheck(k, j) == k.usage = j.usage /\ k.replanned = j.replanned

LEMMA Consts ==
  /\ Zero \in Counters /\ NoJob \in Jobs
  /\ Zero # None /\ NoJob.held = None /\ NoJob.at = "idle"
  /\ Zero.bytes = 0 /\ Zero.calls = 0
  /\ PieceDelta # Zero /\ CallDelta # Zero
  BY PlansAssumption DEF Zero, PieceDelta, CallDelta, Counters, NoJob, Jobs, Stages, Books

\* What the steps of an exchange make of its job.
LEMMA Moves ==
  ASSUME TypeOK, NEW w \in Workers, NEW at \in Stages
  PROVE  /\ Go(w, at) => /\ job' \in [Workers -> Jobs] /\ Own(w)
                         /\ job'[w].at = at
                         /\ Alike(job'[w], job[w]) /\ Kept(job'[w], job[w])
         /\ Done(w) => job' \in [Workers -> Jobs] /\ Own(w) /\ job'[w] = NoJob
  <1> job \in [Workers -> Jobs]
    BY DEF TypeOK
  <1> DEFINE j1 == [job[w] EXCEPT !.at = at]
  <1>1. j1 \in Jobs
    BY DEF Jobs
  <1>f. j1.at = at /\ Alike(j1, job[w]) /\ Kept(j1, job[w])
    BY DEF Alike, Kept, Jobs
  <1>2. NoJob \in Jobs
    BY Consts
  <1> QED
    BY <1>1, <1>2, <1>f DEF Go, Done, Own

LEMMA Update ==
  ASSUME NEW j \in Jobs
  PROVE  /\ \A x \in Stages : [j EXCEPT !.at = x] \in Jobs
         /\ \A x \in Nat : [j EXCEPT !.pieces = x] \in Jobs
         /\ \A x \in Nat : [j EXCEPT !.load = x] \in Jobs
         /\ \A x \in Counters : [j EXCEPT !.usage = x] \in Jobs
         /\ \A x \in Counters \cup {None} : [j EXCEPT !.held = x] \in Jobs
         /\ \A x \in BOOLEAN : [j EXCEPT !.live = x] \in Jobs
         /\ \A x \in BOOLEAN : [j EXCEPT !.removed = x] \in Jobs
         /\ \A x \in BOOLEAN : [j EXCEPT !.keyed = x] \in Jobs
         /\ \A x \in BOOLEAN : [j EXCEPT !.replanned = x] \in Jobs
         /\ \A x \in {Zero, PieceDelta, CallDelta} : [j EXCEPT !.delta = x] \in Jobs
         /\ \A x \in Books : [j EXCEPT !.book = x] \in Jobs
         /\ \A x \in {"bytes", "calls"} : [j EXCEPT !.field = x] \in Jobs
  BY DEF Jobs

LEMMA AuthenticateMoves ==
  ASSUME TypeOK, NEW w \in Workers, NEW keyed \in BOOLEAN, Authenticate(w, keyed)
  PROVE  /\ job' \in [Workers -> Jobs] /\ Own(w)
         /\ job'[w].at = "reading" /\ job'[w].keyed = keyed
         /\ job'[w].book = "daily" /\ job'[w].field = "bytes"
         /\ job'[w].held = None
  <1> DEFINE j1 == [NoJob EXCEPT !.at = "reading"]
             j2 == [j1 EXCEPT !.keyed = keyed]
  <1>1. j1 \in Jobs
    BY Consts, Update DEF Stages
  <1>2. j2 \in Jobs
    BY <1>1, Update
  <1>3. job' = [job EXCEPT ![w] = j2]
    BY DEF Authenticate
  <1>f. /\ j2.at = "reading" /\ j2.keyed = keyed
        /\ j2.book = "daily" /\ j2.field = "bytes" /\ j2.held = None
    BY Consts DEF NoJob, Jobs
  <1> QED
    BY <1>2, <1>3, <1>f DEF Own, TypeOK

LEMMA ReadUsageMoves ==
  ASSUME TypeOK, NEW w \in Workers, ReadUsage(w)
  PROVE  /\ job' \in [Workers -> Jobs] /\ Own(w)
         /\ job'[w].at = "registered" /\ job'[w].usage = Recorded("total")
         /\ Alike(job'[w], job[w])
  <1> DEFINE j1 == [job[w] EXCEPT !.at = "registered"]
             j2 == [j1 EXCEPT !.usage = Recorded("total")]
  <1>a. job \in [Workers -> Jobs] /\ Recorded("total") \in Counters
    BY Consts DEF TypeOK, Recorded, Books
  <1>1. j1 \in Jobs
    BY <1>a, Update DEF Stages
  <1>2. j2 \in Jobs
    BY <1>a, <1>1, Update
  <1>3. job' = [job EXCEPT ![w] = j2]
    BY DEF ReadUsage, Recorded
  <1>f. j2.at = "registered" /\ j2.usage = Recorded("total") /\ Alike(j2, job[w])
    BY <1>a DEF Alike, Jobs
  <1> QED
    BY <1>a, <1>2, <1>3, <1>f DEF Own

LEMMA PieceMoves ==
  ASSUME TypeOK, NEW w \in Workers, Piece(w)
  PROVE  /\ job' \in [Workers -> Jobs] /\ Own(w)
         /\ job'[w].at = IF job[w].keyed THEN "entry" ELSE "receiving"
         /\ job'[w].delta = PieceDelta /\ Kept(job'[w], job[w])
         /\ job'[w].keyed = job[w].keyed /\ job'[w].removed = job[w].removed
         /\ job'[w].book = job[w].book /\ job'[w].field = job[w].field
         /\ job'[w].held = job[w].held
  <1> DEFINE j1 == [job[w] EXCEPT !.pieces = job[w].pieces + 1]
             j2 == [j1 EXCEPT !.delta = PieceDelta]
             j3 == [j2 EXCEPT !.at = IF job[w].keyed THEN "entry" ELSE "receiving"]
  <1>a. job \in [Workers -> Jobs]
    BY DEF TypeOK
  <1>1. j1 \in Jobs
    <2> job[w].pieces + 1 \in Nat
      BY <1>a DEF Jobs
    <2> QED
      BY <1>a, Update
  <1>2. j2 \in Jobs
    BY <1>1, Update
  <1>3. j3 \in Jobs
    BY <1>2, Update DEF Stages
  <1>4. job' = [job EXCEPT ![w] = j3]
    BY DEF Piece
  <1>f. /\ j3.at = IF job[w].keyed THEN "entry" ELSE "receiving"
        /\ j3.delta = PieceDelta /\ Kept(j3, job[w])
        /\ j3.keyed = job[w].keyed /\ j3.removed = job[w].removed
        /\ j3.book = job[w].book /\ j3.field = job[w].field
        /\ j3.held = job[w].held
    BY <1>a DEF Kept, Jobs
  <1> QED
    BY <1>a, <1>3, <1>4, <1>f DEF Own

LEMMA AnsweredMoves ==
  ASSUME TypeOK, NEW w \in Workers, Answered(w), job[w].keyed
  PROVE  /\ job' \in [Workers -> Jobs] /\ Own(w)
         /\ job'[w].at = "entry"
         /\ job'[w].delta = CallDelta /\ Kept(job'[w], job[w])
         /\ job'[w].keyed = job[w].keyed /\ job'[w].removed = job[w].removed
         /\ job'[w].book = job[w].book /\ job'[w].field = job[w].field
         /\ job'[w].held = job[w].held
  <1> DEFINE j1 == [job[w] EXCEPT !.delta = CallDelta]
             j2 == [j1 EXCEPT !.at = "entry"]
  <1>a. job \in [Workers -> Jobs]
    BY DEF TypeOK
  <1>1. j1 \in Jobs
    BY <1>a, Update
  <1>2. j2 \in Jobs
    BY <1>1, Update DEF Stages
  <1>3. job' = [job EXCEPT ![w] = j2]
    BY DEF Answered
  <1>f. /\ j2.at = "entry" /\ j2.delta = CallDelta /\ Kept(j2, job[w])
        /\ j2.keyed = job[w].keyed /\ j2.removed = job[w].removed
        /\ j2.book = job[w].book /\ j2.field = job[w].field
        /\ j2.held = job[w].held
    BY <1>a DEF Kept, Jobs
  <1> QED
    BY <1>a, <1>2, <1>3, <1>f DEF Own

LEMMA EntryMoves ==
  ASSUME TypeOK, NEW w \in Workers, Entry(w)
  PROVE  /\ job' \in [Workers -> Jobs] /\ Own(w)
         /\ job'[w].at = IF job[w].book = "total" THEN "load" ELSE "method"
         /\ job'[w].live /\ Alike(job'[w], job[w])
  <1> DEFINE j1 == [job[w] EXCEPT !.live = TRUE]
             j2 == [j1 EXCEPT !.at = IF job[w].book = "total" THEN "load"
                                     ELSE "method"]
  <1>a. job \in [Workers -> Jobs]
    BY DEF TypeOK
  <1>1. j1 \in Jobs
    BY <1>a, Update
  <1>2. j2 \in Jobs
    BY <1>1, Update DEF Stages
  <1>3. job' = [job EXCEPT ![w] = j2]
    BY DEF Entry
  <1>f. /\ j2.at = IF job[w].book = "total" THEN "load" ELSE "method"
        /\ j2.live /\ Alike(j2, job[w])
    BY <1>a DEF Alike, Jobs
  <1> QED
    BY <1>a, <1>2, <1>3, <1>f DEF Own

LEMMA LoadMoves ==
  ASSUME TypeOK, Linked, NEW w \in Workers, Load(w)
  PROVE  /\ job' \in [Workers -> Jobs] /\ Own(w)
         /\ job'[w].at = "store" /\ job'[w].live = job[w].live
         /\ job'[w].load = IF job[w].live THEN Recorded(job[w].book)[job[w].field]
                           ELSE 0
         /\ Alike(job'[w], job[w])
  <1> DEFINE l == IF job[w].live THEN Recorded(job[w].book)[job[w].field] ELSE 0
             j1 == [job[w] EXCEPT !.at = "store"]
             j2 == [j1 EXCEPT !.load = l]
  <1>a. job \in [Workers -> Jobs]
    BY DEF TypeOK
  <1>b. job[w].live => stats[job[w].book] \in Counters /\ stats[job[w].book] # None
    BY <1>a DEF TypeOK, Linked, LinkedJob, Load, Jobs
  <1>c. l \in Nat
    BY <1>a, <1>b DEF Recorded, Jobs, Counters
  <1>1. j1 \in Jobs
    BY <1>a, Update DEF Stages
  <1>2. j2 \in Jobs
    BY <1>1, <1>c, Update
  <1>3. job' = [job EXCEPT ![w] = j2]
    BY <1>b DEF Load, Recorded
  <1>f. /\ j2.at = "store" /\ j2.live = job[w].live
        /\ j2.load = l /\ Alike(j2, job[w])
    BY <1>a DEF Alike, Jobs
  <1> QED
    BY <1>a, <1>2, <1>3, <1>f DEF Own

\* Where a store leads: to the calls, to the other book, or out of the ledger.
LEMMA StoreLeads ==
  ASSUME NEW j \in Jobs
  PROVE  LET k == AfterStore(j) IN
         /\ k \in Jobs
         /\ j.field = "bytes" =>
              /\ k.at = "load" /\ k.field = "calls" /\ k.book = j.book
              /\ k.live = j.live /\ k.delta = j.delta
         /\ j.field = "calls" /\ j.book = "daily" =>
              /\ k.at = "entry" /\ k.field = "bytes" /\ k.book = "total"
              /\ k.live = j.live /\ k.delta = j.delta
         /\ j.field = "calls" /\ j.book = "total" =>
              \/ k = NoJob
              \/ k.at = "receiving" /\ k.field = "bytes" /\ k.book = "daily"
         /\ k = NoJob \/ (k.keyed = j.keyed /\ k.removed = j.removed /\ k.held = j.held)
  <1> DEFINE b1 == [j EXCEPT !.field = "calls"]
             b2 == [b1 EXCEPT !.at = "load"]
             d1 == [j EXCEPT !.field = "bytes"]
             d2 == [d1 EXCEPT !.book = "total"]
             d3 == [d2 EXCEPT !.at = "entry"]
             r1 == [j EXCEPT !.at = "receiving"]
             r2 == [r1 EXCEPT !.book = "daily"]
             r3 == [r2 EXCEPT !.field = "bytes"]
             r4 == [r3 EXCEPT !.live = FALSE]
  <1>1. b1 \in Jobs /\ d1 \in Jobs /\ r1 \in Jobs
    BY Update DEF Stages
  <1>2. b2 \in Jobs /\ d2 \in Jobs /\ r2 \in Jobs
    BY <1>1, Update DEF Stages, Books
  <1>3. d3 \in Jobs /\ r3 \in Jobs
    BY <1>2, Update DEF Stages
  <1>4. r4 \in Jobs
    BY <1>3, Update
  <1>5. j.field \in {"bytes", "calls"} /\ j.book \in Books
    BY DEF Jobs
  <1>6. CASE j.field = "bytes"
    <2>1. AfterStore(j) = b2
      BY <1>6 DEF AfterStore
    <2>2. /\ b2.at = "load" /\ b2.field = "calls" /\ b2.book = j.book
          /\ b2.live = j.live /\ b2.delta = j.delta
          /\ b2.keyed = j.keyed /\ b2.removed = j.removed /\ b2.held = j.held
      BY DEF Jobs
    <2> QED
      BY <1>2, <1>6, <2>1, <2>2
  <1>7. CASE j.field = "calls" /\ j.book = "daily"
    <2>1. AfterStore(j) = d3
      BY <1>7 DEF AfterStore
    <2>2. /\ d3.at = "entry" /\ d3.field = "bytes" /\ d3.book = "total"
          /\ d3.live = j.live /\ d3.delta = j.delta
          /\ d3.keyed = j.keyed /\ d3.removed = j.removed /\ d3.held = j.held
      BY DEF Jobs
    <2> QED
      BY <1>3, <1>7, <2>1, <2>2
  <1>8. CASE j.field = "calls" /\ j.book = "total"
    <2>1. AfterStore(j) = IF j.delta.calls = 1 THEN NoJob ELSE r4
      BY <1>8 DEF AfterStore
    <2>2. /\ r4.at = "receiving" /\ r4.field = "bytes" /\ r4.book = "daily"
          /\ r4.keyed = j.keyed /\ r4.removed = j.removed /\ r4.held = j.held
      BY DEF Jobs
    <2> QED
      BY <1>4, <1>8, <2>1, <2>2, Consts
  <1> QED
    BY <1>5, <1>6, <1>7, <1>8 DEF Books

LEMMA StoreMoves ==
  ASSUME TypeOK, NEW w \in Workers, Store(w)
  PROVE  /\ job' \in [Workers -> Jobs] /\ Own(w)
         /\ LET k == AfterStore(job[w]) IN
              /\ job'[w].at = k.at /\ job'[w].live = k.live
              /\ Alike(job'[w], k)
  <1> DEFINE j1 == [AfterStore(job[w]) EXCEPT !.load = 0]
  <1>a. job \in [Workers -> Jobs]
    BY DEF TypeOK
  <1>1. AfterStore(job[w]) \in Jobs
    BY <1>a, StoreLeads
  <1>2. j1 \in Jobs
    BY <1>1, Update
  <1>3. job' = [job EXCEPT ![w] = j1]
    BY DEF Store
  <1>f. LET k == AfterStore(job[w]) IN
          j1.at = k.at /\ j1.live = k.live /\ Alike(j1, k)
    BY <1>1 DEF Alike, Jobs
  <1> QED
    BY <1>a, <1>2, <1>3, <1>f DEF Own

\* The steps that change jobs of several workers change one field of theirs.
LEMMA CreateMoves ==
  ASSUME TypeOK, NEW w \in Workers, CreateMethod(w)
  PROVE  /\ job' \in [Workers -> Jobs]
         /\ job'[w].at = "load" /\ Alike(job'[w], job[w]) /\ Kept(job'[w], job[w])
         /\ \A v \in Workers \ {w} :
              \/ job'[v] = job[v]
              \/ /\ job'[v].at = job[v].at /\ ~job'[v].live
                 /\ job'[v].load = job[v].load /\ Alike(job'[v], job[v])
                 /\ SameCheck(job'[v], job[v])
         /\ job[w].live => \A v \in Workers \ {w} :
              job[v].book = "daily" /\ Holds(job[v]) => ~job'[v].live
  <1>a. job \in [Workers -> Jobs]
    BY DEF TypeOK
  <1>1. /\ job'[w] = [job[w] EXCEPT !.at = "load"]
        /\ \A v \in Workers \ {w} :
              \/ job'[v] = job[v]
              \/ job'[v] = [job[v] EXCEPT !.live = FALSE]
    BY DEF CreateMethod
  <1>2. \A v \in Workers : job'[v] \in Jobs
    <2> SUFFICES ASSUME NEW v \in Workers PROVE job'[v] \in Jobs
      OBVIOUS
    <2>1. /\ [job[v] EXCEPT !.at = "load"] \in Jobs
          /\ [job[v] EXCEPT !.live = FALSE] \in Jobs
      BY <1>a, Update DEF Stages
    <2> QED
      BY <1>a, <1>1, <2>1
  <1>3. job' = [v \in Workers |-> job'[v]]
    BY DEF CreateMethod
  <1>4. job[w].live => \A v \in Workers \ {w} :
          job[v].book = "daily" /\ Holds(job[v]) => ~job'[v].live
    <2> SUFFICES ASSUME job[w].live, NEW v \in Workers \ {w},
                        job[v].book = "daily", Holds(job[v])
                 PROVE  ~job'[v].live
      OBVIOUS
    <2>1. job'[v] = [job[v] EXCEPT !.live = FALSE]
      BY DEF CreateMethod
    <2> QED
      BY <1>a, <2>1 DEF Jobs
  <1>5. /\ job'[w].at = "load" /\ Alike(job'[w], job[w]) /\ Kept(job'[w], job[w])
        /\ \A v \in Workers \ {w} :
             \/ job'[v] = job[v]
             \/ /\ job'[v].at = job[v].at /\ ~job'[v].live
                /\ job'[v].load = job[v].load /\ Alike(job'[v], job[v])
                /\ SameCheck(job'[v], job[v])
    <2>1. ASSUME NEW j \in Jobs
          PROVE  LET k == [j EXCEPT !.at = "load"]
                     l == [j EXCEPT !.live = FALSE] IN
                 /\ k.at = "load" /\ Alike(k, j) /\ Kept(k, j)
                 /\ l.at = j.at /\ ~l.live /\ l.load = j.load /\ Alike(l, j)
                 /\ SameCheck(l, j)
      BY DEF Alike, Kept, SameCheck, Jobs
    <2>2. \A v \in Workers : job[v] \in Jobs
      BY <1>a
    <2>3. job'[w].at = "load" /\ Alike(job'[w], job[w]) /\ Kept(job'[w], job[w])
      BY <1>1, <2>1, <2>2, Zenon
    <2>4. ASSUME NEW v \in Workers \ {w}
          PROVE  \/ job'[v] = job[v]
                 \/ /\ job'[v].at = job[v].at /\ ~job'[v].live
                    /\ job'[v].load = job[v].load /\ Alike(job'[v], job[v])
                    /\ SameCheck(job'[v], job[v])
      <3>1. job'[v] = job[v] \/ job'[v] = [job[v] EXCEPT !.live = FALSE]
        BY <1>1
      <3>2. job[v] \in Jobs
        BY <2>2
      <3> QED
        BY <2>1, <3>1, <3>2
    <2> QED
      BY <2>3, <2>4
  <1> QED
    BY <1>2, <1>3, <1>4, <1>5

LEMMA BytesMoves ==
  ASSUME TypeOK, NEW w \in Workers, CheckBytes(w)
  PROVE  /\ job' \in [Workers -> Jobs] /\ Own(w)
         /\ \/ job'[w] = NoJob
            \/ /\ job'[w].at = "priority" /\ job'[w].held = None
               /\ job'[w].keyed = job[w].keyed /\ job'[w].removed = job[w].removed
               /\ job'[w].delta = job[w].delta /\ Kept(job'[w], job[w])
               /\ job'[w].book = job[w].book /\ job'[w].field = job[w].field
               /\ BytesLeft(IF job[w].held = None THEN plan ELSE job[w].held,
                            job[w].usage)
  <1> DEFINE j1 == [job[w] EXCEPT !.at = "priority"]
             j2 == [j1 EXCEPT !.held = None]
             j3 == [j2 EXCEPT !.replanned = FALSE]
  <1>a. job \in [Workers -> Jobs]
    BY DEF TypeOK
  <1>1. j1 \in Jobs
    BY <1>a, Update DEF Stages
  <1>2. j2 \in Jobs
    BY <1>1, Update
  <1>3. j3 \in Jobs
    BY <1>2, Update
  <1>4. CASE BytesLeft(IF job[w].held = None THEN plan ELSE job[w].held, job[w].usage)
    <2>1. job' = [job EXCEPT ![w] = j3]
      BY <1>4 DEF CheckBytes
    <2>2. /\ j3.at = "priority" /\ j3.held = None
          /\ j3.keyed = job[w].keyed /\ j3.removed = job[w].removed
          /\ j3.delta = job[w].delta /\ Kept(j3, job[w])
          /\ j3.book = job[w].book /\ j3.field = job[w].field
      BY <1>a DEF Kept, Jobs
    <2> QED
      BY <1>a, <1>3, <1>4, <2>1, <2>2 DEF Own
  <1>5. CASE ~BytesLeft(IF job[w].held = None THEN plan ELSE job[w].held, job[w].usage)
    <2>1. Done(w)
      BY <1>5 DEF CheckBytes
    <2> QED
      BY <2>1, Moves DEF Stages
  <1> QED
    BY <1>4, <1>5

LEMMA ReplanMoves ==
  ASSUME TypeOK, NEW p \in Plans, UpdateCalls(p)
  PROVE  /\ job' \in [Workers -> Jobs]
         /\ \A v \in Workers :
              /\ job'[v].at = job[v].at
              /\ Alike(job'[v], job[v]) /\ Kept(job'[v], job[v])
              /\ job'[v].at = "bytes" => job'[v].replanned
  <1>a. job \in [Workers -> Jobs]
    BY DEF TypeOK
  <1>1. \A v \in Workers : [job[v] EXCEPT !.replanned = TRUE] \in Jobs
    BY <1>a, Update
  <1>2. /\ job' \in [Workers -> Jobs]
        /\ \A v \in Workers :
             job'[v] = IF job[v].at = "bytes" THEN [job[v] EXCEPT !.replanned = TRUE]
                       ELSE job[v]
    BY <1>a, <1>1 DEF UpdateCalls
  <1>3. ASSUME NEW j \in Jobs
        PROVE  LET k == [j EXCEPT !.replanned = TRUE] IN
               k.at = j.at /\ Alike(k, j) /\ Kept(k, j) /\ k.replanned
    BY DEF Alike, Kept, Jobs
  <1>4. ASSUME NEW v \in Workers
        PROVE  /\ job'[v].at = job[v].at
               /\ Alike(job'[v], job[v]) /\ Kept(job'[v], job[v])
               /\ job'[v].at = "bytes" => job'[v].replanned
    <2>1. job[v] \in Jobs
      BY <1>a
    <2>2. CASE job[v].at = "bytes"
      BY <1>2, <1>3, <2>1, <2>2
    <2>3. CASE job[v].at # "bytes"
      BY <1>2, <2>3 DEF Alike, Kept
    <2> QED
      BY <2>2, <2>3
  <1> QED
    BY <1>2, <1>4

LEMMA RemovalMoves ==
  ASSUME TypeOK
  PROVE  /\ RemovePlan =>
              /\ job' \in [Workers -> Jobs]
              /\ \A v \in Workers :
                   IF Charged(v)
                   THEN /\ job'[v].at = job[v].at /\ job'[v].keyed = job[v].keyed
                        /\ job'[v].delta = job[v].delta /\ job'[v].removed
                        /\ job'[v].book = job[v].book /\ job'[v].field = job[v].field
                        /\ Kept(job'[v], job[v])
                        /\ job'[v].at # "bytes" => job'[v].held = job[v].held
                   ELSE job'[v] = job[v]
         /\ \A b \in Books, next \in {"daily", "idle"} : RemoveEntry(b, next) =>
              /\ job' \in [Workers -> Jobs]
              /\ \A v \in Workers :
                   IF job[v].book = b
                   THEN /\ job'[v].at = job[v].at /\ ~job'[v].live
                        /\ job'[v].load = job[v].load /\ Alike(job'[v], job[v])
                        /\ SameCheck(job'[v], job[v])
                   ELSE job'[v] = job[v]
  <1>a. job \in [Workers -> Jobs]
    BY DEF TypeOK
  <1>1. \A v \in Workers : /\ WhenRemoved(job[v]) \in Jobs
                           /\ [job[v] EXCEPT !.live = FALSE] \in Jobs
    <2> SUFFICES ASSUME NEW v \in Workers
                 PROVE  WhenRemoved(job[v]) \in Jobs /\ [job[v] EXCEPT !.live = FALSE] \in Jobs
      OBVIOUS
    <2> DEFINE h == IF job[v].at = "bytes" /\ job[v].held = None THEN plan
                    ELSE job[v].held
               j1 == [job[v] EXCEPT !.removed = TRUE]
    <2>1. h \in Counters \cup {None} /\ job[v] \in Jobs
      BY <1>a DEF TypeOK, Jobs
    <2>2. j1 \in Jobs /\ [job[v] EXCEPT !.live = FALSE] \in Jobs
      BY <2>1, Update
    <2>3. [j1 EXCEPT !.held = h] \in Jobs
      BY <2>1, <2>2, Update
    <2>4. WhenRemoved(job[v]) = [j1 EXCEPT !.held = h]
      BY <2>1 DEF WhenRemoved, Jobs
    <2> QED
      BY <2>2, <2>3, <2>4
  <1>2. ASSUME RemovePlan
        PROVE  /\ job' \in [Workers -> Jobs]
               /\ \A v \in Workers :
                    IF Charged(v)
                    THEN /\ job'[v].at = job[v].at /\ job'[v].keyed = job[v].keyed
                         /\ job'[v].delta = job[v].delta /\ job'[v].removed
                         /\ job'[v].book = job[v].book /\ job'[v].field = job[v].field
                         /\ Kept(job'[v], job[v])
                         /\ job'[v].at # "bytes" => job'[v].held = job[v].held
                    ELSE job'[v] = job[v]
    <2>1. /\ job' \in [Workers -> Jobs]
          /\ \A v \in Workers :
               job'[v] = IF Charged(v) THEN WhenRemoved(job[v]) ELSE job[v]
      BY <1>a, <1>1, <1>2 DEF RemovePlan
    <2>2. ASSUME NEW j \in Jobs
          PROVE  LET k == WhenRemoved(j) IN
                 /\ k.at # "bytes" => k.held = j.held
                 /\ k.at = j.at /\ k.keyed = j.keyed /\ k.delta = j.delta
                 /\ k.removed /\ k.book = j.book /\ k.field = j.field /\ Kept(k, j)
      BY DEF Kept, Jobs, WhenRemoved
    <2>3. ASSUME NEW v \in Workers, Charged(v)
          PROVE  /\ job'[v].at = job[v].at /\ job'[v].keyed = job[v].keyed
                 /\ job'[v].delta = job[v].delta /\ job'[v].removed
                 /\ job'[v].book = job[v].book /\ job'[v].field = job[v].field
                 /\ Kept(job'[v], job[v])
                 /\ job'[v].at # "bytes" => job'[v].held = job[v].held
      <3>1. job'[v] = WhenRemoved(job[v]) /\ job[v] \in Jobs
        BY <1>a, <2>1, <2>3
      <3> QED
        BY <2>2, <3>1
    <2> QED
      BY <1>2, <2>1, <2>3
  <1>3. ASSUME NEW b \in Books, NEW next \in {"daily", "idle"}, RemoveEntry(b, next)
        PROVE  /\ job' \in [Workers -> Jobs]
               /\ \A v \in Workers :
                    IF job[v].book = b
                    THEN /\ job'[v].at = job[v].at /\ ~job'[v].live
                         /\ job'[v].load = job[v].load /\ Alike(job'[v], job[v])
                         /\ SameCheck(job'[v], job[v])
                    ELSE job'[v] = job[v]
    <2>1. /\ job' \in [Workers -> Jobs]
          /\ \A v \in Workers :
               job'[v] = IF job[v].book = b THEN [job[v] EXCEPT !.live = FALSE]
                         ELSE job[v]
      BY <1>a, <1>1, <1>3 DEF RemoveEntry
    <2> QED
      BY <1>a, <2>1 DEF Alike, SameCheck, Jobs
  <1> QED
    BY <1>2, <1>3

-----------------------------------------------------------------------------
LEMMA TypeStep == TypeOK /\ Linked /\ [Next]_vars => TypeOK'
  <1> SUFFICES ASSUME TypeOK, Linked, [Next]_vars PROVE TypeOK'
    OBVIOUS
  <1> USE DEF TypeOK
  <1>a. job \in [Workers -> Jobs] /\ Plans \subseteq Counters /\ None \notin Counters
    BY PlansAssumption
  <1>1. ASSUME NEW w \in Workers, NEW keyed \in BOOLEAN, Authenticate(w, keyed)
        PROVE  TypeOK'
    <2>1. job' \in [Workers -> Jobs]
      BY <1>1, AuthenticateMoves
    <2>2. begun' \in Nat /\ overlapped' \in BOOLEAN
      BY <1>1 DEF Authenticate
    <2> QED
      BY <1>1, <2>1, <2>2 DEF Authenticate, userVars, bookVars
  <1>2. ASSUME NEW w \in Workers, ReadUsage(w) PROVE TypeOK'
    BY <1>2, ReadUsageMoves DEF ReadUsage, userVars, bookVars, histVars
  <1>3. ASSUME NEW w \in Workers, NEW at \in Stages, Go(w, at) \/ Done(w),
               UNCHANGED <<sim, userVars, bookVars, begun, histVars>>
        PROVE  TypeOK'
    BY <1>3, Moves DEF userVars, bookVars, histVars
  <1>4. ASSUME NEW w \in Workers, Piece(w) PROVE TypeOK'
    <2>1. job' \in [Workers -> Jobs]
      BY <1>4, PieceMoves
    <2>2. billed' \in Nat
      BY <1>4 DEF Piece
    <2> QED
      BY <1>4, <2>1, <2>2 DEF Piece, userVars, bookVars
  <1>5. ASSUME NEW w \in Workers, Answered(w) PROVE TypeOK'
    <2>1. CASE job[w].keyed
      <3>1. job' \in [Workers -> Jobs]
        BY <1>5, <2>1, AnsweredMoves
      <3>2. billed' \in Nat /\ answered' \in Nat
        BY <1>5, <2>1 DEF Answered
      <3> QED
        BY <1>5, <3>1, <3>2 DEF Answered, userVars, bookVars
    <2>2. CASE ~job[w].keyed
      BY <1>5, <2>2, Moves DEF Answered, userVars, bookVars, Stages
    <2> QED
      BY <2>1, <2>2
  <1>6. ASSUME NEW w \in Workers, Entry(w) PROVE TypeOK'
    <2>1. job[w].book \in Books
      BY <1>a DEF Jobs
    <2> QED
      BY <1>6, <2>1, EntryMoves, Consts DEF Entry, userVars, histVars, Books
  <1>7. ASSUME NEW w \in Workers, CreateMethod(w) PROVE TypeOK'
    BY <1>7, CreateMoves, Consts DEF CreateMethod, userVars, histVars, Books
  <1>8. ASSUME NEW w \in Workers, Load(w) PROVE TypeOK'
    BY <1>8, LoadMoves DEF Load, userVars, bookVars, histVars
  <1>9. ASSUME NEW w \in Workers, Store(w) PROVE TypeOK'
    <2> DEFINE j == job[w]
    <2>1. /\ j.book \in Books /\ j.field \in {"bytes", "calls"}
          /\ j.load \in Nat /\ j.delta \in {Zero, PieceDelta, CallDelta}
          /\ j.live \in BOOLEAN
      BY <1>a DEF Jobs
    <2>2. j.live => stats[j.book] \in Counters
      BY <1>9, <2>1 DEF Linked, LinkedJob, Store
    <2>3. j.load + j.delta[j.field] \in Nat
      BY <2>1 DEF Zero, PieceDelta, CallDelta
    <2>4. stats' \in [Books -> Counters \cup {None}]
      <3>1. CASE ~j.live
        BY <1>9, <3>1 DEF Store
      <3>2. CASE j.live /\ j.field = "bytes"
        BY <1>9, <2>1, <2>2, <2>3, <3>2 DEF Store, Counters
      <3>3. CASE j.live /\ j.field = "calls"
        BY <1>9, <2>1, <2>2, <2>3, <3>3 DEF Store, Counters
      <3> QED
        BY <2>1, <3>1, <3>2, <3>3
    <2> QED
      BY <1>9, <2>4, StoreMoves DEF Store, userVars, histVars
  <1>10. ASSUME NEW pl \in Plans, Register(pl) PROVE TypeOK'
    BY <1>10, <1>a DEF Register, bookVars, histVars
  <1>11. ASSUME NEW pl \in Plans, UpdateCalls(pl) PROVE TypeOK'
    <2>1. pl.calls \in Nat /\ plan \in Counters
      BY <1>11, <1>a DEF UpdateCalls, Counters
    <2>2. plan' \in Counters
      BY <1>11, <2>1 DEF UpdateCalls, Counters
    <2> QED
      BY <1>11, <2>2, ReplanMoves DEF UpdateCalls, bookVars, histVars
  <1>12. CASE UpdateBytes
    <2>1. plan \in Counters /\ admin.given \in Plans
      BY <1>12 DEF UpdateBytes, Linked
    <2>2. admin.given.bytes \in Nat
      BY <2>1, <1>a DEF Counters
    <2>3. plan' \in Counters
      BY <1>12, <2>1, <2>2 DEF UpdateBytes, Counters
    <2> QED
      BY <1>12, <2>3 DEF UpdateBytes, bookVars, histVars
  <1>13. CASE RemovePlan
    BY <1>13, RemovalMoves DEF RemovePlan, bookVars, Books
  <1>14. ASSUME NEW b \in Books, NEW next \in {"daily", "idle"}, RemoveEntry(b, next)
         PROVE  TypeOK'
    <2>1. admin' \in [at : {"idle", "updating"} \cup Books,
                      given : Plans \cup {None}]
      BY <1>14 DEF RemoveEntry, Books
    <2>2. job' \in [Workers -> Jobs]
      BY <1>14, RemovalMoves
    <2>3. /\ stats' \in [Books -> Counters \cup {None}]
          /\ entry' \in [Books -> BOOLEAN]
      BY <1>14 DEF RemoveEntry, DropEntry
    <2> QED
      BY <1>14, <2>1, <2>2, <2>3 DEF RemoveEntry, histVars
  <1>15. CASE UNCHANGED vars
    BY <1>15 DEF vars, userVars, bookVars, histVars
  <1>16. ASSUME NEW w \in Workers, Request(w) PROVE TypeOK'
    <2>1. CASE AcceptContent(w)
      BY <1>3, <2>1 DEF AcceptContent, Stages
    <2>2. CASE CheckRegistered(w)
      BY <1>3, <2>2 DEF CheckRegistered, Stages
    <2>3. CASE CheckCalls(w)
      BY <1>3, <2>3 DEF CheckCalls, Stages
    <2>4. CASE GetAttribute(w, "priority", "pool") \/ GetAttribute(w, "pool", "forwarding")
      BY <1>3, <2>4 DEF GetAttribute, Stages
    <2>5. CASE Forward(w) \/ Leave(w)
      BY <1>3, <2>5 DEF Forward, Leave, Stages
    <2>6. CASE CheckBytes(w)
      BY <2>6, BytesMoves DEF CheckBytes, userVars, bookVars, histVars
    <2> QED
      BY <1>1, <1>2, <1>4, <1>5, <1>16, <2>1, <2>2, <2>3, <2>4, <2>5, <2>6 DEF Request
  <1>17. ASSUME NEW w \in Workers, Record(w) PROVE TypeOK'
    <2>1. CASE FindMethod(w)
      BY <1>3, <2>1 DEF FindMethod, Stages
    <2> QED
      BY <1>6, <1>7, <1>8, <1>9, <1>17, <2>1 DEF Record
  <1> QED
    BY <1>10, <1>11, <1>12, <1>13, <1>14, <1>15, <1>16, <1>17 DEF Next, Admin, Books

LEMMA LinkedStep == TypeOK /\ Linked /\ [Next]_vars => Linked'
  <1> SUFFICES ASSUME TypeOK, Linked, [Next]_vars PROVE Linked'
    OBVIOUS
  <1>a. job \in [Workers -> Jobs] /\ Plans \subseteq Counters /\ None \notin Counters
    BY PlansAssumption DEF TypeOK
  <1>b. \A w \in Workers : LinkedJob(job[w], stats)
    BY DEF Linked
  <1>c. ASSUME NEW w \in Workers, Own(w), LinkedJob(job'[w], stats),
               UNCHANGED <<plan, admin, entry, stats>>
        PROVE  Linked'
    BY <1>b, <1>c DEF Linked, LinkedJob, Own
  <1>1. ASSUME NEW w \in Workers, NEW keyed \in BOOLEAN, Authenticate(w, keyed)
        PROVE  Linked'
    <2>1. LinkedJob(job'[w], stats)
      BY <1>1, AuthenticateMoves DEF LinkedJob, NoJob, Recording
    <2> QED
      BY <1>1, <1>c, <2>1, AuthenticateMoves DEF Authenticate, userVars, bookVars
  <1>2. ASSUME NEW w \in Workers, ReadUsage(w) PROVE Linked'
    <2>1. LinkedJob(job'[w], stats)
      <3>1. job[w].at = "usage" /\ LinkedJob(job[w], stats)
        BY <1>2, <1>b DEF ReadUsage
      <3> QED
        BY <1>2, <3>1, ReadUsageMoves DEF LinkedJob, Alike, Kept, Recording
    <2> QED
      BY <1>2, <1>c, <2>1, ReadUsageMoves DEF ReadUsage, userVars, bookVars
  <1>3. ASSUME NEW w \in Workers, NEW at \in Stages, Go(w, at) \/ Done(w),
               at \notin {"entry", "method", "create", "load", "store"},
               ~Recording(job[w]), UNCHANGED <<userVars, bookVars>>
        PROVE  Linked'
    <2>1. LinkedJob(NoJob, stats)
      BY DEF LinkedJob, NoJob, Recording
    <2>2. CASE Done(w)
      BY <1>3, <1>c, <2>1, <2>2, Moves DEF userVars, bookVars
    <2>3. CASE Go(w, at)
      <3>1. job'[w].at = at /\ Alike(job'[w], job[w]) /\ Own(w)
        BY <1>3, <2>3, Moves
      <3>2. LinkedJob(job'[w], stats)
        BY <1>3, <1>b, <3>1 DEF Alike, LinkedJob, Recording
      <3> QED
        BY <1>3, <1>c, <3>1, <3>2 DEF userVars, bookVars
    <2> QED
      BY <1>3, <2>2, <2>3
  <1>4. ASSUME NEW w \in Workers, Piece(w) PROVE Linked'
    <2>1. LinkedJob(job'[w], stats)
      <3>1. job[w].at = "receiving" /\ LinkedJob(job[w], stats)
        BY <1>4, <1>b DEF Piece
      <3> QED
        BY <1>4, <3>1, PieceMoves DEF LinkedJob, Alike, Kept, Recording
    <2> QED
      BY <1>4, <1>c, <2>1, PieceMoves DEF Piece, userVars, bookVars
  <1>5. ASSUME NEW w \in Workers, Answered(w) PROVE Linked'
    <2>1. CASE job[w].keyed
      <3>1. LinkedJob(job'[w], stats)
        BY <1>5, <1>a, <1>b, <2>1, AnsweredMoves
        DEF Answered, LinkedJob, Alike, Kept, Recording, Jobs
      <3> QED
        BY <1>5, <1>c, <2>1, <3>1, AnsweredMoves DEF Answered, userVars, bookVars
    <2>2. CASE ~job[w].keyed
      <3>1. LinkedJob(NoJob, stats)
        BY DEF LinkedJob, NoJob, Recording
      <3> QED
        BY <1>5, <1>c, <2>2, <3>1, Moves DEF Answered, userVars, bookVars, Stages
    <2> QED
      BY <2>1, <2>2
  <1>6. ASSUME NEW w \in Workers, Entry(w) PROVE Linked'
    <2>a. /\ job[w].book \in Books /\ job[w].at = "entry" /\ job[w].field = "bytes"
          /\ entry \in [Books -> BOOLEAN] /\ stats \in [Books -> Counters \cup {None}]
      BY <1>6, <1>a, <1>b DEF Jobs, Entry, LinkedJob, TypeOK
    <2>1. stats["total"]' # None <=> entry["total"]'
      BY <1>6, <2>a, Consts DEF Entry, Linked, Books
    <2>2. \A b \in Books : stats[b] # None => stats'[b] # None
      BY <1>6, <2>a, Consts DEF Entry, Books
    <2>3. job[w].book = "total" => stats'["total"] # None
      BY <1>6, <2>a, Consts DEF Entry, Linked, Books
    <2>4. LinkedJob(job'[w], stats')
      BY <1>6, <1>a, <2>a, <2>3, EntryMoves DEF LinkedJob, Alike, Kept, Recording, Jobs, Books
    <2>5. \A v \in Workers : job[v].book \in Books
      BY <1>a DEF Jobs
    <2>6. \A v \in Workers : LinkedJob(job'[v], stats')
      BY <1>6, <1>b, <2>2, <2>4, <2>5, EntryMoves DEF Own, LinkedJob
    <2> QED
      BY <1>6, <2>1, <2>6 DEF Linked, Entry, userVars
  <1>7. ASSUME NEW w \in Workers, CreateMethod(w) PROVE Linked'
    <2>a. /\ job[w].book = "daily" /\ job[w].field = "bytes"
          /\ stats \in [Books -> Counters \cup {None}]
      BY <1>7, <1>b DEF CreateMethod, LinkedJob, TypeOK
    <2>1. /\ stats'["total"] = stats["total"] /\ entry' = entry
          /\ \A b \in Books : stats[b] # None => stats'[b] # None
          /\ job[w].live => stats'["daily"] # None
      BY <1>7, <2>a, Consts DEF CreateMethod, Books
    <2>2. LinkedJob(job'[w], stats')
      BY <1>7, <1>a, <2>a, <2>1, CreateMoves DEF LinkedJob, Alike, Kept, Recording, Jobs
    <2>3. ASSUME NEW v \in Workers \ {w} PROVE LinkedJob(job'[v], stats')
      <3>1. job[v].book \in Books /\ LinkedJob(job[v], stats)
        BY <1>a, <1>b DEF Jobs
      <3>2. CASE job'[v] = job[v]
        BY <2>1, <3>1, <3>2 DEF LinkedJob, Recording
      <3>3. CASE ~job'[v].live /\ job'[v].at = job[v].at /\ Alike(job'[v], job[v])
        BY <3>1, <3>3 DEF LinkedJob, Recording, Alike
      <3> QED
        BY <1>7, <3>2, <3>3, CreateMoves
    <2> QED
      BY <1>7, <2>1, <2>2, <2>3 DEF Linked, CreateMethod, userVars
  <1>8. ASSUME NEW w \in Workers, Load(w) PROVE Linked'
    <2>1. LinkedJob(job'[w], stats)
      <3>1. job[w].at = "load" /\ LinkedJob(job[w], stats)
        BY <1>8, <1>b DEF Load
      <3> QED
        BY <1>8, <3>1, LoadMoves DEF LinkedJob, Alike, Kept, Recording
    <2> QED
      BY <1>8, <1>c, <2>1, LoadMoves DEF Load, userVars, bookVars
  <1>9. ASSUME NEW w \in Workers, Store(w) PROVE Linked'
    <2> DEFINE k == AfterStore(job[w])
               n == job[w].load + job[w].delta[job[w].field]
    <2>a. /\ job[w] \in Jobs /\ job[w].book \in Books /\ job[w].at = "store"
          /\ job[w].field \in {"bytes", "calls"}
          /\ stats \in [Books -> Counters \cup {None}]
      BY <1>9, <1>a DEF Jobs, Store, TypeOK
    <2>b. n \in Nat
      BY <1>a DEF Jobs, Zero, PieceDelta, CallDelta
    <2>1. \A b \in Books : stats[b] # None => stats'[b] # None
      <3>1. job[w].live => stats[job[w].book] \in Counters
        BY <2>a, <1>b DEF LinkedJob
      <3>2. CASE ~job[w].live
        BY <1>9, <3>2 DEF Store
      <3>3. CASE job[w].live /\ job[w].field = "bytes"
        <4>1. /\ stats' = [stats EXCEPT ![job[w].book] = [@ EXCEPT !.bytes = n]]
              /\ [stats[job[w].book] EXCEPT !.bytes = n] \in Counters
          BY <1>9, <2>b, <3>1, <3>3 DEF Store, Counters
        <4> QED
          BY <1>a, <2>a, <4>1
      <3>4. CASE job[w].live /\ job[w].field = "calls"
        <4>1. /\ stats' = [stats EXCEPT ![job[w].book] = [@ EXCEPT !.calls = n]]
              /\ [stats[job[w].book] EXCEPT !.calls = n] \in Counters
          BY <1>9, <2>b, <3>1, <3>4 DEF Store, Counters
        <4> QED
          BY <1>a, <2>a, <4>1
      <3> QED
        BY <2>a, <3>2, <3>3, <3>4
    <2>2. stats'["total"] # None <=> stats["total"] # None
      <3>1. CASE ~job[w].live
        BY <1>9, <3>1 DEF Store
      <3>2. CASE job[w].live
        <4>1. stats[job[w].book] # None
          BY <2>a, <1>b, <3>2 DEF LinkedJob
        <4> QED
          BY <1>9, <2>1, <2>a, <3>2, <4>1 DEF Store, Books
      <3> QED
        BY <3>1, <3>2
    <2>3. LinkedJob(job'[w], stats')
      <3>1. LinkedJob(k, stats')
        BY <2>a, <2>1, <1>b, StoreLeads DEF LinkedJob, Recording, NoJob, Books
      <3> QED
        BY <1>9, <3>1, StoreMoves DEF Alike, LinkedJob, Recording
    <2>4. \A v \in Workers : job[v].book \in Books
      BY <1>a DEF Jobs
    <2>5. \A v \in Workers : LinkedJob(job'[v], stats')
      BY <1>9, <1>b, <2>1, <2>3, <2>4, StoreMoves DEF Own, LinkedJob
    <2> QED
      BY <1>9, <2>2, <2>5 DEF Linked, Store, userVars
  <1>10. ASSUME NEW pl \in Plans, Register(pl) PROVE Linked'
    BY <1>10, <1>a, <1>b DEF Register, Linked, LinkedJob, bookVars
  <1>11. ASSUME NEW pl \in Plans, UpdateCalls(pl) PROVE Linked'
    <2>1. pl # None /\ plan \in Counters /\ plan' # None
      BY <1>11, <1>a DEF UpdateCalls, TypeOK, Counters
    <2>2. \A v \in Workers : LinkedJob(job'[v], stats)
      BY <1>11, <1>b, ReplanMoves DEF LinkedJob, Alike, Kept, Recording
    <2> QED
      BY <1>11, <1>a, <2>1, <2>2 DEF UpdateCalls, Linked, LinkedJob, bookVars
  <1>12. CASE UpdateBytes
    BY <1>12, <1>b DEF UpdateBytes, Linked, LinkedJob, bookVars
  <1>13. CASE RemovePlan
    <2>1. ASSUME NEW v \in Workers PROVE LinkedJob(job'[v], stats)
      BY <1>13, <1>a, <1>b, RemovalMoves DEF LinkedJob, Alike, Kept, Recording, Jobs
    <2>2. admin'.at = "total" /\ UNCHANGED <<entry, stats>>
      BY <1>13 DEF RemovePlan, bookVars, TypeOK
    <2> QED
      BY <2>1, <2>2 DEF Linked, LinkedJob
  <1>14. ASSUME NEW b \in Books, NEW next \in {"daily", "idle"}, RemoveEntry(b, next)
         PROVE  Linked'
    <2>1. /\ stats' = [stats EXCEPT ![b] = None] /\ entry' = [entry EXCEPT ![b] = FALSE]
          /\ stats \in [Books -> Counters \cup {None}] /\ entry \in [Books -> BOOLEAN]
      BY <1>14 DEF RemoveEntry, DropEntry, TypeOK
    <2>2. admin'.at = next
      BY <1>14 DEF RemoveEntry, TypeOK
    <2>3. ASSUME NEW v \in Workers PROVE LinkedJob(job'[v], stats')
      <3>1. job[v].book \in Books /\ LinkedJob(job[v], stats)
        BY <1>a, <1>b DEF Jobs
      <3>2. CASE job[v].book # b
        <4>1. job'[v] = job[v] /\ stats'[job[v].book] = stats[job[v].book]
          BY <1>14, <2>1, <3>1, <3>2, RemovalMoves
        <4> QED
          BY <3>1, <4>1 DEF LinkedJob
      <3>3. CASE job[v].book = b
        BY <1>14, <1>a, <3>1, <3>3, RemovalMoves DEF LinkedJob, Alike, Kept, Recording, Jobs
      <3> QED
        BY <3>2, <3>3
    <2>4. stats'["total"] # None <=> entry'["total"]
      BY <2>1 DEF Linked, Books
    <2> QED
      BY <2>2, <2>3, <2>4 DEF Linked
  <1>15. CASE UNCHANGED vars
    BY <1>15 DEF vars, userVars, bookVars, Linked, LinkedJob
  <1>16. ASSUME NEW w \in Workers, Request(w) PROVE Linked'
    <2>1. CASE AcceptContent(w)
      BY <1>3, <2>1 DEF Recording, Stages, AcceptContent
    <2>2. CASE CheckRegistered(w)
      BY <1>3, <2>2 DEF Recording, Stages, CheckRegistered
    <2>3. CASE CheckCalls(w)
      BY <1>3, <2>3 DEF Recording, Stages, CheckCalls
    <2>4. CASE GetAttribute(w, "priority", "pool") \/ GetAttribute(w, "pool", "forwarding")
      BY <1>3, <2>4 DEF Recording, Stages, GetAttribute
    <2>5. CASE Forward(w) \/ Leave(w)
      BY <1>3, <2>5 DEF Recording, Stages, Forward, Leave
    <2>6. CASE CheckBytes(w)
      <3>1. LinkedJob(NoJob, stats)
        BY DEF LinkedJob, NoJob, Recording
      <3>2. job[w].at = "bytes" /\ LinkedJob(job[w], stats)
        BY <1>b, <2>6 DEF CheckBytes
      <3>3. LinkedJob(job'[w], stats)
        BY <2>6, <3>1, <3>2, BytesMoves DEF LinkedJob, Recording
      <3> QED
        BY <1>c, <2>6, <3>3, BytesMoves DEF CheckBytes, userVars, bookVars
    <2> QED
      BY <1>1, <1>2, <1>4, <1>5, <1>16, <2>1, <2>2, <2>3, <2>4, <2>5, <2>6 DEF Request
  <1>17. ASSUME NEW w \in Workers, Record(w) PROVE Linked'
    <2>1. CASE FindMethod(w)
      <3> DEFINE at == IF job[w].live /\ stats["daily"] = None THEN "create" ELSE "load"
      <3>1. /\ at \in Stages /\ Go(w, at) /\ UNCHANGED <<userVars, bookVars>>
            /\ job[w].at = "method"
        BY <2>1 DEF FindMethod, Stages
      <3>2. /\ job'[w].at = at /\ Own(w)
            /\ Alike(job'[w], job[w]) /\ Kept(job'[w], job[w])
        BY <3>1, Moves
      <3>3. LinkedJob(job'[w], stats)
        BY <1>b, <3>1, <3>2 DEF LinkedJob, Recording, Alike, Kept
      <3> QED
        BY <1>c, <3>1, <3>2, <3>3 DEF userVars, bookVars
    <2> QED
      BY <1>6, <1>7, <1>8, <1>9, <1>17, <2>1 DEF Record
  <1> QED
    BY <1>10, <1>11, <1>12, <1>13, <1>14, <1>15, <1>16, <1>17 DEF Next, Admin, Books

-----------------------------------------------------------------------------
LEMMA FlowStep == TypeOK /\ Linked /\ Flow /\ [Next]_vars => Flow'
  <1> SUFFICES ASSUME TypeOK, Linked, Flow, [Next]_vars PROVE Flow'
    OBVIOUS
  <1>a. job \in [Workers -> Jobs] /\ \A w \in Workers : FlowJob(job[w], plan)
    BY DEF TypeOK, Flow
  <1>b. ASSUME NEW w \in Workers, Own(w), FlowJob(job'[w], plan),
               UNCHANGED <<sim, plan>>
        PROVE  Flow'
    BY <1>a, <1>b DEF Flow, FlowJob, Own
  <1>c. FlowJob(NoJob, plan)
    BY DEF FlowJob, NoJob, Recording
  <1>d. ASSUME NEW w \in Workers, Done(w), UNCHANGED <<sim, plan>>
        PROVE  Flow'
    BY <1>b, <1>c, <1>d, Moves DEF Stages
  <1>1. ASSUME NEW w \in Workers, NEW keyed \in BOOLEAN, Authenticate(w, keyed)
        PROVE  Flow'
    <2>1. IF keyed THEN plan # None ELSE sim
      BY <1>1 DEF Authenticate
    <2>2. FlowJob(job'[w], plan)
      BY <1>1, <2>1, AuthenticateMoves DEF FlowJob, Recording
    <2> QED
      BY <1>1, <1>b, <2>2, AuthenticateMoves DEF Authenticate, userVars
  <1>2. ASSUME NEW w \in Workers, ReadUsage(w) PROVE Flow'
    <2>1. job[w].at = "usage" /\ FlowJob(job[w], plan)
      BY <1>2, <1>a DEF ReadUsage
    <2>2. FlowJob(job'[w], plan)
      BY <1>2, <2>1, ReadUsageMoves DEF FlowJob, Recording, Alike
    <2> QED
      BY <1>2, <1>b, <2>2, ReadUsageMoves DEF ReadUsage, userVars
  <1>3. ASSUME NEW w \in Workers, NEW at \in Stages, Go(w, at), job[w].at # "idle",
               at \in {"method", "create", "load", "store"} => Recording(job[w]),
               at \in {"usage", "registered", "plan", "bytes", "priority", "pool", "raised"}
                 => ~sim,
               at = "raised" => plan = None,
               at # "entry", UNCHANGED <<sim, plan>>
        PROVE  Flow'
    <2>1. /\ job'[w].at = at /\ Own(w)
          /\ Alike(job'[w], job[w]) /\ Kept(job'[w], job[w])
      BY <1>3, Moves
    <2>2. FlowJob(job'[w], plan)
      BY <1>3, <1>a, <2>1 DEF FlowJob, Recording, Alike
    <2> QED
      BY <1>3, <1>b, <2>1, <2>2
  <1>4. ASSUME NEW w \in Workers, Piece(w) PROVE Flow'
    <2>1. job[w].at = "receiving" /\ FlowJob(job[w], plan) /\ job[w].keyed \in BOOLEAN
      BY <1>4, <1>a DEF Piece, Jobs
    <2>2. FlowJob(job'[w], plan)
      BY <1>4, <2>1, PieceMoves, Consts DEF FlowJob, Recording
    <2> QED
      BY <1>4, <1>b, <2>2, PieceMoves DEF Piece, userVars
  <1>5. ASSUME NEW w \in Workers, Answered(w) PROVE Flow'
    <2>1. job[w].at = "receiving" /\ FlowJob(job[w], plan)
      BY <1>5, <1>a DEF Answered
    <2>2. CASE job[w].keyed
      <3>1. FlowJob(job'[w], plan)
        BY <1>5, <2>1, <2>2, AnsweredMoves, Consts DEF FlowJob, Recording
      <3> QED
        BY <1>5, <1>b, <2>2, <3>1, AnsweredMoves DEF Answered, userVars
    <2>3. CASE ~job[w].keyed
      BY <1>5, <1>d, <2>3 DEF Answered, userVars
    <2> QED
      BY <2>2, <2>3
  <1>6. ASSUME NEW w \in Workers, Entry(w) PROVE Flow'
    <2>1. job[w].at = "entry" /\ FlowJob(job[w], plan)
      BY <1>6, <1>a DEF Entry
    <2>2. FlowJob(job'[w], plan)
      BY <1>6, <2>1, EntryMoves DEF FlowJob, Recording, Alike
    <2> QED
      BY <1>6, <1>b, <2>2, EntryMoves DEF Entry, userVars
  <1>7. ASSUME NEW w \in Workers, CreateMethod(w) PROVE Flow'
    <2>1. job[w].at = "create" /\ UNCHANGED <<sim, plan>>
      BY <1>7 DEF CreateMethod, userVars
    <2>2. FlowJob(job'[w], plan)
      BY <1>7, <1>a, <2>1, CreateMoves DEF FlowJob, Recording, Alike
    <2>3. ASSUME NEW v \in Workers \ {w} PROVE FlowJob(job'[v], plan)
      BY <1>7, <1>a, CreateMoves DEF FlowJob, Recording, Alike
    <2> QED
      BY <2>1, <2>2, <2>3 DEF Flow, FlowJob
  <1>8. ASSUME NEW w \in Workers, Load(w) PROVE Flow'
    <2>1. job[w].at = "load" /\ FlowJob(job[w], plan)
      BY <1>8, <1>a DEF Load
    <2>2. FlowJob(job'[w], plan)
      BY <1>8, <2>1, LoadMoves DEF FlowJob, Recording, Alike
    <2> QED
      BY <1>8, <1>b, <2>2, LoadMoves DEF Load, userVars
  <1>9. ASSUME NEW w \in Workers, Store(w) PROVE Flow'
    <2> DEFINE k == AfterStore(job[w])
    <2>1. job[w].at = "store" /\ FlowJob(job[w], plan) /\ job[w] \in Jobs
      BY <1>9, <1>a DEF Store
    <2>2. job[w].field \in {"bytes", "calls"} /\ job[w].book \in {"daily", "total"}
      BY <2>1 DEF Jobs, Books
    <2>3. \/ k = NoJob
          \/ k.keyed = job[w].keyed /\ k.removed = job[w].removed
      BY <2>1, StoreLeads
    <2>4. \/ k = NoJob \/ k.at = "receiving"
          \/ k.at \in {"load", "entry"} /\ k.delta = job[w].delta
      BY <2>1, <2>2, StoreLeads
    <2>5. FlowJob(k, plan)
      BY <1>c, <2>1, <2>3, <2>4 DEF FlowJob, Recording
    <2>6. FlowJob(job'[w], plan)
      BY <1>9, <2>5, StoreMoves DEF FlowJob, Recording, Alike
    <2> QED
      BY <1>9, <1>b, <2>6, StoreMoves DEF Store, userVars
  <1>10. CASE (\E pl \in Plans : Register(pl) \/ UpdateCalls(pl)) \/ UpdateBytes
    <2>1. sim' = sim /\ plan' # None
      <3>1. ASSUME NEW pl \in Plans, Register(pl) PROVE plan' # None
        BY <3>1, PlansAssumption DEF Register
      <3>2. ASSUME NEW pl \in Plans, UpdateCalls(pl) PROVE plan' # None
        <4>1. plan \in Counters /\ pl.calls \in Nat
          BY <3>2, PlansAssumption DEF UpdateCalls, TypeOK, Counters
        <4>2. plan' \in Counters
          BY <3>2, <4>1 DEF UpdateCalls, Counters
        <4> QED
          BY <4>2, PlansAssumption
      <3>3. ASSUME UpdateBytes PROVE plan' # None
        <4>1. plan \in Counters /\ admin.given \in Counters
          BY <3>3, PlansAssumption DEF UpdateBytes, TypeOK, Linked
        <4>2. plan' \in Counters
          BY <3>3, <4>1 DEF UpdateBytes, Counters
        <4> QED
          BY <4>2, PlansAssumption
      <3> QED
        BY <1>10, <3>1, <3>2, <3>3 DEF Register, UpdateCalls, UpdateBytes
    <2>2. ASSUME NEW v \in Workers
          PROVE  /\ job'[v].at = job[v].at /\ Alike(job'[v], job[v])
      <3>1. CASE job' = job
        BY <3>1 DEF Alike
      <3>2. ASSUME NEW pl \in Plans, UpdateCalls(pl)
            PROVE  job'[v].at = job[v].at /\ Alike(job'[v], job[v])
        BY <3>2, ReplanMoves
      <3> QED
        BY <1>10, <3>1, <3>2 DEF Register, UpdateBytes
    <2>3. ASSUME NEW v \in Workers PROVE FlowJob(job'[v], plan')
      BY <1>a, <2>1, <2>2 DEF FlowJob, Alike, Recording
    <2> QED
      BY <2>1, <2>3 DEF Flow, FlowJob
  <1>11. CASE RemovePlan
    <2>1. sim' = sim
      BY <1>11 DEF RemovePlan
    <2>2. ASSUME NEW v \in Workers PROVE FlowJob(job'[v], plan')
      <3>1. CASE Charged(v)
        BY <1>11, <1>a, <3>1, RemovalMoves DEF FlowJob, Recording
      <3>2. CASE ~Charged(v)
        BY <1>11, <1>a, <3>2, RemovalMoves DEF FlowJob, Recording, Charged, Idle
      <3> QED
        BY <3>1, <3>2
    <2> QED
      BY <2>1, <2>2 DEF Flow, FlowJob
  <1>12. ASSUME NEW b \in Books, NEW next \in {"daily", "idle"}, RemoveEntry(b, next)
         PROVE  Flow'
    <2>1. sim' = sim /\ plan' = plan
      BY <1>12 DEF RemoveEntry
    <2>2. ASSUME NEW v \in Workers PROVE FlowJob(job'[v], plan)
      BY <1>12, <1>a, RemovalMoves DEF FlowJob, Recording, Alike
    <2> QED
      BY <2>1, <2>2 DEF Flow, FlowJob
  <1>13. CASE UNCHANGED vars
    BY <1>13, <1>a DEF vars, userVars, Flow, FlowJob
  <1>14. ASSUME NEW w \in Workers, Request(w) PROVE Flow'
    <2>a. FlowJob(job[w], plan)
      BY <1>a
    <2>1. CASE AcceptContent(w)
      BY <1>3, <2>1 DEF AcceptContent, Stages, userVars
    <2>2. CASE CheckRegistered(w)
      <3>1. ~sim
        BY <2>2, <2>a DEF CheckRegistered, FlowJob
      <3> QED
        BY <1>3, <1>d, <2>2, <3>1 DEF CheckRegistered, Stages, userVars
    <2>3. CASE CheckCalls(w)
      <3>1. ~sim
        BY <2>3, <2>a DEF CheckCalls, FlowJob
      <3> QED
        BY <1>3, <1>d, <2>3, <3>1 DEF CheckCalls, Stages, userVars
    <2>4. CASE GetAttribute(w, "priority", "pool") \/ GetAttribute(w, "pool", "forwarding")
      <3>1. ~sim
        BY <2>4, <2>a DEF GetAttribute, FlowJob
      <3> QED
        BY <1>3, <2>4, <3>1 DEF GetAttribute, Stages, userVars
    <2>5. CASE Forward(w)
      BY <1>3, <2>5 DEF Forward, Stages, userVars
    <2>6. CASE Leave(w)
      BY <1>d, <2>6 DEF Leave, userVars
    <2>7. CASE CheckBytes(w)
      <3>1. job[w].at = "bytes" /\ ~sim
        BY <2>7, <2>a DEF CheckBytes, FlowJob
      <3>2. FlowJob(job'[w], plan)
        BY <1>c, <2>7, <2>a, <3>1, BytesMoves DEF FlowJob, Recording
      <3> QED
        BY <1>b, <2>7, <3>2, BytesMoves DEF CheckBytes, userVars
    <2> QED
      BY <1>1, <1>2, <1>4, <1>5, <1>14, <2>1, <2>2, <2>3, <2>4, <2>5, <2>6, <2>7
      DEF Request
  <1>15. ASSUME NEW w \in Workers, Record(w) PROVE Flow'
    <2>1. CASE FindMethod(w)
      BY <1>3, <2>1 DEF FindMethod, Stages, userVars, Recording
    <2> QED
      BY <1>6, <1>7, <1>8, <1>9, <1>15, <2>1 DEF Record
  <1> QED
    BY <1>10, <1>11, <1>12, <1>13, <1>14, <1>15 DEF Next, Admin, Books

-----------------------------------------------------------------------------
LEMMA PendingShrinks ==
  ASSUME NEW J, NEW K, NEW b, NEW f,
         \A w \in Workers : Ahead(K[w], b, f) => Ahead(J[w], b, f)
  PROVE  /\ Cardinality(PendingIn(J, b, f)) \in Nat
         /\ Cardinality(PendingIn(K, b, f)) \in Nat
         /\ Cardinality(PendingIn(K, b, f)) <= Cardinality(PendingIn(J, b, f))
         /\ \A w \in Workers : Ahead(J[w], b, f) /\ ~Ahead(K[w], b, f) =>
              Cardinality(PendingIn(K, b, f)) + 1 <= Cardinality(PendingIn(J, b, f))
  <1> DEFINE P == PendingIn(J, b, f)
             Q == PendingIn(K, b, f)
  <1>1. IsFiniteSet(P)
    <2> P \subseteq Workers
      BY DEF PendingIn
    <2> QED
      BY WorkersAssumption, FS_Subset
  <1>2. Q \subseteq P
    BY DEF PendingIn
  <1>3. IsFiniteSet(Q) /\ Cardinality(Q) <= Cardinality(P)
    BY <1>1, <1>2, FS_Subset
  <1>4. Cardinality(P) \in Nat /\ Cardinality(Q) \in Nat
    BY <1>1, <1>3, FS_CardinalityType
  <1>5. ASSUME NEW w \in Workers, Ahead(J[w], b, f), ~Ahead(K[w], b, f)
        PROVE  Cardinality(Q) + 1 <= Cardinality(P)
    <2>1. w \in P /\ Q \subseteq P \ {w}
      BY <1>2, <1>5 DEF PendingIn
    <2>2. IsFiniteSet(P \ {w}) /\ Cardinality(P \ {w}) = Cardinality(P) - 1
      BY <1>1, <2>1, FS_RemoveElement
    <2>3. Cardinality(Q) <= Cardinality(P \ {w})
      BY <2>1, <2>2, FS_Subset
    <2> QED
      BY <1>4, <2>2, <2>3
  <1> QED
    BY <1>3, <1>4, <1>5

LEMMA PendingGrows ==
  ASSUME NEW J, NEW K, NEW b, NEW f, NEW w \in Workers,
         \A v \in Workers \ {w} : K[v] = J[v]
  PROVE  /\ Cardinality(PendingIn(J, b, f)) \in Nat
         /\ Cardinality(PendingIn(K, b, f)) \in Nat
         /\ Cardinality(PendingIn(K, b, f)) <= Cardinality(PendingIn(J, b, f)) + 1
  <1> DEFINE P == PendingIn(J, b, f)
             Q == PendingIn(K, b, f)
  <1>1. IsFiniteSet(P) /\ IsFiniteSet(Q)
    <2> P \subseteq Workers /\ Q \subseteq Workers
      BY DEF PendingIn
    <2> QED
      BY WorkersAssumption, FS_Subset
  <1>2. Q \subseteq P \cup {w}
    BY DEF PendingIn
  <1>3. /\ IsFiniteSet(P \cup {w})
        /\ Cardinality(P \cup {w}) = IF w \in P THEN Cardinality(P)
                                     ELSE Cardinality(P) + 1
    BY <1>1, FS_AddElement
  <1>4. Cardinality(Q) <= Cardinality(P \cup {w})
    BY <1>2, <1>3, FS_Subset
  <1>5. Cardinality(P) \in Nat /\ Cardinality(Q) \in Nat
    BY <1>1, FS_CardinalityType
  <1> QED
    BY <1>3, <1>4, <1>5

\* Steps that record nothing and leave no more to record.
LEMMA StillFits ==
  ASSUME NEW J \in [Workers -> Jobs], NEW K \in [Workers -> Jobs], NEW b, NEW f,
         NEW r \in Nat, NEW q \in Nat, NEW u \in Nat, NEW v \in Nat,
         Fits(J, r, u, b, f), q <= r, u <= v,
         \A w \in Workers :
           /\ Ahead(K[w], b, f) => Ahead(J[w], b, f)
           /\ K[w].at = "store" /\ K[w].book = b /\ K[w].field = f =>
                \/ K[w].load <= r
                \/ /\ J[w].at = "store" /\ J[w].book = b /\ J[w].field = f
                   /\ J[w].load = K[w].load
  PROVE  Fits(K, q, v, b, f)
  <1> DEFINE m == Cardinality(PendingIn(J, b, f))
             n == Cardinality(PendingIn(K, b, f))
  <1>1. m \in Nat /\ n \in Nat /\ n <= m
    BY PendingShrinks
  <1>2. r + m <= u
    BY DEF Fits
  <1>3. q + n <= v
    BY <1>1, <1>2
  <1>4. ASSUME NEW w \in Workers,
               K[w].at = "store", K[w].book = b, K[w].field = f
        PROVE  K[w].load + n <= v
    <2>1. K[w].load \in Nat
      BY DEF Jobs
    <2>2. CASE K[w].load <= r
      BY <1>1, <1>2, <2>1, <2>2
    <2>3. CASE /\ J[w].at = "store" /\ J[w].book = b /\ J[w].field = f
               /\ J[w].load = K[w].load
      <3>1. J[w].load + m <= u
        BY <2>3 DEF Fits
      <3> QED
        BY <1>1, <2>1, <2>3, <3>1
    <2> QED
      BY <1>4, <2>2, <2>3
  <1> QED
    BY <1>3, <1>4 DEF Fits

\* A worker stores what it loaded and what it adds.
LEMMA StoreFits ==
  ASSUME NEW J \in [Workers -> Jobs], NEW K \in [Workers -> Jobs], NEW b, NEW f,
         NEW r \in Nat, NEW u \in Nat, Fits(J, r, u, b, f),
         NEW w \in Workers, J[w].at = "store", J[w].book = b, J[w].field = f,
         \A x \in Workers : Ahead(K[x], b, f) => Ahead(J[x], b, f),
         \A x \in Workers \ {w} : K[x] = J[x],
         K[w].at # "store", NEW d \in {0, 1},
         d = 1 => Ahead(J[w], b, f) /\ ~Ahead(K[w], b, f)
  PROVE  Fits(K, J[w].load + d, u, b, f)
  <1> DEFINE m == Cardinality(PendingIn(J, b, f))
             n == Cardinality(PendingIn(K, b, f))
  <1>1. m \in Nat /\ n \in Nat /\ n <= m /\ (d = 1 => n + 1 <= m)
    BY PendingShrinks
  <1>2. J[w].load \in Nat /\ J[w].load + m <= u
    BY DEF Fits, Jobs
  <1>3. (J[w].load + d) + n <= u
    BY <1>1, <1>2
  <1>4. ASSUME NEW x \in Workers,
               K[x].at = "store", K[x].book = b, K[x].field = f
        PROVE  K[x].load + n <= u
    <2>1. K[x] = J[x]
      BY <1>4
    <2>2. J[x].load \in Nat /\ J[x].load + m <= u
      BY <1>4, <2>1 DEF Fits, Jobs
    <2> QED
      BY <1>1, <2>1, <2>2
  <1> QED
    BY <1>3, <1>4 DEF Fits

\* A worker begins to record one more.
LEMMA BeginFits ==
  ASSUME NEW J \in [Workers -> Jobs], NEW K \in [Workers -> Jobs], NEW b, NEW f,
         NEW r \in Nat, NEW u \in Nat, Fits(J, r, u, b, f),
         NEW w \in Workers, \A x \in Workers \ {w} : K[x] = J[x],
         K[w].at # "store"
  PROVE  Fits(K, r, u + 1, b, f)
  <1> DEFINE m == Cardinality(PendingIn(J, b, f))
             n == Cardinality(PendingIn(K, b, f))
  <1>1. m \in Nat /\ n \in Nat /\ n <= m + 1
    BY PendingGrows
  <1>2. r + m <= u
    BY DEF Fits
  <1>3. r + n <= u + 1
    BY <1>1, <1>2
  <1>4. ASSUME NEW x \in Workers,
               K[x].at = "store", K[x].book = b, K[x].field = f
        PROVE  K[x].load + n <= u + 1
    <2>1. K[x] = J[x]
      BY <1>4
    <2>2. J[x].load \in Nat /\ J[x].load + m <= u
      BY <1>4, <2>1 DEF Fits, Jobs
    <2> QED
      BY <1>1, <2>1, <2>2
  <1> QED
    BY <1>3, <1>4 DEF Fits

LEMMA RecordedTyped ==
  ASSUME TypeOK, NEW b \in Books, NEW f \in Fields
  PROVE  Recorded(b)[f] \in Nat /\ Used(f) \in Nat
  <1>1. Recorded(b) \in Counters
    BY Consts DEF TypeOK, Recorded
  <1> QED
    BY <1>1 DEF Counters, Fields, Used, TypeOK

LEMMA AheadOfStore ==
  ASSUME NEW j \in Jobs, j.at = "store"
  PROVE  /\ \A b \in Books, f \in Fields :
              Ahead(AfterStore(j), b, f) => Ahead(j, b, f)
         /\ \A b \in Books, f \in Fields :
              b # j.book \/ f # j.field =>
                (Ahead(AfterStore(j), b, f) <=> Ahead(j, b, f))
         /\ ~Ahead(AfterStore(j), j.book, j.field)
         /\ j.delta[j.field] = 1 <=> Ahead(j, j.book, j.field)
         /\ AfterStore(j).at # "store"
  <1> DEFINE k == AfterStore(j)
  <1>1. j.field \in {"bytes", "calls"} /\ j.book \in {"daily", "total"}
    BY DEF Jobs, Books
  <1>2. NoJob.at = "idle"
    BY DEF NoJob
  <1>3. CASE j.field = "bytes"
    <2>1. k.at = "load" /\ k.field = "calls" /\ k.book = j.book /\ k.delta = j.delta
      BY <1>3, StoreLeads
    <2> QED
      BY <1>1, <1>3, <2>1 DEF Ahead, Recording, Books, Fields
  <1>4. CASE j.field = "calls" /\ j.book = "daily"
    <2>1. k.at = "entry" /\ k.field = "bytes" /\ k.book = "total" /\ k.delta = j.delta
      BY <1>4, StoreLeads
    <2> QED
      BY <1>4, <2>1 DEF Ahead, Recording, Books, Fields
  <1>5. CASE j.field = "calls" /\ j.book = "total"
    <2>1. k.at \in {"idle", "receiving"}
      BY <1>2, <1>5, StoreLeads
    <2> QED
      BY <1>5, <2>1 DEF Ahead, Recording
  <1> QED
    BY <1>1, <1>3, <1>4, <1>5

-----------------------------------------------------------------------------
LEMMA RemovingStep ==
  TypeOK /\ Flow /\ Removing /\ [Next]_vars => Removing'
  <1> SUFFICES ASSUME TypeOK, Flow, Removing, [Next]_vars,
                      admin'.at \in Books, ~leaked'
               PROVE  /\ Quiet' /\ plan' = None /\ answered' = 0 /\ billed' = 0
                      /\ admin'.at = "daily" => stats'["total"] = None
    BY DEF Removing
  <1> DEFINE Goal == /\ Quiet' /\ plan' = None /\ answered' = 0 /\ billed' = 0
                     /\ admin'.at = "daily" => stats'["total"] = None
  <1>a. job \in [Workers -> Jobs] /\ \A w \in Workers : FlowJob(job[w], plan)
    BY DEF TypeOK, Flow
  <1>i. ASSUME admin.at \in Books, ~leaked
        PROVE  /\ \A w \in Workers : job[w].at = "idle" \/ ~job[w].keyed
               /\ plan = None /\ answered = 0 /\ billed = 0
               /\ admin.at = "daily" => stats["total"] = None
    BY <1>i DEF Removing, Quiet, Charged, Idle
  <1>b. ASSUME NEW w \in Workers, Own(w), job'[w].at = "idle" \/ ~job'[w].keyed,
               UNCHANGED <<plan, admin, stats, leaked, answered, billed>>
        PROVE  Goal
    <2>1. admin.at \in Books /\ ~leaked
      BY <1>b
    <2>2. \A v \in Workers : job'[v].at = "idle" \/ ~job'[v].keyed
      BY <1>b, <1>i, <2>1 DEF Own
    <2> QED
      BY <1>b, <1>i, <2>1, <2>2 DEF Quiet, Charged, Idle
  <1>c. ASSUME NEW w \in Workers, NEW at \in Stages, Go(w, at) \/ Done(w),
               job[w].at # "idle", UNCHANGED <<plan, admin, stats, leaked, answered, billed>>
        PROVE  Goal
    <2>1. ~job[w].keyed
      BY <1>c, <1>i
    <2>2. Own(w) /\ (job'[w].at = "idle" \/ ~job'[w].keyed)
      BY <1>c, <2>1, Moves DEF Alike, NoJob
    <2> QED
      BY <1>b, <1>c, <2>2
  <1>1. ASSUME NEW w \in Workers, NEW keyed \in BOOLEAN, Authenticate(w, keyed)
        PROVE  Goal
    <2>1. /\ UNCHANGED <<plan, admin, stats, leaked, answered, billed>>
          /\ (keyed => plan # None)
      BY <1>1 DEF Authenticate, userVars, bookVars
    <2>2. ~keyed
      BY <1>i, <2>1
    <2> QED
      BY <1>1, <1>b, <2>1, <2>2, AuthenticateMoves
  <1>2. ASSUME NEW w \in Workers, ReadUsage(w) PROVE Goal
    <2>1. UNCHANGED <<plan, admin, stats, leaked, answered, billed>> /\ job[w].at = "usage"
      BY <1>2 DEF ReadUsage, userVars, bookVars, histVars
    <2>2. ~job[w].keyed
      BY <1>i, <2>1
    <2> QED
      BY <1>2, <1>b, <2>1, <2>2, ReadUsageMoves DEF Alike
  <1>3. ASSUME NEW w \in Workers, Piece(w) PROVE Goal
    <2>1. UNCHANGED <<plan, admin, stats, leaked>> /\ job[w].at = "receiving"
      BY <1>3 DEF Piece, userVars, bookVars
    <2>2. ~job[w].keyed
      BY <1>i, <2>1
    <2>3. UNCHANGED <<answered, billed>>
      BY <1>3, <2>2 DEF Piece
    <2> QED
      BY <1>3, <1>b, <2>1, <2>2, <2>3, PieceMoves
  <1>4. ASSUME NEW w \in Workers, Answered(w) PROVE Goal
    <2>1. UNCHANGED <<plan, admin, stats, leaked>> /\ job[w].at = "receiving"
      BY <1>4 DEF Answered, userVars, bookVars
    <2>2. ~job[w].keyed
      BY <1>i, <2>1
    <2> QED
      BY <1>4, <1>c, <2>1, <2>2 DEF Answered, Stages
  <1>5. ASSUME NEW w \in Workers, Record(w) PROVE Goal
    <2>1. UNCHANGED <<admin, leaked>> /\ Recording(job[w])
      BY <1>5 DEF Record, Entry, FindMethod, CreateMethod, Load, Store,
                  userVars, histVars, Recording
    <2>2. job[w].keyed /\ job[w].at # "idle"
      BY <1>a, <2>1 DEF FlowJob, Recording
    <2> QED
      BY <1>i, <2>1, <2>2
  <1>6. ASSUME NEW w \in Workers, Request(w) PROVE Goal
    <2>1. CASE AcceptContent(w) \/ CheckRegistered(w) \/ CheckCalls(w)
      BY <1>c, <2>1 DEF AcceptContent, CheckRegistered, CheckCalls, Stages,
                        userVars, bookVars, histVars
    <2>2. CASE GetAttribute(w, "priority", "pool") \/ GetAttribute(w, "pool", "forwarding")
      BY <1>c, <2>2 DEF GetAttribute, Stages, userVars, bookVars, histVars
    <2>3. CASE Forward(w) \/ Leave(w)
      BY <1>c, <2>3 DEF Forward, Leave, Stages, userVars, bookVars, histVars
    <2>4. CASE CheckBytes(w)
      <3>1. /\ UNCHANGED <<plan, admin, stats, leaked, answered, billed>>
            /\ job[w].at = "bytes"
        BY <2>4 DEF CheckBytes, userVars, bookVars, histVars
      <3>2. ~job[w].keyed
        BY <1>i, <3>1
      <3> QED
        BY <1>b, <2>4, <3>1, <3>2, BytesMoves, Consts
    <2> QED
      BY <1>1, <1>2, <1>3, <1>4, <1>6, <2>1, <2>2, <2>3, <2>4 DEF Request
  <1>7. CASE RemovePlan
    <2>1. /\ admin'.at = "total" /\ plan' = None /\ Quiet
          /\ answered' = 0 /\ billed' = 0
      BY <1>7 DEF RemovePlan, TypeOK
    <2>2. \A v \in Workers : job'[v] = job[v]
      BY <1>7, <2>1, RemovalMoves DEF Quiet
    <2> QED
      BY <2>1, <2>2 DEF Quiet, Charged, Idle
  <1>8. CASE RemoveEntry("total", "daily")
    <2>1. /\ admin.at = "total" /\ UNCHANGED <<plan, leaked, answered, billed>>
          /\ stats'["total"] = None
      BY <1>8 DEF RemoveEntry, DropEntry, histVars, TypeOK, Books
    <2>2. \A v \in Workers : job'[v].at = job[v].at /\ job'[v].keyed = job[v].keyed
      BY <1>8, RemovalMoves DEF Alike, Books
    <2> QED
      BY <1>i, <2>1, <2>2 DEF Quiet, Charged, Idle, Books
  <1>9. CASE \/ \E pl \in Plans : Register(pl) \/ UpdateCalls(pl)
             \/ UpdateBytes \/ RemoveEntry("daily", "idle")
    <2>1. admin'.at \in {"idle", "updating"}
      BY <1>9 DEF Register, UpdateCalls, UpdateBytes, RemoveEntry, TypeOK
    <2> QED
      BY <2>1 DEF Books
  <1>10. CASE UNCHANGED vars
    BY <1>10, <1>i DEF vars, userVars, bookVars, histVars, Quiet, Charged, Idle
  <1> QED
    BY <1>5, <1>6, <1>7, <1>8, <1>9, <1>10 DEF Next, Admin

LEMMA BoundedStep ==
  TypeOK /\ Linked /\ Flow /\ Removing /\ Bounded /\ TypeOK' /\ [Next]_vars
    => Bounded'
  <1> SUFFICES ASSUME TypeOK, Linked, Flow, Removing, Bounded, TypeOK', [Next]_vars,
                      AfterRemoval',
                      NEW b \in Books, NEW f \in Fields
               PROVE  Fits(job', Recorded(b)'[f], Used(f)', b, f)
    BY DEF Bounded
  <1> DEFINE Goal == Fits(job', Recorded(b)'[f], Used(f)', b, f)
             r == Recorded(b)[f]
             u == Used(f)
  <1>a. job \in [Workers -> Jobs] /\ job' \in [Workers -> Jobs]
    BY DEF TypeOK
  <1>t. r \in Nat /\ u \in Nat
    BY RecordedTyped
  <1>i. ASSUME UNCHANGED <<admin, leaked>> PROVE Fits(job, r, u, b, f)
    BY <1>i DEF Bounded, AfterRemoval
  <1>b. ASSUME NEW w \in Workers, Own(w), UNCHANGED <<admin, leaked>>,
               Recorded(b)'[f] \in Nat, Recorded(b)'[f] <= r,
               Used(f)' = u,
               Ahead(job'[w], b, f) => Ahead(job[w], b, f),
               job'[w].at # "store" \/ job'[w].load <= r
        PROVE  Goal
    <2>1. Fits(job, r, u, b, f)
      BY <1>b, <1>i
    <2>2. \A v \in Workers :
            /\ Ahead(job'[v], b, f) => Ahead(job[v], b, f)
            /\ job'[v].at = "store" /\ job'[v].book = b /\ job'[v].field = f =>
                 \/ job'[v].load <= r
                 \/ /\ job[v].at = "store" /\ job[v].book = b /\ job[v].field = f
                    /\ job[v].load = job'[v].load
      BY <1>b DEF Own
    <2> QED
      BY <1>a, <1>t, <1>b, <2>1, <2>2, StillFits
  <1>c. ASSUME NEW w \in Workers, Own(w), ~Recording(job'[w]),
               UNCHANGED <<admin, leaked, stats, answered, billed>>
        PROVE  Goal
    <2>1. Recorded(b)'[f] = r /\ Used(f)' = u
      BY <1>c DEF Recorded, Used
    <2>2. ~Ahead(job'[w], b, f) /\ job'[w].at # "store"
      BY <1>c DEF Ahead, Recording
    <2> QED
      BY <1>b, <1>c, <1>t, <2>1, <2>2
  <1>d. ASSUME NEW w \in Workers, NEW at \in Stages, Go(w, at) \/ Done(w),
               at \notin {"entry", "method", "create", "load", "store"},
               UNCHANGED <<admin, leaked, stats, answered, billed>>
        PROVE  Goal
    <2>1. Own(w) /\ ~Recording(job'[w])
      BY <1>d, Moves DEF Recording, NoJob
    <2> QED
      BY <1>c, <1>d, <2>1
  <1>1. ASSUME NEW w \in Workers, NEW keyed \in BOOLEAN, Authenticate(w, keyed)
        PROVE  Goal
    <2>1. Own(w) /\ ~Recording(job'[w])
      BY <1>1, AuthenticateMoves DEF Recording
    <2> QED
      BY <1>1, <1>c, <2>1 DEF Authenticate, userVars, bookVars
  <1>2. ASSUME NEW w \in Workers, ReadUsage(w) PROVE Goal
    <2>1. Own(w) /\ ~Recording(job'[w])
      BY <1>2, ReadUsageMoves DEF Recording
    <2> QED
      BY <1>2, <1>c, <2>1 DEF ReadUsage, userVars, bookVars, histVars
  <1>3. ASSUME NEW w \in Workers, Piece(w) PROVE Goal
    <2>1. /\ Own(w) /\ job'[w].delta = PieceDelta /\ job[w].keyed \in BOOLEAN
          /\ job'[w].at = IF job[w].keyed THEN "entry" ELSE "receiving"
      BY <1>3, <1>a, PieceMoves DEF Jobs
    <2>2. UNCHANGED <<admin, leaked, stats, answered>>
      BY <1>3 DEF Piece, userVars, bookVars
    <2>3. CASE job[w].keyed /\ f = "bytes"
      <3>1. Recorded(b)'[f] = r /\ Used(f)' = u + 1
        BY <1>3, <2>2, <2>3 DEF Recorded, Used, Piece
      <3>2. Fits(job', r, u + 1, b, f)
        BY <1>a, <1>i, <1>t, <2>1, <2>2, BeginFits DEF Own
      <3> QED
        BY <3>1, <3>2
    <2>4. CASE job[w].keyed /\ f = "calls"
      <3>1. Recorded(b)'[f] = r /\ Used(f)' = u
        BY <2>2, <2>4 DEF Recorded, Used
      <3>2. ~Ahead(job'[w], b, f) /\ job'[w].at # "store"
        BY <2>1, <2>4 DEF Ahead, PieceDelta
      <3> QED
        BY <1>b, <1>t, <2>1, <2>2, <3>1, <3>2
    <2>5. CASE ~job[w].keyed
      <3>1. ~Recording(job'[w]) /\ billed' = billed
        BY <1>3, <2>1, <2>5 DEF Recording, Piece
      <3> QED
        BY <1>c, <2>1, <2>2, <3>1
    <2> QED
      BY <2>3, <2>4, <2>5 DEF Fields
  <1>4. ASSUME NEW w \in Workers, Answered(w) PROVE Goal
    <2>1. UNCHANGED <<admin, leaked, stats>>
      BY <1>4 DEF Answered, userVars, bookVars
    <2>2. CASE job[w].keyed
      <3>1. Recorded(b)'[f] = r /\ Used(f)' = u + 1
        BY <1>4, <2>1, <2>2 DEF Recorded, Used, Answered
      <3>2. Own(w) /\ job'[w].at = "entry"
        BY <1>4, <2>2, AnsweredMoves
      <3>3. Fits(job', r, u + 1, b, f)
        BY <1>a, <1>i, <1>t, <2>1, <3>2, BeginFits DEF Own
      <3> QED
        BY <3>1, <3>3
    <2>3. CASE ~job[w].keyed
      BY <1>4, <1>d, <2>1, <2>3 DEF Answered, Stages
    <2> QED
      BY <2>2, <2>3
  <1>5. ASSUME NEW w \in Workers, Entry(w) PROVE Goal
    <2>1. /\ Own(w) /\ Alike(job'[w], job[w])
          /\ job'[w].at \in {"load", "method"} /\ job[w].at = "entry"
      BY <1>5, EntryMoves DEF Entry
    <2>2. UNCHANGED <<admin, leaked, answered, billed>>
      BY <1>5 DEF Entry, userVars, histVars
    <2>3. Recorded(b)' = Recorded(b) \/ Recorded(b)' = Zero
      BY <1>5 DEF Entry, Recorded, TypeOK
    <2>4. Recorded(b)'[f] \in Nat /\ Recorded(b)'[f] <= r
      BY <1>t, <2>3, Consts DEF Fields
    <2>5. Ahead(job'[w], b, f) => Ahead(job[w], b, f)
      BY <2>1 DEF Ahead, Recording, Alike
    <2> QED
      BY <1>b, <2>1, <2>2, <2>4, <2>5 DEF Used
  <1>6. ASSUME NEW w \in Workers, CreateMethod(w) PROVE Goal
    <2>1. /\ job[w].at = "create" /\ UNCHANGED <<admin, leaked, answered, billed>>
      BY <1>6 DEF CreateMethod, userVars, histVars
    <2>2. Recorded(b)' = Recorded(b) \/ Recorded(b)' = Zero
      BY <1>6 DEF CreateMethod, Recorded, TypeOK
    <2>3. Recorded(b)'[f] \in Nat /\ Recorded(b)'[f] <= r
      BY <1>t, <2>2, Consts DEF Fields
    <2>4. \A v \in Workers :
            /\ Ahead(job'[v], b, f) => Ahead(job[v], b, f)
            /\ job'[v].at = "store" /\ job'[v].book = b /\ job'[v].field = f =>
                 /\ job[v].at = "store" /\ job[v].book = b /\ job[v].field = f
                 /\ job[v].load = job'[v].load
      BY <1>6, <2>1, CreateMoves DEF Ahead, Recording, Alike
    <2> QED
      BY <1>a, <1>i, <1>t, <2>1, <2>3, <2>4, StillFits DEF Used
  <1>7. ASSUME NEW w \in Workers, Load(w) PROVE Goal
    <2>1. /\ Own(w) /\ Alike(job'[w], job[w]) /\ job'[w].at = "store"
          /\ job'[w].load = IF job[w].live
                            THEN Recorded(job[w].book)[job[w].field] ELSE 0
          /\ job[w].at = "load"
      BY <1>7, LoadMoves DEF Load
    <2>2. UNCHANGED <<admin, leaked, stats, answered, billed>>
      BY <1>7 DEF Load, userVars, bookVars, histVars
    <2>3. Recorded(b)'[f] = r /\ Used(f)' = u
      BY <2>2 DEF Recorded, Used
    <2>4. \A v \in Workers :
            /\ Ahead(job'[v], b, f) => Ahead(job[v], b, f)
            /\ job'[v].at = "store" /\ job'[v].book = b /\ job'[v].field = f =>
                 \/ job'[v].load <= r
                 \/ /\ job[v].at = "store" /\ job[v].book = b /\ job[v].field = f
                    /\ job[v].load = job'[v].load
      BY <1>t, <2>1 DEF Own, Ahead, Recording, Alike
    <2> QED
      BY <1>a, <1>i, <1>t, <2>2, <2>3, <2>4, StillFits
  <1>8. ASSUME NEW w \in Workers, Store(w) PROVE Goal
    <2> DEFINE j == job[w]
               d == j.delta[j.field]
    <2>1. /\ j \in Jobs /\ j.at = "store" /\ Own(w)
          /\ UNCHANGED <<admin, leaked, answered, billed>>
      BY <1>8, <1>a, StoreMoves DEF Store, userVars, histVars
    <2>2. /\ j.field \in Fields /\ j.book \in Books /\ j.live \in BOOLEAN
          /\ d \in {0, 1} /\ j.load \in Nat
      BY <2>1 DEF Jobs, Fields, Zero, PieceDelta, CallDelta
    <2>3. /\ job'[w].at # "store"
          /\ Ahead(job'[w], b, f) => Ahead(j, b, f)
          /\ ~Ahead(job'[w], j.book, j.field)
          /\ d = 1 => Ahead(j, j.book, j.field)
      BY <1>8, <2>1, StoreMoves, AheadOfStore DEF Alike, Ahead, Recording
    <2>a. d \in Nat /\ j.load + d \in Nat
      BY <2>2
    <2>b. ASSUME j.live, j.book = b
          PROVE  /\ stats[b] \in Counters /\ stats'[b] \in Counters
                 /\ stats'[b] # None /\ stats[b] # None
                 /\ stats'[b][j.field] = j.load + d
                 /\ f # j.field => stats'[b][f] = stats[b][f]
      <3>1. stats[b] \in Counters /\ stats[b] # None
        BY <2>1, <2>b DEF Linked, LinkedJob, TypeOK
      <3>2. CASE j.field = "bytes"
        <4>1. stats'[b] = [stats[b] EXCEPT !.bytes = j.load + d]
          BY <1>8, <2>b, <3>2 DEF Store, TypeOK
        <4> QED
          BY <2>a, <3>1, <3>2, <4>1, PlansAssumption DEF Counters, Fields
      <3>3. CASE j.field = "calls"
        <4>1. stats'[b] = [stats[b] EXCEPT !.calls = j.load + d]
          BY <1>8, <2>b, <3>3 DEF Store, TypeOK
        <4> QED
          BY <2>a, <3>1, <3>3, <4>1, PlansAssumption DEF Counters, Fields
      <3> QED
        BY <2>2, <3>2, <3>3 DEF Fields
    <2>4. CASE j.live /\ j.book = b /\ j.field = f
      <3>1. Recorded(b)'[f] = j.load + d /\ Used(f)' = u
        BY <2>1, <2>4, <2>b DEF Recorded, Used
      <3>2. Fits(job', j.load + d, u, b, f)
        BY <1>a, <1>i, <1>t, <2>1, <2>2, <2>3, <2>4, StoreFits DEF Own
      <3> QED
        BY <3>1, <3>2
    <2>5. CASE ~(j.live /\ j.book = b /\ j.field = f)
      <3>1. Used(f)' = u
        BY <2>1 DEF Used
      <3>2. CASE j.live /\ j.book = b
        <4>1. f # j.field
          BY <2>5, <3>2
        <4>2. stats'[b][f] = stats[b][f] /\ stats'[b] # None /\ stats[b] # None
          BY <2>b, <3>2, <4>1
        <4>3. Recorded(b)'[f] = r
          BY <4>2 DEF Recorded
        <4> QED
          BY <1>b, <1>t, <2>1, <2>3, <3>1, <4>3
      <3>3. CASE ~(j.live /\ j.book = b)
        <4>1. stats'[b] = stats[b]
          BY <1>8, <2>2, <3>3 DEF Store, TypeOK
        <4>2. Recorded(b)'[f] = r
          BY <4>1 DEF Recorded
        <4> QED
          BY <1>b, <1>t, <2>1, <2>3, <3>1, <4>2
      <3> QED
        BY <3>2, <3>3
    <2> QED
      BY <2>4, <2>5
  <1>9. CASE (\E pl \in Plans : Register(pl) \/ UpdateCalls(pl)) \/ UpdateBytes
    <2>1. /\ UNCHANGED <<stats, answered, billed, leaked>>
          /\ admin.at \in {"idle", "updating"}
      BY <1>9 DEF Register, UpdateCalls, UpdateBytes, bookVars, histVars
    <2>2. AfterRemoval
      BY <2>1 DEF AfterRemoval, Books
    <2>3. Recorded(b)'[f] = r /\ Used(f)' = u
      BY <2>1 DEF Recorded, Used
    <2>4. CASE job' = job
      BY <2>2, <2>3, <2>4 DEF Bounded
    <2>5. ASSUME NEW pl \in Plans, UpdateCalls(pl) PROVE Goal
      <3>1. \A v \in Workers :
              /\ Ahead(job'[v], b, f) => Ahead(job[v], b, f)
              /\ job'[v].at = job[v].at /\ job'[v].book = job[v].book
              /\ job'[v].field = job[v].field /\ job'[v].load = job[v].load
        BY <2>5, ReplanMoves DEF Ahead, Recording, Alike, Kept
      <3>2. Fits(job, r, u, b, f)
        BY <2>2 DEF Bounded
      <3> QED
        BY <1>a, <1>t, <2>3, <3>1, <3>2, StillFits
    <2> QED
      BY <1>9, <2>4, <2>5 DEF Register, UpdateBytes
  <1>10. CASE RemovePlan \/ RemoveEntry("total", "daily")
    <2>1. admin'.at \in Books
      BY <1>10 DEF RemovePlan, RemoveEntry, TypeOK, Books
    <2> QED
      BY <2>1 DEF AfterRemoval
  <1>11. CASE RemoveEntry("daily", "idle")
    <2>1. /\ admin.at = "daily" /\ UNCHANGED <<leaked, answered, billed>>
          /\ stats' = [stats EXCEPT !["daily"] = None]
      BY <1>11 DEF RemoveEntry, DropEntry, histVars
    <2>2. Quiet /\ stats["total"] = None
      BY <2>1 DEF Removing, Books, AfterRemoval
    <2>3. Recorded(b)'[f] = 0
      BY <2>1, <2>2, Consts DEF Recorded, Fields, Books, TypeOK
    <2>4. \A v \in Workers : job'[v].at = job[v].at /\ job'[v].keyed = job[v].keyed
      BY <1>11, RemovalMoves DEF Alike, Books
    <2>5. \A v \in Workers : ~Recording(job'[v])
      BY <2>2, <2>4 DEF Flow, FlowJob, Quiet, Charged, Idle, Recording
    <2>6. PendingIn(job', b, f) = {}
      BY <2>5 DEF PendingIn, Ahead
    <2>7. Cardinality(PendingIn(job', b, f)) = 0
      BY <2>6, FS_EmptySet
    <2>8. Used(f)' \in Nat
      BY <1>t, <2>1 DEF Used
    <2> QED
      BY <2>3, <2>5, <2>7, <2>8 DEF Fits, Recording
  <1>12. CASE UNCHANGED vars
    <2>1. Recorded(b)'[f] = r /\ Used(f)' = u /\ job' = job /\ UNCHANGED <<admin, leaked>>
      BY <1>12 DEF Recorded, Used, vars, userVars, bookVars, histVars
    <2> QED
      BY <1>i, <2>1
  <1>13. ASSUME NEW w \in Workers, Request(w) PROVE Goal
    <2>1. CASE AcceptContent(w) \/ CheckRegistered(w) \/ CheckCalls(w)
      BY <1>d, <2>1 DEF AcceptContent, CheckRegistered, CheckCalls, Stages,
                        userVars, bookVars, histVars
    <2>2. CASE GetAttribute(w, "priority", "pool") \/ GetAttribute(w, "pool", "forwarding")
      BY <1>d, <2>2 DEF GetAttribute, Stages, userVars, bookVars, histVars
    <2>3. CASE Forward(w) \/ Leave(w)
      BY <1>d, <2>3 DEF Forward, Leave, Stages, userVars, bookVars, histVars
    <2>4. CASE CheckBytes(w)
      <3>1. ~Recording(job'[w]) /\ Own(w)
        BY <2>4, BytesMoves, Consts DEF Recording
      <3> QED
        BY <1>c, <2>4, <3>1 DEF CheckBytes, userVars, bookVars, histVars
    <2> QED
      BY <1>1, <1>2, <1>3, <1>4, <1>13, <2>1, <2>2, <2>3, <2>4 DEF Request
  <1>14. ASSUME NEW w \in Workers, Record(w) PROVE Goal
    <2>1. CASE FindMethod(w)
      <3> DEFINE at == IF job[w].live /\ stats["daily"] = None THEN "create" ELSE "load"
      <3>1. /\ at \in Stages /\ Go(w, at) /\ job[w].at = "method"
            /\ UNCHANGED <<admin, leaked, stats, answered, billed>>
        BY <2>1 DEF FindMethod, Stages, userVars, bookVars, histVars
      <3>2. job'[w].at = at /\ Own(w) /\ Alike(job'[w], job[w])
        BY <3>1, Moves
      <3>3. Ahead(job'[w], b, f) => Ahead(job[w], b, f)
        BY <3>1, <3>2 DEF Ahead, Recording, Alike
      <3>4. Recorded(b)'[f] = r /\ Used(f)' = u
        BY <3>1 DEF Recorded, Used
      <3> QED
        BY <1>b, <1>t, <3>1, <3>2, <3>3, <3>4
    <2> QED
      BY <1>5, <1>6, <1>7, <1>8, <1>14, <2>1 DEF Record
  <1> QED
    BY <1>9, <1>10, <1>11, <1>12, <1>13, <1>14 DEF Next, Admin

-----------------------------------------------------------------------------
LEMMA ExactStep ==
  TypeOK /\ Linked /\ Flow /\ Removing /\ Exact /\ TypeOK' /\ Flow' /\ [Next]_vars
    => Exact'
  <1> SUFFICES ASSUME TypeOK, Linked, Flow, Removing, Exact, [Next]_vars,
                      TypeOK', Flow', AfterRemoval', ~overlapped'
               PROVE  Exact'
    BY DEF Exact
  <1>a. /\ job \in [Workers -> Jobs] /\ job' \in [Workers -> Jobs]
        /\ \A w \in Workers : FlowJob(job[w], plan) /\ LinkedJob(job[w], stats)
        /\ \A w \in Workers : Recording(job'[w]) => job'[w].keyed
        /\ \A w \in Workers : job'[w].at \in {"registered", "plan", "bytes"} =>
                                job'[w].keyed
        /\ overlapped \in BOOLEAN
    BY DEF TypeOK, Flow, FlowJob, Linked, Recording
  <1>i. ASSUME UNCHANGED <<admin, leaked>>, ~overlapped
        PROVE  /\ \A v, w \in Workers : Charged(v) /\ Charged(w) => v = w
               /\ \A w \in Workers : ExactJob(job[w], stats, AllUsed)
               /\ \A b \in Books, f \in Fields : Balanced(b, f)
    BY <1>i DEF Exact, AfterRemoval
  <1>o. ASSUME NEW v \in Workers, ~Charged(v)
        PROVE  /\ \A b \in Books, f \in Fields : ~Ahead(job[v], b, f)
               /\ ~Recording(job[v])
    BY <1>a, <1>o DEF Charged, Idle, Ahead, Recording, FlowJob
  <1>p. ASSUME NEW v \in Workers, job'[v].at = "idle" \/ ~job'[v].keyed
        PROVE  /\ \A b \in Books, f \in Fields : ~Ahead(job'[v], b, f)
               /\ ExactJob(job'[v], stats', AllUsed')
    BY <1>a, <1>p DEF Ahead, Recording, ExactJob
  \* A step of the one worker with a charged exchange.
  <1>b. ASSUME NEW w \in Workers, Charged(w), UNCHANGED <<admin, leaked, overlapped>>,
               \A v \in Workers \ {w} : /\ job'[v].at = job[v].at
                                        /\ job'[v].keyed = job[v].keyed,
               ExactJob(job'[w], stats', AllUsed'),
               \A b \in Books, f \in Fields :
                 (Used(f) = Recorded(b)[f] + IF Ahead(job[w], b, f) THEN 1 ELSE 0)
                   => (Used(f)' = Recorded(b)'[f]
                                    + IF Ahead(job'[w], b, f) THEN 1 ELSE 0)
        PROVE  Exact'
    <2>1. \A v \in Workers \ {w} : ~Charged(v)
      BY <1>b, <1>i
    <2>2. \A v \in Workers \ {w} : job'[v].at = "idle" \/ ~job'[v].keyed
      BY <1>b, <2>1 DEF Charged, Idle
    <2>3. ASSUME NEW b \in Books, NEW f \in Fields PROVE Balanced(b, f)'
      <3>1. \A v \in Workers \ {w} : ~Ahead(job[v], b, f) /\ ~Ahead(job'[v], b, f)
        BY <1>o, <1>p, <2>1, <2>2
      <3>2. Recorded(b)[f] \in Nat /\ Used(f) \in Nat /\ Balanced(b, f)
        BY <1>b, <1>i, RecordedTyped
      <3>3. Used(f) = Recorded(b)[f] + IF Ahead(job[w], b, f) THEN 1 ELSE 0
        BY <3>1, <3>2 DEF Balanced
      <3>4. Recorded(b)'[f] \in Nat
        <4>1. Recorded(b)' \in Counters
          BY Consts DEF TypeOK, Recorded
        <4> QED
          BY <4>1 DEF Counters, Fields
      <3>5. Used(f)' = Recorded(b)'[f] + IF Ahead(job'[w], b, f) THEN 1 ELSE 0
        BY <1>b, <3>3
      <3>6. CASE Ahead(job'[w], b, f)
        BY <3>1, <3>5, <3>6 DEF Balanced
      <3>7. CASE ~Ahead(job'[w], b, f)
        BY <3>1, <3>4, <3>5, <3>7 DEF Balanced
      <3> QED
        BY <3>6, <3>7
    <2>4. \A v \in Workers : ExactJob(job'[v], stats', AllUsed')
      BY <1>b, <1>p, <2>2
    <2>5. \A v, x \in Workers : Charged(v)' /\ Charged(x)' => v = x
      BY <2>2 DEF Charged, Idle
    <2> QED
      BY <2>3, <2>4, <2>5 DEF Exact
  \* A step that records nothing.
  <1>c. ASSUME NEW w \in Workers, Own(w),
               UNCHANGED <<admin, leaked, overlapped, stats, answered, billed>>,
               job'[w].at = "idle" \/ ~job'[w].keyed \/ Charged(w),
               ExactJob(job'[w], stats, AllUsed),
               \A b \in Books, f \in Fields : Ahead(job'[w], b, f) <=> Ahead(job[w], b, f)
        PROVE  Exact'
    <2>1. \A v, x \in Workers : Charged(v)' /\ Charged(x)' => v = x
      BY <1>c, <1>i DEF Own, Charged, Idle
    <2>2. \A v \in Workers : ExactJob(job'[v], stats', AllUsed')
      <3>1. stats' = stats /\ AllUsed' = AllUsed
        BY <1>c DEF AllUsed
      <3> QED
        BY <1>c, <1>i, <3>1 DEF Own
    <2>3. ASSUME NEW b \in Books, NEW f \in Fields PROVE Balanced(b, f)'
      <3>1. \A v \in Workers : Ahead(job'[v], b, f) <=> Ahead(job[v], b, f)
        BY <1>c DEF Own
      <3>2. Used(f)' = Used(f) /\ Recorded(b)' = Recorded(b)
        BY <1>c DEF Used, Recorded
      <3>3. Balanced(b, f)
        BY <1>c, <1>i
      <3> QED
        BY <3>1, <3>2, <3>3 DEF Balanced
    <2> QED
      BY <2>1, <2>2, <2>3 DEF Exact
  <1>d. ASSUME NEW w \in Workers, NEW at \in Stages, Go(w, at) \/ Done(w),
               at \notin {"entry", "method", "create", "load", "store", "registered"},
               at = "plan" => job[w].at = "registered",
               at = "bytes" => job[w].at = "plan",
               ~Recording(job[w]), job[w].at # "idle",
               UNCHANGED <<admin, leaked, overlapped, stats, answered, billed>>
        PROVE  Exact'
    <2>1. ExactJob(job[w], stats, AllUsed)
      BY <1>d, <1>i
    <2>2. CASE Done(w)
      <3>1. job'[w].at = "idle" /\ Own(w)
        BY <1>d, <2>2, Moves DEF NoJob
      <3> QED
        BY <1>c, <1>d, <3>1 DEF ExactJob, Ahead, Recording
    <2>3. CASE Go(w, at)
      <3>1. /\ job'[w].at = at /\ Own(w)
            /\ Alike(job'[w], job[w]) /\ Kept(job'[w], job[w])
        BY <1>d, <2>3, Moves
      <3>2. ExactJob(job'[w], stats, AllUsed)
        BY <1>d, <2>1, <3>1 DEF ExactJob, Recording, Kept
      <3>3. job'[w].at = "idle" \/ ~job'[w].keyed \/ Charged(w)
        BY <1>d, <3>1 DEF Alike, Charged, Idle
      <3> QED
        BY <1>c, <1>d, <3>1, <3>2, <3>3 DEF Ahead, Recording
    <2> QED
      BY <1>d, <2>2, <2>3
  <1>1. ASSUME NEW w \in Workers, NEW keyed \in BOOLEAN, Authenticate(w, keyed)
        PROVE  Exact'
    <2>1. /\ Own(w) /\ job'[w].at = "reading" /\ job'[w].keyed = keyed
          /\ Idle(w)
      BY <1>1, AuthenticateMoves DEF Authenticate
    <2>2. /\ UNCHANGED <<admin, leaked, stats, answered, billed>>
          /\ overlapped' = (overlapped \/ (keyed /\ ~Quiet))
      BY <1>1 DEF Authenticate, userVars, bookVars
    <2>3. ~overlapped /\ (keyed => Quiet)
      BY <1>a, <2>2
    <2>4. /\ ExactJob(job'[w], stats, AllUsed)
          /\ \A b \in Books, f \in Fields : Ahead(job'[w], b, f) <=> Ahead(job[w], b, f)
      BY <2>1 DEF ExactJob, Ahead, Recording, Idle
    <2>5. CASE ~keyed
      BY <1>a, <1>c, <2>1, <2>2, <2>3, <2>4, <2>5
    <2>6. CASE keyed
      <3>1. \A v \in Workers \ {w} : ~Charged(v) /\ job'[v] = job[v]
        BY <2>1, <2>3, <2>6 DEF Quiet, Own
      <3>2. \A v, x \in Workers : Charged(v)' /\ Charged(x)' => v = x
        BY <3>1 DEF Charged, Idle
      <3>3. \A v \in Workers : ExactJob(job'[v], stats', AllUsed')
        <4>1. stats' = stats /\ AllUsed' = AllUsed
          BY <2>2 DEF AllUsed
        <4> QED
          BY <1>i, <2>2, <2>3, <2>4, <3>1, <4>1
      <3>4. ASSUME NEW b \in Books, NEW f \in Fields PROVE Balanced(b, f)'
        <4>1. \A v \in Workers : Ahead(job'[v], b, f) <=> Ahead(job[v], b, f)
          BY <2>4, <3>1
        <4>2. Used(f)' = Used(f) /\ Recorded(b)' = Recorded(b)
          BY <2>2 DEF Used, Recorded
        <4>3. Balanced(b, f)
          BY <1>i, <2>2, <2>3
        <4> QED
          BY <4>1, <4>2, <4>3 DEF Balanced
      <3> QED
        BY <3>2, <3>3, <3>4 DEF Exact
    <2> QED
      BY <2>5, <2>6
  <1>2. ASSUME NEW w \in Workers, ReadUsage(w) PROVE Exact'
    <2>1. /\ job[w].at = "usage"
          /\ UNCHANGED <<admin, leaked, overlapped, stats, answered, billed>>
      BY <1>2 DEF ReadUsage, userVars, bookVars, histVars
    <2>2. /\ Own(w) /\ job'[w].at = "registered" /\ job'[w].usage = Recorded("total")
          /\ Alike(job'[w], job[w])
      BY <1>2, ReadUsageMoves
    <2>3. Charged(w)
      BY <1>a, <2>1, <2>2 DEF Alike, Charged, Idle
    <2>4. \A v \in Workers, f \in Fields : ~Ahead(job[v], "total", f)
      <3>1. \A v \in Workers \ {w} : ~Charged(v)
        BY <1>i, <2>1, <2>3
      <3>2. ~Recording(job[w])
        BY <2>1 DEF Recording
      <3> QED
        BY <1>o, <3>1, <3>2 DEF Ahead, Books
    <2>5. \A f \in Fields : Used(f) = Recorded("total")[f]
      BY <1>i, <2>1, <2>4 DEF Balanced, Books
    <2>6. Recorded("total") = AllUsed
      <3>1. Recorded("total") \in Counters
        BY Consts DEF TypeOK, Recorded, Books
      <3>2. Recorded("total").bytes = billed /\ Recorded("total").calls = answered
        BY <2>5 DEF Fields, Used
      <3> QED
        BY <3>1, <3>2 DEF Counters, AllUsed
    <2> QED
      BY <1>c, <2>1, <2>2, <2>3, <2>6 DEF ExactJob, Ahead, Recording
  <1>3. ASSUME NEW w \in Workers, Piece(w) PROVE Exact'
    <2>1. /\ Own(w) /\ job'[w].delta = PieceDelta /\ job[w].keyed \in BOOLEAN
          /\ job'[w].at = IF job[w].keyed THEN "entry" ELSE "receiving"
          /\ job'[w].keyed = job[w].keyed
          /\ job'[w].book = job[w].book /\ job'[w].field = job[w].field
      BY <1>3, <1>a, PieceMoves DEF Jobs
    <2>2. /\ UNCHANGED <<admin, leaked, overlapped, stats, answered>>
          /\ job[w].at = "receiving"
      BY <1>3 DEF Piece, userVars, bookVars
    <2>3. CASE job[w].keyed
      <3>1. job[w].book = "daily" /\ job[w].field = "bytes"
        BY <1>a, <2>2 DEF LinkedJob, Recording
      <3>2. /\ Charged(w) /\ ExactJob(job'[w], stats', AllUsed')
        BY <2>1, <2>2, <2>3 DEF Charged, Idle, ExactJob
      <3>3. ASSUME NEW b \in Books, NEW f \in Fields,
                   Used(f) = Recorded(b)[f] + IF Ahead(job[w], b, f) THEN 1 ELSE 0
            PROVE  Used(f)' = Recorded(b)'[f]
                                + IF Ahead(job'[w], b, f) THEN 1 ELSE 0
        <4>1. Recorded(b)' = Recorded(b)
          BY <2>2 DEF Recorded
        <4>2. ~Ahead(job[w], b, f)
          BY <2>2 DEF Ahead, Recording
        <4>3. Recorded(b)[f] \in Nat
          BY RecordedTyped
        <4>4. CASE f = "bytes"
          <5>1. Ahead(job'[w], b, f)
            BY <2>1, <2>3, <3>1, <4>4 DEF Ahead, Recording, PieceDelta
          <5>2. Used(f)' = Used(f) + 1
            BY <1>3, <2>3, <4>4 DEF Used, Piece
          <5> QED
            BY <3>3, <4>1, <4>2, <4>3, <5>1, <5>2
        <4>5. CASE f = "calls"
          <5>1. ~Ahead(job'[w], b, f)
            BY <2>1, <4>5 DEF Ahead, PieceDelta
          <5>2. Used(f)' = Used(f)
            BY <2>2, <4>5 DEF Used
          <5> QED
            BY <3>3, <4>1, <4>2, <4>3, <5>1, <5>2
        <4> QED
          BY <4>4, <4>5 DEF Fields
      <3> QED
        BY <1>b, <2>1, <2>2, <3>2, <3>3 DEF Own
    <2>4. CASE ~job[w].keyed
      <3>1. job'[w].at = "receiving" /\ billed' = billed
        BY <1>3, <2>1, <2>4 DEF Piece
      <3> QED
        BY <1>c, <2>1, <2>2, <2>4, <3>1 DEF ExactJob, Ahead, Recording
    <2> QED
      BY <2>3, <2>4
  <1>4. ASSUME NEW w \in Workers, Answered(w) PROVE Exact'
    <2>1. /\ UNCHANGED <<admin, leaked, overlapped, stats>>
          /\ job[w].at = "receiving"
      BY <1>4 DEF Answered, userVars, bookVars
    <2>2. CASE job[w].keyed
      <3>1. /\ Own(w) /\ job'[w].delta = CallDelta /\ job'[w].at = "entry"
            /\ job'[w].book = job[w].book /\ job'[w].field = job[w].field
        BY <1>4, <2>2, AnsweredMoves
      <3>2. job[w].book = "daily" /\ job[w].field = "bytes"
        BY <1>a, <2>1 DEF LinkedJob, Recording
      <3>3. Charged(w) /\ ExactJob(job'[w], stats', AllUsed')
        BY <2>1, <2>2, <3>1 DEF Charged, Idle, ExactJob
      <3>4. ASSUME NEW b \in Books, NEW f \in Fields,
                   Used(f) = Recorded(b)[f] + IF Ahead(job[w], b, f) THEN 1 ELSE 0
            PROVE  Used(f)' = Recorded(b)'[f]
                                + IF Ahead(job'[w], b, f) THEN 1 ELSE 0
        <4>1. Recorded(b)' = Recorded(b)
          BY <2>1 DEF Recorded
        <4>2. ~Ahead(job[w], b, f)
          BY <2>1 DEF Ahead, Recording
        <4>3. Recorded(b)[f] \in Nat
          BY RecordedTyped
        <4>4. Ahead(job'[w], b, f)
          BY <3>1, <3>2 DEF Ahead, Recording, CallDelta, Fields
        <4>5. Used(f)' = Used(f) + 1
          BY <1>4, <2>2 DEF Used, Answered
        <4> QED
          BY <3>4, <4>1, <4>2, <4>3, <4>4, <4>5
      <3> QED
        BY <1>b, <2>1, <3>1, <3>3, <3>4 DEF Own
    <2>3. CASE ~job[w].keyed
      BY <1>4, <1>d, <2>1, <2>3 DEF Answered, Stages, Recording
    <2> QED
      BY <2>2, <2>3
  <1>5. ASSUME NEW w \in Workers, Record(w)
        PROVE  /\ Charged(w) /\ UNCHANGED <<admin, leaked, overlapped, answered, billed>>
               /\ ExactJob(job[w], stats, AllUsed) /\ AllUsed' = AllUsed
               /\ \A f \in Fields : Used(f)' = Used(f)
    <2>1. /\ UNCHANGED <<admin, leaked, overlapped, answered, billed>>
          /\ Recording(job[w])
      BY <1>5 DEF Record, Entry, FindMethod, CreateMethod, Load, Store,
                  userVars, histVars, Recording
    <2> QED
      BY <1>a, <1>i, <2>1 DEF FlowJob, Recording, Charged, Idle, AllUsed, Used
  \* A recording step that changes neither what is recorded nor what is ahead.
  <1>e. ASSUME NEW w \in Workers, Record(w),
               \A v \in Workers \ {w} : /\ job'[v].at = job[v].at
                                        /\ job'[v].keyed = job[v].keyed,
               Alike(job'[w], job[w]), Recording(job'[w]),
               ExactJob(job'[w], stats', AllUsed),
               \A b \in Books : Recorded(b)' = Recorded(b)
        PROVE  Exact'
    <2>1. Recording(job[w])
      BY <1>e DEF Record, Entry, FindMethod, CreateMethod, Load, Store, Recording
    <2>2. \A b \in Books, f \in Fields : Ahead(job'[w], b, f) <=> Ahead(job[w], b, f)
      BY <1>e, <2>1 DEF Ahead, Alike
    <2> QED
      BY <1>b, <1>e, <1>5, <2>2
  <1>6. ASSUME NEW w \in Workers, Entry(w) PROVE Exact'
    <2>1. /\ Own(w) /\ Alike(job'[w], job[w]) /\ job'[w].live
          /\ job'[w].at \in {"load", "method"} /\ Record(w)
      BY <1>6, EntryMoves DEF Record
    <2>2. \A b \in Books : Recorded(b)' = Recorded(b)
      BY <1>6 DEF Entry, Recorded, Linked, TypeOK
    <2>3. ExactJob(job'[w], stats', AllUsed) /\ Recording(job'[w])
      BY <2>1 DEF ExactJob, Recording
    <2> QED
      BY <1>e, <2>1, <2>2, <2>3 DEF Own
  <1>7. ASSUME NEW w \in Workers, FindMethod(w) PROVE Exact'
    <2> DEFINE at == IF job[w].live /\ stats["daily"] = None THEN "create" ELSE "load"
    <2>1. at \in Stages /\ Go(w, at) /\ job[w].at = "method" /\ stats' = stats
          /\ Record(w)
      BY <1>7 DEF FindMethod, Stages, bookVars, Record
    <2>2. /\ job'[w].at = at /\ Own(w)
          /\ Alike(job'[w], job[w]) /\ Kept(job'[w], job[w])
      BY <2>1, Moves
    <2>3. ExactJob(job'[w], stats', AllUsed) /\ Recording(job'[w])
      BY <1>5, <2>1, <2>2 DEF ExactJob, Recording, Kept
    <2> QED
      BY <1>e, <2>1, <2>2, <2>3 DEF Own, Recorded
  <1>8. ASSUME NEW w \in Workers, CreateMethod(w) PROVE Exact'
    <2>1. /\ job[w].at = "create" /\ Record(w)
          /\ stats' = IF job[w].live THEN [stats EXCEPT !["daily"] = Zero] ELSE stats
      BY <1>8 DEF CreateMethod, Record
    <2>2. /\ job'[w].at = "load" /\ Alike(job'[w], job[w]) /\ Kept(job'[w], job[w])
          /\ \A v \in Workers \ {w} : /\ job'[v].at = job[v].at
                                      /\ job'[v].keyed = job[v].keyed
      BY <1>8, CreateMoves DEF Alike
    <2>3. job[w].live /\ stats["daily"] = None
      BY <1>5, <2>1 DEF ExactJob, Recording
    <2>4. \A b \in Books : Recorded(b)' = Recorded(b)
      BY <2>1, <2>3 DEF Recorded, TypeOK
    <2>5. ExactJob(job'[w], stats', AllUsed) /\ Recording(job'[w])
      BY <2>2, <2>3 DEF ExactJob, Recording, Kept
    <2> QED
      BY <1>e, <2>1, <2>2, <2>4, <2>5
  <1>9. ASSUME NEW w \in Workers, Load(w) PROVE Exact'
    <2>1. job[w].at = "load" /\ Record(w) /\ stats' = stats
      BY <1>9 DEF Load, Record, bookVars
    <2>2. /\ Own(w) /\ Alike(job'[w], job[w]) /\ job'[w].at = "store"
          /\ job'[w].live = job[w].live
          /\ job'[w].load = IF job[w].live
                            THEN Recorded(job[w].book)[job[w].field] ELSE 0
      BY <1>9, LoadMoves
    <2>3. job[w].live
      BY <1>5, <2>1 DEF ExactJob, Recording
    <2>4. ExactJob(job'[w], stats', AllUsed) /\ Recording(job'[w])
      BY <2>1, <2>2, <2>3 DEF ExactJob, Recording, Alike, Recorded
    <2> QED
      BY <1>e, <2>1, <2>2, <2>4 DEF Own, Recorded
  <1>10. ASSUME NEW w \in Workers, Store(w) PROVE Exact'
    <2> DEFINE j == job[w]
               k == AfterStore(j)
               d == j.delta[j.field]
    <2>1. j \in Jobs /\ j.at = "store" /\ Own(w) /\ Record(w)
      BY <1>10, <1>a, StoreMoves DEF Store, Record
    <2>2. /\ j.field \in Fields /\ j.book \in Books /\ d \in {0, 1} /\ j.load \in Nat
      BY <2>1 DEF Jobs, Fields, Zero, PieceDelta, CallDelta
    <2>3. /\ job'[w].at = k.at /\ job'[w].live = k.live /\ Alike(job'[w], k)
      BY <1>10, StoreMoves
    <2>4. /\ j.live /\ stats[j.book] # None
          /\ j.load = Recorded(j.book)[j.field]
      BY <1>5, <1>a, <2>1 DEF ExactJob, Recording, LinkedJob, Recorded
    <2>5. /\ \A b \in Books, f \in Fields :
               b # j.book \/ f # j.field => (Ahead(job'[w], b, f) <=> Ahead(j, b, f))
          /\ ~Ahead(job'[w], j.book, j.field)
          /\ d = 1 <=> Ahead(j, j.book, j.field)
      BY <2>1, <2>3, AheadOfStore DEF Alike, Ahead, Recording
    <2>6. ExactJob(job'[w], stats', AllUsed')
      <3>1. /\ k.at \in {"load", "entry", "receiving", "idle"}
            /\ k.at = "load" => k.live
        BY <2>1, <2>2, <2>4, StoreLeads DEF NoJob, Fields, Books
      <3> QED
        BY <2>3, <3>1 DEF ExactJob, Recording
    <2>7. ASSUME NEW b \in Books, NEW f \in Fields
          PROVE  Recorded(b)'[f] = IF b = j.book /\ f = j.field THEN j.load + d
                                   ELSE Recorded(b)[f]
      <3>1. stats[j.book] \in Counters
        BY <2>2, <2>4 DEF TypeOK
      <3>2. CASE b # j.book
        <4>1. stats'[b] = stats[b]
          BY <1>10, <2>2, <3>2 DEF Store, TypeOK
        <4> QED
          BY <3>2, <4>1 DEF Recorded
      <3>3. CASE b = j.book
        <4>1. stats'[b] \in Counters
          <5>1. CASE j.field = "bytes"
            <6>1. stats'[b] = [stats[b] EXCEPT !.bytes = j.load + d]
              BY <1>10, <2>4, <3>3, <5>1 DEF Store, TypeOK
            <6> QED
              BY <2>2, <3>1, <3>3, <6>1 DEF Counters
          <5>2. CASE j.field = "calls"
            <6>1. stats'[b] = [stats[b] EXCEPT !.calls = j.load + d]
              BY <1>10, <2>4, <3>3, <5>2 DEF Store, TypeOK
            <6> QED
              BY <2>2, <3>1, <3>3, <6>1 DEF Counters
          <5> QED
            BY <2>2, <5>1, <5>2 DEF Fields
        <4>2. stats'[b][f] = IF f = j.field THEN j.load + d ELSE stats[b][f]
          BY <1>10, <2>2, <2>4, <3>1, <3>3 DEF Store, TypeOK, Counters, Fields
        <4>3. stats'[b] # None /\ stats[b] # None
          BY <2>4, <3>3, <4>1, PlansAssumption
        <4> QED
          BY <3>3, <4>2, <4>3 DEF Recorded
      <3> QED
        BY <3>2, <3>3
    <2>8. ASSUME NEW b \in Books, NEW f \in Fields,
                 Used(f) = Recorded(b)[f] + IF Ahead(j, b, f) THEN 1 ELSE 0
          PROVE  Used(f)' = Recorded(b)'[f] + IF Ahead(job'[w], b, f) THEN 1 ELSE 0
      <3>1. Used(f)' = Used(f) /\ Recorded(b)[f] \in Nat
        BY <1>5, <2>1, RecordedTyped
      <3>2. CASE b = j.book /\ f = j.field
        <4>1. Recorded(b)'[f] = Recorded(b)[f] + d
          BY <2>4, <2>7, <3>2
        <4>2. d = IF Ahead(j, b, f) THEN 1 ELSE 0
          BY <2>2, <2>5, <3>2
        <4>3. Used(f)' = Recorded(b)'[f] /\ ~Ahead(job'[w], b, f)
          BY <2>5, <2>8, <3>1, <3>2, <4>1, <4>2
        <4> QED
          BY <2>2, <3>1, <4>1, <4>3
      <3>3. CASE b # j.book \/ f # j.field
        <4>1. Recorded(b)'[f] = Recorded(b)[f]
          BY <2>7, <3>3
        <4>2. Ahead(job'[w], b, f) <=> Ahead(j, b, f)
          BY <2>5, <3>3
        <4> QED
          BY <2>8, <3>1, <4>1, <4>2
      <3> QED
        BY <3>2, <3>3
    <2> QED
      BY <1>b, <1>5, <2>1, <2>6, <2>8 DEF Own
  <1>11. CASE (\E pl \in Plans : Register(pl) \/ UpdateCalls(pl)) \/ UpdateBytes
    <2>1. /\ UNCHANGED <<stats, answered, billed, leaked, overlapped>>
          /\ admin.at \in {"idle", "updating"}
      BY <1>11 DEF Register, UpdateCalls, UpdateBytes, bookVars, histVars
    <2>2. AfterRemoval /\ ~overlapped
      BY <2>1 DEF AfterRemoval, Books
    <2>3. CASE job' = job
      BY <2>1, <2>2, <2>3 DEF Exact, AfterRemoval, Charged, Idle, AllUsed, Balanced,
                              Used, Recorded
    <2>4. ASSUME NEW pl \in Plans, UpdateCalls(pl) PROVE Exact'
      <3>1. \A v \in Workers :
              /\ Charged(v)' <=> Charged(v)
              /\ ExactJob(job[v], stats, AllUsed) => ExactJob(job'[v], stats, AllUsed)
              /\ \A b \in Books, f \in Fields :
                   Ahead(job'[v], b, f) <=> Ahead(job[v], b, f)
        BY <2>4, ReplanMoves DEF Charged, Idle, ExactJob, Ahead, Recording, Alike, Kept
      <3>2. stats' = stats /\ AllUsed' = AllUsed
        BY <2>1 DEF AllUsed
      <3>3. ASSUME NEW b \in Books, NEW f \in Fields PROVE Balanced(b, f)'
        <4>1. Used(f)' = Used(f) /\ Recorded(b)' = Recorded(b)
          BY <2>1 DEF Used, Recorded
        <4>2. Balanced(b, f)
          BY <2>2 DEF Exact
        <4> QED
          BY <3>1, <4>1, <4>2 DEF Balanced
      <3>4. \A v \in Workers : ExactJob(job'[v], stats', AllUsed')
        BY <2>2, <3>1, <3>2 DEF Exact
      <3> QED
        BY <2>2, <3>1, <3>3, <3>4 DEF Exact
    <2> QED
      BY <1>11, <2>3, <2>4 DEF Register, UpdateBytes
  <1>12. CASE RemovePlan \/ RemoveEntry("total", "daily")
    <2>1. admin'.at \in Books
      BY <1>12 DEF RemovePlan, RemoveEntry, TypeOK, Books
    <2> QED
      BY <2>1 DEF AfterRemoval
  <1>13. CASE RemoveEntry("daily", "idle")
    <2>1. /\ admin.at = "daily" /\ UNCHANGED <<leaked, answered, billed>>
          /\ stats' = [stats EXCEPT !["daily"] = None]
      BY <1>13 DEF RemoveEntry, DropEntry, histVars
    <2>2. Quiet /\ stats["total"] = None /\ answered = 0 /\ billed = 0
      BY <2>1 DEF Removing, Books, AfterRemoval
    <2>3. \A v \in Workers : job'[v].at = job[v].at /\ job'[v].keyed = job[v].keyed
      BY <1>13, RemovalMoves DEF Alike, Books
    <2>4. \A v \in Workers : job'[v].at = "idle" \/ ~job'[v].keyed
      BY <2>2, <2>3 DEF Quiet, Charged, Idle
    <2>5. ASSUME NEW b \in Books, NEW f \in Fields PROVE Balanced(b, f)'
      <3>1. Recorded(b)'[f] = 0
        BY <2>1, <2>2, Consts DEF Recorded, Fields, Books, TypeOK
      <3>2. Used(f)' = 0
        BY <2>1, <2>2 DEF Used
      <3>3. \A v \in Workers : ~Ahead(job'[v], b, f)
        BY <1>p, <2>4
      <3> QED
        BY <3>1, <3>2, <3>3 DEF Balanced
    <2>6. \A v \in Workers : ExactJob(job'[v], stats', AllUsed')
      BY <1>p, <2>4
    <2>7. \A v, x \in Workers : Charged(v)' /\ Charged(x)' => v = x
      BY <2>4 DEF Charged, Idle
    <2> QED
      BY <2>5, <2>6, <2>7 DEF Exact
  <1>14. CASE UNCHANGED vars
    BY <1>14 DEF Exact, AfterRemoval, Charged, Idle, AllUsed, Balanced, Used,
                 Recorded, vars, userVars, bookVars, histVars
  <1>15. ASSUME NEW w \in Workers, Request(w) PROVE Exact'
    <2>1. CASE AcceptContent(w) \/ CheckRegistered(w) \/ CheckCalls(w)
      BY <1>d, <2>1 DEF AcceptContent, CheckRegistered, CheckCalls, Stages, Recording,
                        userVars, bookVars, histVars
    <2>2. CASE GetAttribute(w, "priority", "pool") \/ GetAttribute(w, "pool", "forwarding")
      BY <1>d, <2>2 DEF GetAttribute, Stages, Recording, userVars, bookVars, histVars
    <2>3. CASE Forward(w) \/ Leave(w)
      BY <1>d, <2>3 DEF Forward, Leave, Stages, Recording, userVars, bookVars, histVars
    <2>4. CASE CheckBytes(w)
      <3>1. /\ job[w].at = "bytes" /\ Own(w) /\ job'[w].at \in {"idle", "priority"}
            /\ job'[w].at = "idle" \/ job'[w].keyed = job[w].keyed
            /\ job[w].keyed \in BOOLEAN
        BY <1>a, <2>4, BytesMoves, Consts DEF CheckBytes, Jobs
      <3>2. ExactJob(job'[w], stats, AllUsed)
        BY <3>1 DEF ExactJob, Recording
      <3>3. job'[w].at = "idle" \/ ~job'[w].keyed \/ Charged(w)
        BY <3>1 DEF Charged, Idle
      <3>4. \A b \in Books, f \in Fields : ~Ahead(job'[w], b, f) /\ ~Ahead(job[w], b, f)
        BY <3>1 DEF Ahead, Recording
      <3> QED
        BY <1>c, <2>4, <3>1, <3>2, <3>3, <3>4 DEF CheckBytes, userVars, bookVars, histVars
    <2> QED
      BY <1>1, <1>2, <1>3, <1>4, <1>15, <2>1, <2>2, <2>3, <2>4 DEF Request
  <1> QED
    BY <1>6, <1>7, <1>8, <1>9, <1>10, <1>11, <1>12, <1>13, <1>14, <1>15
    DEF Next, Admin, Record

LEMMA ComparedStep == TypeOK /\ Linked /\ Flow /\ Compared /\ [Next]_vars => Compared'
  <1> SUFFICES ASSUME TypeOK, Linked, Flow, Compared, [Next]_vars PROVE Compared'
    OBVIOUS
  <1>a. /\ job \in [Workers -> Jobs]
        /\ \A w \in Workers : FlowJob(job[w], plan) /\ ComparedJob(job[w])
    BY DEF TypeOK, Flow, Compared
  \* A step of a worker that does not go on to the bytes.
  <1>b. ASSUME NEW w \in Workers, Own(w), job'[w].at # "bytes", job'[w].held = None,
               UNCHANGED <<plan, leaked>>
        PROVE  Compared'
    BY <1>a, <1>b DEF Own, Compared, ComparedJob
  <1>c. ASSUME NEW w \in Workers, job[w].at # "bytes" PROVE job[w].held = None
    BY <1>a, <1>c DEF ComparedJob
  <1>d. ASSUME NEW w \in Workers, NEW at \in Stages \ {"bytes"}, Go(w, at) \/ Done(w),
               Go(w, at) => job[w].at # "bytes", UNCHANGED <<plan, leaked>>
        PROVE  Compared'
    BY <1>b, <1>c, <1>d, Moves, Consts DEF Alike
  <1>1. ASSUME NEW w \in Workers, NEW keyed \in BOOLEAN, Authenticate(w, keyed)
        PROVE  Compared'
    BY <1>1, <1>b, AuthenticateMoves DEF Authenticate, userVars
  <1>2. ASSUME NEW w \in Workers, CheckCalls(w) PROVE Compared'
    <2>1. job[w].at = "plan" /\ UNCHANGED <<plan, leaked>>
      BY <1>2 DEF CheckCalls, userVars, histVars
    <2>2. CASE Go(w, "raised") \/ Done(w)
      BY <1>d, <2>1, <2>2 DEF Stages
    <2>3. CASE plan # None /\ CallsLeft(plan, job[w].usage) /\ Go(w, "bytes")
      <3>1. /\ Own(w) /\ job'[w].at = "bytes" /\ job'[w].held = None
            /\ job'[w].usage = job[w].usage
        BY <1>c, <2>1, <2>3, Moves DEF Alike, Kept, Stages
      <3> QED
        BY <1>a, <2>1, <2>3, <3>1 DEF Own, Compared, ComparedJob
    <2> QED
      BY <1>2, <2>2, <2>3 DEF CheckCalls
  <1>3. ASSUME NEW w \in Workers, CheckBytes(w) PROVE Compared'
    BY <1>3, <1>b, BytesMoves, Consts DEF CheckBytes, userVars, histVars
  <1>4. ASSUME NEW w \in Workers, ReadUsage(w) PROVE Compared'
    BY <1>4, <1>b, <1>c, ReadUsageMoves DEF ReadUsage, Alike, userVars, histVars
  <1>5. ASSUME NEW w \in Workers, Piece(w) PROVE Compared'
    <2>1. job[w].at = "receiving" /\ UNCHANGED <<plan, leaked>>
      BY <1>5 DEF Piece, userVars
    <2>2. Own(w) /\ job'[w].held = None /\ job'[w].at # "bytes"
      BY <1>5, <1>c, <2>1, PieceMoves
    <2> QED
      BY <1>b, <2>1, <2>2
  <1>6. ASSUME NEW w \in Workers, Answered(w) PROVE Compared'
    <2>1. CASE job[w].keyed
      BY <1>6, <2>1, <1>b, <1>c, AnsweredMoves DEF Answered, userVars
    <2>2. CASE ~job[w].keyed
      BY <1>6, <2>2, <1>d DEF Answered, userVars, Stages
    <2> QED
      BY <2>1, <2>2
  <1>7. ASSUME NEW w \in Workers, Entry(w) PROVE Compared'
    <2>1. job[w].at = "entry" /\ UNCHANGED <<plan, leaked>>
      BY <1>7 DEF Entry, userVars, histVars
    <2>2. Own(w) /\ job'[w].held = None /\ job'[w].at # "bytes"
      BY <1>7, <1>c, <2>1, EntryMoves DEF Alike
    <2> QED
      BY <1>b, <2>1, <2>2
  <1>8. ASSUME NEW w \in Workers, CreateMethod(w) PROVE Compared'
    <2>1. job[w].at = "create" /\ UNCHANGED <<plan, leaked>>
      BY <1>8 DEF CreateMethod, userVars, histVars
    <2>2. job'[w].held = None /\ job'[w].at = "load"
      BY <1>8, <1>c, <2>1, CreateMoves DEF Alike
    <2>3. \A v \in Workers \ {w} :
            /\ job'[v].at = job[v].at /\ job'[v].held = job[v].held
            /\ SameCheck(job'[v], job[v])
      BY <1>8, CreateMoves DEF Alike, SameCheck
    <2> QED
      BY <1>a, <2>1, <2>2, <2>3 DEF Compared, ComparedJob, SameCheck
  <1>9. ASSUME NEW w \in Workers, Load(w) PROVE Compared'
    <2>1. job[w].at = "load" /\ UNCHANGED <<plan, leaked>>
      BY <1>9 DEF Load, userVars, histVars
    <2>2. Own(w) /\ job'[w].held = None /\ job'[w].at # "bytes"
      BY <1>9, <1>c, <2>1, LoadMoves DEF Alike
    <2> QED
      BY <1>b, <2>1, <2>2
  <1>10. ASSUME NEW w \in Workers, Store(w) PROVE Compared'
    <2> DEFINE k == AfterStore(job[w])
    <2>1. job[w].at = "store" /\ job[w] \in Jobs /\ UNCHANGED <<plan, leaked>>
      BY <1>10, <1>a DEF Store, userVars, histVars
    <2>2. job[w].field \in {"bytes", "calls"} /\ job[w].book \in {"daily", "total"}
      BY <2>1 DEF Jobs, Books
    <2>3. k.held = None /\ k.at # "bytes"
      BY <1>c, <2>1, <2>2, StoreLeads, Consts
    <2> QED
      BY <1>10, <1>b, <2>1, <2>3, StoreMoves DEF Alike
  <1>11. ASSUME NEW pl \in Plans, Register(pl) PROVE Compared'
    <2>1. plan = None /\ UNCHANGED <<job, leaked>>
      BY <1>11 DEF Register, histVars
    <2> QED
      BY <1>a, <2>1 DEF Compared, ComparedJob
  <1>12. ASSUME NEW pl \in Plans, UpdateCalls(pl) PROVE Compared'
    <2>1. leaked' = leaked /\ plan' # None
      <3>1. plan \in Counters /\ pl.calls \in Nat
        BY <1>12, PlansAssumption DEF UpdateCalls, TypeOK, Counters
      <3>2. plan' \in Counters
        BY <1>12, <3>1 DEF UpdateCalls, Counters
      <3> QED
        BY <1>12, <3>2, PlansAssumption DEF UpdateCalls, histVars
    <2> QED
      BY <1>12, <1>a, <2>1, ReplanMoves DEF Compared, ComparedJob, Alike
  <1>13. CASE UpdateBytes
    <2>1. /\ plan \in Counters /\ admin.given \in Counters
          /\ UNCHANGED <<job, leaked>>
      BY <1>13, PlansAssumption DEF UpdateBytes, TypeOK, Linked, histVars
    <2>2. plan' \in Counters /\ plan'.calls = plan.calls
      BY <1>13, <2>1 DEF UpdateBytes, Counters
    <2>3. plan' # None
      BY <2>2, PlansAssumption
    <2> QED
      BY <1>a, <2>1, <2>2, <2>3 DEF Compared, ComparedJob, CallsLeft
  <1>14. CASE RemovePlan
    <2>1. leaked' = ~Quiet
      BY <1>14 DEF RemovePlan
    <2>2. ASSUME NEW v \in Workers
          PROVE  /\ job'[v].held # None => job'[v].at = "bytes" /\ leaked'
                 /\ job'[v].at = "bytes" => leaked'
      <3>1. CASE Charged(v)
        <4>1. leaked'
          BY <2>1, <3>1 DEF Quiet
        <4>2. job'[v].at = job[v].at /\ (job'[v].at # "bytes" => job'[v].held = job[v].held)
          BY <1>14, <3>1, RemovalMoves
        <4> QED
          BY <1>c, <4>1, <4>2
      <3>2. CASE ~Charged(v)
        <4>1. job'[v] = job[v]
          BY <1>14, <3>2, RemovalMoves
        <4>2. job[v].at # "bytes"
          BY <1>a, <3>2 DEF FlowJob, Charged, Idle
        <4> QED
          BY <1>c, <4>1, <4>2
      <3> QED
        BY <3>1, <3>2
    <2> QED
      BY <2>2 DEF Compared, ComparedJob
  <1>15. ASSUME NEW b \in Books, NEW next \in {"daily", "idle"}, RemoveEntry(b, next)
         PROVE  Compared'
    <2>1. UNCHANGED <<plan, leaked>>
      BY <1>15 DEF RemoveEntry, histVars
    <2>2. \A v \in Workers : /\ job'[v].at = job[v].at /\ job'[v].held = job[v].held
                             /\ SameCheck(job'[v], job[v])
      BY <1>15, RemovalMoves DEF Alike, SameCheck
    <2> QED
      BY <1>a, <2>1, <2>2 DEF Compared, ComparedJob, SameCheck
  <1>16. CASE UNCHANGED vars
    BY <1>16, <1>a DEF vars, userVars, histVars, Compared, ComparedJob
  <1>17. ASSUME NEW w \in Workers, Request(w) PROVE Compared'
    <2>1. CASE AcceptContent(w) \/ CheckRegistered(w)
      BY <1>d, <2>1 DEF AcceptContent, CheckRegistered, Stages, userVars, histVars
    <2>2. CASE GetAttribute(w, "priority", "pool") \/ GetAttribute(w, "pool", "forwarding")
      BY <1>d, <2>2 DEF GetAttribute, Stages, userVars, histVars
    <2>3. CASE Forward(w) \/ Leave(w)
      BY <1>d, <2>3 DEF Forward, Leave, Stages, userVars, histVars
    <2> QED
      BY <1>1, <1>2, <1>3, <1>4, <1>5, <1>6, <1>17, <2>1, <2>2, <2>3 DEF Request
  <1>18. ASSUME NEW w \in Workers, Record(w) PROVE Compared'
    <2>1. CASE FindMethod(w)
      BY <1>d, <2>1 DEF FindMethod, Stages, userVars, histVars
    <2> QED
      BY <1>7, <1>8, <1>9, <1>10, <1>18, <2>1 DEF Record
  <1> QED
    BY <1>11, <1>12, <1>13, <1>14, <1>15, <1>16, <1>17, <1>18 DEF Next, Admin, Books

LEMMA StartsTyped == Init => TypeOK /\ Linked
  <1>1. Init => TypeOK
    <2> SUFFICES ASSUME Init PROVE TypeOK
      OBVIOUS
    <2>1. /\ plan \in Counters \cup {None}
          /\ admin \in [at : {"idle", "updating"} \cup Books, given : Plans \cup {None}]
      BY PlansAssumption DEF Init
    <2>2. /\ entry \in [Books -> BOOLEAN]
          /\ stats \in [Books -> Counters \cup {None}]
          /\ job \in [Workers -> Jobs]
      BY Consts DEF Init
    <2> QED
      BY <2>1, <2>2 DEF Init, TypeOK
  <1>2. Init => Linked
    BY DEF Init, Linked, LinkedJob, Recording, NoJob, Books
  <1> QED
    BY <1>1, <1>2

\* Every variable keeps its type; of the ledger that needs Linked: who loads or
\* stores a counter of an object in the ledger finds it there.
THEOREM TypeCorrect == Spec => []TypeOK
  BY StartsTyped, TypeStep, LinkedStep, PTL DEF Spec

\* Whatever the admin and the workers do, the assertions of the billing service
\* and its lookups after a check fail only requests whose user was removed
\* while they were under way: SIM, where a request need not have a user, never
\* asks for what is looked up.
THEOREM AssertionsFailOnRemovalOnly == Spec => []RaisedMeansRemoved
  <1>1. Init => TypeOK /\ Linked
    BY StartsTyped
  <1>2. Init => Flow
    BY DEF Init, Flow, FlowJob, Recording, NoJob
  <1>3. Flow => RaisedMeansRemoved
    BY DEF Flow, FlowJob, RaisedMeansRemoved
  <1> QED
    BY <1>1, <1>2, <1>3, TypeStep, LinkedStep, FlowStep, PTL DEF Spec

LEMMA StartsBooked == Init => Flow /\ Removing /\ Bounded /\ Exact
  <1> SUFFICES ASSUME Init PROVE Flow /\ Removing /\ Bounded /\ Exact
    OBVIOUS
  <1>1. \A w \in Workers : job[w] = NoJob
    BY DEF Init
  <1>2. \A w \in Workers : ~Recording(job[w]) /\ ~Charged(w)
    BY <1>1 DEF NoJob, Recording, Charged, Idle
  <1>3. Flow /\ Removing
    BY <1>1 DEF Init, Flow, FlowJob, Recording, NoJob, Removing, Books
  <1>4. ASSUME NEW b \in Books, NEW f \in Fields
        PROVE  Fits(job, Recorded(b)[f], Used(f), b, f) /\ Balanced(b, f)
    <2>1. \A w \in Workers : ~Ahead(job[w], b, f)
      BY <1>2 DEF Ahead
    <2>2. PendingIn(job, b, f) = {}
      BY <2>1 DEF PendingIn
    <2>3. Recorded(b)[f] = 0 /\ Used(f) = 0
      BY Consts DEF Init, Recorded, Used, Fields
    <2> QED
      BY <1>2, <2>1, <2>2, <2>3, FS_EmptySet DEF Fits, Recording, Balanced
  <1>5. \A w \in Workers : ExactJob(job[w], stats, AllUsed)
    BY <1>1 DEF NoJob, ExactJob, Recording
  <1> QED
    BY <1>2, <1>3, <1>4, <1>5 DEF Bounded, Exact

\* The ledger never has more than was used, for any number of workers and any
\* interleaving of their unlocked loads and stores: what a worker loaded leaves
\* room for everything still to be recorded.
THEOREM NobodyIsOvercharged == Spec => []NeverOvercharged
  <1>1. TypeOK /\ Bounded => NeverOvercharged
    <2> SUFFICES ASSUME TypeOK, Bounded, AfterRemoval, NEW b \in Books
                 PROVE  Recorded(b)["calls"] <= answered /\ Recorded(b)["bytes"] <= billed
      BY DEF NeverOvercharged
    <2>1. ASSUME NEW f \in Fields PROVE Recorded(b)[f] <= Used(f)
      <3>1. Recorded(b)[f] + Cardinality(PendingIn(job, b, f)) <= Used(f)
        BY DEF Bounded, Fits
      <3>2. Cardinality(PendingIn(job, b, f)) \in Nat
        BY PendingShrinks
      <3>3. Recorded(b)[f] \in Nat /\ Used(f) \in Nat
        BY RecordedTyped
      <3> QED
        BY <3>1, <3>2, <3>3
    <2> QED
      BY <2>1 DEF Fields, Used
  <1> QED
    BY <1>1, StartsTyped, StartsBooked, TypeStep, LinkedStep, FlowStep,
       RemovingStep, BoundedStep, PTL DEF Spec

\* While no two exchanges of the key overlap the ledger loses nothing either:
\* between exchanges it has what was used since the user was last removed.
THEOREM BooksAreExact == Spec => []QuietLedgerIsExact
  <1>1. TypeOK /\ Flow /\ Exact => QuietLedgerIsExact
    <2> SUFFICES ASSUME TypeOK, Flow, Exact, AfterRemoval, ~overlapped, Quiet,
                        NEW b \in Books
                 PROVE  Recorded(b) = AllUsed
      BY DEF QuietLedgerIsExact, AllUsed
    <2>1. \A w \in Workers : ~Recording(job[w])
      BY DEF Flow, FlowJob, Quiet, Charged, Idle, Recording
    <2>2. \A f \in Fields : Used(f) = Recorded(b)[f]
      BY <2>1 DEF Exact, Balanced, Ahead
    <2>3. Recorded(b).bytes = billed /\ Recorded(b).calls = answered
      BY <2>2 DEF Fields, Used
    <2>4. Recorded(b) \in Counters
      BY Consts DEF TypeOK, Recorded
    <2> QED
      BY <2>3, <2>4 DEF Counters, AllUsed
  <1> QED
    BY <1>1, StartsTyped, StartsBooked, TypeStep, LinkedStep, FlowStep,
       RemovingStep, ExactStep, PTL DEF Spec

\* And then a request is only let through while less was used than its user may
\* use: the usage a worker read is not stale when it compares it with the plan,
\* and the plan it compares is not one that was removed.  Only calls that the
\* admin lowers between the two comparisons are compared as they were before.
THEOREM AdmissionIsExact == Spec => AdmittedWithinPlan
  <1>1. TypeOK /\ Linked /\ Exact /\ Compared /\ [Next]_vars =>
          \A w \in Workers :
             /\ job[w].at = "bytes"
             /\ job'[w].at = "priority"
             /\ AfterRemoval /\ ~overlapped
             => /\ billed < plan.bytes
                /\ answered < plan.calls \/ job[w].replanned
    <2> SUFFICES ASSUME TypeOK, Linked, Exact, Compared, [Next]_vars, NEW w \in Workers,
                        job[w].at = "bytes", job'[w].at = "priority",
                        AfterRemoval, ~overlapped
                 PROVE  /\ billed < plan.bytes
                        /\ answered < plan.calls \/ job[w].replanned
      OBVIOUS
    <2>1. job[w].usage = AllUsed
      BY DEF Exact, ExactJob
    <2>2. /\ job[w].held = None /\ plan # None
          /\ job[w].replanned \/ CallsLeft(plan, job[w].usage)
      BY DEF Compared, ComparedJob, AfterRemoval
    <2>3. ASSUME NEW v \in Workers, Request(v) \/ Record(v) PROVE CheckBytes(w)
      <3>1. CASE v = w
        <4>1. ~Record(w)
          BY DEF Record, Entry, FindMethod, CreateMethod, Load, Store
        <4> QED
          BY <2>3, <3>1, <4>1 DEF Request, Authenticate, AcceptContent, ReadUsage,
               CheckRegistered, CheckCalls, GetAttribute, Forward, Piece, Answered,
               Leave, Idle
      <3>2. CASE v # w
        <4>1. job'[w].at = job[w].at
          <5>1. ASSUME Own(v) PROVE job'[w].at = job[w].at
            BY <3>2, <5>1 DEF Own
          <5>2. CASE CreateMethod(v)
            BY <3>2, <5>2, CreateMoves
          <5>3. CASE \/ \E keyed \in BOOLEAN : Authenticate(v, keyed)
                     \/ ReadUsage(v) \/ Piece(v) \/ Entry(v) \/ Load(v) \/ Store(v)
                     \/ CheckBytes(v)
            BY <5>1, <5>3, AuthenticateMoves, ReadUsageMoves, PieceMoves, EntryMoves,
               LoadMoves, StoreMoves, BytesMoves
          <5>4. CASE Answered(v)
            BY <5>1, <5>4, AnsweredMoves, Moves DEF Answered, Stages
          <5>5. ASSUME \E at \in Stages : Go(v, at) \/ Done(v)
                PROVE  job'[w].at = job[w].at
            BY <5>1, <5>5, Moves
          <5>6. CASE AcceptContent(v) \/ CheckRegistered(v) \/ CheckCalls(v)
            BY <5>5, <5>6 DEF AcceptContent, CheckRegistered, CheckCalls, Stages
          <5>7. CASE \/ GetAttribute(v, "priority", "pool")
                     \/ GetAttribute(v, "pool", "forwarding")
            BY <5>5, <5>7 DEF GetAttribute, Stages
          <5>8. CASE Forward(v) \/ Leave(v) \/ FindMethod(v)
            BY <5>5, <5>8 DEF Forward, Leave, FindMethod, Stages
          <5> QED
            BY <2>3, <5>2, <5>3, <5>4, <5>6, <5>7, <5>8 DEF Request, Record
        <4> QED
          BY <4>1
      <3> QED
        BY <3>1, <3>2
    <2>4. ~Admin
      <3>1. ASSUME job' = job PROVE FALSE
        BY <3>1
      <3>2. ~RemovePlan
        BY RemovalMoves
      <3>3. ~RemoveEntry("total", "daily") /\ ~RemoveEntry("daily", "idle")
        BY RemovalMoves DEF Books
      <3>4. \A pl \in Plans : ~UpdateCalls(pl)
        BY ReplanMoves
      <3> QED
        BY <3>1, <3>2, <3>3, <3>4 DEF Admin, Register, UpdateBytes
    <2>5. CheckBytes(w)
      <3>1. ~UNCHANGED vars
        BY DEF vars
      <3> QED
        BY <2>3, <2>4, <3>1 DEF Next
    <2>6. BytesLeft(plan, job[w].usage)
      BY <2>2, <2>5, BytesMoves, Consts
    <2>7. billed < plan.bytes
      BY <2>1, <2>2, <2>6 DEF BytesLeft, AllUsed, TypeOK, Counters
    <2>8. answered < plan.calls \/ job[w].replanned
      BY <2>1, <2>2 DEF CallsLeft, AllUsed, TypeOK, Counters
    <2> QED
      BY <2>7, <2>8
  <1>2. Init => Compared
    BY DEF Init, Compared, ComparedJob, NoJob
  <1> QED
    BY <1>1, <1>2, StartsTyped, StartsBooked, TypeStep, LinkedStep, FlowStep,
       RemovingStep, ExactStep, ComparedStep, PTL DEF Spec, AdmittedWithinPlan
=============================================================================
