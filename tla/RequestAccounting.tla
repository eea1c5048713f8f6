-------------------------- MODULE RequestAccounting --------------------------
(***************************************************************************)
(* What a client may use and what it used.  A worker authenticates a       *)
(* request, compares the recorded usage of its key with the key's plan,    *)
(* forwards it, and records bytes and call in the ledger, while other      *)
(* workers do the same and the admin registers, changes and removes the    *)
(* user.  The ledger has no locks: each counter is loaded, and stored      *)
(* later.  Entries of different keys have nothing in common: one key.      *)
(***************************************************************************)
EXTENDS Naturals, FiniteSets

CONSTANTS
  Workers,
  Plans,         \* plans the admin gives: records of calls and bytes
  MaxExchanges,  \* bound: exchanges of one behaviour
  MaxPieces,     \* bound: pieces of one response
  None

Counters == [bytes : Nat, calls : Nat]

ASSUME PlansAssumption == Plans \subseteq Counters /\ None \notin Counters
ASSUME WorkersAssumption == IsFiniteSet(Workers)

VARIABLES
  sim,      \* Config.MODE is SIM: no key is needed, no plan is checked
  plan,     \* BasicBillingService.user_plans[key], or None
  admin,    \* the step of the admin's call, and the plan it was given
  entry,    \* whether a summary has an entry (UserActivitySummary) for key
  stats,    \* the entry's CallStats: "daily" of the method, "total" of all
  job,      \* what each worker does, see NoJob
  begun,    \* exchanges so far
  answered, \* history: calls answered since the user was last removed
  billed,   \* history: bytes to record since then
  leaked,   \* history: a removal found an exchange under way
  overlapped  \* history: two exchanges were under way at the same time

userVars == <<plan, admin>>
bookVars == <<entry, stats>>
histVars == <<answered, billed, leaked, overlapped>>
vars == <<sim, userVars, bookVars, job, begun, histVars>>

Books == {"daily", "total"}
Zero == [bytes |-> 0, calls |-> 0]

\* held: the plan a worker compares, if it was removed meanwhile; book, field,
\* load, delta: where a record_...() is, and what it adds; live: the entry, then
\* the CallStats the worker holds is the one in the ledger.  History: removed,
\* the user was; replanned, the calls of the plan changed after they were read.
NoJob ==
  [at |-> "idle", keyed |-> FALSE, usage |-> Zero, held |-> None, pieces |-> 0,
   delta |-> Zero, book |-> "daily", field |-> "bytes", load |-> 0,
   live |-> FALSE, removed |-> FALSE, replanned |-> FALSE]

Idle(w) == job[w].at = "idle"
Charged(w) == ~Idle(w) /\ job[w].keyed
Quiet == \A w \in Workers : ~Charged(w)

Go(w, at) == job' = [job EXCEPT ![w].at = at]
Done(w) == job' = [job EXCEPT ![w] = NoJob]

Init ==
  /\ sim \in BOOLEAN
  /\ plan \in Plans \cup {None}
  /\ admin = [at |-> "idle", given |-> None]
  /\ entry = [b \in Books |-> FALSE]
  /\ stats = [b \in Books |-> None]
  /\ job = [w \in Workers |-> NoJob]
  /\ begun = 0
  /\ answered = 0
  /\ billed = 0
  /\ leaked = FALSE
  /\ overlapped = FALSE

-----------------------------------------------------------------------------
(* The chain of middlewares.  A request that is refused ends the exchange; *)
(* one refused by Authenticate changes nothing and is left out.            *)

Authenticate(w, keyed) ==
  /\ Idle(w)
  /\ begun < MaxExchanges
  /\ IF keyed THEN plan # None ELSE sim
  /\ job' = [job EXCEPT ![w] = [NoJob EXCEPT !.at = "reading", !.keyed = keyed]]
  /\ begun' = begun + 1
  /\ overlapped' = (overlapped \/ (keyed /\ ~Quiet))
  /\ UNCHANGED <<sim, userVars, bookVars, answered, billed, leaked>>

\* faulty: SIM asks for the priority, too
AskPriority(w) ==
  /\ job[w].at = "reading"
  /\ Go(w, IF sim THEN "priority" ELSE "usage")
  /\ UNCHANGED <<sim, userVars, bookVars, begun, histVars>>

\* AcceptJSONRPCContentReader accepts the content; SIM checks no plan.
AcceptContent(w) ==
  /\ job[w].at = "reading"
  /\ Go(w, IF sim THEN "forwarding" ELSE "usage")
  /\ UNCHANGED <<sim, userVars, bookVars, begun, histVars>>

\* is_allowed() of BasicBillingServiceWithLedger: the usage first, all of it
\* in one step, for no property tells its counters' moments apart.
ReadUsage(w) ==
  /\ job[w].at = "usage"
  /\ job' = [job EXCEPT ![w].at = "registered", ![w].usage =
               IF stats["total"] = None THEN Zero ELSE stats["total"]]
  /\ UNCHANGED <<sim, userVars, bookVars, begun, histVars>>

\* The first line of is_allowed() of BasicBillingService.
CheckRegistered(w) ==
  /\ job[w].at = "registered"
  /\ IF plan = None THEN Done(w) ELSE Go(w, "plan")
  /\ UNCHANGED <<sim, userVars, bookVars, begun, histVars>>

CallsAtLimit(p, usage) == p.calls >= usage.calls  \* faulty
CallsLeft(p, usage) == p.calls > usage.calls
BytesLeft(p, usage) == p.bytes > usage.bytes

\* Then the plan is looked up once more, a KeyError if it is gone, and its
\* numbers are compared one after the other.  The lookup and the first number
\* are one step: a change between them has the effect of one before or after.
CheckCalls(w) ==
  /\ job[w].at = "plan"
  /\ IF plan = None THEN Go(w, "raised")
     ELSE IF CallsLeft(plan, job[w].usage) THEN Go(w, "bytes") ELSE Done(w)
  /\ UNCHANGED <<sim, userVars, bookVars, begun, histVars>>

CheckBytes(w) ==
  LET p == IF job[w].held = None THEN plan ELSE job[w].held IN
  /\ job[w].at = "bytes"
  /\ IF BytesLeft(p, job[w].usage)
     THEN job' = [job EXCEPT ![w].at = "priority", ![w].held = None,
                             ![w].replanned = FALSE]
     ELSE Done(w)
  /\ UNCHANGED <<sim, userVars, bookVars, begun, histVars>>

\* get_call_priority(), then get_user_constant_pool(): each asserts that the
\* user is registered, and raises a KeyError if it is gone after that.
GetAttribute(w, at, next) ==
  /\ job[w].at = at
  /\ Go(w, IF plan = None THEN "raised" ELSE next)
  /\ UNCHANGED <<sim, userVars, bookVars, begun, histVars>>

\* Content that is not accepted; no connection, or a broken one; a client that
\* went away; handle_client() closing the client after something was raised.
Leave(w) ==
  /\ job[w].at \in {"reading", "forwarding", "receiving", "raised"}
  /\ Done(w)
  /\ UNCHANGED <<sim, userVars, bookVars, begun, histVars>>

Forward(w) ==
  /\ job[w].at = "forwarding"
  /\ Go(w, "receiving")
  /\ UNCHANGED <<sim, userVars, bookVars, begun, histVars>>

-----------------------------------------------------------------------------
(* Recording in the ledger.  Without a key nothing is recorded.            *)

\* What is added: a piece's bytes only, or the request's bytes and a call.
CallForPiece == [bytes |-> 1, calls |-> 1]  \* faulty
PieceDelta == [bytes |-> 1, calls |-> 0]
CallDelta == [bytes |-> 1, calls |-> 1]

\* response_handler() sent a piece to the client: record_rpc_response().
Piece(w) ==
  /\ job[w].at = "receiving"
  /\ job[w].pieces < MaxPieces
  /\ job' = [job EXCEPT ![w].pieces = @ + 1, ![w].delta = PieceDelta,
                        ![w].at = IF job[w].keyed THEN "entry" ELSE @]
  /\ billed' = IF job[w].keyed THEN billed + 1 ELSE billed
  /\ UNCHANGED <<sim, userVars, bookVars, begun, answered, leaked, overlapped>>

\* The response is complete: record_rpc_request().
Answered(w) ==
  /\ job[w].at = "receiving"
  /\ job[w].pieces > 0
  /\ IF job[w].keyed
     THEN /\ job' = [job EXCEPT ![w].delta = CallDelta, ![w].at = "entry"]
          /\ answered' = answered + 1
          /\ billed' = billed + 1
     ELSE Done(w) /\ UNCHANGED <<answered, billed>>
  /\ UNCHANGED <<sim, userVars, bookVars, begun, leaked, overlapped>>

\* _get_or_create_uas(): the entry, a new one if there is none.  A new one has
\* its total_stats, and no CallStats of a method.
Entry(w) ==
  LET b == job[w].book IN
  /\ job[w].at = "entry"
  /\ entry' = [entry EXCEPT ![b] = TRUE]
  /\ stats' = IF b = "total" /\ ~entry[b] THEN [stats EXCEPT ![b] = Zero]
              ELSE stats
  /\ job' = [job EXCEPT ![w].live = TRUE,
                        ![w].at = IF b = "total" THEN "load" ELSE "method"]
  /\ UNCHANGED <<sim, userVars, begun, histVars>>

\* update(): is there a CallStats of the method?
FindMethod(w) ==
  /\ job[w].at = "method"
  /\ Go(w, IF job[w].live /\ stats["daily"] = None THEN "create" ELSE "load")
  /\ UNCHANGED <<sim, userVars, bookVars, begun, histVars>>

\* A CallStats once looked up is held until the update is complete.
Holds(j) == j.at = "store" \/ (j.at = "load" /\ j.field = "calls")

\* A new one is put in place, also of one another worker put there meanwhile.
CreateMethod(w) ==
  /\ job[w].at = "create"
  /\ stats' = IF job[w].live THEN [stats EXCEPT !["daily"] = Zero] ELSE stats
  /\ job' = [v \in Workers |->
               CASE v = w -> [job[w] EXCEPT !.at = "load"]
                 [] v # w /\ job[w].live /\ job[v].book = "daily" /\ Holds(job[v])
                      -> [job[v] EXCEPT !.live = FALSE]
                 [] OTHER -> job[v]]
  /\ UNCHANGED <<sim, userVars, entry, begun, histVars>>

\* update_stats(), field by field.  request_bytes and response_bytes are one
\* field here: each update loads and stores both, and only their sum is read.
Load(w) ==
  LET j == job[w] IN
  /\ j.at = "load"
  /\ job' = [job EXCEPT ![w].at = "store", ![w].load =
               IF j.live THEN stats[j.book][j.field] ELSE 0]
  /\ UNCHANGED <<sim, userVars, bookVars, begun, histVars>>

\* After the bytes the calls, after the daily summary the all-time summary.
StopAfterDaily(j) ==  \* faulty
  IF j.field = "bytes" THEN [j EXCEPT !.field = "calls", !.at = "load"]
  ELSE IF j.delta = CallDelta THEN NoJob
  ELSE [j EXCEPT !.at = "receiving", !.field = "bytes"]
AfterStore(j) ==
  CASE j.field = "bytes" -> [j EXCEPT !.field = "calls", !.at = "load"]
    [] j.field = "calls" /\ j.book = "daily" ->
         [j EXCEPT !.field = "bytes", !.book = "total", !.at = "entry"]
    [] OTHER -> IF j.delta.calls = 1 THEN NoJob
                ELSE [j EXCEPT !.at = "receiving", !.book = "daily",
                               !.field = "bytes", !.live = FALSE]

Store(w) ==
  LET j == job[w] IN
  /\ j.at = "store"
  /\ stats' = IF j.live
              THEN [stats EXCEPT ![j.book][j.field] = j.load + j.delta[j.field]]
              ELSE stats
  /\ job' = [job EXCEPT ![w] = [AfterStore(j) EXCEPT !.load = 0]]
  /\ UNCHANGED <<sim, userVars, entry, begun, histVars>>

-----------------------------------------------------------------------------
(* The calls of the admin server, which are handled one at a time.  A call *)
(* refused because the user is or is not registered changes nothing.       *)

Register(p) ==
  /\ admin.at = "idle"
  /\ plan = None
  /\ plan' = p
  /\ UNCHANGED <<sim, admin, bookVars, job, begun, histVars>>

\* update_user_plan() changes the plan attribute by attribute, in place.
UpdateCalls(p) ==
  /\ admin.at = "idle"
  /\ plan # None
  /\ plan' = [plan EXCEPT !.calls = p.calls]
  /\ admin' = [at |-> "updating", given |-> p]
  /\ job' = [w \in Workers |-> IF job[w].at = "bytes"
                               THEN [job[w] EXCEPT !.replanned = TRUE] ELSE job[w]]
  /\ UNCHANGED <<sim, bookVars, begun, histVars>>

UpdateBytes ==
  /\ admin.at = "updating"
  /\ plan' = [plan EXCEPT !.bytes = admin.given.bytes]
  /\ admin' = [at |-> "idle", given |-> None]
  /\ UNCHANGED <<sim, bookVars, job, begun, histVars>>

\* remove_user(): the plan, then the entry of the all-time summary, then that
\* of the daily one.  Who compares the plan goes on with it.
WhenRemoved(j) ==
  [j EXCEPT !.removed = TRUE,
            !.held = IF j.at = "bytes" /\ @ = None THEN plan ELSE @]

RemovePlan ==
  /\ admin.at = "idle"
  /\ plan # None
  /\ plan' = None
  /\ admin' = [admin EXCEPT !.at = "total"]
  /\ job' = [w \in Workers |->
               IF Charged(w) THEN WhenRemoved(job[w]) ELSE job[w]]
  /\ answered' = 0
  /\ billed' = 0
  /\ leaked' = ~Quiet
  /\ overlapped' = ~Quiet
  /\ UNCHANGED <<sim, bookVars, begun>>

\* Workers that hold the entry go on with it, out of the ledger.

DropEntry(b) == entry' = [entry EXCEPT ![b] = FALSE]
                /\ stats' = [stats EXCEPT ![b] = None]

RemoveEntry(b, next) ==
  /\ admin.at = b
  /\ DropEntry(b)
  /\ admin' = [admin EXCEPT !.at = next]
  /\ job' = [w \in Workers |-> IF job[w].book = b
                               THEN [job[w] EXCEPT !.live = FALSE] ELSE job[w]]
  /\ UNCHANGED <<sim, plan, begun, histVars>>

-----------------------------------------------------------------------------
Request(w) ==
  \/ \E keyed \in BOOLEAN : Authenticate(w, keyed)
  \/ AcceptContent(w) \/ ReadUsage(w) \/ CheckRegistered(w)
  \/ CheckCalls(w) \/ CheckBytes(w)
  \/ GetAttribute(w, "priority", "pool") \/ GetAttribute(w, "pool", "forwarding")
  \/ Forward(w) \/ Piece(w) \/ Answered(w) \/ Leave(w)

Record(w) ==
  Entry(w) \/ FindMethod(w) \/ CreateMethod(w) \/ Load(w) \/ Store(w)

Admin ==
  \/ \E p \in Plans : Register(p) \/ UpdateCalls(p)
  \/ UpdateBytes
  \/ RemovePlan \/ RemoveEntry("total", "daily") \/ RemoveEntry("daily", "idle")

Next == Admin \/ \E w \in Workers : Request(w) \/ Record(w)

Spec == Init /\ [][Next]_vars
-----------------------------------------------------------------------------
Stages ==
  {"idle", "reading", "usage", "registered", "plan", "bytes", "priority", "pool",
   "forwarding", "receiving", "raised"}
    \cup {"entry", "method", "create", "load", "store"}

Jobs ==
  [at : Stages, keyed : BOOLEAN, usage : Counters, held : Counters \cup {None},
   pieces : Nat, delta : {Zero, PieceDelta, CallDelta}, book : Books,
   field : {"bytes", "calls"}, load : Nat, live : BOOLEAN, removed : BOOLEAN,
   replanned : BOOLEAN]

TypeOK ==
  /\ sim \in BOOLEAN
  /\ plan \in Counters \cup {None}
  /\ admin \in [at : {"idle", "updating"} \cup Books, given : Plans \cup {None}]
  /\ entry \in [Books -> BOOLEAN]
  /\ stats \in [Books -> Counters \cup {None}]
  /\ job \in [Workers -> Jobs]
  /\ begun \in Nat /\ answered \in Nat /\ billed \in Nat
  /\ leaked \in BOOLEAN /\ overlapped \in BOOLEAN

Recorded(b) == IF stats[b] = None THEN Zero ELSE stats[b]
AfterRemoval == admin.at \notin Books /\ ~leaked

\* A user is never charged more calls than it was answered, or more bytes than
\* were carried, since it was last removed, however its exchanges overlap: lost
\* updates of the unlocked ledger only ever lower what is recorded, and an
\* exchange that failed costs its bytes and no call.  A removal that found an
\* exchange under way is excepted: what that one records stays for the next
\* user of the key.
NeverOvercharged ==
  AfterRemoval => \A b \in Books : /\ Recorded(b).calls <= answered
                                   /\ Recorded(b).bytes <= billed

\* When no two exchanges of the key overlapped, the ledger between them is
\* exact: both summaries have every call answered and every byte, and a user
\* registered again after a removal begins at nothing.
QuietLedgerIsExact ==
  AfterRemoval /\ ~overlapped /\ Quiet =>
    \A b \in Books : Recorded(b) = [bytes |-> billed, calls |-> answered]

\* The assertions of the billing service, and its lookups after a check, fail
\* a request only if the user was removed while that request was under way.
RaisedMeansRemoved ==
  \A w \in Workers : job[w].at = "raised" => job[w].removed

\* Without overlapping exchanges a request is let through only if the calls
\* and bytes really used by then are below the plan as it then is: the recorded
\* usage that is compared is complete and not of an earlier user.  The plan is
\* changed and compared number by number, so calls that an update lowers after
\* they were compared count no more for this request.
AdmittedWithinPlan ==
  [][\A w \in Workers :
       /\ job[w].at = "bytes"
       /\ job'[w].at = "priority"
       /\ AfterRemoval /\ ~overlapped
       => /\ billed < plan.bytes
          /\ answered < plan.calls \/ job[w].replanned]_vars
=============================================================================
