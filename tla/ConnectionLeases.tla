-------------------------- MODULE ConnectionLeases --------------------------
(***************************************************************************)
(* What a pool of connections promises to its users: a connection is       *)
(* leased to one user at a time, comes back to be leased again or is       *)
(* retired, and a retired connection is never leased again.                *)
(***************************************************************************)
CONSTANTS Users, Conns, None

VARIABLES
  lease,  \* the connection each user has, or None
  phase   \* "unborn", "leased", "idle" or "retired"

vars == <<lease, phase>>

Init ==
  /\ lease = [u \in Users |-> None]
  /\ phase = [c \in Conns |-> "unborn"]

\* A user without a connection gets an idle or a new one.
Lease(u, c) ==
  /\ lease[u] = None
  /\ phase[c] \in {"idle", "unborn"}
  /\ lease' = [lease EXCEPT ![u] = c]
  /\ phase' = [phase EXCEPT ![c] = "leased"]

\* A user gives its connection back, to be leased again or not.
Return(u) ==
  /\ lease[u] # None
  /\ \E p \in {"idle", "retired"} : phase' = [phase EXCEPT ![lease[u]] = p]
  /\ lease' = [lease EXCEPT ![u] = None]

\* The pool retires idle connections.
Retire ==
  /\ \E C \in SUBSET {c \in Conns : phase[c] = "idle"} :
       phase' = [c \in Conns |-> IF c \in C THEN "retired" ELSE phase[c]]
  /\ UNCHANGED lease

Next ==
  \/ \E u \in Users : Return(u) \/ \E c \in Conns : Lease(u, c)
  \/ Retire

Spec == Init /\ [][Next]_vars
=============================================================================
