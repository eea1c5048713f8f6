-------------------------- MODULE ClientSocketPool --------------------------
(***************************************************************************)
(* The bookkeeping of client sockets: ClientSocketPool, as operators on    *)
(* the pool's state.  Every operation runs under the pool's lock.          *)
(*                                                                         *)
(* An entry is identified with its client socket: a socket is added once.  *)
(* The field next of an entry is left out: it is None when the entry is    *)
(* made and no assignment of the class changes that, so of the four cases  *)
(* of get_cs_and_set_in_use two remain.                                    *)
(***************************************************************************)
EXTENDS Integers, FiniteSets

CONSTANTS
  FDs,    \* file descriptors
  Socks,  \* client sockets
  None

ASSUME ClientSocketPoolAssumption ==
  /\ IsFiniteSet(FDs)
  /\ None \notin Socks
  /\ None \notin FDs

Pools ==
  [ table : [FDs -> Socks \cup {None}],   \* all_client_connections
    inUse : SUBSET Socks,                 \* the entries with in_use
    prev  : [Socks -> Socks \cup {None}],
    head  : Socks \cup {None},
    tail  : Socks \cup {None},
    size  : Int ]

EmptyPool ==
  [ table |-> [f \in FDs |-> None],
    inUse |-> {},
    prev  |-> [s \in Socks |-> None],
    head  |-> None,
    tail  |-> None,
    size  |-> 0 ]

-----------------------------------------------------------------------------
(* Faulty variants of the operations below: what each property would catch. *)

SetPendingStaysInUse(p, f) ==
  [p EXCEPT !.head = p.table[f], !.tail = p.table[f], !.size = @ + 1]
DeleteForgotten(p, f) == p
PopTailKeepsEntry(p, f) == [p EXCEPT !.tail = p.prev[p.tail], !.size = @ - 1]

-----------------------------------------------------------------------------
\* An entry becomes the head of the list of pending sockets.
Linked(p, s) ==
  [p EXCEPT !.tail = IF p.head = None THEN s ELSE @,
            !.prev = IF p.head = None THEN @ ELSE [@ EXCEPT ![p.head] = s],
            !.head = s,
            !.size = @ + 1]

\* An entry without prev is taken for the only one of the list, any other
\* for its last one.
Unlinked(p, s) ==
  IF p.prev[s] = None
  THEN [p EXCEPT !.head = None, !.tail = None, !.size = @ - 1]
  ELSE [p EXCEPT !.tail = p.prev[s], !.size = @ - 1]

Known(p, f) == p.table[f] # None

\* is_in_use; KeyError unless Known(p, f)
IsInUse(p, f) == p.table[f] \in p.inUse

\* add_cs_pending
AddPending(p, f, s) == Linked([p EXCEPT !.table[f] = s], s)

\* get_cs_and_set_in_use; KeyError unless Known(p, f)
SetInUse(p, f) ==
  Unlinked([p EXCEPT !.inUse = @ \cup {p.table[f]}], p.table[f])

\* set_cs_pending; KeyError unless Known(p, f)
SetPending(p, f) ==
  LET s == p.table[f]
  IN  Linked([p EXCEPT !.inUse = @ \ {s}, !.prev[s] = None], s)

\* del_cs_in_use; KeyError unless Known(p, f)
Delete(p, f) == [p EXCEPT !.table[f] = None]

\* pop_cs_pending_from_tail, f being the descriptor of the tail's socket;
\* AttributeError unless there is a tail, KeyError unless Known(p, f)
PopTail(p, f) ==
  [p EXCEPT !.tail = p.prev[p.tail], !.size = @ - 1, !.table[f] = None]

-----------------------------------------------------------------------------
Pending(p) == {s \in Socks \ p.inUse : \E f \in FDs : p.table[f] = s}
=============================================================================
