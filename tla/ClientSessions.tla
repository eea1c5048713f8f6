--------------------------- MODULE ClientSessions ---------------------------
(***************************************************************************)
(* What the proxy promises to each client connection: it is served only    *)
(* after the client sent something, one request is read per turn and       *)
(* answered before the next turn, and it is never closed while the client  *)
(* has not spoken since its last answer.  Where a report of the poller may *)
(* be late, it may also be served, and closed, for what was answered       *)
(* already.                                                                *)
(***************************************************************************)
CONSTANTS Socks

VARIABLES
  late,   \* whether a report of the poller may be older than the last answer
  turn,   \* "absent", "waiting", "served", "answering",
          \* "ending" or "gone"
  unread  \* what the client sent: "none", "request" or "eof"

vars == <<late, turn, unread>>

Init ==
  /\ late \in BOOLEAN
  /\ turn = [s \in Socks |-> "absent"]
  /\ unread = [s \in Socks |-> "none"]

\* The client comes, or fails the handshake; it asks or hangs up.
Come(s) ==
  /\ turn[s] = "absent"
  /\ turn' = [turn EXCEPT ![s] = "waiting"]
  /\ UNCHANGED <<late, unread>>

Refuse(s) ==
  /\ turn[s] = "absent"
  /\ turn' = [turn EXCEPT ![s] = "gone"]
  /\ UNCHANGED <<late, unread>>

Say(s) ==
  /\ unread[s] = "none"
  /\ \E m \in {"request", "eof"} : unread' = [unread EXCEPT ![s] = m]
  /\ UNCHANGED <<late, turn>>

Serve(s) ==
  /\ turn[s] = "waiting"
  /\ unread[s] # "none" \/ late
  /\ turn' = [turn EXCEPT ![s] = "served"]
  /\ UNCHANGED <<late, unread>>

\* A request is read, to be answered or to end the session unanswered.
Read(s) ==
  /\ turn[s] = "served"
  /\ unread[s] = "request"
  /\ \E t \in {"answering", "ending"} : turn' = [turn EXCEPT ![s] = t]
  /\ unread' = [unread EXCEPT ![s] = "none"]
  /\ UNCHANGED late

Answer(s) ==
  /\ turn[s] = "answering"
  /\ turn' = [turn EXCEPT ![s] = "waiting"]
  /\ UNCHANGED <<late, unread>>

\* The session ends once the client hung up or a request was read.
End(s) ==
  /\ \/ turn[s] = "answering"
     \/ turn[s] = "served" /\ unread[s] = "eof"
     \/ turn[s] = "served" /\ unread[s] = "none" /\ late
  /\ turn' = [turn EXCEPT ![s] = "ending"]
  /\ UNCHANGED <<late, unread>>

Close(s) ==
  /\ turn[s] = "ending"
  /\ turn' = [turn EXCEPT ![s] = "gone"]
  /\ UNCHANGED <<late, unread>>

Next ==
  \E s \in Socks :
    Come(s) \/ Refuse(s) \/ Say(s) \/ Serve(s) \/ Read(s) \/ Answer(s)
      \/ End(s) \/ Close(s)

Spec == Init /\ [][Next]_vars
=============================================================================
