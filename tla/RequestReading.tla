--------------------------- MODULE RequestReading ---------------------------
(***************************************************************************)
(* How requests of one client connection are read: RequestReader with the  *)
(* callbacks of its HTTP parser, and the middlewares that a request passes *)
(* before it is sent to an endpoint.  The client writes its messages when  *)
(* it likes; recv() cuts them into chunks anywhere.                        *)
(*                                                                         *)
(* What the parser of httptools does is taken from how its callbacks are   *)
(* used: it calls them in order, on_body for every piece of a body, goes   *)
(* on with the next message of a chunk, and raises on what is no message   *)
(* and on what follows a message that asks for close.                      *)
(***************************************************************************)
EXTENDS Integers, Sequences, SequencesExt

CONSTANTS
  Messages,    \* what a client may send
  Sequel,      \* bound: those of them that are sent one after the other
  MaxMessages, \* bound: how many of those
  Authorized,  \* the API keys of registered users
  None

\* A message: the key of its URL, the HTTP method, the value of Connection, in
\* how many pieces the parser reports the body, what the last of several
\* pieces is, and the document in the body.
ASSUME MessagesAssumption ==
  /\ Sequel \subseteq Messages
  /\ None \notin Authorized
  /\ MaxMessages \in Nat
  /\ \A m \in Messages :
       /\ m.verb \in {"POST", "OPTIONS", "GET", "broken"}
       /\ m.connection \in {"absent", "close", "Close"}
       /\ m.pieces \in 0 .. 2
       /\ m.tail \in {"blank", "has method", "other"}
       /\ m.doc.form \in {"object", "other JSON", "not JSON", "blank"}

VARIABLES
  sim,        \* Config.MODE is ProxyMode.SIM
  parsed,     \* Config.JSON_RPC_REQUEST_PARSER_ENABLED
  sent,       \* the messages of the client
  stream,     \* what was sent and not received yet
  at,         \* the connection: "pending", "reading", "read" or "closed"
  req,        \* the RPCRequest and the parser that is fed
  log,        \* what became of each request that was read
  pipelined   \* history: the client sent a message before the last answer

configVars == <<sim, parsed>>
clientVars == <<sent, pipelined>>
vars == <<configVars, clientVars, stream, at, req, log>>

-----------------------------------------------------------------------------
(* The parser and its callbacks.                                           *)

Part(n, ev) == [n |-> n, ev |-> ev]

Parts(n, m) ==
  <<Part(n, "url"), Part(n, IF m.verb = "broken" THEN "junk" ELSE "header")>>
    \o [i \in 1 .. m.pieces |-> Part(n, IF m.pieces = 1 THEN "body"
                                         ELSE IF i = m.pieces THEN "tail"
                                         ELSE "head")]
    \o <<Part(n, "end")>>

\* The content is the body of a message, its last piece or one before that.
NoRequest ==
  [ stage |-> "start", need |-> TRUE, key |-> None, keep_alive |-> TRUE,
    content |-> None, verb |-> None, last |-> FALSE ]

ReusedRequest(r) == [r EXCEPT !.stage = "start", !.need = TRUE]  \* faulty
NewRequest(r) == NoRequest

OnUrl(r, p) ==
  IF r.stage = "start" \/ (r.stage = "complete" /\ ~r.last)
  THEN [r EXCEPT !.stage = "url", !.key = sent[p.n].key, !.verb = sent[p.n].verb]
  ELSE [r EXCEPT !.stage = "error"]

\* The comparison with close is case sensitive, that of the parser is not.
OnHeader(r, p) ==
  IF sent[p.n].connection = "absent" THEN r
  ELSE [r EXCEPT !.keep_alive = sent[p.n].connection # "close", !.last = TRUE]

OnBody(r, p) == [r EXCEPT !.content = p]

OnMessageComplete(r) == [r EXCEPT !.stage = "complete", !.need = FALSE]

Callback(r, p) ==
  IF r.stage = "error" THEN r
  ELSE IF p.ev = "url" THEN OnUrl(r, p)
  ELSE IF r.stage # "url" \/ p.ev = "junk" THEN [r EXCEPT !.stage = "error"]
  ELSE IF p.ev = "header" THEN OnHeader(r, p)
  ELSE IF p.ev = "end" THEN OnMessageComplete(r)
  ELSE OnBody(r, p)

FeedData(r, chunk) ==
  LET fed[i \in 0 .. Len(chunk)] ==
        IF i = 0 THEN r ELSE Callback(fed[i - 1], chunk[i])
  IN  fed[Len(chunk)]

-----------------------------------------------------------------------------
(* The content of a request.  A document is told by its members: jsonrpc,  *)
(* method and params by their values, id by its type, and by the member it *)
(* begins with.  A proper tail of a JSON object is never JSON.             *)

Doc(c) == sent[c.n].doc
Whole(c) == c.ev = "body"

\* Nothing but white space.
Blank(c) ==
  \/ c = None
  \/ Whole(c) /\ Doc(c).form = "blank"
  \/ c.ev = "tail" /\ sent[c.n].tail = "blank"

\* Three of the 48 methods, one for each form of a condition.
METHOD_PARAM_COUNT_CONDITIONS ==
  [eth_chainId |-> {0}, eth_call |-> {1, 2}, eth_getBalance |-> {2}]

JSONRPCFormatValidator(d) ==
  /\ d.form = "object"
  /\ d.method # "absent" /\ d.method # "no text"
  /\ d.id \in {"int", "str", "null"}
  /\ d.params.type \in {"absent", "list"}
  /\ d.jsonrpc = "2.0"

\* What traverse_and_validate_params() visits of an item, in its order: the
\* keys of a dictionary before its values.
ValuesOnly(item) == item.values  \* faulty: the keys are not looked at
Visited(item) == item.keys \o item.values

\* Where it finds a "text" or a "number", which do not match ^\w+$.
Offences(item) == {k \in DOMAIN Visited(item) : Visited(item)[k] # "word"}

\* The first is reported.  The message of the error takes a text: of a number
\* it raises.
JSONRPCContentValidator(d) ==
  LET items == d.params.items
      bad   == {i \in DOMAIN items : Offences(items[i]) # {}}
      first == items[Min(bad)]
  IN  IF bad = {} THEN "ok"
      ELSE IF Visited(first)[Min(Offences(first))] = "text" THEN "-32602"
      ELSE "raised"

JSONRPCMethodValidator(d) ==
  IF d.method \notin DOMAIN METHOD_PARAM_COUNT_CONDITIONS THEN "-32601"
  ELSE IF Len(d.params.items) \in METHOD_PARAM_COUNT_CONDITIONS[d.method]
       THEN "ok" ELSE "-32602"

Validated(d) ==
  IF ~JSONRPCFormatValidator(d) THEN "-32600"
  ELSE IF JSONRPCContentValidator(d) # "ok" THEN JSONRPCContentValidator(d)
  ELSE JSONRPCMethodValidator(d)

\* The scan between commas, when the parser is disabled, finds no member that
\* the document begins with; a text that is no object may have one, too.
ScansMethod(c) ==
  IF Whole(c)
  THEN /\ Doc(c).form # "blank"
       /\ Doc(c).method # "absent"
       /\ Doc(c).first # "method"
  ELSE c.ev = "tail" /\ sent[c.n].tail = "has method"

-----------------------------------------------------------------------------
(* The middlewares.                                                        *)

Outcome(to, code, r) ==
  [to |-> to, code |-> code, key |-> r.key, content |-> r.content,
   keep_alive |-> r.keep_alive]
Failure(code, r) == Outcome("client", code, r)
Success(r) == Outcome(IF r.verb = "POST" THEN "endpoint" ELSE "client", "ok", r)

\* allowed: what is_allowed() says of the user's plan and usage.
AcceptMethodRequestReader(r, allowed) ==
  IF ~sim /\ ~allowed THEN Failure("-32003", r) ELSE Success(r)

AcceptJSONRPCContentReader(r, allowed) ==
  LET verdict == IF ~parsed
                 THEN IF ScansMethod(r.content) THEN "ok" ELSE "-32600"
                 ELSE IF Whole(r.content) /\ Doc(r.content).form # "not JSON"
                 THEN Validated(Doc(r.content))
                 ELSE "-32700"
  IN  IF verdict = "ok" THEN AcceptMethodRequestReader(r, allowed)
      ELSE IF verdict = "raised" THEN Failure("500", r)
      ELSE Failure(verdict, r)

AuthRequestReader(r, allowed) ==
  IF IF r.key = None THEN ~sim ELSE r.key \notin Authorized
  THEN Failure("401", r)
  ELSE AcceptJSONRPCContentReader(r, allowed)

\* After HttpParserError the connection is closed.
KeptAfterError(r) == Failure("400", r)  \* faulty
Unreadable(r) == Failure("400", [r EXCEPT !.keep_alive = FALSE])

RequestReader(r, allowed) ==
  IF r.stage = "error" THEN Unreadable(r)
  ELSE IF r.verb = "OPTIONS" THEN Success(r)
  ELSE IF r.verb # "POST" THEN Failure("405", r)
  ELSE IF Blank(r.content) THEN Failure("400", r)
  ELSE AuthRequestReader(r, allowed)

-----------------------------------------------------------------------------
Init ==
  /\ sim \in BOOLEAN
  /\ parsed \in BOOLEAN
  /\ sent = <<>>
  /\ stream = <<>>
  /\ at = "pending"
  /\ req = NoRequest
  /\ log = <<>>
  /\ pipelined = FALSE

MaySend ==
  IF sent = <<>> THEN Messages
  ELSE IF Len(sent) < MaxMessages /\ sent[1] \in Sequel THEN Sequel
  ELSE {}

Send(m) ==
  /\ at # "closed"
  /\ sent' = Append(sent, m)
  /\ stream' = stream \o Parts(Len(sent'), m)
  /\ pipelined' = (pipelined \/ Len(log) < Len(sent))
  /\ UNCHANGED <<configVars, at, req, log>>

\* A worker takes the socket when there is something to read.
Take ==
  /\ at = "pending"
  /\ stream # <<>>
  /\ at' = "reading"
  /\ req' = NewRequest(req)
  /\ UNCHANGED <<configVars, clientVars, stream, log>>

\* The parser goes through the whole chunk, also past the end of a message.
Receive(size) ==
  /\ at = "reading"
  /\ req' = FeedData(req, SubSeq(stream, 1, size))
  /\ stream' = SubSeq(stream, size + 1, Len(stream))
  /\ at' = IF req'.stage = "error" \/ ~req'.need THEN "read" ELSE "reading"
  /\ UNCHANGED <<configVars, clientVars, log>>

\* Nothing arrived for 0.1 s, the client closed, or recv() raises.
GiveUp ==
  /\ at = "reading"
  /\ at' = "closed"
  /\ log' = Append(log, Outcome("nobody", "none", [req EXCEPT !.keep_alive = FALSE]))
  /\ UNCHANGED <<configVars, clientVars, stream, req>>

\* The request is answered here, or sent to an endpoint and answered there.
Answer ==
  /\ at = "read"
  /\ \E allowed \in BOOLEAN :
       LET o == RequestReader(req, allowed)
       IN  /\ log' = Append(log, o)
           /\ at' = IF o.keep_alive THEN "pending" ELSE "closed"
  /\ UNCHANGED <<configVars, clientVars, stream, req>>

Next ==
  \/ \E m \in MaySend : Send(m)
  \/ Take
  \/ \E size \in 1 .. Len(stream) : Receive(size)
  \/ GiveUp
  \/ Answer

Spec == Init /\ [][Next]_vars

-----------------------------------------------------------------------------
(* Types. *)

Stages == {"start", "url", "complete", "error"}
Bodies == {"body", "head", "tail"}
Keys == {m.key : m \in Messages} \cup {None}
Verbs == {"POST", "OPTIONS", "GET", "broken", None}
Codes == {"ok", "none", "400", "401", "405", "500",
          "-32003", "-32600", "-32601", "-32602", "-32700"}

Pieces == [n : 1 .. Len(sent), ev : {"url", "junk", "header", "end"} \cup Bodies]
Contents == [n : 1 .. Len(sent), ev : Bodies] \cup {None}

Requests ==
  [ stage : Stages, need : BOOLEAN, key : Keys, keep_alive : BOOLEAN,
    content : Contents, verb : Verbs, last : BOOLEAN ]
Outcomes ==
  [ to : {"endpoint", "client", "nobody"}, code : Codes, key : Keys,
    content : Contents, keep_alive : BOOLEAN ]

TypeOK ==
  /\ sim \in BOOLEAN /\ parsed \in BOOLEAN /\ pipelined \in BOOLEAN
  /\ sent \in Seq(Messages)
  /\ stream \in Seq(Pieces)
  /\ at \in {"pending", "reading", "read", "closed"}
  /\ req \in Requests
  /\ log \in Seq(Outcomes)

Forwarded == {i \in DOMAIN log : log[i].to = "endpoint"}

\* Of a client that waits for each answer, the request that is sent to an
\* endpoint is the one it made at that turn, charged to the key it gave, which
\* is authorized; nothing of an earlier message on the connection is left in
\* it, though messages are cut into chunks anywhere.  (A client that pipelines
\* may have the body of one message sent and charged to the key of the next.)
EachRequestIsItsOwn ==
  \A i \in Forwarded :
    /\ log[i].key \in Authorized \/ (sim /\ log[i].key = None)
    /\ ~pipelined => /\ log[i].key = sent[i].key
                     /\ log[i].content.n = i
                     /\ sent[i].verb = "POST"

\* The requests that README.md and the tests of the validators call valid.
WordsOnly(d) ==
  \A i \in DOMAIN d.params.items :
    ToSet(d.params.items[i].keys \o d.params.items[i].values) \subseteq {"word"}
Valid(d) ==
  /\ d.form = "object" /\ d.jsonrpc = "2.0"
  /\ d.id \in {"int", "str", "null"}
  /\ d.params.type \in {"absent", "list"} /\ WordsOnly(d)
  /\ d.method \in DOMAIN METHOD_PARAM_COUNT_CONDITIONS
  /\ Len(d.params.items) \in METHOD_PARAM_COUNT_CONDITIONS[d.method]

\* With the JSON-RPC parser an endpoint gets exactly the valid documents, each
\* whole, however its body was cut and whatever the client pipelined: what is
\* left of a body in pieces is refused, never sent; and a valid one that came
\* in one piece is refused only for its HTTP method, its key or its plan.
OnlyValidForwarded ==
  parsed =>
    \A i \in DOMAIN log :
      /\ i \in Forwarded => Whole(log[i].content) /\ Valid(Doc(log[i].content))
      /\ ~pipelined /\ i \in DOMAIN sent /\ log[i].content # None
           /\ Whole(log[i].content) /\ Valid(Doc(log[i].content))
         => log[i].code \in {"ok", "405", "401", "-32003", "none"}

\* A connection is kept only with its stream at the beginning of a message,
\* whatever the request was refused for: the next request is never read from
\* the middle of this one.  Again, of a client that does not pipeline.
KeptAtBoundary ==
  at = "pending" /\ ~pipelined /\ stream # <<>> =>
    Head(stream) = Part(Len(log) + 1, "url")
=============================================================================
