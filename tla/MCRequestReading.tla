-------------------------- MODULE MCRequestReading --------------------------
(* An instance of RequestReading for TLC. *)
EXTENDS RequestReading

CONSTANTS k1, k2, stranger

Absent == [type |-> "absent", items |-> <<>>]
List(s) == [type |-> "list", items |-> s]
Value(v) == [keys |-> <<>>, values |-> <<v>>]
Dict(k, v) == [keys |-> <<k>>, values |-> <<v>>]

Params ==
  { Absent, [type |-> "other", items |-> <<>>], List(<<>>),
    List(<<Value("word")>>), List(<<Value("text")>>), List(<<Value("number")>>),
    List(<<Value("word"), Dict("word", "word")>>),
    List(<<Dict("text", "number"), Value("word")>>),
    List(<<Dict("text", "word"), Value("word")>>),
    List(<<Dict("word", "number"), Value("text")>>),
    List(<<Value("word"), Value("word"), Value("word")>>) }

Objects ==
  [ form : {"object"}, jsonrpc : {"2.0", "other"},
    method : {"eth_chainId", "eth_call", "eth_getBalance", "unknown", "no text",
              "absent"},
    id : {"int", "str", "null", "other", "absent"}, params : Params,
    first : {"method", "jsonrpc"} ]

Good == [ form |-> "object", jsonrpc |-> "2.0", method |-> "eth_chainId",
          id |-> "int", params |-> Absent, first |-> "jsonrpc" ]
Docs == Objects \cup {[Good EXCEPT !.form = f, !.method = m] :
                        f \in {"other JSON", "not JSON", "blank"},
                        m \in {"eth_chainId", "absent"}}

Message == [ key |-> k1, verb |-> "POST", connection |-> "absent", pieces |-> 1,
             tail |-> "other", doc |-> Good ]

\* Cut in pieces, of another method or key, closing, or no HTTP.
SomeMessages ==
  {[Message EXCEPT !.pieces = n, !.tail = t] :
     n \in {0, 1, 2}, t \in {"blank", "has method", "other"}}
  \cup {[Message EXCEPT !.verb = v, !.connection = c, !.key = k] :
          v \in {"POST", "OPTIONS", "GET", "broken"},
          c \in {"absent", "close", "Close"}, k \in {k2, stranger, None}}
SequelMessages ==
  {Message} \cup {[Message EXCEPT !.key = k] : k \in {k2, stranger}}
    \cup {[Message EXCEPT !.pieces = 0], [Message EXCEPT !.pieces = 2, !.key = k2],
          [Message EXCEPT !.verb = "OPTIONS", !.pieces = 0],
          [Message EXCEPT !.verb = "broken"],
          [Message EXCEPT !.connection = "close", !.key = k2],
          [Message EXCEPT !.connection = "Close"]}

AllMessages ==
  SomeMessages \cup SequelMessages \cup {[Message EXCEPT !.doc = d] : d \in Docs}
BothKeys == {k1, k2}
=============================================================================
