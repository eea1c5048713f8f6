---------------------------- MODULE Configuration ----------------------------
(***************************************************************************)
(* AppConfig: the settings of the service, made from the environment.      *)
(* Fields of the same type behave alike; there is one of each type here,   *)
(* and those the start of the service depends on.                          *)
(***************************************************************************)
EXTENDS Naturals

CONSTANTS Unset, Raised  \* no text in the environment; an exception

Defaults ==
  [ PUBLIC_SERVICE           |-> FALSE,
    USE_UPNP                 |-> FALSE,  \* True and PUBLIC_SERVICE, as it is
    MODE                     |-> "PROD",
    LOADBALANCER             |-> "LeastBusyLoadBalancer",
    ETH_ENDPOINTS            |-> "[]",
    ETH_ENDPOINTS_STORE      |-> TRUE,
    PROXY_LISTEN_PORT        |-> "6512",
    PROXY_CONNECTION_ADDRESS |-> "None",
    ADMIN_AUTH_TOKEN         |-> "" ]

Fields == DOMAIN Defaults

\* What an upper-case annotated field is when the environment has a text for
\* it.  Optional[str] is no constructor: calling it is a TypeError.
Cast(field, text) ==
  CASE field \in {"PUBLIC_SERVICE", "USE_UPNP"} -> text \in {"true", "yes", "1"}
    [] field = "MODE" -> IF text \in {"DEV", "SIM", "PROD"} THEN text ELSE Raised
    [] field = "LOADBALANCER" ->
         IF text \in {"RandomLoadBalancer", "LeastBusyLoadBalancer",
                      "ConstantLoadBalancer"}
         THEN text ELSE Defaults.LOADBALANCER
    [] field = "ETH_ENDPOINTS_STORE" -> Raised
    [] field = "PROXY_LISTEN_PORT" ->
         IF text = "many" THEN Raised ELSE text
    [] field = "ETH_ENDPOINTS" -> IF text = "many" THEN Raised ELSE text
    [] field = "PROXY_CONNECTION_ADDRESS" -> Raised
    [] OTHER -> text

\* An empty text counts as none.
IsSet(env, field) == env[field] \notin {Unset, ""}

Value(env, field) ==
  IF IsSet(env, field) THEN Cast(field, env[field])
  ELSE IF field = "ETH_ENDPOINTS_STORE" THEN ~IsSet(env, "ETH_ENDPOINTS")
  ELSE Defaults[field]

\* The settings, or Raised: the import of the module fails, and the process.
Configured(env) ==
  IF \E f \in Fields : Value(env, f) = Raised THEN Raised
  ELSE [f \in Fields |-> Value(env, f)]

\* The texts README.md's table allows: those of the variable's type.
Documented(field, text) ==
  CASE field = "MODE" -> text \in {"DEV", "SIM", "PROD"}
    [] field \in {"PROXY_LISTEN_PORT", "ETH_ENDPOINTS"} -> text # "many"
    [] field = "ETH_ENDPOINTS_STORE" -> FALSE
    [] OTHER -> TRUE
=============================================================================
