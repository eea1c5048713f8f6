---------------------------- MODULE MCServiceLife ----------------------------
(* Instances of ServiceLife for TLC. *)
EXTENDS ServiceLife

CONSTANTS k1, k2, a, t

TwoKeys == {k1, k2}
OneTestKey == {k2}
OnePlan == {a}
TwoPorts == <<"proxy", "admin">>

\* The default environment, with UPnP, the mode DEV, and a wrong port.
EmptyEnv == [f \in Fields |-> Unset]
SomeEnvs ==
  { [EmptyEnv EXCEPT !.USE_UPNP = "true"],
    [EmptyEnv EXCEPT !.MODE = "DEV", !.LOADBALANCER = "many"],
    [EmptyEnv EXCEPT !.PROXY_LISTEN_PORT = "many"] }

\* Those of README.md's table, one variable set at a time.
DocumentedEnvs ==
  {[EmptyEnv EXCEPT ![f] = "1"] : f \in Fields \ {"ETH_ENDPOINTS_STORE", "MODE"}}
=============================================================================
