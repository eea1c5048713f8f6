----------------------------- MODULE PortMapping -----------------------------
(***************************************************************************)
(* BasicUPnPPortMapper: the mappings asked of the router, one request at a *)
(* time, each of which may fail.  The router is external: it keeps the     *)
(* mappings when the service ends, and drops each when its lease is over.  *)
(***************************************************************************)
EXTENDS Naturals, Sequences, SequencesExt

CONSTANT Ports  \* a sequence: the proxy's port, then the admin's

ASSUME PortsAssumption == Ports \in Seq(ToSet(Ports))

VARIABLES
  ext_ports,  \* the ports this mapper had mapped
  to_delete,  \* those delete_all_created_mappings() has not come to
  mapped,     \* the router's mappings
  stale,      \* history: those left by earlier lives of the service
  undeleted   \* history: ports of which this mapper failed to delete a mapping

portVars == <<ext_ports, to_delete, mapped, stale, undeleted>>

PortsInit ==
  /\ ext_ports = {}
  /\ to_delete = {}
  /\ mapped = {}
  /\ stale = {}
  /\ undeleted = {}

\* The object is new in each life of the service.
NewMapper ==
  /\ ext_ports' = {}
  /\ to_delete' = {}
  /\ stale' = mapped
  /\ undeleted' = {}
  /\ UNCHANGED mapped

\* add_simple_mapping_rule() of the next port, in order.
NextPort == Ports[CHOOSE i \in DOMAIN Ports :
                    Ports[i] \notin ext_ports 
                    /\ \A j \in 1..(i - 1) : Ports[j] \in ext_ports]
AllMapped == ToSet(Ports) \subseteq ext_ports

Forget(p) == UNCHANGED ext_ports  \* faulty: the port is not noted
Note(p) == ext_ports' = ext_ports \cup {p}

AddMapping ==
  /\ ~AllMapped
  /\ Note(NextPort)
  /\ mapped' = mapped \cup {NextPort}
  /\ stale' = stale \ {NextPort}
  /\ UNCHANGED <<to_delete, undeleted>>

\* delete_all_created_mappings() begins.
DeleteAll ==
  /\ to_delete' = ext_ports
  /\ UNCHANGED <<ext_ports, mapped, stale, undeleted>>

\* delete_mapping_rule(): a port whose deletion failed stays in ext_ports.
DeleteMapping(p) ==
  /\ p \in to_delete
  /\ to_delete' = to_delete \ {p}
  /\ \/ /\ ext_ports' = ext_ports \ {p}
        /\ mapped' = mapped \ {p}
        /\ undeleted' = undeleted \ {p}
     \/ /\ undeleted' = undeleted \cup {p}
        /\ UNCHANGED <<ext_ports, mapped>>
  /\ UNCHANGED stale

\* Each port is tried once.
AllDeleted == ext_ports = {}  \* faulty
DeletionOver == to_delete = {}

\* UPNP_LEASE_TIME after it was made; nothing renews it.
LeaseExpires(p) ==
  /\ p \in mapped
  /\ mapped' = mapped \ {p}
  /\ stale' = stale \ {p}
  /\ UNCHANGED <<ext_ports, to_delete, undeleted>>
=============================================================================
