------------------------------ MODULE McpRegistry ------------------------------
(***************************************************************************)
(* The record of one MCP server id in servers.json (mcp/registry.py): each *)
(* operation is one synchronous read, change and write of the file.        *)
(*                                                                         *)
(* What a configuration says is abstracted to its identity: a fresh number *)
(* for every saved configuration.  installs counts the installations; the  *)
(* code does not store it.                                                 *)
(***************************************************************************)
EXTENDS Naturals, Sequences, Faults

CONSTANTS
  MaxConfigs,  \* bound: configurations ever saved
  MaxRevision  \* bound: revision of the registration

\* Records as they are in the file
Registrations == [config : Nat, enabled : BOOLEAN, rev : Nat \ {0}]

ASSUME McpRegistryAssumption ==
  /\ MaxConfigs \in Nat /\ MaxRevision \in Nat
  /\ None \notin Registrations

VARIABLES
  server,   \* the record of the server, or None
  installs  \* the installation each saved configuration belongs to

NewConfig == Len(installs) + 1

Registered(config, enabled, rev) == [config |-> config, enabled |-> enabled, rev |-> rev]

\* upsert: the same id keeps its installation and counts on; a new one starts at 1.
Upserted(enabled) ==
  /\ NewConfig <= MaxConfigs
  /\ IF server = None
     THEN /\ server' = Registered(NewConfig, enabled, 1)
          /\ installs' = Append(installs, NewConfig)
     ELSE /\ server.rev < MaxRevision
          /\ server' = Registered(NewConfig, enabled, server.rev + 1)
          /\ installs' = Append(installs, installs[server.config])

\* set_enabled: nothing to write when it is so already
EnabledAs(value) ==
  /\ server' = IF server.enabled = value THEN server
               ELSE Registered(server.config, value, server.rev + 1)
  /\ server'.rev <= MaxRevision
  /\ UNCHANGED installs

Removed ==
  /\ server' = None
  /\ UNCHANGED installs

===============================================================================
